-------------------------- MODULE GuidedAssessment --------------------------
(***************************************************************************)
(* The guided review of one decision (internal/app/coaching.go): the user  *)
(* answers questions about a review window, one at a time, and after every *)
(* answer the rules assess the decision anew from all the answers given.   *)
(* Wording, confidence and recommendations are left out.                   *)
(***************************************************************************)
EXTENDS Integers, FiniteSets, Sequences, SequencesExt, SortedSets

VARIABLES
  kind,      \* the kind of the window under review, "" while there is none
  answers,   \* the answer to every question; "unknown" is "Cannot tell" or none
  result     \* the assessed decision

assessmentVars == <<kind, answers, result>>

-----------------------------------------------------------------------------
(* Questions.                                                               *)

DecisionKinds == {"death_review", "combat_spike", "rotation_spike", "low_activity"}

ContactQuestions == {"tradeable", "utility_available", "utility_used", "crosshair_ready", "escape_route"}

CombatQuestions == {"fight_occurred", "outcome"} \cup ContactQuestions
DeathQuestions == {"death_confirmed", "contact_intent"} \cup ContactQuestions
RotationQuestions ==
  {"movement_was_rotation", "new_information", "objective_pressure", "teammate_spacing", "sound_safe"}
TempoQuestions ==
  {"window_is_hold", "purpose_clear", "information_gained", "team_aligned", "safe_space_available"}

Questions(k) ==
  CASE k = "death_review" -> DeathQuestions
    [] k = "combat_spike" -> CombatQuestions
    [] k = "rotation_spike" -> RotationQuestions
    [] k = "low_activity" -> TempoQuestions

Required(k) == Questions(k) \ {"contact_intent"}

Options(q) ==
  CASE q = "outcome" -> {"death", "kill", "survived", "unknown"}
    [] q = "utility_used" -> {"yes", "no", "not_available", "unknown"}
    [] q = "contact_intent" -> {"entry", "trade", "hold", "retake", "forced", "unknown"}
    [] OTHER -> {"yes", "no", "unknown"}

\* The answer that makes the candidate no decision of its kind.
Denied(k) ==
  CASE k = "death_review" -> "death_confirmed"
    [] k = "combat_spike" -> "fight_occurred"
    [] k = "rotation_spike" -> "movement_was_rotation"
    [] k = "low_activity" -> "window_is_hold"

\* The facts listed with the decision, fewer than the required questions.
Requirements(k) ==
  CASE k = "death_review" ->
         {"death_confirmed", "tradeable", "utility_used", "crosshair_ready", "escape_route"}
    [] k = "combat_spike" ->
         {"fight_occurred", "outcome", "tradeable", "utility_used", "crosshair_ready"}
    [] k = "rotation_spike" ->
         {"movement_was_rotation", "new_information", "teammate_spacing", "sound_safe"}
    [] k = "low_activity" ->
         {"window_is_hold", "purpose_clear", "information_gained", "team_aligned"}

Known(a, q) == a[q] # "unknown"

AssessedRequirements(k, a) == {q \in Requirements(k) : Known(a, q)}

MissingRequired(k, a) == \E q \in Required(k) : ~Known(a, q)

-----------------------------------------------------------------------------
(* Rules.                                                                   *)

Conclusion(assessment, rule, severity) ==
  [assessment |-> assessment, rule |-> rule, severity |-> severity]

Neutral(rule) == Conclusion("validated_neutral", rule, "info")
NotApplicable(rule) == Conclusion("not_applicable", rule, "info")
Pending == Conclusion("needs_confirmation", "candidate", "info")

AssessCombat(a, outcome) ==
  IF a["tradeable"] = "no"
    THEN Conclusion("validated_risk", "combat_untradeable_contact",
                    IF outcome = "death" THEN "high" ELSE "medium")
  ELSE IF a["utility_available"] = "yes" /\ a["utility_used"] = "no"
    THEN Conclusion("validated_mistake", "combat_utility_sequence", "medium")
  ELSE IF a["crosshair_ready"] = "no"
    THEN Conclusion("validated_mistake", "combat_crosshair_preparation", "medium")
  ELSE IF a["escape_route"] = "no" /\ outcome = "death"
    THEN Conclusion("validated_mistake", "combat_no_exit_plan", "medium")
  ELSE Neutral("combat_no_clear_process_error")

AssessRotation(a) ==
  IF a["teammate_spacing"] = "no"
    THEN Conclusion("validated_risk", "rotation_isolated_timing", "medium")
  ELSE IF a["new_information"] = "no" /\ a["objective_pressure"] = "no"
    THEN Conclusion("validated_risk", "rotation_without_trigger", "medium")
  ELSE IF a["sound_safe"] = "no"
    THEN Conclusion("validated_mistake", "rotation_sound_exposure", "low")
  ELSE Neutral("rotation_no_clear_process_error")

\* Mutant: the rules are tried in another order.
AssessTempoReordered(a) ==
  IF a["team_aligned"] = "no"
    THEN Conclusion("validated_risk", "tempo_desynced_hold", "medium")
  ELSE IF a["purpose_clear"] = "no" /\ a["information_gained"] = "no"
    THEN Conclusion("validated_risk", "tempo_no_information_value", "low")
  ELSE IF a["purpose_clear"] = "no" /\ a["safe_space_available"] = "yes"
    THEN Conclusion("validated_mistake", "tempo_unproductive_wait", "medium")
  ELSE Neutral("tempo_defensible_hold")

AssessTempo(a) ==
  IF a["team_aligned"] = "no"
    THEN Conclusion("validated_risk", "tempo_desynced_hold", "medium")
  ELSE IF a["purpose_clear"] = "no" /\ a["safe_space_available"] = "yes"
    THEN Conclusion("validated_mistake", "tempo_unproductive_wait", "medium")
  ELSE IF a["purpose_clear"] = "no" /\ a["information_gained"] = "no"
    THEN Conclusion("validated_risk", "tempo_no_information_value", "low")
  ELSE Neutral("tempo_defensible_hold")

\* Mutant: the rules do not wait for the facts they do not look at.
AssessEarly(k, a) ==
  IF a[Denied(k)] = "no" THEN NotApplicable(k)
  ELSE CASE k = "combat_spike" -> AssessCombat(a, a["outcome"])
         [] k = "death_review" -> AssessCombat(a, "death")
         [] k = "rotation_spike" -> AssessRotation(a)
         [] k = "low_activity" -> AssessTempo(a)

\* A death is judged as a fight that was lost.
AssessDecision(k, a) ==
  IF a[Denied(k)] = "no" THEN NotApplicable(k)
  ELSE IF MissingRequired(k, a) THEN Pending
  ELSE CASE k = "combat_spike" -> AssessCombat(a, a["outcome"])
         [] k = "death_review" -> AssessCombat(a, "death")
         [] k = "rotation_spike" -> AssessRotation(a)
         [] k = "low_activity" -> AssessTempo(a)

-----------------------------------------------------------------------------
(* The review.                                                              *)

\* One decision for every window, by time; all of them await confirmation.
BuildReview(windows) ==
  LET Decisions == {[kind |-> windows[i].kind, at |-> windows[i].peak, id |-> i] : i \in DOMAIN windows}
  IN  Sorted(Decisions, LAMBDA d, e : d.at < e.at \/ (d.at = e.at /\ d.id < e.id))

\* The kinds to work on, with how many decisions and how urgent.
FocusAreas(decisions) ==
  LET Of(k) == {i \in DOMAIN decisions : decisions[i].kind = k}
      Priority(n) == IF n >= 5 THEN "high" ELSE IF n >= 2 THEN "medium" ELSE "low"
  IN  {[kind |-> k, count |-> Cardinality(Of(k)), priority |-> Priority(Cardinality(Of(k)))] :
         k \in {k \in DecisionKinds : Of(k) # {}}}

NoDecision ==
  /\ kind = ""
  /\ answers = <<>>
  /\ result = Pending

Open(k) ==
  /\ kind' = k
  /\ answers' = [q \in Questions(k) |-> "unknown"]
  /\ result' = Pending

AnswerQuestion(q, value) ==
  /\ kind # ""
  /\ q \in Questions(kind)
  /\ value \in Options(q) \ {answers[q]}
  /\ answers' = [answers EXCEPT ![q] = value]
  /\ result' = AssessDecision(kind, answers')
  /\ UNCHANGED kind

AllQuestions == UNION {Questions(k) : k \in DecisionKinds}

AssessNext == \E q \in AllQuestions : \E value \in Options(q) : AnswerQuestion(q, value)

\* What the page of the review counts.
Completed(r) == r.assessment # "needs_confirmation"
Actionable(r) == r.assessment \in {"validated_mistake", "validated_risk"}

-----------------------------------------------------------------------------
(* Properties.                                                              *)

\* What speaks against the player by the words of the verdicts, each with the
\* answers it takes.
Adverse(k) ==
  LET Contact == {[tradeable |-> "no"], [crosshair_ready |-> "no"],
                  [utility_available |-> "yes", utility_used |-> "no"]}
  IN  CASE k = "combat_spike" -> Contact \cup {[escape_route |-> "no", outcome |-> "death"]}
        [] k = "death_review" -> Contact \cup {[escape_route |-> "no"]}
        [] k = "rotation_spike" -> {[teammate_spacing |-> "no"], [sound_safe |-> "no"],
                                    [new_information |-> "no", objective_pressure |-> "no"]}
        [] k = "low_activity" -> {[team_aligned |-> "no"],
                                  [purpose_clear |-> "no", safe_space_available |-> "yes",
                                   information_gained |-> "no"],
                                  [purpose_clear |-> "no", information_gained |-> "no"]}

Confirmed(fact) == \A q \in DOMAIN fact : answers[q] = fact[q]

\* A wait of which no one said that it gained no information, blamed as one without
\* purpose or information gain: where there was safe space the rule does not ask.
BlamedDespiteInformation ==
  /\ kind = "low_activity"
  /\ Confirmed([purpose_clear |-> "no", safe_space_available |-> "yes"])
  /\ answers["information_gained"] # "no"

\* No mistake is claimed until the visible context is confirmed: the player is
\* blamed exactly when the candidate is real, every required question has an
\* answer and one of the facts the verdicts give as their grounds is among the
\* answers, whichever rule comes first.  One verdict contradicts its own grounds
\* (coaching.go:372, no information gain was confirmed): BlamedDespiteInformation.
BlameIsConfirmed ==
  kind # "" =>
    (Actionable(result) <=>
       /\ answers[Denied(kind)] # "no"
       /\ \A q \in Required(kind) : Known(answers, q)
       /\ (\E fact \in Adverse(kind) : Confirmed(fact)) \/ BlamedDespiteInformation)

\* A verdict is only taken back by taking an answer back: one more answer, or
\* another one, never returns a completed decision to the queue.  (To withdraw the
\* denial that there was such a decision is to take an answer back: it does.)
VerdictsStay ==
  [][ \A q \in DOMAIN answers :
        Completed(result) /\ kind' = kind /\ answers' # answers /\ answers'[q] # "unknown"
          /\ (\A p \in DOMAIN answers \ {q} : answers'[p] = answers[p])
          /\ q # Denied(kind)
          => Completed(result') ]_assessmentVars

Weight(severity) ==
  CASE severity = "info" -> 0 [] severity = "low" -> 1 [] severity = "medium" -> 2 [] severity = "high" -> 3

\* One rule hides the ones after it.  Still their order never rewards a worse
\* process: an answer that completes an adverse fact does not lower the severity.
WorseIsNotMilder ==
  [][ \A q \in DOMAIN answers :
        /\ kind' = kind
        /\ Known(answers, q)
        /\ \E fact \in Adverse(kind) : q \in DOMAIN fact /\ answers[q] # fact[q] /\ answers'[q] = fact[q]
        => Weight(result'.severity) >= Weight(result.severity) ]_assessmentVars

\* A verdict follows the answers: it neither goes away nor grows milder with more
\* or worse of them, the withdrawal of a denial apart.
VerdictsAreFair == VerdictsStay /\ WorseIsNotMilder

=============================================================================
