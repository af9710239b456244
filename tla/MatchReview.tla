----------------------------- MODULE MatchReview ----------------------------
(***************************************************************************)
(* From a recording to its coaching: the local analysis produces a report, *)
(* the user reviews a decision of it, and a reviewer evaluates its events. *)
(***************************************************************************)
EXTENDS GameplayReview, GuidedAssessment, MatchEvaluation

CONSTANTS
  LabelSets,    \* the labels a reviewer may have written
  TypeSets,     \* the evaluated_types of an evaluation
  Requested,    \* the tolerances asked for, 0 when none is
  Annotated     \* the tolerances of the labels, 0 when none is

ASSUME LabelAssumption == \A ls \in LabelSets : ls \in Seq(EvaluationLabel)

VARIABLE
  decisions   \* the decisions of the report, in its order

matchVars == <<reviewVars, assessmentVars, evaluationVars, decisions>>

MatchInit ==
  /\ ReviewInit
  /\ NoDecision
  /\ decisions = <<>>
  /\ events = <<>>
  /\ labels = <<>>
  /\ evaluation = NoEvaluation

\* The report is saved; the observations were the analyzer's own.
Report ==
  /\ stage = "done"
  /\ decisions' = BuildReview(windows)
  /\ events' = GameplayEvents(windows, rounds)
  /\ stage' = "reported"
  /\ frames' = <<>> /\ windows' = <<>> /\ rounds' = <<>>
  /\ UNCHANGED <<budget, assessmentVars, labels, evaluation>>

\* The user opens a decision of the report; the rest of it no longer matters.
OpenDecision ==
  /\ stage = "reported"
  /\ \E d \in DOMAIN decisions : Open(decisions[d].kind)
  /\ stage' = "assessing"
  /\ decisions' = <<>> /\ events' = <<>> /\ budget' = 0
  /\ UNCHANGED <<frames, windows, rounds, labels, evaluation>>

\* A reviewer evaluates the events of the report.
OpenEvaluation ==
  /\ stage = "reported"
  /\ \E ls \in LabelSets, types \in TypeSets, requested \in Requested, annotated \in Annotated :
       Evaluate(ls, types, requested, annotated)
  /\ stage' = "evaluated"
  /\ decisions' = <<>> /\ budget' = 0
  /\ UNCHANGED <<frames, windows, rounds, assessmentVars>>

Analyze == ReviewNext /\ UNCHANGED <<assessmentVars, evaluationVars, decisions>>
Assess == AssessNext /\ UNCHANGED <<reviewVars, evaluationVars, decisions>>

MatchNext == Analyze \/ Report \/ OpenDecision \/ OpenEvaluation \/ Assess

MatchSpec == MatchInit /\ [][MatchNext]_matchVars

=============================================================================
