-------------------------- MODULE MatchEvaluation ---------------------------
(***************************************************************************)
(* The evaluation of a report against the labels of a reviewer             *)
(* (internal/app/evaluate.go): the labels are matched to the events of the *)
(* report, what stays unmatched is a missed label or a false positive, and *)
(* the counts per type give precision and recall.  Times are in ms.  A set *)
(* of labels with an identifier twice, of another recording or of another  *)
(* sample is refused and not considered here.                              *)
(***************************************************************************)
EXTENDS Integers, FiniteSets, Sequences, SequencesExt, SortedSets

VARIABLES
  events,      \* the gameplay events of the report, in its order
  labels,      \* the labels, in the order of their identifiers
  evaluation   \* the evaluation, or NoEvaluation

evaluationVars == <<events, labels, evaluation>>

NoEvaluation == [labels |-> <<>>, predictions |-> <<>>, match |-> <<>>, reach |-> 0]

-----------------------------------------------------------------------------
(* Types.                                                                   *)

\* A label says when, and what by a type, or by a category when the type is "".
EvaluationLabel == [type : STRING, category : STRING, at : Nat]

\* The names a reviewer may use for a type of event.
CanonicalEvaluationType(type) ==
  CASE type \in {"combat", "combat_spike", "combat_candidate", "fight", "fight_selection",
                 "bad_fight", "kill", "duel"} -> "combat_candidate"
    [] type \in {"death", "death_review", "death_state", "death_state_confirmed"} -> "death_state_confirmed"
    [] type \in {"rotation", "rotation_spike", "rotation_candidate", "rotate", "bad_rotate",
                 "macro_rotation"} -> "rotation_candidate"
    [] type \in {"tempo", "tempo_candidate", "low_activity", "hold", "passive", "pacing"} -> "tempo_candidate"
    [] type \in {"round", "round_start", "round_boundary", "round_estimate", "estimated_round"} -> "round_estimate"
    [] OTHER -> type

EventCategory(type) ==
  CASE type = "death_state_confirmed" -> "death_review"
    [] type = "combat_candidate" -> "fight_selection"
    [] type = "rotation_candidate" -> "rotation_timing"
    [] type = "tempo_candidate" -> "round_pacing"
    [] type = "round_estimate" -> "round_timeline"

\* What is counted together: a type, or a category no type was given for.
TypeKey(type) == [type |-> CanonicalEvaluationType(type)]

\* A label without a type names a category.
Typed(label) == label.type # ""
LabelMetricKey(label) ==
  IF Typed(label) THEN TypeKey(label.type) ELSE [category |-> label.category]
EventMetricKey(event) == TypeKey(event.type)

LabelMatchesEvent(label, event) ==
  IF Typed(label) THEN LabelMetricKey(label) = EventMetricKey(event)
                  ELSE label.category = EventCategory(event.type)

-----------------------------------------------------------------------------
(* Matching.                                                                *)

\* Only events of a type that was evaluated or labelled count; an evaluated
\* "unknown" is passed over, and all count when that leaves nothing to look for.
WantedKeys(ls, types) ==
  ({TypeKey(t) : t \in types} \ {TypeKey("unknown")}) \cup {LabelMetricKey(ls[l]) : l \in DOMAIN ls}

Wanted(event, ls, types) ==
  WantedKeys(ls, types) = {} \/ EventMetricKey(event) \in WantedKeys(ls, types)

EvaluatedEvents(es, ls, types) ==
  FoldLeft(LAMBDA kept, event :
             IF Wanted(event, ls, types) THEN Append(kept, event) ELSE kept,
           <<>>, es)

Delta(label, event) ==
  IF label.at < event.at THEN event.at - label.at ELSE label.at - event.at

\* The compatible events a label may take, and of those the nearest, the first
\* of two as near.
Free(label, es, used, reach) ==
  {e \in DOMAIN es \ used : LabelMatchesEvent(label, es[e]) /\ Delta(label, es[e]) <= reach}

\* Mutant: a label whose nearest event is taken looks no further.
NearestOrNone(label, es, used, reach) ==
  LET Open == Free(label, es, {}, reach)
      best == Min({e \in Open : \A f \in Open : Delta(label, es[e]) <= Delta(label, es[f])})
  IN  IF Open = {} \/ best \in used THEN 0 ELSE best

Nearest(label, es, used, reach) ==
  LET Open == Free(label, es, used, reach)
  IN  IF Open = {} THEN 0
      ELSE Min({e \in Open : \A f \in Open : Delta(label, es[e]) <= Delta(label, es[f])})

\* The event of every label in turn, 0 when it is missed.
MatchEvaluationLabels(ls, es, reach) ==
  FoldLeft(LAMBDA match, label : Append(match, Nearest(label, es, ToSet(match), reach)), <<>>, ls)

SortedLabels(ls) ==
  LET Order == Sorted(DOMAIN ls, LAMBDA k, l : ls[k].at < ls[l].at \/ (ls[k].at = ls[l].at /\ k < l))
  IN  [k \in DOMAIN Order |-> ls[Order[k]]]

\* The request's tolerance, else the one of the labels, else six seconds.
Tolerance(requested, annotated) ==
  IF requested > 0 THEN requested ELSE IF annotated > 0 THEN annotated ELSE 6000

EvaluateGameplayEvents(ls, types, reach) ==
  LET sorted == SortedLabels(ls)
      predictions == EvaluatedEvents(events, ls, types)
  IN  [labels |-> sorted, predictions |-> predictions,
       match |-> MatchEvaluationLabels(sorted, predictions, reach), reach |-> reach]

\* A set with neither labels nor types is refused.
Evaluate(ls, types, requested, annotated) ==
  /\ evaluation = NoEvaluation
  /\ ls # <<>> \/ types # {}
  /\ labels' = ls
  /\ evaluation' = EvaluateGameplayEvents(ls, types, Tolerance(requested, annotated))
  /\ UNCHANGED events

-----------------------------------------------------------------------------
(* Metrics.                                                                 *)

Matches(ev) == {l \in DOMAIN ev.match : ev.match[l] # 0}
Missed(ev) == {l \in DOMAIN ev.match : ev.match[l] = 0}
FalsePositives(ev) == DOMAIN ev.predictions \ ToSet(ev.match)

\* buildTypeMetrics: a match is counted under the key of its label, an event
\* under its type.
TypeMetrics(ev, key) ==
  LET Of(S) == {l \in S : LabelMetricKey(ev.labels[l]) = key}
  IN  [labels |-> Cardinality(Of(DOMAIN ev.labels)),
       predictions |-> Cardinality({e \in DOMAIN ev.predictions : EventMetricKey(ev.predictions[e]) = key}),
       matches |-> Cardinality(Of(Matches(ev)))]

MetricKeys(ev) ==
  {LabelMetricKey(ev.labels[l]) : l \in DOMAIN ev.labels}
    \cup {EventMetricKey(ev.predictions[e]) : e \in DOMAIN ev.predictions}

-----------------------------------------------------------------------------
(* Properties.                                                              *)

\* Labels take their events one after the other and never give one back.  Still
\* no event is left over that a label could have taken: not one that is
\* compatible with a missed label, nor one nearer to a label than its match.
NoBetterEventLeftOver ==
  \A l \in DOMAIN evaluation.match, e \in FalsePositives(evaluation) :
    LET label == evaluation.labels[l]
        event == evaluation.predictions[e]
        Compatible == LabelMatchesEvent(label, event) /\ Delta(label, event) <= evaluation.reach
    IN  Compatible =>
          /\ l \in Matches(evaluation)
          /\ Delta(label, evaluation.predictions[evaluation.match[l]]) <= Delta(label, event)

\* The three lists and the counts per type tell the same story: every label and
\* every event is matched once or left over, the counts per type add up to the
\* totals, and the events of a type are its matches, its false positives and
\* those a label by category took.
CountsAddUp ==
  LET ev == evaluation
      Total(count(_)) == MapThenSumSet(count, MetricKeys(ev))
      TakenByCategory(key) ==
        {l \in Matches(ev) : ~Typed(ev.labels[l]) /\ EventMetricKey(ev.predictions[ev.match[l]]) = key}
      Unmatched(key) == {e \in FalsePositives(ev) : EventMetricKey(ev.predictions[e]) = key}
  IN  /\ Cardinality(Matches(ev)) + Cardinality(FalsePositives(ev)) = Len(ev.predictions)
      /\ Total(LAMBDA key : TypeMetrics(ev, key).labels) = Len(ev.labels)
      /\ Total(LAMBDA key : TypeMetrics(ev, key).predictions) = Len(ev.predictions)
      /\ Total(LAMBDA key : TypeMetrics(ev, key).matches) = Cardinality(Matches(ev))
      /\ \A key \in MetricKeys(ev) :
           "type" \in DOMAIN key =>
             TypeMetrics(ev, key).predictions =
               TypeMetrics(ev, key).matches + Cardinality(Unmatched(key)) + Cardinality(TakenByCategory(key))

\* Every label and every event has its place in the evaluation, and the best
\* that the order of the labels leaves it.
EvaluationIsComplete == NoBetterEventLeftOver /\ CountsAddUp

=============================================================================
