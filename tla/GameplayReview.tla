--------------------------- MODULE GameplayReview ---------------------------
(***************************************************************************)
(* The local analysis of a recording (internal/adapters/vision): texts are *)
(* recognized on the sampled frames, the timeline is cut into rounds, and  *)
(* review windows are selected for deaths, fights, holds and rotations.    *)
(*                                                                         *)
(* Signals are in hundredths and times in whole milliseconds; averages and *)
(* deviations are compared exactly instead of in floating point.  What is  *)
(* measured on the pixels of a frame is an input (its kind).               *)
(***************************************************************************)
EXTENDS Integers, FiniteSets, Sequences, SequencesExt, SortedSets

CONSTANTS
  Looks,      \* what a frame may look like: by name its texts and signals
  Samples,    \* the samples taken: [count, every (ms), names (of looks)]
  Budgets     \* what MaxReviewWindows may be set to

VARIABLES
  stage,      \* how far the analysis is
  frames,     \* the observations of the decodable frames, in time order
  budget,     \* how many windows the review may have
  rounds,     \* the round segments
  windows     \* the review windows

reviewVars == <<stage, frames, budget, rounds, windows>>

\* A sample that ffmpeg wrote but no decoder reads is skipped.
Broken == "broken"

Texts == {"buy_phase", "round_end", "scoreboard", "combat_report", "death_report"}

Look == [text : SUBSET Texts, buy : Nat, board : Nat, report : Nat, combat : Nat,
         hit : BOOLEAN, motion : Nat, hud : Nat]

ASSUME ReviewAssumption ==
  /\ Looks \in [DOMAIN Looks -> Look]
  /\ \A sample \in Samples :
       /\ sample.count \in Nat /\ sample.every \in Nat
       /\ sample.names \subseteq DOMAIN Looks \cup {Broken}
  /\ Budgets \subseteq Int

-----------------------------------------------------------------------------
(* Observations.                                                            *)

Observation(look, at) ==
  [at |-> at, text |-> look.text, read |-> {}, buy |-> look.buy, board |-> look.board,
   report |-> look.report, ended |-> 0, combat |-> look.combat, hit |-> look.hit,
   motion |-> look.motion, hud |-> look.hud, phase |-> "unknown"]

Observations(seen, interval) ==
  LET Readable == {i \in DOMAIN seen : seen[i] # Broken}
      Order == Sorted(Readable, LAMBDA i, j : i < j)
  IN  [k \in DOMAIN Order |-> Observation(Looks[seen[Order[k]]], interval * (Order[k] - 1))]

\* The windows a review may have when the analyzer is not told.
DefaultBudget(coverage) ==
  IF coverage >= 1200000 THEN 18
  ELSE IF coverage >= 600000 THEN 14
  ELSE IF coverage >= 180000 THEN 10 ELSE 12

ReviewInit ==
  /\ stage = "sampled"
  /\ \E sample \in Samples :
       /\ \E seen \in [1 .. sample.count -> sample.names] : frames = Observations(seen, sample.every)
       /\ budget \in Budgets \cup {DefaultBudget(sample.every * (sample.count - 1))}
  /\ rounds = <<>>
  /\ windows = <<>>

-----------------------------------------------------------------------------
(* Text recognition.                                                        *)

\* Every frame that opens a bucket of three seconds is looked at for the banner
\* of a buy phase or a round's end; the scoreboard and the combat report only
\* where the pixels hint at one that was not there before.
Sparse(fs, i) == i = 1 \/ fs[i].at \div 3000 # fs[i - 1].at \div 3000

Rising(fs, i, signal, level) ==
  /\ fs[i][signal] >= level
  /\ Sparse(fs, i) \/ fs[i - 1][signal] < level

Task(fs, i) ==
  (IF Sparse(fs, i) \/ fs[i].buy >= 8 THEN {"buy_phase", "round_end"} ELSE {})
    \cup (IF Rising(fs, i, "board", 24) THEN {"scoreboard"} ELSE {})
    \cup (IF Rising(fs, i, "report", 12) THEN {"combat_report", "death_report"} ELSE {})

Tasks(fs) == {i \in DOMAIN fs : Task(fs, i) # {}}

AtLeast(value, bound) == IF value < bound THEN bound ELSE value

Enrich(f, signals) ==
  [f EXCEPT
    !.read = signals,
    !.buy = IF "buy_phase" \in signals THEN AtLeast(@, 96) ELSE @,
    !.board = IF "scoreboard" \in signals THEN AtLeast(@, 94) ELSE @,
    !.report = IF "death_report" \in signals THEN AtLeast(@, 99)
               ELSE IF "combat_report" \in signals THEN AtLeast(@, 98) ELSE @,
    !.ended = IF "round_end" \in signals THEN AtLeast(@, 98) ELSE @]

\* A confirmed state holds for the frames around it, a buy phase also between
\* two confirmations that are at most 32 seconds apart.
Distance(f, g) == IF f.at < g.at THEN g.at - f.at ELSE f.at - g.at

Near(fs, text, reach) ==
  {i \in DOMAIN fs : \E c \in DOMAIN fs : text \in fs[c].read /\ Distance(fs[i], fs[c]) <= reach}

Between(fs, text, reach) ==
  LET Confirmed == {c \in DOMAIN fs : text \in fs[c].read}
  IN  {i \in DOMAIN fs : \E c, d \in Confirmed : c <= i /\ i <= d /\ Distance(fs[c], fs[d]) <= reach}

Propagate(fs) ==
  LET Buying == Near(fs, "buy_phase", 5000) \cup Between(fs, "buy_phase", 32000)
      Boarded == Near(fs, "scoreboard", 2000)
      Ended == Near(fs, "round_end", 4000)
  IN  [i \in DOMAIN fs |->
        [fs[i] EXCEPT
          !.buy = IF i \in Buying THEN AtLeast(@, 90) ELSE @,
          !.board = IF i \in Boarded THEN AtLeast(@, 80) ELSE @,
          !.ended = IF i \in Ended THEN AtLeast(@, 90) ELSE @]]

\* Two workers share the tasks; each result changes its own frame only, so
\* their order is left out.  A frame whose recognition failed stays as it was.
Recognized(fs, failed) ==
  [i \in DOMAIN fs |->
    IF i \in Tasks(fs) \ failed THEN Enrich(fs[i], fs[i].text \cap Task(fs, i)) ELSE fs[i]]

Recognize ==
  /\ stage = "sampled"
  /\ frames # <<>>
  /\ \/ UNCHANGED frames                                    \* no Tesseract
     \/ \E failed \in {{}} \cup {{i} : i \in Tasks(frames)} :
          frames' = Propagate(Recognized(frames, failed))
  /\ stage' = "read"
  /\ UNCHANGED <<budget, rounds, windows>>

\* No frame could be decoded: the report says so and has nothing to review.
Unreadable ==
  /\ stage = "sampled"
  /\ frames = <<>>
  /\ stage' = "done"
  /\ UNCHANGED <<frames, budget, rounds, windows>>

-----------------------------------------------------------------------------
(* Phases.                                                                  *)

Total(fs, signal) == FoldLeft(LAMBDA sum, f : sum + f[signal], 0, fs)
Squares(fs, signal) == FoldLeft(LAMBDA sum, f : sum + f[signal] * f[signal], 0, fs)

\* At or above the average plus parts/whole of the standard deviation.
Spikes(fs, signal, parts, whole, floor) ==
  LET n == Len(fs)
      sum == Total(fs, signal)
      spread == n * Squares(fs, signal) - sum * sum
      Excess(i) == n * fs[i][signal] - sum
  IN  {i \in DOMAIN fs :
        /\ fs[i][signal] >= floor
        /\ Excess(i) >= 0
        /\ whole * Excess(i) * whole * Excess(i) >= parts * parts * spread}

Classify(fs) ==
  LET n == Len(fs)
      moved == Total(fs, "motion")
      Fighting == Spikes(fs, "combat", 18, 25, 24)
      Phase(i) ==
        IF fs[i].buy >= 90 THEN "buy"
        ELSE IF fs[i].report >= 90 THEN "death"
        ELSE IF fs[i].board >= 80 THEN "scoreboard"
        ELSE IF fs[i].ended >= 90 THEN "round_end"
        ELSE IF i \in Fighting /\ fs[i].hit THEN "fight"
        ELSE IF fs[i].motion >= 16 /\ 100 * n * fs[i].motion >= 135 * moved THEN "rotate"
        ELSE IF 2 * fs[i].motion <= 7 \/ 100 * n * fs[i].motion <= 58 * moved THEN "hold"
        ELSE "midround"
  IN  [i \in DOMAIN fs |-> [fs[i] EXCEPT !.phase = Phase(i)]]

-----------------------------------------------------------------------------
(* Rounds.                                                                  *)

\* Maximal runs of consecutive frames of S, as pairs of first and last frame.
Runs(S, Joined(_, _)) ==
  LET Links(i) == i \in S /\ i + 1 \in S /\ Joined(i, i + 1)
  IN  {run \in S \X S :
        /\ run[1] <= run[2]
        /\ \A i \in run[1] .. run[2] - 1 : Links(i)
        /\ ~Links(run[1] - 1)
        /\ ~Links(run[2])}

Stretches(S) == Runs(S, LAMBDA i, j : TRUE)

\* A buy phase starts a round when two frames in a row show it, or one clearly.
Anchors(fs) ==
  LET Buying == {i \in DOMAIN fs : fs[i].buy >= 90 /\ fs[i].hud >= 24}
      Clusters == Runs(Buying, LAMBDA i, j : fs[j].at - fs[i].at <= 12000)
      Trusted(c) == c[1] < c[2] \/ fs[c[1]].buy >= 95
      Starts == {fs[c[1]].at : c \in {c \in Clusters : Trusted(c)}}
  IN  Sorted(Starts, LAMBDA s, t : s < t)

First(fs) == fs[1].at
Length(fs) == Last(fs).at - First(fs)

\* Boundaries between rounds at the anchors that leave rounds of plausible length.
AnchoredBoundaries(fs) ==
  LET Add(bounds, t) ==
        IF t - First(fs) <= 12000 \/ t - Last(bounds) < 35000 \/ Last(fs).at - t < 20000
          THEN bounds ELSE Append(bounds, t)
  IN  Append(FoldLeft(Add, <<First(fs)>>, Anchors(fs)), Last(fs).at)

\* Without anchors, rounds of about 105 seconds whose boundaries snap to the
\* calmest frame nearby.
EstimateRoundCount(length) ==
  IF length < 95000 THEN 1
  ELSE IF length < 180000 THEN 2
  ELSE Min({26, Max({2, (2 * length + 105000) \div 210000})})

Clamp(score) == Max({0, Min({10000, score})})

Calm(f) ==
  LET quiet == Clamp(10000 - 62 * f.combat - 38 * f.motion)
  IN  CASE f.phase = "hold" -> Clamp(quiet + 800)
        [] f.phase = "midround" -> Clamp(quiet + 300)
        [] f.phase = "fight" -> Clamp(quiet - 1200)
        [] OTHER -> quiet

\* The first of the frames that score best.
BestOf(S, Score(_)) ==
  Min({i \in S : \A j \in S : Score(j) <= Score(i)})

Snap(fs, target, radius) ==
  LET Within == {i \in DOMAIN fs : target - radius <= fs[i].at /\ fs[i].at <= target + radius}
  IN  IF Within = {} THEN target ELSE fs[BestOf(Within, LAMBDA i : Calm(fs[i]))].at

EstimatedBoundaries(fs) ==
  LET count == EstimateRoundCount(Length(fs))
      cadence == Length(fs) \div count
      Share(percent) == (percent * cadence) \div 100
      Add(bounds, k) ==
        LET target == First(fs) + (Length(fs) * k) \div count
            snapped == Snap(fs, target, Min({22000, Share(24)}))
            low == Last(bounds) + Min({45000, Share(55)})
            high == Last(fs).at - Min({30000, Share(38)})
        IN  Append(bounds, IF snapped < low \/ snapped > high THEN target ELSE snapped)
  IN  Append(FoldLeft(Add, <<First(fs)>>, [k \in 1 .. count - 1 |-> k]), Last(fs).at)

Boundaries(fs) ==
  IF Len(Anchors(fs)) >= 2 /\ Len(AnchoredBoundaries(fs)) >= 3
    THEN AnchoredBoundaries(fs) ELSE EstimatedBoundaries(fs)

\* Mutant: the end belongs to every round, not only to the last one.
InRoundWithEnd(bounds, r, t) == bounds[r] <= t /\ t <= bounds[r + 1]

\* A round has the frames and the windows from its start up to its end, the
\* last round with its end.
InRound(bounds, r, t) ==
  /\ bounds[r] <= t
  /\ t < bounds[r + 1] \/ (r + 1 = Len(bounds) /\ t = bounds[r + 1])

RoundSegments(fs, bounds, ws) ==
  [r \in 1 .. Len(bounds) - 1 |->
    [from |-> bounds[r], to |-> bounds[r + 1],
     frames |-> {i \in DOMAIN fs : InRound(bounds, r, fs[i].at)},
     windows |-> {k \in DOMAIN ws : InRound(bounds, r, ws[k].peak)}]]

\* How often each phase is seen in a round.
PhaseProfile(segment) ==
  [phase \in {frames[i].phase : i \in segment.frames} |->
    Cardinality({i \in segment.frames : frames[i].phase = phase})]

\* The number of the round a window peaks in, 0 when it is in none.
RoundOf(segments, window) ==
  LET Inside(r) ==
        /\ segments[r].from <= window.peak
        /\ window.peak < segments[r].to \/ (r = Len(segments) /\ window.peak = segments[r].to)
      Candidates == {r \in DOMAIN segments : Inside(r)}
  IN  IF Candidates = {} THEN 0 ELSE Min(Candidates)

AssignRounds(ws, segments) ==
  [k \in DOMAIN ws |-> [ws[k] EXCEPT !.round = RoundOf(segments, ws[k])]]

Segment ==
  /\ stage = "read"
  /\ frames' = Classify(frames)
  /\ rounds' = RoundSegments(frames', Boundaries(frames'), <<>>)
  /\ stage' = "cut"
  /\ UNCHANGED <<budget, windows>>

-----------------------------------------------------------------------------
(* Evidence.                                                                *)

\* Mutant: the first frame past the wanted time is not looked at.
PrecedingWithin(fs, p, target) == {i \in 1 .. p - 1 : \A j \in i .. p - 1 : fs[j].at >= target}

\* The frames looked at walking away from the peak: up to and with the first
\* one past the wanted time.
Preceding(fs, p, target) == {i \in 1 .. p - 1 : \A j \in i + 1 .. p - 1 : fs[j].at >= target}
Following(fs, p, target) == {i \in p + 1 .. Len(fs) : \A j \in p + 1 .. i - 1 : fs[j].at <= target}

Off(f, t) == IF f.at < t THEN t - f.at ELSE f.at - t

\* Of the frames looked at the nearest to the wanted time, of two as near the
\* one met first; the frame of the peak; and the same after it.
Evidence(fs, p, lead, lag) ==
  LET wanted == [before |-> fs[p].at - lead, after |-> fs[p].at + lag]
      Seen(S, t) == {i \in S : \A j \in S : Off(fs[i], t) <= Off(fs[j], t)}
      Before == Seen(Preceding(fs, p, wanted.before), wanted.before)
      After == Seen(Following(fs, p, wanted.after), wanted.after)
  IN  [before |-> IF Before = {} THEN 0 ELSE Max(Before),
       event |-> p,
       after |-> IF After = {} THEN 0 ELSE Min(After)]

-----------------------------------------------------------------------------
(* Candidates.                                                              *)

Window(kind, fs, p, from, to, score, lead, lag) ==
  [kind |-> kind, from |-> Max({0, from}), to |-> to, peak |-> fs[p].at, score |-> score,
   round |-> 0, evidence |-> Evidence(fs, p, lead, lag)]

Overlaps(w, v, padding) == w.from <= v.to + padding /\ w.to >= v.from - padding

OverlapsAny(ws, w, padding) == \E k \in DOMAIN ws : Overlaps(w, ws[k], padding)

\* Mutant: the windows of the earlier searches are forgotten.
PickOwn(ranked, existing, padding, spacing, limit) ==
  LET Add(picked, w) ==
        IF Len(picked) >= limit \/ OverlapsAny(picked, w, spacing) THEN picked ELSE Append(picked, w)
  IN  FoldLeft(Add, <<>>, ranked)

\* From the best candidate down, those that keep clear of the windows there are
\* and of each other, as many as the limit allows.
Pick(ranked, existing, padding, spacing, limit) ==
  LET Add(picked, w) ==
        IF \/ Len(picked) >= limit
           \/ OverlapsAny(existing, w, padding)
           \/ OverlapsAny(picked, w, spacing)
          THEN picked ELSE Append(picked, w)
  IN  FoldLeft(Add, <<>>, ranked)

\* By descending score, equal ones in the order of time.
Ranked(S, Score(_), At(_)) ==
  Sorted(S, LAMBDA x, y : Score(x) > Score(y) \/ (Score(x) = Score(y) /\ At(x) < At(y)))

Strongest(S, fs, signal) == Ranked(S, LAMBDA i : fs[i][signal], LAMBDA i : i)

Compatible(f) == f.hud >= 22

NoOverlay(f, level) == f.buy < level /\ f.board < level /\ f.report < level /\ f.ended < level

\* The combat report stays up: one death per run of frames that show it.
DeathVisible(f) ==
  /\ "death_report" \in f.read
  /\ f.report >= 90 /\ Compatible(f)
  /\ f.buy < 90 /\ f.board < 80 /\ f.ended < 90

DeathRuns(fs) == Stretches({i \in DOMAIN fs : DeathVisible(fs[i])})

Onset(fs, c) == {i \in c[1] .. c[2] : fs[i].at - fs[c[1]].at <= 8000}

DeathPeaks(fs) == {BestOf(Onset(fs, c), LAMBDA i : fs[i].report) : c \in DeathRuns(fs)}

Death(fs, p) ==
  Window("death_review", fs, p, fs[p].at - 10000, fs[p].at + 8000, fs[p].report, 5000, 3000)

DeathReviewWindows(fs) ==
  LET Order == Strongest(DeathPeaks(fs), fs, "report")
  IN  Pick([k \in DOMAIN Order |-> Death(fs, Order[k])], <<>>, 5000, 5000, Len(fs))

\* Mutant: every onset of a report is a death.
EveryOnset(deaths) == Sorted(deaths, LAMBDA w, v : w.peak < v.peak)

\* The first death of every round; more than the limit are thinned out over the
\* whole recording.
FirstOfEachRound(deaths) ==
  LET Later(w) == w.round > 0 /\ \E v \in deaths : v.round = w.round /\ v.peak < w.peak
  IN  Sorted({w \in deaths : ~Later(w)}, LAMBDA w, v : w.peak < v.peak)

Bucket(n, limit, b) == ((b - 1) * n) \div limit + 1 .. (b * n) \div limit

Thinned(ws, limit) ==
  [b \in 1 .. limit |-> ws[BestOf(Bucket(Len(ws), limit, b), LAMBDA k : ws[k].score)]]

SelectDeathWindowsByRound(deaths, limit) ==
  LET selected == FirstOfEachRound(ToSet(deaths))
  IN  IF Len(selected) <= limit THEN selected ELSE Thinned(selected, limit)

HighImpactWindows(fs, existing, limit) ==
  LET Fights == {i \in Spikes(fs, "combat", 17, 25, 20) :
                  /\ Compatible(fs[i]) /\ fs[i].hit
                  /\ fs[i].board < 48 /\ fs[i].buy < 48 /\ fs[i].report < 58 /\ fs[i].ended < 48}
      Order == Strongest(Fights, fs, "combat")
      Fight(i) == Window("combat_spike", fs, i, fs[i].at - 8000, fs[i].at + 10000,
                         fs[i].combat, 4000, 3000)
  IN  Pick([k \in DOMAIN Order |-> Fight(Order[k])], existing, 0, 6000, limit)

HoldLength(fs, c) == fs[c[2]].at - fs[c[1]].at
HoldScore(fs, c) == Min({45000, HoldLength(fs, c)})

HoldStretches(fs) ==
  LET Passive(f) ==
        /\ 2 * f.motion <= 5 \/ 2 * Len(fs) * f.motion <= Total(fs, "motion")
        /\ f.combat < 24 /\ Compatible(f) /\ NoOverlay(f, 42)
  IN  {c \in Stretches({i \in DOMAIN fs : Passive(fs[i])}) : HoldLength(fs, c) >= 8000}

Hold(fs, c) ==
  Window("low_activity", fs, (c[1] + c[2]) \div 2, fs[c[1]].at, fs[c[2]].at,
         HoldScore(fs, c) \div 450, 4000, 4000)

LongestFirst(S, fs) == Ranked(S, LAMBDA c : HoldScore(fs, c), LAMBDA c : c[1])

PassiveWindows(fs, existing, limit) ==
  LET Order == LongestFirst(HoldStretches(fs), fs)
  IN  IF Len(fs) < 2 THEN <<>>
      ELSE Pick([k \in DOMAIN Order |-> Hold(fs, Order[k])], existing, 4000, 4000, limit)

BlockingOverlayNear(fs, i) ==
  \E j \in DOMAIN fs :
    /\ Distance(fs[i], fs[j]) <= 4000
    /\ fs[j].buy >= 90 \/ fs[j].board >= 80 \/ fs[j].report >= 90 \/ fs[j].ended >= 90

RotationWindows(fs, existing, limit) ==
  LET n == Len(fs)
      fought == Total(fs, "combat")
      Moves == {i \in Spikes(fs, "motion", 11, 20, 22) :
                 /\ n * fs[i].combat <= fought + 12 * n
                 /\ Compatible(fs[i]) /\ NoOverlay(fs[i], 42)
                 /\ ~BlockingOverlayNear(fs, i)}
      Order == Strongest(Moves, fs, "motion")
      Rotation(i) == Window("rotation_spike", fs, i, fs[i].at - 6000, fs[i].at + 8000,
                            fs[i].motion, 4000, 3000)
  IN  Pick([k \in DOMAIN Order |-> Rotation(Order[k])], existing, 5000, 5000, limit)

-----------------------------------------------------------------------------
(* The review.                                                              *)

Limit == Min({Max({1, budget}), 20})
DeathBudget == Max({1, (34 * Limit + 99) \div 100})
CombatBudget == Max({1, (40 * Limit + 99) \div 100})
DecisionBudget == IF Limit >= 8 THEN Max({2, (16 * Limit + 50) \div 100}) ELSE 1

SortWindows(ws) ==
  Sorted(ToSet(ws), LAMBDA w, v : w.from < v.from \/ (w.from = v.from /\ w.score > v.score))

\* Deaths first, then fights, holds and rotations in what is left.
Left(ws) == Limit - Len(ws)

WithFights(fs, ws) == ws \o HighImpactWindows(fs, ws, Min({Left(ws), CombatBudget}))
WithHolds(fs, ws) == ws \o PassiveWindows(fs, ws, Min({Left(ws), DecisionBudget}))
WithRotations(fs, ws) == ws \o RotationWindows(fs, ws, Left(ws))

ReviewWindows(fs, segments) ==
  LET deaths == SelectDeathWindowsByRound(AssignRounds(DeathReviewWindows(fs), segments), DeathBudget)
  IN  SortWindows(WithRotations(fs, WithHolds(fs, WithFights(fs, deaths))))

\* The rounds are built again for the windows; their boundaries are the same.
Select ==
  /\ stage = "cut"
  /\ windows' = AssignRounds(ReviewWindows(frames, rounds), rounds)
  /\ rounds' = RoundSegments(frames, Boundaries(frames), windows')
  /\ stage' = "done"
  /\ UNCHANGED <<frames, budget>>

\* The events of the report: a candidate at the peak of every window and the
\* start of every round, by time and identifier (notes on the capture left out).
EventTypes ==
  <<"combat_candidate", "death_state_confirmed", "tempo_candidate", "rotation_candidate", "round_estimate">>

EventType(kind) ==
  CASE kind = "death_review" -> "death_state_confirmed"
    [] kind = "combat_spike" -> "combat_candidate"
    [] kind = "rotation_spike" -> "rotation_candidate"
    [] OTHER -> "tempo_candidate"

GameplayEvents(ws, segments) ==
  LET Events == {[type |-> EventType(ws[k].kind), at |-> ws[k].peak] : k \in DOMAIN ws}
                  \cup {[type |-> "round_estimate", at |-> segments[r].from] : r \in DOMAIN segments}
      Rank(type) == CHOOSE i \in 1 .. 5 : EventTypes[i] = type
  IN  Sorted(Events, LAMBDA d, e : d.at < e.at \/ (d.at = e.at /\ Rank(d.type) < Rank(e.type)))

ReviewNext == Recognize \/ Unreadable \/ Segment \/ Select

-----------------------------------------------------------------------------
(* Properties.                                                              *)

\* The four searches for windows run one after the other, each with paddings and
\* a share of the budget of its own; what they select together never shows the
\* same moment twice, fits the budget and is in the order of time.
WindowsShareTheTimeline ==
  /\ Len(windows) <= Limit
  /\ \A j, k \in DOMAIN windows : j < k => windows[j].to < windows[k].from

\* Whichever way the boundaries were found, anchored or estimated and snapped,
\* the rounds follow each other without a gap, every frame is in exactly one,
\* and a window is listed by the round whose number it carries and no other.
RoundsPartition ==
  rounds # <<>> =>
    /\ rounds[1].from = First(frames) /\ rounds[Len(rounds)].to = Last(frames).at
    /\ \A r \in DOMAIN rounds : r > 1 => rounds[r].from = rounds[r - 1].to /\ rounds[r].from < rounds[r].to
    /\ \A i \in DOMAIN frames : Cardinality({r \in DOMAIN rounds : i \in rounds[r].frames}) = 1
    /\ \A k \in DOMAIN windows :
         {r \in DOMAIN rounds : k \in rounds[r].windows} = {windows[k].round}

\* The player dies once a round: a round has at most one death review, that of
\* its first onset of the report.  With one exception, against the comment on the
\* choice (local.go:502, the first onset is the death and later ones come from
\* toggled overlays): where two onsets are too near for both to be shown, the
\* clearer one is, and the first when they are equally clear, before any look at
\* the rounds.  So a report toggled soon after the death, and clearer, is the one
\* reviewed.
OneDeathPerRound ==
  LET Deaths == {k \in DOMAIN windows : windows[k].kind = "death_review"}
      Round(p) == RoundOf(rounds, [peak |-> frames[p].at])
      Supplanted(p) == \E q \in DeathPeaks(frames) :
        /\ \/ frames[q].report > frames[p].report
           \/ frames[q].report = frames[p].report /\ q < p
        /\ Overlaps(Death(frames, p), Death(frames, q), 5000)
  IN  \A k \in Deaths :
        /\ \A j \in Deaths : windows[j].round = windows[k].round => j = k
        /\ \A p \in DeathPeaks(frames) :
             Round(p) = windows[k].round /\ frames[p].at < windows[k].peak => Supplanted(p)

\* The search for evidence stops early.  Still no frame before the event is
\* nearer to the wanted lead than the one shown, nor any after it to the wanted
\* lag, and a side is left empty only when there is no frame on it.
EvidenceIsNearest ==
  LET Lead(kind) == IF kind = "death_review" THEN 5000 ELSE 4000
      Lag(kind) == IF kind = "low_activity" THEN 4000 ELSE 3000
      Nearest(i, S, t) ==
        IF S = {} THEN i = 0 ELSE i \in S /\ \A j \in S : Off(frames[i], t) <= Off(frames[j], t)
  IN  \A k \in DOMAIN windows :
        LET w == windows[k]
            e == w.evidence
        IN  /\ frames[e.event].at = w.peak
            /\ Nearest(e.before, 1 .. e.event - 1, w.peak - Lead(w.kind))
            /\ Nearest(e.after, e.event + 1 .. Len(frames), w.peak + Lag(w.kind))

=============================================================================
