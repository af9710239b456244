---------------------------- MODULE JobPages_proofs ----------------------------
(***************************************************************************)
(* Theorems about analysis jobs in the process of vod-web and about the    *)
(* client that reads their list. Jobs live as JobLife says, and one is     *)
(* left behind only if its goroutine died or could not write: every write  *)
(* is made from a copy, but a goroutine is alone with its row, so the copy *)
(* says what the row says. The pages are exact as long as the order of the *)
(* list is that of the cursors.                                            *)
(***************************************************************************)
EXTENDS JobPages, FiniteSetTheorems, TLAPS

LocalInv == LocalTypeOK /\ RowsFollowWork /\ LeftBehindWereStruck

-----------------------------------------------------------------------------
(* Data.                                                                    *)

LEMMA RowFacts ==
  /\ Absent \in Row /\ Queued \in Row /\ Running \in Row
  /\ Absent.status = "absent" /\ Queued.status = "queued" /\ Running.status = "running"
BY LocalAssumption DEF Row, Absent, Queued, Running, Starting, Full, Ended

LEMMA AtFacts ==
  ASSUME NEW place \in Places
  PROVE  At(place) \in Work /\ At(place).at = place
BY RowFacts, LocalAssumption DEF At, Work, Ended

LEMMA FaultFacts ==
  ASSUME LocalTypeOK, Fault
  PROVE  faults' \in 0..MaxFaults
BY LocalAssumption DEF Fault, LocalTypeOK

LEMMA FinishedFacts ==
  ASSUME NEW w \in Work
  PROVE  Finished(w) \in Row /\ Finished(w).status = w.outcome /\ w.outcome \in Ended
<1>1. w.copy \in Row /\ w.outcome \in Ended /\ Full \in 0..Full
  BY LocalAssumption DEF Work, Full
<1>2. CASE w.outcome = "completed"
  <2>1. Finished(w) = [w.copy EXCEPT !.status = w.outcome, !.percent = Full]
    BY <1>2 DEF Finished
  <2>2. QED
    BY <1>1, <2>1 DEF Row
<1>3. CASE w.outcome # "completed"
  <2>1. Finished(w) = [w.copy EXCEPT !.status = w.outcome, !.percent = @]
    BY <1>3 DEF Finished
  <2>2. QED
    BY <1>1, <2>1 DEF Row
<1>4. QED
  BY <1>2, <1>3

LEMMA SavedFacts ==
  ASSUME NEW w \in Work
  PROVE  /\ [w.copy EXCEPT !.percent = Starting + w.report] \in Row
         /\ [w.copy EXCEPT !.percent = Starting + w.report].status = w.copy.status
BY LocalAssumption DEF Work, Row, Full, Starting

-----------------------------------------------------------------------------
(* Steps of one job.                                                        *)

\* Job j is the only one that changes, and after the step its row and its
\* goroutine agree.
Moves(j) ==
  /\ store' = store
  /\ row' \in [Jobs -> Row] /\ work' \in [Jobs -> Work]
  /\ struck' \subseteq Jobs /\ faults' \in 0..MaxFaults
  /\ \A k \in Jobs \ {j} : row'[k] = row[k] /\ work'[k] = work[k]
  /\ struck \subseteq struck'
  /\ RowFollowsWork(j)'
  /\ j \in struck' \/ (row'[j].status \in {"queued", "running"} => Alive(j)')

LEMMA MovesKeep ==
  ASSUME LocalInv, NEW j \in Jobs, Moves(j)
  PROVE  LocalInv'
<1>1. LocalTypeOK'
  BY DEF LocalInv, LocalTypeOK, Moves
<1>2. RowsFollowWork'
  BY DEF LocalInv, RowsFollowWork, RowFollowsWork, Moves
<1>3. LeftBehindWereStruck'
  BY DEF LocalInv, LeftBehindWereStruck, Alive, Moves
<1>4. QED
  BY <1>1, <1>2, <1>3 DEF LocalInv

\* A write that goes on or ends the goroutine: the row keeps what it had or
\* has the new one.
LEMMA WriteFacts ==
  ASSUME LocalInv, NEW j \in Jobs, NEW r \in Row, NEW then \in Places,
         WriteOrReturn(j, r, then)
  PROVE  /\ row' \in [Jobs -> Row] /\ work' \in [Jobs -> Work]
         /\ struck' \subseteq Jobs /\ faults' \in 0..MaxFaults
         /\ \A k \in Jobs \ {j} : row'[k] = row[k] /\ work'[k] = work[k]
         /\ struck \subseteq struck'
         /\ \/ row' = [row EXCEPT ![j] = r] /\ row'[j] = r /\ work'[j].at = then
            \/ /\ row' = row \/ (row' = [row EXCEPT ![j] = r] /\ row'[j] = r)
               /\ work'[j].at = "gone"
               /\ j \in struck'
<1>1. "gone" \in Places /\ row \in [Jobs -> Row] /\ work \in [Jobs -> Work]
  BY DEF Places, LocalInv, LocalTypeOK
<1>2. CASE /\ row' = [row EXCEPT ![j] = r]
           /\ work' = [work EXCEPT ![j] = At(then)]
           /\ UNCHANGED <<struck, faults>>
  BY <1>1, <1>2, AtFacts DEF LocalInv, LocalTypeOK
<1>3. CASE /\ CallFails
           /\ row' \in {row, [row EXCEPT ![j] = r]}
           /\ Leave(j)
           /\ struck' = struck \cup {j}
  <2>1. faults' \in 0..MaxFaults
    BY <1>3, FaultFacts DEF CallFails, LocalInv
  <2>2. work' = [work EXCEPT ![j] = At("gone")]
    BY <1>3 DEF Leave
  <2>3. At("gone") \in Work /\ At("gone").at = "gone"
    BY <1>1, AtFacts
  <2>4. /\ work' \in [Jobs -> Work] /\ work'[j].at = "gone"
        /\ \A k \in Jobs \ {j} : work'[k] = work[k]
    BY <1>1, <2>2, <2>3
  <2>5. /\ row' \in [Jobs -> Row]
        /\ \A k \in Jobs \ {j} : row'[k] = row[k]
        /\ row' = row \/ (row' = [row EXCEPT ![j] = r] /\ row'[j] = r)
    BY <1>1, <1>3
  <2>6. struck' \subseteq Jobs /\ struck \subseteq struck' /\ j \in struck'
    BY <1>3 DEF LocalInv, LocalTypeOK
  <2>7. QED
    BY <2>1, <2>4, <2>5, <2>6
<1>4. QED
  BY <1>2, <1>3 DEF WriteOrReturn

\* A step that leaves the table alone.
LEMMA QuietMoves ==
  ASSUME LocalInv, NEW j \in Jobs, NEW w \in Work,
         work' = [work EXCEPT ![j] = w],
         UNCHANGED <<store, row, struck>>, faults' \in 0..MaxFaults,
         w.at \notin {"idle", "gone"},
         w.at = "insert" => row[j].status = "absent",
         w.at = "begin" => row[j].status = "queued",
         w.at \in {"execute", "save", "find", "finish"} => row[j].status = "running",
         w.at \in {"save", "finish"} => w.copy.status = "running"
  PROVE  Moves(j)
BY DEF Moves, LocalInv, LocalTypeOK, RowFollowsWork, Alive

LEMMA StampMoves ==
  ASSUME LocalInv, NEW j \in Jobs, Stamp(j)
  PROVE  Moves(j)
<1> DEFINE w == [At("insert") EXCEPT !.report = work[j].report]
<1>1. work[j] \in Work /\ row[j].status = "absent"
  BY DEF LocalInv, LocalTypeOK, RowsFollowWork, RowFollowsWork, Stamp
<1>2. w \in Work /\ w.at = "insert"
  BY <1>1, AtFacts DEF Work, Places
<1>3. /\ work' = [work EXCEPT ![j] = w]
      /\ UNCHANGED <<store, row, struck>>
      /\ faults' \in 0..MaxFaults
  BY DEF Stamp, Goto, LocalInv, LocalTypeOK
<1>4. QED
  BY <1>1, <1>2, <1>3, QuietMoves

LEMMA InsertMoves ==
  ASSUME LocalInv, NEW j \in Jobs, Insert(j)
  PROVE  /\ Moves(j)
         /\ row[j].status = "absent"
         /\ row' = row \/ (row' = [row EXCEPT ![j] = Queued])
<1>1. row[j].status = "absent" /\ "begin" \in Places
  BY DEF LocalInv, RowsFollowWork, RowFollowsWork, Insert, Places
<1>2. WriteOrReturn(j, Queued, "begin") /\ store' = store
  BY DEF Insert
<1>3. QED
  BY <1>1, <1>2, WriteFacts, RowFacts DEF Moves, RowFollowsWork, Alive

LEMMA BeginMoves ==
  ASSUME LocalInv, NEW j \in Jobs, Begin(j)
  PROVE  /\ Moves(j)
         /\ row[j].status = "queued"
         /\ row' = row \/ (row' = [row EXCEPT ![j] = Running])
<1>1. row[j].status = "queued" /\ "execute" \in Places
  BY DEF LocalInv, RowsFollowWork, RowFollowsWork, Begin, Places
<1>2. WriteOrReturn(j, Running, "execute") /\ store' = store
  BY DEF Begin
<1>3. QED
  BY <1>1, <1>2, WriteFacts, RowFacts DEF Moves, RowFollowsWork, Alive

LEMMA ReportMoves ==
  ASSUME LocalInv, NEW j \in Jobs, Report(j)
  PROVE  Moves(j)
<1>1. /\ work[j] \in Work /\ row[j] \in Row /\ row[j].status = "running"
      /\ work[j].at = "execute" /\ work[j].report + 1 \in 0..Reports
  BY LocalAssumption DEF LocalInv, LocalTypeOK, RowsFollowWork, RowFollowsWork, Report, Work
<1>2. faults' \in 0..MaxFaults /\ UNCHANGED <<store, row, struck>>
  BY FaultFacts DEF Report, CallFails, LocalInv, LocalTypeOK
<1>3. CASE work' = [work EXCEPT ![j] =
                [@ EXCEPT !.at = "save", !.report = work[j].report + 1, !.copy = row[j]]]
  <2> DEFINE w == [work[j] EXCEPT !.at = "save", !.report = work[j].report + 1, !.copy = row[j]]
  <2>1. w \in Work /\ w.at = "save" /\ w.copy.status = "running"
    BY <1>1 DEF Work, Places
  <2>2. work' = [work EXCEPT ![j] = w]
    BY <1>3
  <2>3. QED
    BY <1>1, <1>2, <2>1, <2>2, QuietMoves
<1>4. CASE work' = [work EXCEPT ![j].report = @ + 1]
  <2> DEFINE w == [work[j] EXCEPT !.report = work[j].report + 1]
  <2>1. w \in Work /\ w.at = "execute"
    BY <1>1 DEF Work
  <2>2. work' = [work EXCEPT ![j] = w]
    BY <1>1, <1>4 DEF LocalInv, LocalTypeOK
  <2>3. QED
    BY <1>1, <1>2, <2>1, <2>2, QuietMoves
<1>5. QED
  BY <1>3, <1>4 DEF Report

LEMMA SaveMoves ==
  ASSUME LocalInv, NEW j \in Jobs, Save(j)
  PROVE  Moves(j) /\ row'[j].status = row[j].status
<1> DEFINE saved == [work[j].copy EXCEPT !.percent = Starting + work[j].report]
           w == [At("execute") EXCEPT !.report = work[j].report]
<1>1. /\ work[j] \in Work /\ row \in [Jobs -> Row]
      /\ row[j].status = "running" /\ work[j].copy.status = "running"
  BY DEF LocalInv, LocalTypeOK, RowsFollowWork, RowFollowsWork, Save
<1>2. saved \in Row /\ saved.status = "running"
  BY <1>1, SavedFacts
<1>3. w \in Work /\ w.at = "execute"
  BY <1>1, AtFacts DEF Work, Places
<1>4. /\ work' = [work EXCEPT ![j] = w]
      /\ row' = row \/ row' = [row EXCEPT ![j] = saved]
      /\ UNCHANGED <<store, struck>>
      /\ faults' \in 0..MaxFaults
  BY FaultFacts DEF Save, Goto, CallFails, LocalInv, LocalTypeOK
<1>5. row' \in [Jobs -> Row] /\ row'[j].status = "running"
      /\ \A k \in Jobs \ {j} : row'[k] = row[k]
  BY <1>1, <1>2, <1>4
<1>6. work' \in [Jobs -> Work] /\ work'[j].at = "execute"
      /\ \A k \in Jobs \ {j} : work'[k] = work[k]
  BY <1>3, <1>4 DEF LocalInv, LocalTypeOK
<1>7. QED
  BY <1>1, <1>4, <1>5, <1>6 DEF Moves, RowFollowsWork, Alive, LocalInv, LocalTypeOK

LEMMA ReturnMoves ==
  ASSUME LocalInv, NEW j \in Jobs, Return(j)
  PROVE  Moves(j)
<1>1. row[j].status = "running"
  BY DEF LocalInv, RowsFollowWork, RowFollowsWork, Return
<1>2. PICK outcome \in Ended : work' = [work EXCEPT ![j] = [At("find") EXCEPT !.outcome = outcome]]
  BY DEF Return
<1> DEFINE w == [At("find") EXCEPT !.outcome = outcome]
<1>3. w \in Work /\ w.at = "find"
  BY AtFacts DEF Work, Places
<1>4. UNCHANGED <<store, row, struck>> /\ faults' \in 0..MaxFaults
  BY DEF Return, LocalInv, LocalTypeOK
<1>5. QED
  BY <1>1, <1>2, <1>3, <1>4, QuietMoves

LEMMA FindMoves ==
  ASSUME LocalInv, NEW j \in Jobs, Find(j)
  PROVE  Moves(j)
<1>1. work[j] \in Work /\ row[j] \in Row /\ row[j].status = "running"
  BY DEF LocalInv, LocalTypeOK, RowsFollowWork, RowFollowsWork, Find
<1>2. faults' \in 0..MaxFaults /\ UNCHANGED <<store, row, struck>>
  BY FaultFacts DEF Find, CallFails, LocalInv, LocalTypeOK
<1>3. PICK copy \in {row[j], Running} :
        work' = [work EXCEPT ![j] = [@ EXCEPT !.at = "finish", !.copy = copy]]
  BY DEF Find
<1> DEFINE w == [work[j] EXCEPT !.at = "finish", !.copy = copy]
<1>4. w \in Work /\ w.at = "finish" /\ w.copy.status = "running"
  BY <1>1, <1>3, RowFacts DEF Work, Places
<1>5. work' = [work EXCEPT ![j] = w]
  BY <1>3
<1>6. QED
  BY <1>1, <1>2, <1>4, <1>5, QuietMoves

LEMMA FinishMoves ==
  ASSUME LocalInv, NEW j \in Jobs, Finish(j)
  PROVE  /\ Moves(j)
         /\ row[j].status = "running"
         /\ row' = row \/ (row' = [row EXCEPT ![j] = Finished(work[j])])
<1>1. work[j] \in Work /\ row[j].status = "running" /\ "gone" \in Places
  BY DEF LocalInv, LocalTypeOK, RowsFollowWork, RowFollowsWork, Finish, Places
<1>2. /\ Finished(work[j]) \in Row
      /\ Finished(work[j]).status \in Ended
  BY <1>1, FinishedFacts
<1>3. WriteOrReturn(j, Finished(work[j]), "gone") /\ store' = store
  BY DEF Finish
<1>4. QED
  BY <1>1, <1>2, <1>3, WriteFacts DEF Moves, RowFollowsWork, Alive, Ended

-----------------------------------------------------------------------------
(* The invariant.                                                           *)

LEMMA LocalInitHolds ==
  ASSUME LocalInit
  PROVE  LocalInv
<1>1. /\ row \in [Jobs -> Row]
      /\ \A j \in Jobs \ Old : row[j] = Absent
      /\ \A j \in Jobs : row[j] \in Row
  BY RowFacts, LocalAssumption DEF LocalInit
<1>2. "gone" \in Places /\ "idle" \in Places
  BY DEF Places
<1>3. /\ work \in [Jobs -> Work]
      /\ \A j \in Jobs : work[j].at = IF j \in Old THEN "gone" ELSE "idle"
  BY <1>2, AtFacts DEF LocalInit
<1>4. LocalTypeOK
  BY <1>1, <1>3, LocalAssumption DEF LocalInit, LocalTypeOK
<1>5. RowsFollowWork
  BY <1>1, <1>3, RowFacts DEF RowsFollowWork, RowFollowsWork
<1>6. LeftBehindWereStruck
  BY <1>1, RowFacts DEF LocalInit, LeftBehindWereStruck
<1>7. QED
  BY <1>4, <1>5, <1>6 DEF LocalInv

LEMMA RestartHolds ==
  ASSUME LocalInv, Restart
  PROVE  LocalInv'
<1>1. "gone" \in Places /\ At("gone") \in Work /\ At("gone").at = "gone"
  BY AtFacts DEF Places
<1>2. /\ work' \in [Jobs -> Work]
      /\ \A j \in Jobs : IF Alive(j) THEN work'[j].at = "gone" ELSE work'[j] = work[j]
  BY <1>1 DEF Restart, LocalInv, LocalTypeOK
<1>3. /\ row' \in [Jobs -> Row]
      /\ \A j \in Jobs : row'[j] = Absent \/ row'[j] = row[j]
  BY RowFacts DEF Restart, LocalInv, LocalTypeOK
<1>4. struck' = struck \cup {j \in Jobs : Alive(j)} /\ store' = store
  BY DEF Restart
<1>5. LocalTypeOK'
  BY <1>2, <1>3, <1>4, FaultFacts DEF Restart, LocalInv, LocalTypeOK
<1>6. RowsFollowWork'
  BY <1>2, <1>3, RowFacts DEF LocalInv, RowsFollowWork, RowFollowsWork, Alive
<1>7. LeftBehindWereStruck'
  BY <1>2, <1>3, <1>4, RowFacts DEF LocalInv, LeftBehindWereStruck
<1>8. QED
  BY <1>5, <1>6, <1>7 DEF LocalInv

LEMMA LocalNextHolds ==
  ASSUME LocalInv, [LocalNext]_localVars
  PROVE  LocalInv'
<1>1. CASE UNCHANGED localVars
  BY <1>1 DEF localVars, LocalInv, LocalTypeOK, RowsFollowWork, RowFollowsWork,
     LeftBehindWereStruck, Alive
<1>2. ASSUME NEW j \in Jobs, Stamp(j) \/ JobStep(j)
      PROVE  Moves(j)
  BY <1>2, StampMoves, InsertMoves, BeginMoves, ReportMoves, SaveMoves, ReturnMoves,
     FindMoves, FinishMoves DEF JobStep
<1>3. QED
  BY <1>1, <1>2, MovesKeep, RestartHolds DEF LocalNext

\* The inductive invariant: a goroutine's row is where it has brought it.
THEOREM LocalInvariantHolds == LocalSpec => []LocalInv
<1>1. LocalInit => LocalInv
  BY LocalInitHolds
<1>2. LocalInv /\ [LocalNext]_localVars => LocalInv'
  BY LocalNextHolds
<1>3. QED
  BY <1>1, <1>2, PTL DEF LocalSpec

\* Every variable keeps its kind, for any jobs, reports, stores and faults.
THEOREM LocalTypeCorrect == LocalSpec => []LocalTypeOK
<1>1. LocalInv => LocalTypeOK
  BY DEF LocalInv
<1>2. QED
  BY <1>1, LocalInvariantHolds, PTL

\* A job is left behind only by a goroutine that died or could not write.
THEOREM OnlyStruckAreLeftBehind == LocalSpec => []LeftBehindWereStruck
<1>1. LocalInv => LeftBehindWereStruck
  BY DEF LocalInv
<1>2. QED
  BY <1>1, LocalInvariantHolds, PTL

-----------------------------------------------------------------------------
(* The refinement.                                                          *)

\* A step that leaves every status alone stutters in JobLife.
LEMMA SameStatus ==
  ASSUME \A k \in Jobs : row'[k].status = row[k].status
  PROVE  [Life!Next]_([j \in Jobs |-> row[j].status])
BY DEF Life!Next

\* A step that takes the status of one job from one value to the next.
LEMMA OneStatus ==
  ASSUME LocalInv, NEW j \in Jobs, NEW r \in Row, row' = [row EXCEPT ![j] = r]
  PROVE  Life!Become(j, row[j].status, r.status)
<1>1. row \in [Jobs -> Row]
  BY DEF LocalInv, LocalTypeOK
<1>2. [k \in Jobs |-> row'[k].status] = [[k \in Jobs |-> row[k].status] EXCEPT ![j] = r.status]
  BY <1>1
<1>3. QED
  BY <1>2 DEF Life!Become

LEMMA JobStepRefines ==
  ASSUME LocalInv, NEW j \in Jobs, Stamp(j) \/ JobStep(j)
  PROVE  [Life!Next]_([k \in Jobs |-> row[k].status])
<1>1. CASE Insert(j)
  <2>1. row = row' \/ Life!Become(j, "absent", "queued")
    BY <1>1, InsertMoves, OneStatus, RowFacts
  <2>2. QED
    BY <2>1, SameStatus DEF Life!Next, Life!Submit
<1>2. CASE Begin(j)
  <2>1. row = row' \/ Life!Become(j, "queued", "running")
    BY <1>2, BeginMoves, OneStatus, RowFacts
  <2>2. QED
    BY <2>1, SameStatus DEF Life!Next, Life!Begin
<1>3. CASE Finish(j)
  <2>1. work[j] \in Work
    BY DEF LocalInv, LocalTypeOK
  <2>2. PICK r \in Row : r = Finished(work[j]) /\ r.status \in Life!Ends
    BY <2>1, FinishedFacts DEF Ended, Life!Ends
  <2>3. row = row' \/ row' = [row EXCEPT ![j] = r]
    BY <1>3, <2>2, FinishMoves
  <2>4. row = row' \/ Life!Become(j, "running", r.status)
    BY <1>3, <2>3, FinishMoves, OneStatus
  <2>5. QED
    BY <2>2, <2>4, SameStatus DEF Life!Next, Life!End
<1>4. CASE Save(j)
  <2>1. \A k \in Jobs : row'[k].status = row[k].status
    BY <1>4, SaveMoves DEF Moves
  <2>2. QED
    BY <2>1, SameStatus
<1>5. CASE Stamp(j) \/ Report(j) \/ Return(j) \/ Find(j)
  <2>1. row' = row
    BY <1>5 DEF Stamp, Report, Return, Find
  <2>2. QED
    BY <2>1, SameStatus
<1>6. QED
  BY <1>1, <1>2, <1>3, <1>4, <1>5 DEF JobStep

LEMMA RestartRefines ==
  ASSUME LocalInv, Restart
  PROVE  [Life!Next]_([k \in Jobs |-> row[k].status])
<1>1. CASE row' = row
  BY <1>1, SameStatus
<1>2. CASE row' = [j \in Jobs |-> Absent]
  <2>1. [k \in Jobs |-> row'[k].status] = [k \in Jobs |-> "absent"]
    BY <1>2, RowFacts
  <2>2. QED
    BY <2>1 DEF Life!Next, Life!Forget
<1>3. QED
  BY <1>1, <1>2 DEF Restart

LEMMA LocalNextRefines ==
  ASSUME LocalInv, [LocalNext]_localVars
  PROVE  [Life!Next]_([j \in Jobs |-> row[j].status])
<1>1. CASE UNCHANGED localVars
  BY <1>1, SameStatus DEF localVars
<1>2. QED
  BY <1>1, JobStepRefines, RestartRefines DEF LocalNext

\* The jobs live as a reader of the list expects: nothing changes a job that
\* has ended, whatever fails or is reported late.
THEOREM LocalJobsImplementLife == LocalSpec => LocalImplementsLife
<1>1. LocalInit => Life!Init
  <2> SUFFICES ASSUME LocalInit PROVE Life!Init
    OBVIOUS
  <2>1. row \in [Jobs -> Row]
    BY LocalInitHolds DEF LocalInv, LocalTypeOK
  <2>2. QED
    BY <2>1 DEF Life!Init, Life!Statuses, Life!Ends, Row, Ended
<1>2. LocalInv /\ [LocalNext]_localVars => [Life!Next]_([j \in Jobs |-> row[j].status])
  BY LocalNextRefines
<1>3. QED
  BY <1>1, <1>2, LocalInvariantHolds, PTL DEF LocalSpec, LocalImplementsLife, Life!Spec
-----------------------------------------------------------------------------
(* Progress.                                                                *)

\* While every call has been answered, the copy a goroutine writes from is its
\* row, and the row is no further than the last report.
Unfailing == store = "memory" \/ faults = 0

ProgressOf(j) ==
  /\ work[j].at \in {"idle", "insert", "begin"} => row[j].percent = 0
  /\ work[j].at \in {"execute", "save"} => row[j].percent <= Starting + work[j].report
  /\ work[j].at \in {"save", "finish"} => work[j].copy = row[j]

ProgressInv == Unfailing => \A j \in Jobs : ProgressOf(j)

Percents(j) ==
  /\ row[j].percent \in 0..Full /\ work[j].report \in 0..Reports
  /\ Starting = 1 /\ Full = Reports + 2 /\ Reports \in Nat

LEMMA PercentFacts ==
  ASSUME LocalTypeOK, NEW j \in Jobs
  PROVE  Percents(j)
BY LocalAssumption DEF Percents, LocalTypeOK, Row, Work, Starting, Full

\* A call that fails ends what is claimed; before it nothing had failed, or jobs
\* are in memory.
LEMMA UnfailingStep ==
  ASSUME LocalTypeOK, ProgressInv, store' = store, Unfailing',
         faults' = faults \/ Fault
  PROVE  /\ Unfailing
         /\ \A j \in Jobs : ProgressOf(j)
         /\ ~CallFails
<1>1. faults \in Nat /\ (Fault => faults' = faults + 1)
  BY LocalAssumption DEF LocalTypeOK, Fault
<1>2. Unfailing
  BY <1>1 DEF Unfailing
<1>3. ~CallFails
  BY <1>1 DEF CallFails, Unfailing
<1>4. QED
  BY <1>2, <1>3 DEF ProgressInv

\* Job j keeps its progress, and only j moves.
LEMMA ProgressMoves ==
  ASSUME LocalInv, ProgressInv, NEW j \in Jobs, Stamp(j) \/ JobStep(j)
  PROVE  ProgressInv'
<1> SUFFICES ASSUME Unfailing' PROVE \A k \in Jobs : ProgressOf(k)'
  BY DEF ProgressInv
<1>1. Moves(j)
  BY StampMoves, InsertMoves, BeginMoves, ReportMoves, SaveMoves, ReturnMoves,
     FindMoves, FinishMoves DEF JobStep
<1>2. LocalTypeOK /\ store' = store /\ (faults' = faults \/ Fault)
  BY <1>1 DEF LocalInv, Moves, JobStep, Stamp, Insert, Begin, Report, Save, Return, Find, Finish,
              WriteOrReturn, CallFails
<1>3. ProgressOf(j) /\ ~CallFails /\ \A k \in Jobs : ProgressOf(k)
  BY <1>2, UnfailingStep
<1>4. ASSUME NEW k \in Jobs, k # j PROVE ProgressOf(k)'
  BY <1>1, <1>3, <1>4 DEF Moves, ProgressOf
<1>5. work \in [Jobs -> Work] /\ row \in [Jobs -> Row] /\ Percents(j)
  BY <1>2, PercentFacts DEF LocalTypeOK
<1>6. ProgressOf(j)'
  <2>1. CASE Stamp(j)
    <3>1. work'[j] = [At("insert") EXCEPT !.report = work[j].report] /\ row' = row
      BY <1>5, <2>1 DEF Stamp, Goto
    <3>2. work'[j].at = "insert" /\ work[j].at = "idle"
      BY <2>1, <3>1 DEF Stamp, At
    <3>3. QED
      BY <1>3, <3>1, <3>2 DEF ProgressOf
  <2>2. CASE Insert(j)
    <3>1. row'[j] = Queued /\ work'[j] = At("begin")
      BY <1>3, <1>5, <2>2 DEF Insert, WriteOrReturn
    <3>2. QED
      BY <3>1 DEF ProgressOf, At, Queued
  <2>3. CASE Begin(j)
    <3>1. row'[j] = Running /\ work'[j] = At("execute")
      BY <1>3, <1>5, <2>3 DEF Begin, WriteOrReturn
    <3>2. QED
      BY <3>1 DEF ProgressOf, At, Running, Starting
  <2>4. CASE Report(j)
    <3>1. /\ work'[j] = [work[j] EXCEPT !.at = "save", !.report = work[j].report + 1, !.copy = row[j]]
          /\ row' = row /\ work[j].at = "execute"
      BY <1>3, <1>5, <2>4 DEF Report
    <3>2. work'[j].at = "save" /\ work'[j].report = work[j].report + 1 /\ work'[j].copy = row[j]
      BY <1>5, <3>1 DEF Work
    <3>3. QED
      BY <1>3, <1>5, <3>1, <3>2 DEF ProgressOf, Percents
  <2>5. CASE Save(j)
    <3>1. /\ row'[j] = [work[j].copy EXCEPT !.percent = Starting + work[j].report]
          /\ work'[j] = [At("execute") EXCEPT !.report = work[j].report]
          /\ work[j].copy \in Row
      BY <1>3, <1>5, <2>5 DEF Save, Goto, Work
    <3>2. /\ row'[j].percent = Starting + work[j].report
          /\ work'[j].at = "execute" /\ work'[j].report = work[j].report
      BY <3>1 DEF Row, At
    <3>3. QED
      BY <1>5, <3>2 DEF ProgressOf, Percents
  <2>6. CASE Return(j)
    <3>1. PICK outcome \in Ended : work'[j] = [At("find") EXCEPT !.outcome = outcome]
      BY <1>5, <2>6 DEF Return
    <3>2. QED
      BY <3>1 DEF ProgressOf, At
  <2>7. CASE Find(j)
    <3>1. work'[j] = [work[j] EXCEPT !.at = "finish", !.copy = row[j]] /\ row' = row
      BY <1>3, <1>5, <2>7 DEF Find
    <3>2. work'[j].at = "finish" /\ work'[j].copy = row[j]
      BY <1>5, <3>1 DEF Work
    <3>3. QED
      BY <3>1, <3>2 DEF ProgressOf
  <2>8. CASE Finish(j)
    <3>1. work'[j] = At("gone")
      BY <1>3, <1>5, <2>8 DEF Finish, WriteOrReturn
    <3>2. QED
      BY <3>1 DEF ProgressOf, At
  <2>9. QED
    BY <2>1, <2>2, <2>3, <2>4, <2>5, <2>6, <2>7, <2>8 DEF JobStep
<1>7. QED
  BY <1>4, <1>6

LEMMA ProgressRestart ==
  ASSUME LocalInv, ProgressInv, Restart
  PROVE  ProgressInv'
<1> SUFFICES ASSUME Unfailing', NEW j \in Jobs PROVE ProgressOf(j)'
  BY DEF ProgressInv
<1>1. store = "memory"
  BY LocalAssumption DEF LocalInv, LocalTypeOK, Restart, Fault, Unfailing
<1>2. row'[j] = Absent
  BY <1>1 DEF Restart
<1>3. work'[j].at \in {"idle", "gone"}
  BY DEF Restart, Alive, At
<1>4. QED
  BY <1>2, <1>3 DEF ProgressOf, Absent

\* What a step does to the progress of a job.
LEMMA StepKeepsProgress ==
  ASSUME LocalInv, ProgressInv, [LocalNext]_localVars, NEW k \in Jobs,
         row[k].percent > row'[k].percent
  PROVE  row'[k] = Absent \/ (faults > 0 /\ store = "postgres")
<1>1. LocalTypeOK /\ Percents(k) /\ faults \in Nat /\ row \in [Jobs -> Row] /\ work \in [Jobs -> Work]
  BY PercentFacts, LocalAssumption DEF LocalInv, LocalTypeOK
<1>2. CASE UNCHANGED localVars
  BY <1>1, <1>2 DEF localVars, Percents
<1>3. CASE Restart
  <2>1. row'[k] = Absent \/ row'[k] = row[k]
    BY <1>3 DEF Restart
  <2>2. QED
    BY <1>1, <2>1 DEF Percents
<1>4. ASSUME NEW j \in Jobs, Stamp(j) \/ JobStep(j), Unfailing PROVE FALSE
  <2>1. ProgressOf(j) /\ Moves(j)
    BY <1>4, StampMoves, InsertMoves, BeginMoves, ReportMoves, SaveMoves, ReturnMoves,
       FindMoves, FinishMoves DEF JobStep, ProgressInv
  <2>2. k = j /\ row'[k] # row[k]
    BY <1>1, <2>1 DEF Moves, Percents
  <2>3. CASE Insert(j) \/ Begin(j)
    <3>1. row[j].percent = 0
      BY <2>1, <2>3 DEF ProgressOf, Insert, Begin
    <3>2. row'[j] \in {row[j], Queued, Running}
      BY <1>1, <2>3 DEF Insert, Begin, WriteOrReturn
    <3>3. QED
      BY <2>2, <3>1, <3>2 DEF Queued, Running, Starting
  <2>4. CASE Save(j)
    <3>1. row'[j] = [work[j].copy EXCEPT !.percent = Starting + work[j].report]
      BY <1>1, <2>2, <2>4 DEF Save
    <3>2. row[j].percent <= Starting + work[j].report
      BY <2>1, <2>4 DEF ProgressOf, Save
    <3>3. row'[j].percent = Starting + work[j].report
      BY <1>1, <3>1 DEF Work, Row
    <3>4. QED
      BY <1>1, <2>2, <3>2, <3>3 DEF Percents
  <2>5. CASE Finish(j)
    <3>1. work[j].copy = row[j] /\ row[j] \in Row
      BY <1>1, <2>1, <2>5 DEF ProgressOf, Finish
    <3>2. row'[j] = Finished(work[j])
      BY <1>1, <2>2, <2>5 DEF Finish, WriteOrReturn
    <3>3. Finished(work[j]).percent \in {Full, row[j].percent}
      BY <3>1 DEF Finished, Row
    <3>4. QED
      BY <1>1, <2>2, <3>2, <3>3 DEF Percents
  <2>6. CASE Stamp(j) \/ Report(j) \/ Return(j) \/ Find(j)
    BY <2>2, <2>6 DEF Stamp, Report, Return, Find
  <2>7. QED
    BY <1>4, <2>3, <2>4, <2>5, <2>6 DEF JobStep
<1>5. Unfailing \/ (faults > 0 /\ store = "postgres")
  BY <1>1, LocalAssumption DEF Unfailing, LocalTypeOK
<1>6. QED
  BY <1>2, <1>3, <1>4, <1>5 DEF LocalNext

\* Progress never falls while PostgreSQL answers, for any jobs, reports and
\* restarts.
THEOREM ProgressIsAlwaysKept == LocalSpec => ProgressIsKept
<1>1. LocalInit => ProgressInv
  <2> SUFFICES ASSUME LocalInit, NEW j \in Jobs PROVE ProgressOf(j)
    BY DEF ProgressInv
  <2>1. work[j].at = (IF j \in Old THEN "gone" ELSE "idle") /\ (j \notin Old => row[j] = Absent)
    BY DEF LocalInit, At
  <2>2. QED
    BY <2>1 DEF ProgressOf, Absent
<1>2. LocalInv /\ ProgressInv /\ [LocalNext]_localVars => ProgressInv'
  <2>1. ASSUME UNCHANGED localVars, ProgressInv PROVE ProgressInv'
    BY <2>1 DEF localVars, ProgressInv, ProgressOf, Unfailing
  <2>2. QED
    BY <2>1, ProgressMoves, ProgressRestart DEF LocalNext
<1>3. LocalInv /\ ProgressInv /\ [LocalNext]_localVars =>
        [\A j \in Jobs :
           row[j].percent > row'[j].percent =>
             \/ row'[j] = Absent
             \/ faults > 0 /\ store = "postgres"]_localVars
  BY StepKeepsProgress
<1>4. QED
  BY <1>1, <1>2, <1>3, LocalInvariantHolds, PTL DEF LocalSpec, ProgressIsKept

-----------------------------------------------------------------------------
(* Sorting.                                                                 *)

\* How many elements of S come before x in the order R.
Rank(S, R, x) == Cardinality({y \in S : <<y, x>> \in R})

\* In a finite set with a strict order that is total, the ranks are those of a
\* sequence: each from 0 on is somebody's.
LEMMA Ranks ==
  ASSUME NEW S, IsFiniteSet(S), NEW R,
         \A x \in S : <<x, x>> \notin R,
         \A x, y, z \in S : <<x, y>> \in R /\ <<y, z>> \in R => <<x, z>> \in R,
         \A x, y \in S : x = y \/ <<x, y>> \in R \/ <<y, x>> \in R
  PROVE  /\ Cardinality(S) \in Nat
         /\ \A x \in S : Rank(S, R, x) \in 0 .. Cardinality(S) - 1
         /\ \A x, y \in S : <<x, y>> \in R <=> Rank(S, R, x) < Rank(S, R, y)
         /\ \A k \in 1 .. Cardinality(S) : \E x \in S : Rank(S, R, x) = k - 1
<1> DEFINE n == Cardinality(S)
<1> DEFINE Below(x) == {y \in S : <<y, x>> \in R}
<1>1. n \in Nat
  BY FS_CardinalityType
<1>f. PICK f : f = [x \in S |-> Cardinality(Below(x))]
  OBVIOUS
<1>r. \A x \in S : f[x] = Rank(S, R, x)
  BY <1>f DEF Rank
<1>2. ASSUME NEW x \in S PROVE IsFiniteSet(Below(x)) /\ f[x] = Cardinality(Below(x)) /\ f[x] \in Nat
  BY <1>f, FS_Subset, FS_CardinalityType
<1>3. ASSUME NEW x \in S PROVE f[x] \in 0 .. n - 1
  <2> DEFINE B == Below(x)
  <2>1. B \in SUBSET S /\ B # S
    OBVIOUS
  <2>2. /\ IsFiniteSet(B) /\ f[x] = Cardinality(B) /\ f[x] \in Nat
    BY <1>2
  <2> HIDE DEF B
  <2>3. Cardinality(B) <= Cardinality(S) /\ Cardinality(S) # Cardinality(B)
    BY <2>1, FS_Subset
  <2>4. QED
    BY <1>1, <2>2, <2>3
<1>4. ASSUME NEW x \in S, NEW y \in S, <<x, y>> \in R
      PROVE  f[x] < f[y]
  <2> DEFINE B == Below(x)
  <2> DEFINE C == Below(y)
  <2>1. B \in SUBSET C /\ B # C
    BY <1>4
  <2>2. /\ IsFiniteSet(C) /\ f[x] = Cardinality(B) /\ f[x] \in Nat
        /\ f[y] = Cardinality(C) /\ f[y] \in Nat
    BY <1>2
  <2> HIDE DEF B, C
  <2>3. Cardinality(B) <= Cardinality(C) /\ Cardinality(C) # Cardinality(B)
    BY <2>1, <2>2, FS_Subset
  <2>4. QED
    BY <2>2, <2>3
<1>5. \A x \in S : f[x] \in Nat
  BY <1>2
<1>6. ASSUME NEW x \in S, NEW y \in S PROVE <<x, y>> \in R <=> f[x] < f[y]
  <2>1. f[x] \in Nat /\ f[y] \in Nat
    BY <1>5
  <2>2. CASE x = y
    BY <2>1, <2>2
  <2>3. CASE <<x, y>> \in R
    BY <1>4, <2>3
  <2>4. CASE <<y, x>> \in R
    <3>1. f[y] < f[x]
      BY <1>4, <2>4
    <3>2. ~(f[x] < f[y])
      BY <2>1, <3>1
    <3>3. <<x, y>> \notin R
      BY <1>4, <3>2
    <3>4. QED
      BY <3>2, <3>3
  <2>5. QED
    BY <2>2, <2>3, <2>4
<1>7. \A k \in 1 .. n : \E x \in S : f[x] = k - 1
  <2>1. f \in [S -> 0 .. n - 1]
    BY <1>f, <1>3
  <2>2. ASSUME NEW x \in S, NEW y \in S, f[x] = f[y] PROVE x = y
    BY <1>5, <1>6, <2>2
  <2>3. f \in Injection(S, 0 .. n - 1)
    BY <2>1, <2>2 DEF Injection, IsInjective
  <2>4. 0 \in Int /\ n - 1 \in Int
    BY <1>1
  <2>5. IsFiniteSet(0 .. n - 1) /\ Cardinality(0 .. n - 1) = n
    BY <1>1, <2>4, FS_Interval
  <2>6. f \in Surjection(S, 0 .. n - 1)
    BY <2>3, <2>5, FS_Injection
  <2>7. \A i \in 0 .. n - 1 : \E x \in S : f[x] = i
    BY <2>6 DEF Surjection
  <2>8. QED
    BY <1>1, <2>7
<1>8. QED
  BY <1>1, <1>r, <1>3, <1>6, <1>7

-----------------------------------------------------------------------------
(* Pages.                                                                   *)

\* The jobs that have been given a time of creation.
Stamped == {j \in Jobs : created[j] # Never}

\* The wall clock was not set back between two jobs that there are.
StampsAgree ==
  \A j, k \in Stamped : created[j].mono < created[k].mono <=> created[j].wall < created[k].wall

\* The list is in the order of its cursors.
Orderly == store = "postgres" \/ StampsAgree

TimesOK ==
  /\ store \in {"memory", "postgres"}
  /\ created \in [Jobs -> Time]

\* Whoever is listed, or about to be, has a time.
ListedAreStamped ==
  \A j \in Jobs :
    /\ work[j].at = "idle" => created[j] = Never
    /\ row[j] # Absent \/ work[j].at \notin {"idle", "gone"} => created[j] # Never

\* The order of the cursors.
Above(a, b) ==
  \/ created[a].wall > created[b].wall
  \/ created[a].wall = created[b].wall /\ a > b

LEMMA TimeFacts ==
  ASSUME TimesOK, NEW j \in Jobs
  PROVE  created[j].wall \in Nat /\ created[j].mono \in Nat /\ j \in Nat
<1>1. created[j] \in Time
  BY DEF TimesOK
<1>2. MaxTime \in Nat /\ j \in Nat
  BY PagesAssumption, LocalAssumption
<1>3. QED
  BY <1>1, <1>2 DEF Time

\* The order of the list is total, whatever the clocks did.
LEMMA NewerIsTotal ==
  ASSUME TimesOK
  PROVE  /\ \A a \in Jobs : ~Newer(a, a)
         /\ \A a, b, c \in Jobs : Newer(a, b) /\ Newer(b, c) => Newer(a, c)
         /\ \A a, b \in Jobs : a = b \/ Newer(a, b) \/ Newer(b, a)
<1>1. \A j \in Jobs : Reading(j) \in Nat /\ j \in Nat
  BY TimeFacts DEF Reading
<1>2. QED
  BY <1>1 DEF Newer

\* And of the cursors, if the list is orderly, it is the order of the list.
LEMMA OrderlyFacts ==
  ASSUME TimesOK, Orderly, NEW a \in Stamped, NEW b \in Stamped
  PROVE  Newer(a, b) <=> Above(a, b)
<1>1. a \in Jobs /\ b \in Jobs
  BY DEF Stamped
<1>2. /\ created[a].wall \in Nat /\ created[a].mono \in Nat
      /\ created[b].wall \in Nat /\ created[b].mono \in Nat
  BY <1>1, TimeFacts
<1>3. CASE store = "postgres"
  BY <1>3 DEF Newer, Above, Reading
<1>4. CASE store = "memory" /\ StampsAgree
  <2>1. /\ created[a].mono < created[b].mono <=> created[a].wall < created[b].wall
        /\ created[b].mono < created[a].mono <=> created[b].wall < created[a].wall
    BY <1>4 DEF StampsAgree
  <2>2. Reading(a) = created[a].mono /\ Reading(b) = created[b].mono
    BY <1>4 DEF Reading
  <2>3. QED
    BY <1>2, <2>1, <2>2 DEF Newer, Above
<1>5. QED
  BY <1>3, <1>4 DEF Orderly, TimesOK

\* The list of the jobs of S.
Listed(S) == Sorted(S, Newer)

\* The list of any jobs has each of them once, the newest first.
LEMMA SortedFacts ==
  ASSUME TimesOK, NEW S \in SUBSET Jobs, NEW q, q = Listed(S)
  PROVE  /\ q \in Seq(S)
         /\ \A k, l \in 1 .. Len(q) : k < l => Newer(q[k], q[l])
         /\ \A x \in S : \E k \in 1 .. Len(q) : q[k] = x
<1> DEFINE R == {p \in S \X S : Newer(p[1], p[2])}
<1> DEFINE n == Cardinality(S)
<1>1. IsFiniteSet(S)
  BY PagesAssumption, FS_Subset
<1>2. \A x, y \in S : <<x, y>> \in R <=> Newer(x, y)
  OBVIOUS
<1>3. \A x \in S : {y \in S : Newer(y, x)} = {y \in S : <<y, x>> \in R}
  BY <1>2
<1>4. q = [k \in 1 .. n |-> CHOOSE x \in S : Rank(S, R, x) = k - 1]
  <2>1. \A x \in S : Cardinality({y \in S : Newer(y, x)}) = Rank(S, R, x)
    BY <1>3 DEF Rank
  <2>2. \A k : (CHOOSE x \in S : Cardinality({y \in S : Newer(y, x)}) = k - 1)
             = (CHOOSE x \in S : Rank(S, R, x) = k - 1)
    BY <2>1
  <2>3. q = [k \in 1 .. n |-> CHOOSE x \in S : Cardinality({y \in S : Newer(y, x)}) = k - 1]
    BY DEF Listed, Sorted
  <2>4. QED
    BY <2>2, <2>3
<1>5. /\ \A x \in S : <<x, x>> \notin R
      /\ \A x, y, z \in S : <<x, y>> \in R /\ <<y, z>> \in R => <<x, z>> \in R
      /\ \A x, y \in S : x = y \/ <<x, y>> \in R \/ <<y, x>> \in R
  BY <1>2, NewerIsTotal
<1> HIDE DEF R
<1>6. /\ n \in Nat
      /\ \A x \in S : Rank(S, R, x) \in 0 .. n - 1
      /\ \A x, y \in S : <<x, y>> \in R <=> Rank(S, R, x) < Rank(S, R, y)
      /\ \A k \in 1 .. n : \E x \in S : Rank(S, R, x) = k - 1
  BY <1>1, <1>5, Ranks
<1> HIDE DEF n
<1>7. \A k \in 1 .. n : q[k] \in S /\ Rank(S, R, q[k]) = k - 1
  BY <1>4, <1>6
<1>8. DOMAIN q = 1 .. n /\ q \in [1 .. n -> S]
  BY <1>4, <1>7
<1>9. q \in Seq(S) /\ Len(q) = n
  BY <1>6, <1>8
<1>10. ASSUME NEW k \in 1 .. n, NEW l \in 1 .. n, k < l PROVE Newer(q[k], q[l])
  <2>1. /\ q[k] \in S /\ q[l] \in S
        /\ Rank(S, R, q[k]) = k - 1 /\ Rank(S, R, q[l]) = l - 1
    BY <1>7
  <2>2. k \in Int /\ l \in Int /\ Rank(S, R, q[k]) < Rank(S, R, q[l])
    BY <1>6, <1>10, <2>1
  <2>3. QED
    BY <1>2, <1>6, <2>1, <2>2
<1>11. ASSUME NEW x \in S PROVE \E k \in 1 .. n : q[k] = x
  <2>1. PICK k \in 1 .. n : Rank(S, R, x) = k - 1
    BY <1>6
  <2>2. q[k] \in S /\ Rank(S, R, q[k]) = k - 1
    BY <1>7
  <2>3. q[k] = x
    <3>1. <<q[k], x>> \notin R /\ <<x, q[k]>> \notin R
      BY <1>6, <2>1, <2>2
    <3>2. QED
      BY <1>5, <2>2, <3>1
  <2>4. QED
    BY <2>3
<1>12. QED
  BY <1>9, <1>10, <1>11

LEMMA LimitFacts == Limit \in Nat /\ Limit >= 1
<1>1. Limit \in Nat /\ Limit # 0
  BY PagesAssumption
<1>2. QED
  BY <1>1

\* A page is the first of what follows the cursor: all of it if it is not full,
\* and else nothing of it comes before the last of the page.
LEMMA PageFacts ==
  ASSUME TimesOK, NEW filter, NEW cursor, NEW page, page = Page(filter, cursor)
  PROVE  LET S == {j \in Matching(filter) : After(j, cursor)} IN
         /\ page \in Seq(S)
         /\ Len(page) <= Limit
         /\ \A k, l \in 1 .. Len(page) : k < l => Newer(page[k], page[l])
         /\ Len(page) # Limit => \A x \in S : \E k \in 1 .. Len(page) : page[k] = x
         /\ Len(page) = Limit =>
              \A x \in S : \/ \E k \in 1 .. Len(page) : page[k] = x
                           \/ Newer(page[Len(page)], x)
<1> DEFINE S == {j \in Matching(filter) : After(j, cursor)}
<1>1. S \in SUBSET Jobs
  BY DEF Matching
<1>2. PICK q : q = Listed(S)
  OBVIOUS
<1> DEFINE m == IF Len(q) < Limit THEN Len(q) ELSE Limit
<1>3. page = SubSeq(q, 1, m)
  BY <1>2 DEF Page, Listed, Sorted
<1> HIDE DEF S
<1>4. /\ q \in Seq(S)
      /\ \A k, l \in 1 .. Len(q) : k < l => Newer(q[k], q[l])
      /\ \A x \in S : \E k \in 1 .. Len(q) : q[k] = x
  BY <1>1, <1>2, SortedFacts
<1>5. Len(q) \in Nat /\ Limit \in Nat /\ Limit >= 1
  <2>1. q \in Seq(S)
    BY <1>4
  <2>2. Len(q) \in Nat
    BY <2>1
  <2>3. QED
    BY <2>2, LimitFacts
<1>6. m \in 0 .. Len(q) /\ m <= Limit /\ (m = Limit \/ m = Len(q)) /\ page = SubSeq(q, 1, m)
      /\ (m # Limit => m = Len(q)) /\ m \in Nat
  BY <1>3, <1>5
<1> HIDE DEF m
<1>7. page \in Seq(S) /\ Len(page) = m /\ \A k \in 1 .. m : page[k] = q[k]
  BY <1>4, <1>5, <1>6
<1>8. ASSUME NEW k \in 1 .. m, NEW l \in 1 .. m, k < l PROVE Newer(page[k], page[l])
  <2>1. k \in 1 .. Len(q) /\ l \in 1 .. Len(q)
    BY <1>5, <1>6
  <2>2. Newer(q[k], q[l]) /\ page[k] = q[k] /\ page[l] = q[l]
    BY <1>4, <1>7, <1>8, <2>1
  <2>3. QED
    BY <2>2
<1>9. ASSUME NEW x \in S
      PROVE  \/ \E k \in 1 .. m : page[k] = x
             \/ m = Limit /\ Newer(page[m], x)
  <2>1. PICK k \in 1 .. Len(q) : q[k] = x
    BY <1>4
  <2>2. CASE k <= m
    BY <1>6, <1>7, <2>1, <2>2
  <2>3. CASE k > m
    <3>1. m = Limit /\ m \in 1 .. Len(q) /\ m < k
      BY <1>5, <1>6, <2>3
    <3>2. Newer(q[m], q[k])
      BY <1>4, <1>5, <2>1, <3>1
    <3>3. page[m] = q[m]
      BY <1>7, <3>1, <1>5
    <3>4. QED
      BY <2>1, <3>1, <3>2, <3>3
  <2>4. QED
    BY <1>5, <1>6, <2>2, <2>3
<1>10. QED
  BY <1>6, <1>7, <1>8, <1>9 DEF S


-----------------------------------------------------------------------------
(* Steps.                                                                   *)

Kinds == {"start", "cursor", "before"}
Client == [at : {"idle", "paging"}, filter : Filters \cup {""}, by : {"cursor", "before"},
           cursor : [wall : Nat, id : Nat, by : Kinds], shown : Seq(Jobs)]

\* What the client has been shown descends in the order of the cursors.
ShownInOrder ==
  \A k, l \in 1 .. Len(client.shown) : k < l => Above(client.shown[k], client.shown[l])

\* A job that matched all along was shown or is still to come, unless a client
\* that goes by times was shown another of its time.
Passed(j) ==
  \/ \E k \in 1 .. Len(client.shown) : client.shown[k] = j
  \/ After(j, client.cursor)
  \/ /\ client.by = "before"
     /\ \E k \in 1 .. Len(client.shown) : created[client.shown[k]].wall = created[j].wall
NothingPassedOver == \A j \in steady : Passed(j)

ReaderInv ==
  client.at = "paging" =>
    /\ steady \subseteq Matching(client.filter)
    /\ \A k \in 1 .. Len(client.shown) : client.shown[k] \in Stamped
    /\ client.shown = <<>> => client.cursor = NoCursor
    /\ client.shown # <<>> => client.cursor = CursorAfter(client.shown)
    /\ Orderly => ShownInOrder /\ NothingPassedOver

TimesInv == LocalInv /\ TimesOK /\ ListedAreStamped

PageInv == TimesInv /\ client \in Client /\ ReaderInv

\* The latest reading of some is one of theirs.
LEMMA MaxFacts ==
  ASSUME NEW T \in SUBSET Nat, IsFiniteSet(T), T # {}
  PROVE  Max(T) \in Nat
<1> DEFINE R == {p \in T \X T : p[1] > p[2]}
<1> DEFINE n == Cardinality(T)
<1>1. \A x, y \in T : <<x, y>> \in R <=> x > y
  OBVIOUS
<1>2. /\ \A x \in T : <<x, x>> \notin R
      /\ \A x, y, z \in T : <<x, y>> \in R /\ <<y, z>> \in R => <<x, z>> \in R
      /\ \A x, y \in T : x = y \/ <<x, y>> \in R \/ <<y, x>> \in R
  BY <1>1
<1> HIDE DEF R
<1>3. /\ n \in Nat
      /\ \A x \in T : Rank(T, R, x) \in 0 .. n - 1
      /\ \A x, y \in T : <<x, y>> \in R <=> Rank(T, R, x) < Rank(T, R, y)
      /\ \A k \in 1 .. n : \E x \in T : Rank(T, R, x) = k - 1
  BY <1>2, Ranks
<1>4. n # 0
  BY FS_EmptySet
<1> HIDE DEF n
<1>5. 1 \in 1 .. n
  BY <1>3, <1>4
<1>6. PICK x \in T : Rank(T, R, x) = 1 - 1
  BY <1>3, <1>5
<1>7. ASSUME NEW y \in T PROVE x >= y
  <2>1. <<y, x>> \notin R
    BY <1>3, <1>6
  <2>2. QED
    BY <1>1, <2>1
<1>8. Max(T) \in T
  BY <1>7 DEF Max
<1>9. QED
  BY <1>8

\* A step of a job is one of a job that is alive, and nobody goes back.
LEMMA JobStepFacts ==
  ASSUME LocalInv, NEW j \in Jobs, JobStep(j)
  PROVE  Alive(j) /\ work'[j].at # "idle"
<1>1. work \in [Jobs -> Work] /\ \A p \in Places : At(p).at = p
  BY AtFacts DEF LocalInv, LocalTypeOK
<1>2. {"gone", "begin", "execute"} \subseteq Places
  BY DEF Places
<1>3. ASSUME NEW r, NEW then \in {"gone", "begin", "execute"}, WriteOrReturn(j, r, then)
      PROVE  work'[j].at # "idle"
  BY <1>1, <1>2, <1>3 DEF WriteOrReturn, Leave
<1>4. CASE Insert(j) \/ Begin(j) \/ Finish(j)
  BY <1>3, <1>4 DEF Insert, Begin, Finish, Alive
<1>5. CASE Report(j) \/ Find(j)
  BY <1>1, <1>5 DEF Report, Find, Alive, Work
<1>6. CASE Return(j)
  <2>1. PICK outcome \in Ended : work'[j] = [At("find") EXCEPT !.outcome = outcome]
    BY <1>1, <1>6 DEF Return
  <2>2. QED
    BY <1>6, <2>1 DEF Return, At, Alive
<1>7. CASE Save(j)
  <2>1. work'[j] = [At("execute") EXCEPT !.report = work[j].report]
    BY <1>1, <1>7 DEF Save, Goto
  <2>2. QED
    BY <1>7, <2>1 DEF Save, At, Alive
<1>8. QED
  BY <1>4, <1>5, <1>6, <1>7 DEF JobStep

\* The jobs of a reader live by LocalNext.
LEMMA PagesNextIsLocal ==
  ASSUME [PagesNext]_<<localVars, pageVars>>
  PROVE  [LocalNext]_localVars
<1>1. ASSUME NEW j \in Jobs, StampNow(j) PROVE LocalNext
  BY <1>1 DEF StampNow, LocalNext
<1>2. CASE OtherJobStep
  BY <1>2 DEF OtherJobStep, LocalNext
<1>3. CASE Open \/ ReadPage
  BY <1>3 DEF Open, ReadPage
<1>4. CASE UNCHANGED <<localVars, pageVars>>
  BY <1>4
<1>5. QED
  BY <1>1, <1>2, <1>3, <1>4 DEF PagesNext

\* A time once given stays, and before it a job is not in the list.
TimesStay ==
  /\ store' = store
  /\ created' \in [Jobs -> Time]
  /\ ListedAreStamped'
  /\ \A j \in Stamped : created'[j] = created[j]

LEMMA StampNowFacts ==
  ASSUME TimesInv, NEW j \in Jobs, StampNow(j)
  PROVE  TimesStay
<1> DEFINE T == {created[k].mono : k \in Jobs}
<1>1. created \in [Jobs -> Time] /\ work \in [Jobs -> Work] /\ created[j] = Never
      /\ ListedAreStamped
  BY DEF TimesInv, LocalInv, LocalTypeOK, TimesOK, ListedAreStamped, StampNow, Stamp
<1>2. Max(T) \in Nat
  <2>1. T \in SUBSET Nat
    BY <1>1, TimeFacts DEF TimesInv
  <2>2. T # {}
    OBVIOUS
  <2>3. IsFiniteSet(T)
    <3>1. PICK f : f = [k \in Jobs |-> created[k].mono]
      OBVIOUS
    <3>2. f \in Surjection(Jobs, T)
      BY <3>1 DEF Surjection
    <3> HIDE DEF T
    <3>3. IsFiniteSet(Jobs)
      BY PagesAssumption
    <3>4. QED
      BY <3>2, <3>3, FS_Surjection
  <2> HIDE DEF T
  <2>4. QED
    BY <2>1, <2>2, <2>3, MaxFacts
<1>3. PICK wall \in 1..MaxTime, mono \in {Max(T), Max(T) + 1} :
        created' = [created EXCEPT ![j] = [wall |-> wall, mono |-> mono]]
  BY DEF StampNow
<1> HIDE DEF T
<1>4. MaxTime \in Nat
  BY PagesAssumption
<1>5. /\ [wall |-> wall, mono |-> mono] \in Time
      /\ [wall |-> wall, mono |-> mono] # Never
  BY <1>2, <1>4 DEF Time, Never
<1>6. /\ created' \in [Jobs -> Time]
      /\ created'[j] # Never
      /\ \A k \in Jobs \ {j} : created'[k] = created[k]
  BY <1>1, <1>3, <1>5
<1>7. store' = store /\ row' = row
  BY DEF StampNow, Stamp
<1>8. /\ \A k \in Jobs \ {j} : work'[k] = work[k]
      /\ work'[j].at = "insert"
  <2>1. work' = [work EXCEPT ![j] = [At("insert") EXCEPT !.report = work[j].report]]
    BY DEF StampNow, Stamp, Goto
  <2>2. QED
    BY <1>1, <2>1 DEF At
<1>9. ListedAreStamped'
  BY <1>1, <1>6, <1>7, <1>8 DEF ListedAreStamped
<1>10. QED
  BY <1>1, <1>6, <1>7, <1>9 DEF TimesStay, Stamped

LEMMA OtherStepFacts ==
  ASSUME TimesInv, OtherJobStep
  PROVE  TimesStay
<1>1. created' = created /\ created \in [Jobs -> Time] /\ LocalInv /\ ListedAreStamped
  BY DEF OtherJobStep, TimesInv, TimesOK
<1>2. ASSUME NEW j \in Jobs, JobStep(j)
      PROVE  store' = store /\ ListedAreStamped'
  <2>1. Moves(j)
    BY <1>1, <1>2, InsertMoves, BeginMoves, ReportMoves, SaveMoves, ReturnMoves,
       FindMoves, FinishMoves DEF JobStep
  <2>2. Alive(j) /\ work'[j].at # "idle"
    BY <1>1, <1>2, JobStepFacts
  <2>3. /\ store' = store
        /\ \A k \in Jobs \ {j} : row'[k] = row[k] /\ work'[k] = work[k]
    BY <2>1 DEF Moves
  <2>4. created[j] # Never
    BY <1>1, <2>2 DEF ListedAreStamped, Alive
  <2>5. QED
    BY <1>1, <2>2, <2>3, <2>4 DEF ListedAreStamped
<1>3. ASSUME Restart PROVE store' = store /\ ListedAreStamped'
  <2>1. store' = store /\ \A j \in Jobs : row'[j] \in {row[j], Absent}
    BY <1>3 DEF Restart
  <2>2. \A j \in Jobs : work'[j] = work[j] \/ work'[j].at = "gone"
    BY <1>3 DEF Restart, At
  <2>3. ListedAreStamped'
    BY <1>1, <2>1, <2>2 DEF ListedAreStamped
  <2>4. QED
    BY <2>1, <2>3
<1>4. store' = store /\ ListedAreStamped'
  BY <1>2, <1>3 DEF OtherJobStep
<1>5. QED
  BY <1>1, <1>4 DEF TimesStay

LEMMA StepFacts ==
  ASSUME TimesInv, [PagesNext]_<<localVars, pageVars>>
  PROVE  TimesInv' /\ TimesStay
<1>1. ASSUME NEW j \in Jobs, StampNow(j) PROVE TimesStay
  BY <1>1, StampNowFacts
<1>2. ASSUME OtherJobStep PROVE TimesStay
  BY <1>2, OtherStepFacts
<1>3. ASSUME UNCHANGED <<localVars, created>> PROVE TimesStay
  BY <1>3 DEF TimesInv, TimesOK, TimesStay, ListedAreStamped, localVars
<1>4. TimesStay
  BY <1>1, <1>2, <1>3 DEF PagesNext, Open, ReadPage, pageVars
<1>5. LocalInv'
  BY PagesNextIsLocal, LocalNextHolds DEF TimesInv
<1>6. QED
  BY <1>4, <1>5 DEF TimesInv, TimesStay, TimesOK

\* What has a time keeps its place, so a list that is orderly after a step was
\* orderly before.
LEMMA PlacesStay ==
  ASSUME TimesInv, TimesStay
  PROVE  /\ Stamped \subseteq Stamped'
         /\ \A a, b \in Stamped : Above(a, b)' = Above(a, b)
         /\ Orderly' => Orderly
<1>1. /\ store' = store
      /\ \A j \in Stamped : created'[j] = created[j]
  BY DEF TimesStay
<1>2. Stamped \subseteq Stamped'
  BY <1>1 DEF Stamped
<1>3. \A a, b \in Stamped : Above(a, b)' = Above(a, b)
  BY <1>1 DEF Above
<1>4. Orderly' => Orderly
  BY <1>1, <1>2 DEF Orderly, StampsAgree
<1>5. QED
  BY <1>2, <1>3, <1>4

-----------------------------------------------------------------------------
(* The reader.                                                              *)

\* What matches has a time.
LEMMA MatchingIsStamped ==
  ASSUME TimesInv, NEW filter
  PROVE  Matching(filter) \subseteq Stamped
BY DEF TimesInv, ListedAreStamped, Matching, Stamped

LEMMA ConcatFacts ==
  ASSUME NEW s \in Seq(Jobs), NEW t \in Seq(Jobs), NEW both, both = s \o t
  PROVE  /\ both \in Seq(Jobs)
         /\ Len(s) \in Nat /\ Len(t) \in Nat /\ Len(both) = Len(s) + Len(t)
         /\ \A k \in 1 .. Len(s) : k \in 1 .. Len(both) /\ both[k] = s[k]
         /\ \A k \in 1 .. Len(t) : Len(s) + k \in 1 .. Len(both) /\ both[Len(s) + k] = t[k]
         /\ \A k \in 1 .. Len(both) :
              \/ k \in 1 .. Len(s)
              \/ k - Len(s) \in 1 .. Len(t) /\ both[k] = t[k - Len(s)]
OBVIOUS

\* The order of the cursors, on jobs that have a time.
LEMMA AboveFacts ==
  ASSUME TimesOK, NEW a \in Jobs, NEW b \in Jobs, NEW c \in Jobs
  PROVE  /\ ~Above(a, a)
         /\ Above(a, b) /\ Above(b, c) => Above(a, c)
<1>1. /\ created[a].wall \in Nat /\ created[b].wall \in Nat /\ created[c].wall \in Nat
      /\ a \in Nat /\ b \in Nat /\ c \in Nat
  BY TimeFacts
<1>2. QED
  BY <1>1 DEF Above

\* What the client has once it has read a page more, for the property and for
\* the next page alike.
HasRead(page, both) ==
  /\ client.shown \in Seq(Jobs) /\ page \in Seq(Jobs) /\ both \in Seq(Jobs)
  /\ Len(page) \in Nat
  /\ Len(page) # 0 => Len(both) \in 1 .. Len(both) /\ both[Len(both)] = page[Len(page)]
  /\ \A k \in 1 .. Len(both) : both[k] \in Stamped
  /\ Orderly => \A k, l \in 1 .. Len(both) : k < l => Above(both[k], both[l])
  /\ Orderly => \A j \in steady :
       \/ \E k \in 1 .. Len(both) : both[k] = j
       \/ Len(page) = Limit /\ Above(page[Len(page)], j)
       \/ /\ client.by = "before"
          /\ \E k \in 1 .. Len(both) : created[both[k]].wall = created[j].wall

LEMMA PageReads ==
  ASSUME PageInv, client.at = "paging",
         NEW page, page = Page(client.filter, client.cursor),
         NEW both, both = client.shown \o page
  PROVE  HasRead(page, both)
<1> DEFINE S == {j \in Matching(client.filter) : After(j, client.cursor)}
           shown == client.shown
<1>1. /\ TimesInv /\ TimesOK /\ client \in Client
      /\ steady \subseteq Matching(client.filter)
      /\ \A k \in 1 .. Len(shown) : shown[k] \in Stamped
      /\ shown = <<>> => client.cursor = NoCursor
      /\ shown # <<>> => client.cursor = CursorAfter(shown)
      /\ Orderly => ShownInOrder /\ NothingPassedOver
  BY DEF PageInv, ReaderInv, TimesInv
<1>2. shown \in Seq(Jobs) /\ client.by \in {"cursor", "before"}
  BY <1>1 DEF Client
<1>3. S \subseteq Stamped /\ Stamped \subseteq Jobs
  BY <1>1, MatchingIsStamped DEF Stamped
<1>4. /\ page \in Seq(S)
      /\ \A k, l \in 1 .. Len(page) : k < l => Newer(page[k], page[l])
      /\ Len(page) # Limit => \A x \in S : \E k \in 1 .. Len(page) : page[k] = x
      /\ Len(page) = Limit =>
           \A x \in S : \/ \E k \in 1 .. Len(page) : page[k] = x
                        \/ Newer(page[Len(page)], x)
  BY <1>1, PageFacts
<1>5. \A x \in S : After(x, client.cursor)
  OBVIOUS
<1>6. \A x \in steady : After(x, client.cursor) => x \in S
  BY <1>1
<1> HIDE DEF S
<1>7. page \in Seq(Stamped) /\ page \in Seq(Jobs) /\ Len(page) \in Nat
      /\ \A k \in 1 .. Len(page) : page[k] \in S /\ page[k] \in Stamped
  BY <1>3, <1>4
<1> HIDE DEF shown
<1>c. both = shown \o page /\ shown \in Seq(Jobs) /\ page \in Seq(Jobs)
  BY <1>2, <1>7 DEF shown
<1>8. /\ both \in Seq(Jobs)
      /\ Len(shown) \in Nat /\ Len(page) \in Nat /\ Len(both) = Len(shown) + Len(page)
  BY <1>c, ConcatFacts
<1>s. \A k \in 1 .. Len(shown) : k \in 1 .. Len(both) /\ both[k] = shown[k]
  BY <1>c, ConcatFacts
<1>p. \A k \in 1 .. Len(page) : Len(shown) + k \in 1 .. Len(both) /\ both[Len(shown) + k] = page[k]
  BY <1>c, ConcatFacts
<1>b. \A k \in 1 .. Len(both) :
        \/ k \in 1 .. Len(shown)
        \/ k - Len(shown) \in 1 .. Len(page) /\ both[k] = page[k - Len(shown)]
  BY <1>c, ConcatFacts
<1>9. \A k \in 1 .. Len(both) : both[k] \in Stamped
  BY <1>1, <1>7, <1>s, <1>b DEF shown
<1>10. ASSUME Orderly, NEW k \in 1 .. Len(both), NEW l \in 1 .. Len(both), k < l
       PROVE  Above(both[k], both[l])
  <2>1. CASE l \in 1 .. Len(shown)
    <3>1. k \in 1 .. Len(shown)
      BY <1>8, <1>10, <2>1
    <3>2. QED
      BY <1>1, <1>s, <1>10, <2>1, <3>1 DEF ShownInOrder, shown
  <2>2. CASE k \notin 1 .. Len(shown)
    <3>1. /\ k - Len(shown) \in 1 .. Len(page) /\ both[k] = page[k - Len(shown)]
          /\ l - Len(shown) \in 1 .. Len(page) /\ both[l] = page[l - Len(shown)]
          /\ k - Len(shown) < l - Len(shown)
      <4>1. l \notin 1 .. Len(shown)
        BY <1>8, <1>10, <2>2
      <4>2. /\ k - Len(shown) \in 1 .. Len(page) /\ both[k] = page[k - Len(shown)]
            /\ l - Len(shown) \in 1 .. Len(page) /\ both[l] = page[l - Len(shown)]
        BY <1>b, <2>2, <4>1
      <4>3. k - Len(shown) < l - Len(shown)
        BY <1>8, <1>10
      <4>4. QED
        BY <4>2, <4>3
    <3>2. Newer(both[k], both[l])
      BY <1>4, <3>1
    <3>3. QED
      BY <1>1, <1>9, <1>10, <3>2, OrderlyFacts
  <2>3. CASE k \in 1 .. Len(shown) /\ l \notin 1 .. Len(shown)
    <3>1. l - Len(shown) \in 1 .. Len(page) /\ both[l] = page[l - Len(shown)]
      BY <1>b, <2>3
    <3>2. both[l] \in S
      BY <1>7, <3>1
    <3>3. After(both[l], client.cursor) /\ both[l] \in Jobs
      BY <1>3, <1>5, <3>2
    <3>4. Len(shown) \in 1 .. Len(shown) /\ shown # <<>>
      BY <1>2, <1>8, <2>3 DEF shown
    <3>5. PICK z \in Stamped : z = shown[Len(shown)] /\ z = Last(shown)
      BY <1>1, <3>4 DEF Last
    <3>6. client.cursor = [wall |-> created[z].wall, id |-> z, by |-> client.by]
      BY <1>1, <3>4, <3>5 DEF CursorAfter
    <3>7. Above(z, both[l])
      <4>1. z \in Jobs
        BY <1>3, <3>5
      <4>2. /\ created[z].wall \in Nat /\ created[both[l]].wall \in Nat
            /\ z \in Nat /\ both[l] \in Nat
        BY <1>1, <3>3, <4>1, TimeFacts
      <4>3. QED
        BY <1>2, <3>3, <3>6, <4>2 DEF After, Above
    <3>8. both[k] = z \/ Above(both[k], z)
      <4>1. CASE k = Len(shown)
        BY <1>s, <2>3, <3>5, <4>1
      <4>2. CASE k # Len(shown)
        <5>1. k < Len(shown) /\ both[k] = shown[k]
          <6>1. k \in 1 .. Len(shown) /\ k # Len(shown)
            BY <2>3, <4>2
          <6>2. k < Len(shown)
            BY <1>8, <6>1
          <6>3. QED
            BY <1>s, <6>1, <6>2
        <5>2. Above(shown[k], shown[Len(shown)])
          BY <1>1, <1>10, <2>3, <3>4, <5>1 DEF ShownInOrder, shown
        <5>3. QED
          BY <3>5, <5>1, <5>2
      <4>3. QED
        BY <4>1, <4>2
    <3>9. both[k] \in Jobs /\ z \in Jobs
      BY <1>3, <1>9, <3>5
    <3>10. QED
      BY <1>1, <3>3, <3>7, <3>8, <3>9, AboveFacts
  <2>4. QED
    BY <2>1, <2>2, <2>3
<1>11. ASSUME Orderly, NEW j \in steady
       PROVE  \/ \E k \in 1 .. Len(both) : both[k] = j
              \/ Len(page) = Limit /\ Above(page[Len(page)], j)
              \/ /\ client.by = "before"
                 /\ \E k \in 1 .. Len(both) : created[both[k]].wall = created[j].wall
  <2>1. Passed(j)
    BY <1>1, <1>11 DEF NothingPassedOver
  <2>2. CASE \E k \in 1 .. Len(shown) : shown[k] = j
    BY <1>s, <2>2
  <2>3. CASE /\ client.by = "before"
             /\ \E k \in 1 .. Len(shown) : created[shown[k]].wall = created[j].wall
    BY <1>s, <2>3
  <2>4. CASE After(j, client.cursor)
    <3>1. j \in S
      BY <1>6, <2>4
    <3>2. CASE \E k \in 1 .. Len(page) : page[k] = j
      BY <1>p, <3>2
    <3>3. CASE Len(page) = Limit /\ Newer(page[Len(page)], j)
      <4>1. Len(page) \in 1 .. Len(page)
        BY <1>7, <3>3, LimitFacts
      <4>2. page[Len(page)] \in Stamped /\ j \in Stamped
        BY <1>3, <1>7, <3>1, <4>1
      <4>3. QED
        BY <1>1, <1>11, <3>3, <4>2, OrderlyFacts
    <3>4. QED
      BY <1>4, <3>1, <3>2, <3>3
  <2>5. QED
    BY <2>1, <2>2, <2>3, <2>4 DEF Passed, shown
<1>12. ASSUME Len(page) # 0 PROVE Len(both) \in 1 .. Len(both) /\ both[Len(both)] = page[Len(page)]
  <2>1. Len(page) \in 1 .. Len(page)
    BY <1>8, <1>12
  <2>2. QED
    BY <1>8, <1>p, <2>1
<1>13. client.shown \in Seq(Jobs) /\ page \in Seq(Jobs)
  BY <1>2, <1>7 DEF shown
<1>14. QED
  BY <1>7, <1>8, <1>9, <1>10, <1>11, <1>12, <1>13 DEF HasRead

-----------------------------------------------------------------------------
(* The invariant and the property.                                          *)

LEMMA ClientFacts ==
  ASSUME client \in Client
  PROVE  client.shown \in Seq(Jobs) /\ client.by \in {"cursor", "before"}
BY DEF Client

LEMMA ClientReads ==
  ASSUME client \in Client,
         NEW both \in Seq(Jobs), NEW c \in [wall : Nat, id : Nat, by : Kinds],
         client' = [client EXCEPT !.shown = both, !.cursor = c]
  PROVE  /\ client' \in Client
         /\ client'.shown = both /\ client'.cursor = c /\ client'.at = client.at
         /\ client'.filter = client.filter /\ client'.by = client.by
BY DEF Client

LEMMA LastFacts ==
  ASSUME NEW s \in Seq(Jobs), s # <<>>
  PROVE  Len(s) \in 1 .. Len(s) /\ Last(s) = s[Len(s)]
BY DEF Last

LEMMA ReaderWaits ==
  ASSUME PageInv, TimesInv', TimesStay, client' = client,
         client.at = "paging" => steady' \subseteq steady /\ steady' \subseteq Matching(client.filter)'
  PROVE  ReaderInv'
<1> SUFFICES ASSUME client.at = "paging"
             PROVE  /\ steady' \subseteq Matching(client.filter)'
                    /\ \A k \in 1 .. Len(client.shown) : client.shown[k] \in Stamped'
                    /\ client.shown = <<>> => client.cursor = NoCursor
                    /\ client.shown # <<>> => client.cursor = CursorAfter(client.shown)'
                    /\ Orderly' => ShownInOrder' /\ NothingPassedOver'
  BY DEF ReaderInv
<1>1. /\ TimesInv /\ client \in Client
      /\ steady \subseteq Matching(client.filter)
      /\ \A k \in 1 .. Len(client.shown) : client.shown[k] \in Stamped
      /\ client.shown = <<>> => client.cursor = NoCursor
      /\ client.shown # <<>> => client.cursor = CursorAfter(client.shown)
      /\ Orderly => ShownInOrder /\ NothingPassedOver
  BY DEF PageInv, ReaderInv
<1>2. /\ Stamped \subseteq Stamped'
      /\ \A a, b \in Stamped : Above(a, b)' = Above(a, b)
      /\ Orderly' => Orderly
      /\ \A j \in Stamped : created'[j] = created[j]
  BY <1>1, PlacesStay DEF TimesStay
<1>3. \A k \in 1 .. Len(client.shown) : client.shown[k] \in Stamped'
  BY <1>1, <1>2
<1>4. ASSUME client.shown # <<>> PROVE client.cursor = CursorAfter(client.shown)'
  <2>1. Len(client.shown) \in 1 .. Len(client.shown) /\ Last(client.shown) = client.shown[Len(client.shown)]
    BY <1>1, <1>4, ClientFacts, LastFacts
  <2>2. Last(client.shown) \in Stamped
    BY <1>1, <2>1
  <2>3. CursorAfter(client.shown)' = CursorAfter(client.shown)
    BY <1>2, <2>2 DEF CursorAfter
  <2>4. QED
    BY <1>1, <1>4, <2>3
<1>5. ASSUME Orderly' PROVE ShownInOrder'
  BY <1>1, <1>2, <1>5 DEF ShownInOrder
<1>6. ASSUME Orderly', NEW j \in steady' PROVE Passed(j)'
  <2>1. j \in steady /\ j \in Stamped /\ Passed(j)
    BY <1>1, <1>2, <1>6, MatchingIsStamped DEF NothingPassedOver
  <2>2. created'[j] = created[j]
    BY <1>2, <2>1
  <2>3. \A k \in 1 .. Len(client.shown) : created'[client.shown[k]] = created[client.shown[k]]
    BY <1>1, <1>2
  <2>4. QED
    BY <2>1, <2>2, <2>3 DEF Passed, After
<1>7. QED
  BY <1>1, <1>3, <1>4, <1>5, <1>6 DEF NothingPassedOver

LEMMA OpenHolds ==
  ASSUME PageInv, Open, steady' = Matching(client'.filter), localVars' = localVars
  PROVE  client' \in Client /\ ReaderInv'
<1>1. PICK filter \in Filters, by \in {"cursor", "before"} :
        client' = [NoClient EXCEPT !.at = "paging", !.filter = filter, !.by = by]
  BY DEF Open
<1>2. client' = [at |-> "paging", filter |-> filter, by |-> by, cursor |-> NoCursor, shown |-> <<>>]
  BY <1>1 DEF NoClient
<1>3. client' \in Client
  <2>1. NoCursor \in [wall : Nat, id : Nat, by : Kinds]
    BY DEF NoCursor, Kinds
  <2>2. <<>> \in Seq(Jobs)
    OBVIOUS
  <2>3. QED
    BY <1>2, <2>1, <2>2 DEF Client
<1>4. client'.shown = <<>> /\ client'.cursor = NoCursor /\ client'.filter = filter
  BY <1>2
<1>5. Matching(client.filter)' = Matching(client'.filter)
  BY DEF Matching, localVars
<1>6. \A j : After(j, NoCursor)'
  BY DEF After, NoCursor
<1>7. ShownInOrder' /\ NothingPassedOver'
  BY <1>4, <1>6 DEF ShownInOrder, NothingPassedOver, Passed
<1>8. QED
  BY <1>3, <1>4, <1>5, <1>7 DEF ReaderInv

LEMMA NextPageHolds ==
  ASSUME PageInv, client.at = "paging",
         NEW page, page = Page(client.filter, client.cursor), Len(page) = Limit,
         client' = [client EXCEPT !.shown = @ \o page, !.cursor = CursorAfter(page)],
         UNCHANGED <<localVars, created>>,
         steady' = steady \cap Matching(client.filter)'
  PROVE  client' \in Client /\ ReaderInv'
<1>1. PICK both : both = client.shown \o page
  OBVIOUS
<1>2. HasRead(page, both)
  BY <1>1, PageReads
<1>3. client \in Client /\ TimesInv /\ TimesOK /\ steady \subseteq Matching(client.filter)
  BY DEF PageInv, ReaderInv, TimesInv
<1>4. /\ both \in Seq(Jobs) /\ Len(both) \in 1 .. Len(both) /\ Len(page) \in 1 .. Len(page)
      /\ both[Len(both)] = page[Len(page)] /\ page # <<>> /\ both # <<>>
      /\ \A k \in 1 .. Len(both) : both[k] \in Stamped
  BY <1>2, LimitFacts DEF HasRead
<1>5. PICK z : z = both[Len(both)]
  OBVIOUS
<1>6. z \in Stamped /\ z \in Jobs /\ Last(page) = z /\ Last(both) = z
  BY <1>2, <1>4, <1>5, LastFacts DEF HasRead, Stamped
<1>7. PICK c : c = CursorAfter(page) /\ c = [wall |-> created[z].wall, id |-> z, by |-> client.by]
  BY <1>6 DEF CursorAfter
<1>8. c \in [wall : Nat, id : Nat, by : Kinds] /\ client.by \in {"cursor", "before"}
  <2>1. created[z].wall \in Nat /\ z \in Nat
    BY <1>3, <1>6, TimeFacts
  <2>2. QED
    BY <1>3, <1>7, <2>1, ClientFacts DEF Kinds
<1>9. client' = [client EXCEPT !.shown = both, !.cursor = c]
  BY <1>1, <1>7
<1>10. /\ client' \in Client
       /\ client'.shown = both /\ client'.cursor = c /\ client'.at = client.at
       /\ client'.filter = client.filter /\ client'.by = client.by
  BY <1>3, <1>4, <1>8, <1>9, ClientReads
<1>11. created' = created /\ store' = store /\ row' = row
  BY DEF localVars
<1>12. Stamped' = Stamped /\ (Orderly' => Orderly)
  BY <1>11 DEF Stamped, Orderly, StampsAgree
<1>13. steady' \subseteq Matching(client.filter)'
  OBVIOUS
<1>14. CursorAfter(both)' = c
  <2>1. CursorAfter(both)' = [wall |-> created'[z].wall, id |-> z, by |-> client'.by]
    BY <1>6 DEF CursorAfter
  <2>2. QED
    BY <1>7, <1>10, <1>11, <2>1
<1>15. ASSUME Orderly' PROVE ShownInOrder'
  <2>1. \A k, l \in 1 .. Len(both) : k < l => Above(both[k], both[l])
    BY <1>2, <1>12, <1>15 DEF HasRead
  <2>2. \A a, b : Above(a, b)' = Above(a, b)
    BY <1>11 DEF Above
  <2>3. QED
    BY <1>10, <2>1, <2>2 DEF ShownInOrder
<1>16. ASSUME Orderly', NEW j \in steady' PROVE Passed(j)'
  <2>1. j \in steady /\ j \in Stamped /\ j \in Jobs
    BY <1>3, MatchingIsStamped DEF Stamped
  <2>2. \/ \E k \in 1 .. Len(both) : both[k] = j
        \/ Above(z, j)
        \/ /\ client.by = "before"
           /\ \E k \in 1 .. Len(both) : created[both[k]].wall = created[j].wall
    BY <1>2, <1>4, <1>5, <1>12, <1>16, <2>1 DEF HasRead
  <2>3. /\ created[z].wall \in Nat /\ created[j].wall \in Nat
        /\ c.wall = created[z].wall /\ c.id = z /\ c.by = client.by
    BY <1>3, <1>6, <1>7, <2>1, TimeFacts
  <2>4. ASSUME Above(z, j) PROVE After(j, c)' \/ (client.by = "before" /\ created[z].wall = created[j].wall)
    BY <1>8, <1>11, <2>3, <2>4 DEF After, Above
  <2>5. Above(z, j) => Passed(j)'
    BY <1>4, <1>5, <1>10, <1>11, <2>4 DEF Passed
  <2>6. QED
    BY <1>10, <1>11, <2>2, <2>5 DEF Passed
<1>17. \A k \in 1 .. Len(client'.shown) : client'.shown[k] \in Stamped'
  BY <1>4, <1>10, <1>12
<1>18. QED
  BY <1>4, <1>10, <1>13, <1>14, <1>15, <1>16, <1>17 DEF ReaderInv, NothingPassedOver

LEMMA PagesInitHolds ==
  ASSUME PagesInit
  PROVE  PageInv
<1>1. LocalInv
  BY LocalInitHolds DEF PagesInit
<1>2. MaxTime \in Nat /\ Stores \subseteq {"memory", "postgres"} /\ 0 \in Nat
  BY PagesAssumption, LocalAssumption
<1>3. {Never} \cup [wall : 1..MaxTime, mono : {0}] \subseteq Time
  BY <1>2 DEF Never, Time
<1>4. TimesOK
  BY <1>2, <1>3 DEF PagesInit, LocalInit, TimesOK
<1>5. ASSUME NEW j \in Jobs
      PROVE  work[j].at = (IF j \in Old THEN "gone" ELSE "idle") /\ (j \notin Old => row[j] = Absent)
  BY DEF PagesInit, LocalInit, At
<1>6. ListedAreStamped
  BY <1>5 DEF PagesInit, ListedAreStamped
<1>7. client \in Client
  <2>1. client = NoClient
    BY DEF PagesInit
  <2>2. NoCursor \in [wall : Nat, id : Nat, by : Kinds]
    BY DEF NoCursor, Kinds
  <2>3. <<>> \in Seq(Jobs)
    OBVIOUS
  <2>4. QED
    BY <2>1, <2>2, <2>3 DEF NoClient, Client
<1>8. ReaderInv
  BY DEF PagesInit, NoClient, ReaderInv
<1>9. QED
  BY <1>1, <1>4, <1>6, <1>7, <1>8 DEF PageInv, TimesInv

\* Reading a page, and not a full one, ends the reading.
LEMMA LastPageFacts ==
  ASSUME PageInv, ReadPage
  PROVE  \/ /\ Len(Page(client.filter, client.cursor)) = Limit
            /\ client' = [client EXCEPT !.shown = @ \o Page(client.filter, client.cursor),
                                        !.cursor = CursorAfter(Page(client.filter, client.cursor))]
            /\ client'.at = "paging"
         \/ Len(Page(client.filter, client.cursor)) # Limit /\ client' = NoClient
BY DEF ReadPage, PageInv, Client

LEMMA NoClientFacts ==
  ASSUME client' = NoClient
  PROVE  client' \in Client /\ ReaderInv'
<1>1. NoCursor \in [wall : Nat, id : Nat, by : Kinds]
  BY DEF NoCursor, Kinds
<1>2. <<>> \in Seq(Jobs)
  OBVIOUS
<1>3. QED
  BY <1>1, <1>2 DEF NoClient, Client, ReaderInv

LEMMA PagesNextHolds ==
  ASSUME PageInv, [PagesNext]_<<localVars, pageVars>>
  PROVE  PageInv'
<1>1. TimesInv /\ TimesInv' /\ TimesStay /\ client \in Client /\ client.at \in {"idle", "paging"}
  BY StepFacts DEF PageInv, Client
<1>2. ASSUME client' = client,
             client.at = "paging" => steady' \subseteq steady /\ steady' \subseteq Matching(client.filter)'
      PROVE  client' \in Client /\ ReaderInv'
  BY <1>1, <1>2, ReaderWaits
<1>3. CASE UNCHANGED <<localVars, pageVars>>
  <2>1. client' = client /\ steady' = steady /\ row' = row
    BY <1>3 DEF pageVars, localVars
  <2>2. client.at = "paging" => steady' \subseteq steady /\ steady' \subseteq Matching(client.filter)'
    BY <2>1 DEF PageInv, ReaderInv, Matching
  <2>3. QED
    BY <1>1, <1>2, <2>1, <2>2 DEF PageInv
<1>4. CASE PagesNext
  <2>1. steady' = CASE client'.at = "idle" -> {}
                    [] client.at = "idle" -> Matching(client'.filter)
                    [] OTHER -> steady \cap Matching(client.filter)'
    BY <1>4 DEF PagesNext
  <2>2. CASE client' = client
    <3>1. client.at = "paging" => steady' \subseteq steady /\ steady' \subseteq Matching(client.filter)'
      BY <2>1, <2>2
    <3>2. QED
      BY <1>1, <1>2, <2>2, <3>1 DEF PageInv
  <2>3. CASE Open
    <3>1. client.at = "idle" /\ client'.at = "paging" /\ localVars' = localVars
      BY <2>3 DEF Open, NoClient
    <3>2. steady' = Matching(client'.filter)
      BY <2>1, <3>1
    <3>3. QED
      BY <1>1, <2>3, <3>1, <3>2, OpenHolds DEF PageInv
  <2>4. CASE ReadPage
    <3>1. PICK page : page = Page(client.filter, client.cursor)
      OBVIOUS
    <3>2. client.at = "paging" /\ UNCHANGED <<localVars, created>>
      BY <2>4 DEF ReadPage
    <3>3. CASE client' = NoClient
      BY <1>1, <3>3, NoClientFacts DEF PageInv
    <3>4. CASE /\ Len(page) = Limit
               /\ client' = [client EXCEPT !.shown = @ \o page, !.cursor = CursorAfter(page)]
               /\ client'.at = "paging"
      <4>1. steady' = steady \cap Matching(client.filter)'
        BY <2>1, <3>2, <3>4
      <4>2. client' \in Client /\ ReaderInv'
        BY <3>1, <3>2, <3>4, <4>1, NextPageHolds
      <4>3. QED
        BY <1>1, <4>2 DEF PageInv
    <3>5. QED
      BY <2>4, <3>1, <3>3, <3>4, LastPageFacts
  <2>5. QED
    BY <1>4, <2>2, <2>3, <2>4 DEF PagesNext, StampNow, OtherJobStep
<1>5. QED
  BY <1>3, <1>4

LEMMA DomainFacts ==
  ASSUME NEW s \in Seq(Jobs)
  PROVE  DOMAIN s = 1 .. Len(s) /\ Len(s) \in Nat
OBVIOUS

\* When a reading ends, it has been exact.
LEMMA LastPageIsExact ==
  ASSUME PageInv, [PagesNext]_<<localVars, pageVars>>, client.at = "paging", client'.at = "idle",
         NEW shown, shown = client.shown \o Page(client.filter, client.cursor),
         store = "postgres" \/ ClocksAgree
  PROVE  /\ IsInjective(shown)
         /\ \A j \in steady \ ToSet(shown) :
              /\ client.by = "before"
              /\ \E k \in ToSet(shown) : created[k].wall = created[j].wall
<1>1. PICK page : page = Page(client.filter, client.cursor)
  OBVIOUS
<1>2. client' # client
  OBVIOUS
<1>3. ReadPage
  BY <1>2 DEF PagesNext, StampNow, OtherJobStep, Open, pageVars
<1>4. Len(page) # Limit
  BY <1>1, <1>3, LastPageFacts
<1>5. Orderly
  BY DEF Orderly, ClocksAgree, StampsAgree, Stamped
<1>6. HasRead(page, shown)
  BY <1>1, PageReads
<1>0. shown \in Seq(Jobs) /\ \A k \in 1 .. Len(shown) : shown[k] \in Stamped
  BY <1>6 DEF HasRead
<1>s. \A k \in 1 .. Len(shown) : shown[k] \in Jobs
  BY <1>0 DEF Stamped
<1>7. /\ \A k, l \in 1 .. Len(shown) : k < l => Above(shown[k], shown[l])
      /\ \A j \in steady :
           \/ \E k \in 1 .. Len(shown) : shown[k] = j
           \/ /\ client.by = "before"
              /\ \E k \in 1 .. Len(shown) : created[shown[k]].wall = created[j].wall
  BY <1>4, <1>5, <1>6 DEF HasRead
<1>8. DOMAIN shown = 1 .. Len(shown) /\ Len(shown) \in Nat
  <2>1. shown \in Seq(Jobs)
    BY <1>0
  <2>2. QED
    BY <2>1, DomainFacts
<1>9. TimesOK
  BY DEF PageInv, TimesInv
<1>10. IsInjective(shown)
  <2>1. ASSUME NEW k \in 1 .. Len(shown), NEW l \in 1 .. Len(shown), k < l PROVE shown[k] # shown[l]
    BY <1>s, <1>7, <1>9, <2>1, AboveFacts
  <2>2. \A k, l \in 1 .. Len(shown) : k = l \/ k < l \/ l < k
    BY <1>8
  <2>3. QED
    BY <1>8, <2>1, <2>2 DEF IsInjective
<1>11. ToSet(shown) = {shown[k] : k \in 1 .. Len(shown)}
  BY <1>8 DEF ToSet
<1>12. QED
  BY <1>7, <1>10, <1>11

\* The inductive invariant: what the client has been shown descends to its
\* cursor, and nothing that matched all along was passed over.
THEOREM PageInvariantHolds == PagesSpec => []PageInv
<1>1. PagesInit => PageInv
  BY PagesInitHolds
<1>2. PageInv /\ [PagesNext]_<<localVars, pageVars>> => PageInv'
  BY PagesNextHolds
<1>3. QED
  BY <1>1, <1>2, PTL DEF PagesSpec

\* A client that follows the cursors sees every job that matched all along, and
\* none twice, for any number of jobs, any pages and any clocks that agree.
THEOREM PagesAreAlwaysExact == PagesSpec => PagesAreExact
<1>1. PageInv /\ [PagesNext]_<<localVars, pageVars>> =>
        [client.at = "paging" /\ client'.at = "idle" =>
           LET shown == client.shown \o Page(client.filter, client.cursor)
           IN  store = "postgres" \/ ClocksAgree =>
                 /\ IsInjective(shown)
                 /\ \A j \in steady \ ToSet(shown) :
                      /\ client.by = "before"
                      /\ \E k \in ToSet(shown) : created[k].wall = created[j].wall]_pageVars
  BY LastPageIsExact
<1>2. QED
  BY <1>1, PageInvariantHolds, PTL DEF PagesSpec, PagesAreExact

\* A reader changes nothing of the jobs: they do what they do alone.
THEOREM ReadersChangeNothing == PagesSpec => LocalSpec
<1>1. PagesInit => LocalInit
  BY DEF PagesInit
<1>2. [PagesNext]_<<localVars, pageVars>> => [LocalNext]_localVars
  BY PagesNextIsLocal
<1>3. QED
  BY <1>1, <1>2, PTL DEF PagesSpec, LocalSpec

\* So they live as JobLife says, and keep their progress, beside any reader.
THEOREM JobsLiveBesideReaders == PagesSpec => LocalImplementsLife /\ ProgressIsKept
BY ReadersChangeNothing, LocalJobsImplementLife, ProgressIsAlwaysKept, PTL

================================================================================
