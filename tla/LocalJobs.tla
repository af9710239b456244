------------------------------ MODULE LocalJobs ------------------------------
(***************************************************************************)
(* Analysis jobs of a vod-web without Temporal: a goroutine per job that   *)
(* marks its row running, executes the analysis, copies its progress into  *)
(* the row and writes the end, on jobs in PostgreSQL or in the memory of   *)
(* the process. The goroutines die with the process; nothing starts them   *)
(* again. A cancellation is refused and changes nothing.                   *)
(***************************************************************************)
EXTENDS Naturals

CONSTANTS
  Jobs,       \* the IDs of the jobs, numbers for their order
  Old,        \* those that are from an earlier life of vod-web
  Left,       \* the rows that life may have left in PostgreSQL
  Reports,    \* how often an execution reports its progress
  Stores,     \* where jobs may be kept: "memory", "postgres"
  MaxFaults   \* bound on failed calls of PostgreSQL and stops of vod-web

VARIABLES
  store,    \* where this installation keeps its jobs
  row,      \* the jobs in the store
  work,     \* the request and then the goroutine of every job
  struck,   \* history: the jobs whose goroutine died or could not write
  faults

localVars == <<store, row, work, struck, faults>>

\* Percentages: queued, "starting", the reports of the executor, completed.
Starting == 1
Full == Reports + 2

Ended == {"completed", "failed"}
Row == [status : {"absent", "queued", "running"} \cup Ended, percent : 0..Full]
Absent == [status |-> "absent", percent |-> 0]
Queued == [status |-> "queued", percent |-> 0]
Running == [status |-> "running", percent |-> Starting]

ASSUME LocalAssumption ==
  /\ Jobs \subseteq Nat
  /\ Old \subseteq Jobs
  /\ Reports \in Nat
  /\ Left \subseteq Row \ {Absent}
  /\ Stores \subseteq {"memory", "postgres"}
  /\ MaxFaults \in Nat

\* A goroutine's place, the last progress reported to it, the outcome of its
\* execution and the copy of the row in its hands.
Places == {"idle", "insert", "begin", "execute", "save", "find", "finish", "gone"}
Work == [at : Places, report : 0..Reports, outcome : Ended, copy : Row]
At(place) == [at |-> place, report |-> 0, outcome |-> "failed", copy |-> Absent]

LocalInit ==
  /\ store \in Stores
  /\ row \in [Jobs -> Left \cup {Absent}]
  /\ \A j \in Jobs : row[j] # Absent <=> j \in Old /\ store = "postgres"
  /\ work = [j \in Jobs |-> At(IF j \in Old THEN "gone" ELSE "idle")]
  /\ struck = Old
  /\ faults = 0

Fault ==
  /\ faults < MaxFaults
  /\ faults' = faults + 1

\* PostgreSQL may fail; the maps of the process do not.
CallFails == store = "postgres" /\ Fault

Goto(j, place) == work' = [work EXCEPT ![j] = [At(place) EXCEPT !.report = work[j].report]]
Leave(j) == work' = [work EXCEPT ![j] = At("gone")]

\* A call that puts r into the row: it succeeds, and the goroutine goes on at
\* `then`, or it fails, with or without effect, and the goroutine returns.
WriteOrReturn(j, r, then) ==
  \/ /\ row' = [row EXCEPT ![j] = r]
     /\ work' = [work EXCEPT ![j] = At(then)]
     /\ UNCHANGED <<struck, faults>>
  \/ /\ CallFails
     /\ row' \in {row, [row EXCEPT ![j] = r]}
     /\ Leave(j)
     /\ struck' = struck \cup {j}

-----------------------------------------------------------------------------
(* The request and the goroutine.                                           *)

\* The handler takes the time of creation, before the job is in the store.
Stamp(j) ==
  /\ work[j].at = "idle"
  /\ Goto(j, "insert")
  /\ UNCHANGED <<store, row, struck, faults>>

\* It inserts the job and starts the goroutine.
Insert(j) ==
  /\ work[j].at = "insert"
  /\ WriteOrReturn(j, Queued, "begin")
  /\ UNCHANGED store

\* The goroutine marks the row running, or logs that it cannot and returns.
Begin(j) ==
  /\ work[j].at = "begin"
  /\ WriteOrReturn(j, Running, "execute")
  /\ UNCHANGED store

\* Mutant: the reporter changes the copy the goroutine was started with.
ReportOwnCopy(j) ==
  /\ work[j].at = "execute"
  /\ work[j].report < Reports
  /\ work' = [work EXCEPT ![j] =
       [@ EXCEPT !.at = "save", !.report = work[j].report + 1, !.copy = Queued]]
  /\ UNCHANGED <<store, row, struck, faults>>

\* The executor reports progress; the reporter finds the row, and skips the
\* report if it cannot.
Report(j) ==
  /\ work[j].at = "execute"
  /\ work[j].report < Reports
  /\ \/ /\ work' = [work EXCEPT ![j] =
             [@ EXCEPT !.at = "save", !.report = work[j].report + 1, !.copy = row[j]]]
        /\ UNCHANGED faults
     \/ /\ CallFails
        /\ work' = [work EXCEPT ![j].report = @ + 1]
  /\ UNCHANGED <<store, row, struck>>

\* It writes the row with the percentage of the report; nobody looks at the
\* error.
Save(j) ==
  /\ work[j].at = "save"
  /\ LET saved == [work[j].copy EXCEPT !.percent = Starting + work[j].report]
     IN  \/ row' = [row EXCEPT ![j] = saved] /\ UNCHANGED faults
         \/ CallFails /\ row' \in {row, [row EXCEPT ![j] = saved]}
  /\ Goto(j, "execute")
  /\ UNCHANGED <<store, struck>>

\* The analysis ends, by itself or by its timeout.
Return(j) ==
  /\ work[j].at = "execute"
  /\ \E outcome \in Ended :
       work' = [work EXCEPT ![j] = [At("find") EXCEPT !.outcome = outcome]]
  /\ UNCHANGED <<store, row, struck, faults>>

\* The goroutine finds the row again; if it cannot, it keeps the copy it
\* began with.
Find(j) ==
  /\ work[j].at = "find"
  /\ \/ /\ work' = [work EXCEPT ![j] = [@ EXCEPT !.at = "finish", !.copy = row[j]]]
        /\ UNCHANGED faults
     \/ /\ CallFails
        /\ work' = [work EXCEPT ![j] = [@ EXCEPT !.at = "finish", !.copy = Running]]
  /\ UNCHANGED <<store, row, struck>>

\* Mutant: a failed analysis leaves the status of the copy.
FinishedIfCompleted(w) ==
  IF w.outcome = "completed" THEN [w.copy EXCEPT !.status = "completed", !.percent = Full]
                             ELSE w.copy

\* Mutant: a failed job starts again at zero.
FinishedAnew(w) ==
  [status |-> w.outcome, percent |-> IF w.outcome = "completed" THEN Full ELSE 0]

\* The row as the goroutine ends it.
Finished(w) ==
  [w.copy EXCEPT !.status = w.outcome,
                 !.percent = IF w.outcome = "completed" THEN Full ELSE @]

Finish(j) ==
  /\ work[j].at = "finish"
  /\ WriteOrReturn(j, Finished(work[j]), "gone")
  /\ UNCHANGED store

JobStep(j) ==
  \/ Insert(j) \/ Begin(j) \/ Report(j) \/ Save(j)
  \/ Return(j) \/ Find(j) \/ Finish(j)

-----------------------------------------------------------------------------
(* The end of the process.                                                  *)

\* vod-web stops and starts: goroutines are gone, and so are the jobs
\* in memory.
Alive(j) == work[j].at \notin {"idle", "gone"}

Restart ==
  /\ Fault
  /\ work' = [j \in Jobs |-> IF Alive(j) THEN At("gone") ELSE work[j]]
  /\ row' = IF store = "memory" THEN [j \in Jobs |-> Absent] ELSE row
  /\ struck' = struck \cup {j \in Jobs : Alive(j)}
  /\ UNCHANGED store

LocalNext ==
  \/ \E j \in Jobs : Stamp(j) \/ JobStep(j)
  \/ Restart

LocalSpec == LocalInit /\ [][LocalNext]_localVars

\* A live goroutine goes on, and OverallTimeout ends its analysis.
LocalFairness == \A j \in Jobs : WF_localVars(JobStep(j))

-----------------------------------------------------------------------------
\* Every variable keeps values of its kind.
LocalTypeOK ==
  /\ store \in Stores
  /\ row \in [Jobs -> Row]
  /\ work \in [Jobs -> Work]
  /\ struck \subseteq Jobs
  /\ faults \in 0..MaxFaults

\* A job that is listed and has not ended has its goroutine, unless that one
\* died with the process or failed to write: neither a lost report nor a row
\* that could not be found leaves a job behind (runAnalysisJob).
LeftBehindWereStruck ==
  \A j \in Jobs \ struck :
    row[j].status \in {"queued", "running"} => Alive(j)

\* What the proofs need besides: a row is where its goroutine has brought it,
\* and so is the copy the goroutine writes from.
RowFollowsWork(j) ==
  /\ work[j].at \in {"idle", "insert"} => row[j].status = "absent"
  /\ work[j].at = "begin" => row[j].status = "queued"
  /\ work[j].at \in {"execute", "save", "find", "finish"} => row[j].status = "running"
  /\ work[j].at \in {"save", "finish"} => work[j].copy.status = "running"
RowsFollowWork == \A j \in Jobs : RowFollowsWork(j)

\* The progress of a job never falls, and a failed job keeps the stage it had
\* reached, as long as PostgreSQL answers: only a row that could not be found
\* at the end is overwritten with the copy of the start (runAnalysisJob).
ProgressIsKept ==
  [][\A j \in Jobs :
       row[j].percent > row'[j].percent =>
         \/ row'[j] = Absent
         \/ faults > 0 /\ store = "postgres"]_localVars

\* The jobs live as a reader of the list expects: nothing, a late report
\* least of all, changes a job that has ended.
Life == INSTANCE JobLife WITH status <- [j \in Jobs |-> row[j].status]
LocalImplementsLife == Life!Spec

\* Every accepted job ends, unless its goroutine died or could not write.
EveryJobEnds ==
  \A j \in Jobs \ Old :
    row[j] # Absent ~> row[j].status \in Ended \/ j \in struck \/ row[j] = Absent
==============================================================================
