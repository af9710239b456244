----------------------------- MODULE AnalysisRun -----------------------------
(***************************************************************************)
(* The execution of analyses (app.AnalysisRunner behind the activity        *)
(* RunAnalysis): the attempts of some jobs on ONE owner's VOD, which share  *)
(* a Redis lock, the directories of their run IDs, the objects published    *)
(* from them and the catalog.  Pairs of an owner and a VOD share nothing.   *)
(*                                                                         *)
(* Temporal's side is what AnalysisJobs calls the run: it starts attempts,  *)
(* gives up on one whose heartbeat stops, and retries.  An attempt it gave  *)
(* up on may still be running.                                             *)
(***************************************************************************)
EXTENDS Naturals, FiniteSets

CONSTANTS
  Jobs,         \* analyses submitted for the VOD
  RunIDs,       \* run IDs: they name the directories
  RunID,        \* the run ID of a job's request
  Forced,       \* jobs whose request says "force"
  MaxAttempts,  \* attempts of the retry policy
  Free,         \* no key in Redis
  None,         \* nothing there
  Torn,         \* missing, truncated or partial: what a stage cut short leaves
  Mixed,        \* a finished sample with frames of another attempt in it
  Faults,       \* the kinds of fault of this instance
  MaxFaults     \* how many may happen (bound of the model)

FaultKinds == {"error", "lost", "release", "crash", "timeout", "overrun"}

ASSUME RunAssumption ==
  /\ RunID \in [Jobs -> RunIDs]
  /\ Forced \subseteq Jobs
  /\ MaxAttempts \in Nat \ {0}
  /\ Faults \subseteq FaultKinds
  /\ MaxFaults \in Nat

\* An attempt is also the random token of its lock.
Attempts == Jobs \X (1 .. MaxAttempts)

ASSUME SentinelAssumption ==
  /\ Free \notin Attempts
  /\ None \notin Attempts
  /\ Torn \notin Attempts
  /\ Mixed \notin Attempts
  /\ Cardinality({None, Torn, Mixed}) = 3

VARIABLES
  state,    \* per job, Temporal's view: waiting for an attempt, running, over
  attempt,  \* per job, the number of its last attempt
  pc,       \* per attempt, where its goroutine is
  left,     \* per attempt, the files of its report not yet published
  lock,     \* the VOD's key in Redis
  overrun,  \* attempts whose key expired while they were at work
  files,    \* per run ID and file, the attempt that wrote it
  objects,  \* the same in the object store
  catalog,  \* per run ID, the attempt whose report the catalog holds
  saved,    \* attempts whose report and events PostgreSQL committed
  spent     \* faults so far

temporal == <<state, attempt>>
storage == <<files, objects, catalog, saved>>
vars == <<temporal, pc, left, lock, overrun, storage, spent>>

-----------------------------------------------------------------------------

\* The files of a report: the frames with their manifest and contact sheet, the
\* clips with theirs, the two renderings.
Files == {"sample", "clips", "json", "markdown"}

JobStates == {"waiting", "running", "completed", "failed"}

Section == Files \cup {"publish", "success", "failure"}

Pcs == Section \cup {"idle", "lock", "refused", "over", "dead"}

\* The goroutine is past Acquire and has not run its deferred Release.
InSection(a) == pc[a] \in Section

After == [sample |-> "clips", clips |-> "json", json |-> "markdown", markdown |-> "publish"]

Dir(a) == RunID[a[1]]

\* A retry always overwrites.
Overwrites(a) == a[1] \in Forced \/ a[2] > 1

\* Temporal still waits for this attempt.
Awaited(a) == state[a[1]] = "running" /\ attempt[a[1]] = a[2]

Goto(a, label) == pc' = [pc EXCEPT ![a] = label]

Init ==
  /\ state = [j \in Jobs |-> "waiting"]
  /\ attempt = [j \in Jobs |-> 0]
  /\ pc = [a \in Attempts |-> "idle"]
  /\ left = [a \in Attempts |-> {}]
  /\ lock = Free
  /\ overrun = {}
  /\ files = [i \in RunIDs |-> [f \in Files |-> None]]
  /\ objects = [i \in RunIDs |-> [f \in Files |-> None]]
  /\ catalog = [i \in RunIDs |-> None]
  /\ saved = {}
  /\ spent = 0

Fault(kind) ==
  /\ kind \in Faults
  /\ spent < MaxFaults
  /\ spent' = spent + 1

-----------------------------------------------------------------------------
(* Temporal.                                                                *)

Start(j) ==
  /\ state[j] = "waiting"
  /\ state' = [state EXCEPT ![j] = "running"]
  /\ attempt' = [attempt EXCEPT ![j] = @ + 1]
  /\ Goto(<<j, attempt[j] + 1>>, "lock")
  /\ UNCHANGED <<left, lock, overrun, storage, spent>>

AfterFailure(j) == IF attempt[j] < MaxAttempts THEN "waiting" ELSE "failed"

\* A heartbeat or start-to-close timeout, or an answer that never arrives: a
\* dead worker's attempt always gets there, any other one by a fault.
Timeout(j) ==
  LET a == <<j, attempt[j]>> IN
  /\ state[j] = "running"
  /\ \/ pc[a] = "dead" /\ UNCHANGED spent
     \/ pc[a] # "dead" /\ Fault("timeout")
  /\ state' = [state EXCEPT ![j] = AfterFailure(j)]
  /\ UNCHANGED <<attempt, pc, left, lock, overrun, storage>>

-----------------------------------------------------------------------------
(* The lock.                                                                *)

\* SET NX: it does not wait.
Acquire(a) ==
  /\ pc[a] = "lock"
  /\ IF lock = Free
     THEN lock' = a /\ Goto(a, "sample")
     ELSE lock' = lock /\ Goto(a, "refused")
  /\ UNCHANGED <<temporal, left, overrun, storage, spent>>

\* Redis fails; when only its answer is lost, the key is there and nobody
\* will delete it.
AcquireFails(a) ==
  /\ pc[a] = "lock"
  /\ \/ Fault("error") /\ UNCHANGED lock
     \/ Fault("lost") /\ lock' = IF lock = Free THEN a ELSE lock
  /\ Goto(a, "refused")
  /\ UNCHANGED <<temporal, left, overrun, storage>>

\* Mutant: a key without an expiry.
ExpireNothing ==
  /\ FALSE
  /\ UNCHANGED vars

\* The key's two hours pass.  No attempt is allowed to last that long: under
\* one that is still at work the key expires only by a fault.
Expire ==
  /\ lock # Free
  /\ lock' = Free
  /\ IF InSection(lock)
     THEN Fault("overrun") /\ overrun' = overrun \cup {lock}
     ELSE UNCHANGED <<overrun, spent>>
  /\ UNCHANGED <<temporal, pc, left, storage>>

\* Mutant: the release script deletes the key whoever holds it.
ReleaseAnyway(a) == lock' = Free

\* The release script deletes the key if it still holds this token.
Release(a) == lock' = IF lock = a THEN Free ELSE lock

\* The deferred Release, then the answer to Temporal.  An error of Release is
\* ignored.
Return(a) ==
  /\ pc[a] \in {"success", "failure", "refused"}
  /\ \/ pc[a] # "refused" /\ Release(a) /\ UNCHANGED spent
     \/ pc[a] # "refused" /\ Fault("release") /\ UNCHANGED lock
     \/ pc[a] = "refused" /\ UNCHANGED <<lock, spent>>
  /\ Goto(a, "over")
  /\ state' = IF ~Awaited(a) THEN state
              ELSE [state EXCEPT ![a[1]] =
                     IF pc[a] = "success" THEN "completed" ELSE AfterFailure(a[1])]
  /\ UNCHANGED <<attempt, left, overrun, storage>>

-----------------------------------------------------------------------------
(* The stages.                                                              *)

\* An unforced first attempt does not overwrite what it finds.  What a stage
\* cut short left behind may or may not look finished; the JSON file does.  It
\* goes on over frames without a manifest, say.
Refuses(a, f) ==
  /\ f # "markdown"
  /\ ~Overwrites(a)
  /\ files[Dir(a)][f] # None

MayProceed(a, f) ==
  \/ ~Refuses(a, f)
  \/ files[Dir(a)][f] = Torn /\ f # "json"

\* Only an attempt that overwrites removes the frames it finds, and the manifest
\* lists all there are: another one has those left over with higher numbers in
\* its sample.
Yield(a, f) ==
  IF f = "sample" /\ files[Dir(a)][f] = Torn /\ ~Overwrites(a) THEN {a, Mixed} ELSE {a}

Produce(a, f) ==
  /\ pc[a] = f
  /\ MayProceed(a, f)
  /\ \E content \in Yield(a, f) : files' = [files EXCEPT ![Dir(a)][f] = content]
  /\ left' = [left EXCEPT ![a] = @ \cup {f}]
  /\ Goto(a, After[f])
  /\ UNCHANGED <<temporal, lock, overrun, objects, catalog, saved, spent>>

\* The analyzer found no moment worth a clip.
NoClips(a) ==
  /\ pc[a] = "clips"
  /\ Goto(a, After["clips"])
  /\ UNCHANGED <<temporal, left, lock, overrun, storage, spent>>

AlreadyExists(a, f) ==
  /\ pc[a] = f
  /\ Refuses(a, f)
  /\ Goto(a, "failure")
  /\ UNCHANGED <<temporal, left, lock, overrun, storage, spent>>

\* What a stage cut short leaves of its file.
CutShort(a) ==
  \/ UNCHANGED files
  \/ \E f \in Files :
       /\ pc[a] = f
       /\ MayProceed(a, f)
       /\ files' = [files EXCEPT ![Dir(a)][f] = Torn]

\* One file to the object store: what the disk holds at that moment.
Upload(a, f) ==
  /\ pc[a] = "publish"
  /\ f \in left[a]
  /\ objects' = [objects EXCEPT ![Dir(a)][f] = files[Dir(a)][f]]
  /\ left' = [left EXCEPT ![a] = @ \ {f}]
  /\ UNCHANGED <<temporal, pc, lock, overrun, files, catalog, saved, spent>>

\* upsertVOD, upsertAnalysisReport and replaceReportArtifacts: the rows of the
\* run ID are now this report's.
Cataloged(a) == catalog' = [catalog EXCEPT ![Dir(a)] = a]

\* The events of the report, under new IDs.
EventsInserted(a) == saved' = saved \cup {a}

\* The transaction.
Commit(a) ==
  /\ Cataloged(a)
  /\ EventsInserted(a)
  /\ UNCHANGED <<temporal, left, lock, overrun, files, objects>>

\* Mutant: the report is cataloged while its files are being published.
PersistEarly(a) ==
  /\ pc[a] = "publish"
  /\ Commit(a)
  /\ \/ Goto(a, "success") /\ UNCHANGED spent
     \/ Goto(a, "failure") /\ Fault("lost")

\* Mutant: the transaction is committed and then reported as failed.
PersistReportsError(a) ==
  /\ pc[a] = "publish"
  /\ left[a] = {}
  /\ Commit(a)
  /\ Goto(a, "failure")
  /\ UNCHANGED spent

\* Once every file is published.  The answer to COMMIT may be lost.
Persist(a) ==
  /\ pc[a] = "publish"
  /\ left[a] = {}
  /\ Commit(a)
  /\ \/ Goto(a, "success") /\ UNCHANGED spent
     \/ Goto(a, "failure") /\ Fault("lost")

\* Any call of a stage fails, at the latest when the context of an attempt that
\* Temporal gave up on is cancelled.
Fail(a) ==
  /\ pc[a] \in Files \cup {"publish"}
  /\ IF Awaited(a) THEN Fault("error") ELSE UNCHANGED spent
  /\ CutShort(a)
  /\ Goto(a, "failure")
  /\ UNCHANGED <<temporal, left, lock, overrun, objects, catalog, saved>>

\* The worker process dies, or is stopped and exits before the attempt ends.
Crash(a) ==
  /\ pc[a] \notin {"idle", "over", "dead"}
  /\ Fault("crash")
  /\ CutShort(a)
  /\ Goto(a, "dead")
  /\ UNCHANGED <<temporal, left, lock, overrun, objects, catalog, saved>>

-----------------------------------------------------------------------------

Stage(a) ==
  \/ \E f \in Files : Produce(a, f) \/ AlreadyExists(a, f) \/ Upload(a, f)
  \/ NoClips(a)
  \/ Persist(a)

Work(a) == Acquire(a) \/ Stage(a) \/ Return(a)

Next ==
  \/ \E j \in Jobs : Start(j) \/ Timeout(j)
  \/ Expire
  \/ \E a \in Attempts : Work(a) \/ AcquireFails(a) \/ Fail(a) \/ Crash(a)

Spec == Init /\ [][Next]_vars

\* Temporal schedules and times out, Redis expires keys, a living goroutine
\* goes on.
Fairness ==
  /\ \A j \in Jobs : WF_vars(Start(j)) /\ WF_vars(Timeout(j) /\ UNCHANGED spent)
  /\ WF_vars(Expire /\ UNCHANGED spent)
  /\ \A a \in Attempts : WF_vars(Work(a))

FairSpec == Spec /\ Fairness

-----------------------------------------------------------------------------
(* Properties.                                                              *)

Contents == Attempts \cup {None, Torn, Mixed}

\* Every variable keeps its kind; in particular no job gets more attempts than
\* the retry policy allows.
TypeOK ==
  /\ state \in [Jobs -> JobStates]
  /\ attempt \in [Jobs -> 0 .. MaxAttempts]
  /\ pc \in [Attempts -> Pcs]
  /\ left \in [Attempts -> SUBSET Files]
  /\ lock \in Attempts \cup {Free}
  /\ overrun \subseteq Attempts
  /\ files \in [RunIDs -> [Files -> Contents]]
  /\ objects \in [RunIDs -> [Files -> Contents]]
  /\ catalog \in [RunIDs -> Attempts \cup {None}]
  /\ saved \subseteq Attempts
  /\ spent \in 0 .. MaxFaults

\* Between Acquire and Release an attempt, an abandoned one included, holds the
\* VOD's key unless its own two hours are over: nobody else deletes its key, so
\* two attempts at work at once need one that outlived its lock
\* (redislock.Lock.Release, AnalysisRunner.Run).
SectionIsHeld == \A a \in Attempts : InSection(a) => lock = a \/ a \in overrun

\* What a file of an attempt may be: its own, or its own frames among leftovers
\* if it does not remove what it finds.
OwnContents(a, f) == IF f = "sample" /\ ~Overwrites(a) THEN {a, Mixed} ELSE {a}

\* When the catalog names a report, the object store holds both renderings and
\* the frames of that very attempt, never a torn file nor what another attempt
\* published; only a first attempt that was not forced may have frames among its
\* own that an interrupted one left on the disk, as RunSample keeps them
\* (PublishingStore.SaveReport before SaveAnalysisResult, under the lock).
PublishedFirst ==
  \A i \in RunIDs : catalog'[i] # catalog[i] =>
    \/ overrun # {}
    \/ \A f \in Files \ {"clips"} : objects[i][f] \in OwnContents(catalog'[i], f)
CatalogedIsPublished == [][PublishedFirst]_vars

\* A job saves its report and its events once; each repetition, and each report
\* of a job that is called failed, takes a fault of its own (the retries of
\* ProcessAnalysisWorkflow around SaveAnalysisResult, whose event IDs are new
\* every time).
SavesOf(j) == {a \in saved : a[1] = j}
RepeatsNeedFaults ==
  \A j \in Jobs : Cardinality(SavesOf(j)) <= spent + (IF state[j] = "failed" THEN 0 ELSE 1)

\* Whatever dies or hangs, the VOD becomes free for another analysis
\* (the expiry of redislock.Manager.Acquire).
VODIsFreed == []<>(lock = Free)

\* Every job is answered although workers die with its attempts
\* (the heartbeat timeout and the last attempt of ProcessAnalysisWorkflow).
EveryRunEnds == <>(\A j \in Jobs : state[j] \in {"completed", "failed"})

\* Neither a VOD nor a job waits for ever for a worker that has died.
NobodyWaitsForever == VODIsFreed /\ EveryRunEnds

=============================================================================
