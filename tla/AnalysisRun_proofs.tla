------------------------- MODULE AnalysisRun_proofs -------------------------
(***************************************************************************)
(* Theorems about the execution of analyses: the lock, what a report that   *)
(* is in the catalog has in the object store, and how often a job saves.    *)
(* The publication needs the lock: without an overrun the attempt at work   *)
(* is alone, so what it wrote is still there when it is published.  The     *)
(* savings do not: they count attempts, whether Temporal waits for them or  *)
(* not.                                                                     *)
(***************************************************************************)
EXTENDS AnalysisRun, FiniteSetTheorems, TLAPS

Core == Files \ {"clips"}

\* The files, but for the clips, that are written when a stage begins.
Behind == [sample |-> {}, clips |-> {"sample"}, json |-> {"sample"},
           markdown |-> {"sample", "json"}, publish |-> Core]

AtWork(a) == pc[a] \in Files \cup {"publish"}

\* What the attempt wrote is its own, its frames perhaps among leftovers that it
\* may not remove, and published unless it is still listed.
OwnFiles(a) ==
  \A f \in Behind[pc[a]] :
    /\ files[Dir(a)][f] \in OwnContents(a, f)
    /\ f \in left[a] \/ objects[Dir(a)][f] \in OwnContents(a, f)

WorkIsOwn == overrun = {} => \A a \in Attempts : AtWork(a) => OwnFiles(a)

\* A job that waits for an attempt has one left.
WaitingHasRetries == \A j \in Jobs : state[j] = "waiting" => attempt[j] < MaxAttempts

TypeInv == TypeOK /\ WaitingHasRetries

IInv == TypeInv /\ SectionIsHeld /\ WorkIsOwn

-----------------------------------------------------------------------------

\* Attempts are pairs, and their directory is one of the run IDs.
LEMMA AttemptFacts ==
  ASSUME NEW a \in Attempts
  PROVE  a[1] \in Jobs /\ a[2] \in 1 .. MaxAttempts /\ a = <<a[1], a[2]>> /\ Dir(a) \in RunIDs
  BY RunAssumption DEF Attempts, Dir

\* The stages after a stage.
LEMMA StageFacts ==
  ASSUME NEW f \in Files
  PROVE  /\ After[f] \in Files \cup {"publish"}
         /\ After[f] \in Pcs
         /\ f \in Section /\ f \in Pcs
         /\ After[f] # "dead" /\ After[f] \in Section
         /\ Behind[After[f]] \subseteq Behind[f] \cup {f}
  BY DEF Files, After, Pcs, Section, Behind, Core

\* The initial states satisfy the invariant.
LEMMA InitIInv == Init => IInv
  <1> SUFFICES ASSUME Init PROVE IInv
    OBVIOUS
  <1>1. TypeInv
    BY RunAssumption DEF Init, TypeInv, TypeOK, WaitingHasRetries, JobStates, Pcs, Contents
  <1>2. \A a \in Attempts : ~InSection(a) /\ ~AtWork(a)
    BY DEF Init, InSection, AtWork, Section, Files
  <1> QED
    BY <1>1, <1>2 DEF IInv, SectionIsHeld, WorkIsOwn

-----------------------------------------------------------------------------
(* Types.                                                                   *)

\* After a failure a job waits, if it has a retry left, or is failed.
LEMMA AfterFailureFacts ==
  ASSUME TypeOK, NEW j \in Jobs
  PROVE  /\ AfterFailure(j) \in JobStates
         /\ AfterFailure(j) # "running"
         /\ AfterFailure(j) = "waiting" => attempt[j] < MaxAttempts
  BY DEF AfterFailure, JobStates

LEMMA FaultFacts ==
  ASSUME TypeOK, NEW kind, Fault(kind)
  PROVE  spent' \in 0 .. MaxFaults
  BY RunAssumption DEF Fault, TypeOK

\* A cut-short stage leaves files of the right kind.
LEMMA CutShortFacts ==
  ASSUME TypeOK, NEW a \in Attempts, CutShort(a)
  PROVE  files' \in [RunIDs -> [Files -> Contents]]
  <1>1. CASE UNCHANGED files
    BY <1>1 DEF TypeOK
  <1>2. ASSUME NEW f \in Files, files' = [files EXCEPT ![Dir(a)][f] = Torn]
        PROVE  files' \in [RunIDs -> [Files -> Contents]]
    BY <1>2, AttemptFacts DEF TypeOK, Contents
  <1> QED
    BY <1>1, <1>2 DEF CutShort

\* What a stage writes is the attempt's own.
LEMMA YieldIsOwn ==
  ASSUME NEW a \in Attempts, NEW f \in Files
  PROVE  Yield(a, f) \subseteq OwnContents(a, f) /\ Yield(a, f) \subseteq Contents
  BY DEF Yield, OwnContents, Contents

\* Every step keeps the types.
LEMMA TypeStep == TypeInv /\ [Next]_vars => TypeInv'
  <1> SUFFICES ASSUME TypeInv, [Next]_vars PROVE TypeInv'
    OBVIOUS
  <1> USE DEF TypeInv
  <1>a. TypeOK /\ WaitingHasRetries
    OBVIOUS
  <1>1. ASSUME NEW j \in Jobs, Start(j) PROVE TypeInv'
    <2>1. attempt[j] \in Nat /\ attempt[j] < MaxAttempts /\ MaxAttempts \in Nat
      BY <1>a, <1>1, RunAssumption DEF Start, TypeOK, WaitingHasRetries
    <2>2. attempt[j] + 1 \in 1 .. MaxAttempts /\ <<j, attempt[j] + 1>> \in Attempts
      BY <2>1 DEF Attempts
    <2>3. state' \in [Jobs -> JobStates] /\ attempt' \in [Jobs -> 0 .. MaxAttempts]
          /\ pc' \in [Attempts -> Pcs]
      BY <1>a, <1>1, <2>1, <2>2 DEF Start, TypeOK, JobStates, Pcs, Goto
    <2>4. WaitingHasRetries'
      BY <1>a, <1>1 DEF Start, TypeOK, WaitingHasRetries
    <2> QED
      BY <1>a, <1>1, <2>3, <2>4 DEF Start, TypeOK, storage
  <1>2. ASSUME NEW j \in Jobs, Timeout(j) PROVE TypeInv'
    <2>1. spent' \in 0 .. MaxFaults
      BY <1>a, <1>2, FaultFacts DEF Timeout, TypeOK
    <2>2. state' \in [Jobs -> JobStates] /\ WaitingHasRetries'
      BY <1>a, <1>2, AfterFailureFacts DEF Timeout, TypeOK, WaitingHasRetries
    <2> QED
      BY <1>a, <1>2, <2>1, <2>2 DEF Timeout, TypeOK, storage
  <1>3. CASE Expire
    <2>1. spent' \in 0 .. MaxFaults
      BY <1>a, <1>3, FaultFacts DEF Expire, TypeOK
    <2>2. lock' \in Attempts \cup {Free} /\ overrun' \subseteq Attempts
      BY <1>a, <1>3 DEF Expire, TypeOK
    <2> QED
      BY <1>a, <1>3, <2>1, <2>2 DEF Expire, TypeOK, WaitingHasRetries, temporal, storage
  <1>4. ASSUME NEW a \in Attempts, Acquire(a) PROVE TypeInv'
    BY <1>a, <1>4 DEF Acquire, TypeOK, WaitingHasRetries, Goto, Pcs, Section, Files, temporal, storage
  <1>5. ASSUME NEW a \in Attempts, AcquireFails(a) PROVE TypeInv'
    <2>1. spent' \in 0 .. MaxFaults
      BY <1>a, <1>5, FaultFacts DEF AcquireFails
    <2> QED
      BY <1>a, <1>5, <2>1 DEF AcquireFails, TypeOK, WaitingHasRetries, Goto, Pcs, temporal, storage
  <1>6. ASSUME NEW a \in Attempts, Return(a) PROVE TypeInv'
    <2>1. spent' \in 0 .. MaxFaults
      BY <1>a, <1>6, FaultFacts DEF Return, TypeOK
    <2>2. state' \in [Jobs -> JobStates]
      BY <1>a, <1>6, AttemptFacts, AfterFailureFacts DEF Return, TypeOK, JobStates
    <2>3. WaitingHasRetries'
      BY <1>a, <1>6, AttemptFacts, AfterFailureFacts DEF Return, TypeOK, WaitingHasRetries
    <2>4. lock' \in Attempts \cup {Free}
      BY <1>a, <1>6 DEF Return, Release, TypeOK
    <2> QED
      BY <1>a, <1>6, <2>1, <2>2, <2>3, <2>4 DEF Return, TypeOK, Goto, Pcs, storage
  <1>7. ASSUME NEW a \in Attempts, NEW f \in Files, Produce(a, f) PROVE TypeInv'
    <2>1. PICK content \in Contents : files' = [files EXCEPT ![Dir(a)][f] = content]
      BY <1>7, YieldIsOwn DEF Produce
    <2>2. files' \in [RunIDs -> [Files -> Contents]]
      BY <1>a, <2>1, AttemptFacts DEF TypeOK
    <2> QED
      BY <1>a, <1>7, <2>2, StageFacts DEF Produce, TypeOK, WaitingHasRetries, Goto, temporal
  <1>8. ASSUME NEW a \in Attempts, NEW f \in Files, AlreadyExists(a, f) PROVE TypeInv'
    BY <1>a, <1>8 DEF AlreadyExists, TypeOK, WaitingHasRetries, Goto, Pcs, Section, temporal, storage
  <1>9. ASSUME NEW a \in Attempts, NEW f \in Files, Upload(a, f) PROVE TypeInv'
    <2>1. objects' \in [RunIDs -> [Files -> Contents]]
      BY <1>a, <1>9, AttemptFacts DEF Upload, TypeOK
    <2> QED
      BY <1>a, <1>9, <2>1 DEF Upload, TypeOK, WaitingHasRetries, temporal
  <1>10. ASSUME NEW a \in Attempts, NoClips(a) PROVE TypeInv'
    BY <1>a, <1>10 DEF NoClips, After, TypeOK, WaitingHasRetries, Goto, Pcs, Section, Files, temporal, storage
  <1>11. ASSUME NEW a \in Attempts, Persist(a) PROVE TypeInv'
    <2>1. spent' \in 0 .. MaxFaults
      BY <1>a, <1>11, FaultFacts DEF Persist, TypeOK
    <2>2. catalog' \in [RunIDs -> Attempts \cup {None}] /\ saved' \subseteq Attempts
      BY <1>a, <1>11, AttemptFacts DEF Persist, Commit, Cataloged, EventsInserted, TypeOK
    <2>3. pc' \in [Attempts -> Pcs]
      BY <1>a, <1>11 DEF Persist, Goto, TypeOK, Pcs, Section
    <2> QED
      BY <1>a, <1>11, <2>1, <2>2, <2>3 DEF Persist, Commit, Cataloged, EventsInserted, TypeOK, WaitingHasRetries, temporal
  <1>12. ASSUME NEW a \in Attempts, Fail(a) PROVE TypeInv'
    <2>1. spent' \in 0 .. MaxFaults
      BY <1>a, <1>12, FaultFacts DEF Fail, TypeOK
    <2>2. files' \in [RunIDs -> [Files -> Contents]]
      BY <1>a, <1>12, CutShortFacts DEF Fail
    <2> QED
      BY <1>a, <1>12, <2>1, <2>2 DEF Fail, TypeOK, WaitingHasRetries, Goto, Pcs, Section, temporal
  <1>13. ASSUME NEW a \in Attempts, Crash(a) PROVE TypeInv'
    <2>1. spent' \in 0 .. MaxFaults
      BY <1>a, <1>13, FaultFacts DEF Crash
    <2>2. files' \in [RunIDs -> [Files -> Contents]]
      BY <1>a, <1>13, CutShortFacts DEF Crash
    <2> QED
      BY <1>a, <1>13, <2>1, <2>2 DEF Crash, TypeOK, WaitingHasRetries, Goto, Pcs, temporal
  <1>14. CASE UNCHANGED vars
    BY <1>a, <1>14 DEF vars, temporal, storage, TypeOK, WaitingHasRetries
  <1> QED
    BY <1>1, <1>2, <1>3, <1>4, <1>5, <1>6, <1>7, <1>8, <1>9, <1>10, <1>11, <1>12, <1>13, <1>14
    DEF Next, Work, Stage

-----------------------------------------------------------------------------
(* The lock.                                                                *)

\* Where an attempt goes, and who is in the section, when one step moves it.
LEMMA GotoFacts ==
  ASSUME TypeOK, NEW a \in Attempts, NEW label, Goto(a, label)
  PROVE  /\ pc'[a] = label
         /\ \A b \in Attempts : b # a => pc'[b] = pc[b]
  BY DEF Goto, TypeOK

\* An attempt that stays in the section, or leaves it, disturbs nobody's lock.
LEMMA SectionKept ==
  ASSUME TypeOK, SectionIsHeld, NEW a \in Attempts, NEW label, Goto(a, label),
         label \in Section => InSection(a),
         lock' = lock, overrun' = overrun
  PROVE  SectionIsHeld'
  BY GotoFacts DEF SectionIsHeld, InSection

\* Every step keeps the lock with the attempt in the section.
LEMMA SectionStep == TypeInv /\ SectionIsHeld /\ [Next]_vars => SectionIsHeld'
  <1> SUFFICES ASSUME TypeInv, SectionIsHeld, [Next]_vars PROVE SectionIsHeld'
    OBVIOUS
  <1>a. TypeOK
    BY DEF TypeInv
  <1>1. ASSUME NEW j \in Jobs, Start(j) PROVE SectionIsHeld'
    <2>1. <<j, attempt[j] + 1>> \in Attempts
      BY <1>1, RunAssumption DEF Start, TypeInv, TypeOK, WaitingHasRetries, Attempts
    <2> QED
      BY <1>a, <1>1, <2>1, SectionKept DEF Start, Section, Files
  <1>2. ASSUME NEW j \in Jobs, Timeout(j) PROVE SectionIsHeld'
    BY <1>2 DEF Timeout, SectionIsHeld, InSection
  <1>3. CASE Expire
    BY <1>3 DEF Expire, SectionIsHeld, InSection
  <1>4. ASSUME NEW a \in Attempts, Acquire(a) PROVE SectionIsHeld'
    <2>1. CASE lock = Free
      <3>1. \A b \in Attempts : InSection(b) => b \in overrun
        BY <2>1, SentinelAssumption DEF SectionIsHeld
      <3> QED
        BY <1>a, <1>4, <2>1, <3>1, GotoFacts DEF Acquire, SectionIsHeld, InSection
    <2>2. CASE lock # Free
      BY <1>a, <1>4, <2>2, SectionKept DEF Acquire, Section, Files
    <2> QED
      BY <2>1, <2>2
  <1>5. ASSUME NEW a \in Attempts, AcquireFails(a) PROVE SectionIsHeld'
    <2>1. CASE lock' = lock
      BY <1>a, <1>5, <2>1, SectionKept DEF AcquireFails, Section, Files
    <2>2. CASE lock = Free
      <3>1. \A b \in Attempts : InSection(b) => b \in overrun
        BY <2>2, SentinelAssumption DEF SectionIsHeld
      <3>2. "refused" \notin Section
        BY DEF Section, Files
      <3> QED
        BY <1>a, <1>5, <3>1, <3>2, GotoFacts DEF AcquireFails, SectionIsHeld, InSection
    <2> QED
      BY <1>5, <2>1, <2>2 DEF AcquireFails
  <1>6. ASSUME NEW a \in Attempts, Return(a) PROVE SectionIsHeld'
    <2>1. lock' = lock \/ (lock = a /\ lock' = Free)
      BY <1>6 DEF Return, Release
    <2>2. pc'[a] \notin Section /\ \A b \in Attempts : b # a => pc'[b] = pc[b]
      BY <1>a, <1>6, GotoFacts DEF Return, Section, Files
    <2> QED
      BY <1>6, <2>1, <2>2 DEF Return, SectionIsHeld, InSection
  <1>7. ASSUME NEW a \in Attempts, NEW f \in Files, Produce(a, f) PROVE SectionIsHeld'
    BY <1>a, <1>7, SectionKept, StageFacts DEF Produce, InSection
  <1>8. ASSUME NEW a \in Attempts, NEW f \in Files, AlreadyExists(a, f) PROVE SectionIsHeld'
    BY <1>a, <1>8, SectionKept, StageFacts DEF AlreadyExists, InSection
  <1>9. ASSUME NEW a \in Attempts, NEW f \in Files, Upload(a, f) PROVE SectionIsHeld'
    BY <1>9 DEF Upload, SectionIsHeld, InSection
  <1>10. ASSUME NEW a \in Attempts, NoClips(a) PROVE SectionIsHeld'
    BY <1>a, <1>10, SectionKept DEF NoClips, InSection, Section, Files
  <1>11. ASSUME NEW a \in Attempts, Persist(a) PROVE SectionIsHeld'
    <2>1. InSection(a) /\ lock' = lock /\ overrun' = overrun
      BY <1>11 DEF Persist, Commit, Cataloged, EventsInserted, InSection, Section
    <2> QED
      BY <1>a, <1>11, <2>1, SectionKept DEF Persist
  <1>12. ASSUME NEW a \in Attempts, Fail(a) PROVE SectionIsHeld'
    BY <1>a, <1>12, SectionKept DEF Fail, InSection, Section
  <1>13. ASSUME NEW a \in Attempts, Crash(a) PROVE SectionIsHeld'
    BY <1>a, <1>13, SectionKept DEF Crash, Section, Files
  <1>14. CASE UNCHANGED vars
    BY <1>14 DEF vars, SectionIsHeld, InSection
  <1> QED
    BY <1>1, <1>2, <1>3, <1>4, <1>5, <1>6, <1>7, <1>8, <1>9, <1>10, <1>11, <1>12, <1>13, <1>14
    DEF Next, Work, Stage

-----------------------------------------------------------------------------
(* The files.                                                               *)

\* As long as no attempt outlived its lock, at most one is in the section.
LEMMA Alone ==
  ASSUME SectionIsHeld, overrun = {}, NEW a \in Attempts, NEW b \in Attempts,
         InSection(a), InSection(b)
  PROVE  a = b
  BY DEF SectionIsHeld

\* Who is at work is in the section.
LEMMA WorkIsInSection == ASSUME NEW a \in Attempts, AtWork(a) PROVE InSection(a)
  BY DEF AtWork, InSection, Section

\* A step that touches neither an attempt nor the files keeps its work.
LEMMA WorkKept ==
  ASSUME WorkIsOwn, overrun = {}, NEW b \in Attempts, AtWork(b)',
         pc'[b] = pc[b], left'[b] = left[b], files' = files, objects' = objects
  PROVE  OwnFiles(b)'
  BY DEF WorkIsOwn, AtWork, OwnFiles, Dir

\* The key of an attempt at work never expires again: overrun only grows.
LEMMA OverrunGrows == [Next]_vars => overrun \subseteq overrun'
  BY DEF Next, Work, Stage, Start, Timeout, Expire, Acquire, AcquireFails, Return, Produce,
         NoClips, AlreadyExists, Upload, Persist, Commit, Cataloged, EventsInserted, Fail, Crash, vars

\* Every step keeps the work of the attempt in the section.
LEMMA WorkStep == TypeInv /\ SectionIsHeld /\ WorkIsOwn /\ [Next]_vars => WorkIsOwn'
  <1> SUFFICES ASSUME TypeInv, SectionIsHeld, WorkIsOwn, [Next]_vars, overrun' = {},
                      NEW b \in Attempts, AtWork(b)'
               PROVE  OwnFiles(b)'
    BY DEF WorkIsOwn
  <1>a. TypeOK /\ overrun = {}
    BY OverrunGrows DEF TypeInv
  <1>b. ASSUME AtWork(b) PROVE OwnFiles(b) /\ InSection(b)
    BY <1>a, <1>b, WorkIsInSection DEF WorkIsOwn
  <1>1. ASSUME NEW j \in Jobs, Start(j) PROVE OwnFiles(b)'
    <2>1. <<j, attempt[j] + 1>> \in Attempts
      BY <1>1, RunAssumption DEF Start, TypeInv, TypeOK, WaitingHasRetries, Attempts
    <2>2. b # <<j, attempt[j] + 1>> /\ pc'[b] = pc[b]
      BY <1>a, <1>1, <2>1, GotoFacts DEF Start, AtWork, Files
    <2> QED
      BY <1>a, <1>1, <2>2, WorkKept DEF Start, storage
  <1>2. ASSUME NEW j \in Jobs, Timeout(j) PROVE OwnFiles(b)'
    BY <1>a, <1>2, WorkKept DEF Timeout, storage
  <1>3. CASE Expire
    BY <1>a, <1>3, WorkKept DEF Expire, storage
  <1>4. ASSUME NEW a \in Attempts, Acquire(a) PROVE OwnFiles(b)'
    <2>1. CASE b = a
      BY <1>a, <1>4, <2>1, GotoFacts DEF Acquire, AtWork, OwnFiles, Behind, Files
    <2>2. CASE b # a
      BY <1>a, <1>4, <2>2, GotoFacts, WorkKept DEF Acquire, storage
    <2> QED
      BY <2>1, <2>2
  <1>5. ASSUME NEW a \in Attempts, AcquireFails(a) PROVE OwnFiles(b)'
    <2>1. b # a /\ pc'[b] = pc[b]
      BY <1>a, <1>5, GotoFacts DEF AcquireFails, AtWork, Files
    <2> QED
      BY <1>a, <1>5, <2>1, WorkKept DEF AcquireFails, storage
  <1>6. ASSUME NEW a \in Attempts, Return(a) PROVE OwnFiles(b)'
    <2>1. b # a /\ pc'[b] = pc[b]
      BY <1>a, <1>6, GotoFacts DEF Return, AtWork, Files
    <2> QED
      BY <1>a, <1>6, <2>1, WorkKept DEF Return, storage
  <1>7. ASSUME NEW a \in Attempts, NEW f \in Files, Produce(a, f) PROVE OwnFiles(b)'
    <2>1. InSection(a) /\ AtWork(a)
      BY <1>7 DEF Produce, InSection, AtWork, Section
    <2>2. b = a
      <3>1. SUFFICES ASSUME b # a PROVE FALSE
        OBVIOUS
      <3>2. AtWork(b)
        BY <1>a, <1>7, <3>1, GotoFacts DEF Produce, AtWork
      <3> QED
        BY <1>a, <1>b, <2>1, <3>1, <3>2, Alone
    <2>3. OwnFiles(a)
      BY <1>b, <2>1, <2>2
    <2>w. PICK content \in OwnContents(a, f) : files' = [files EXCEPT ![Dir(a)][f] = content]
      BY <1>7, YieldIsOwn DEF Produce
    <2>4. /\ files'[Dir(a)][f] \in OwnContents(a, f) /\ f \in left'[a] /\ objects' = objects
          /\ \A g \in Files \ {f} : files'[Dir(a)][g] = files[Dir(a)][g]
          /\ left[a] \subseteq left'[a]
      BY <1>a, <1>7, <2>w, AttemptFacts DEF Produce, TypeOK
    <2>5. pc[a] = f /\ pc'[a] = After[f]
      BY <1>a, <1>7, GotoFacts DEF Produce
    <2>6. Behind[f] \subseteq Files /\ Behind[After[f]] \subseteq Behind[f] \cup {f}
      BY StageFacts DEF Files, Behind, Core
    <2> QED
      BY <2>2, <2>3, <2>4, <2>5, <2>6 DEF OwnFiles, Dir
  <1>8. ASSUME NEW a \in Attempts, NEW f \in Files, AlreadyExists(a, f) PROVE OwnFiles(b)'
    <2>1. b # a /\ pc'[b] = pc[b]
      BY <1>a, <1>8, GotoFacts DEF AlreadyExists, AtWork, Files
    <2> QED
      BY <1>a, <1>8, <2>1, WorkKept DEF AlreadyExists, storage
  <1>9. ASSUME NEW a \in Attempts, NEW f \in Files, Upload(a, f) PROVE OwnFiles(b)'
    <2>1. b = a
      <3>1. InSection(a) /\ AtWork(b)
        BY <1>9 DEF Upload, InSection, Section, AtWork
      <3> QED
        BY <1>a, <1>b, <3>1, Alone
    <2>2. AtWork(a) /\ OwnFiles(a)
      BY <1>9, <1>b, <2>1 DEF Upload, AtWork
    <2>3. /\ objects'[Dir(a)][f] = files[Dir(a)][f] /\ files' = files /\ pc' = pc
          /\ \A g \in Files \ {f} : objects'[Dir(a)][g] = objects[Dir(a)][g]
          /\ left[a] \ {f} \subseteq left'[a]
      BY <1>a, <1>9, AttemptFacts DEF Upload, TypeOK
    <2>4. Behind[pc[a]] \subseteq Files
      BY <1>9 DEF Upload, Behind, Core
    <2> QED
      BY <2>1, <2>2, <2>3, <2>4 DEF OwnFiles, Dir
  <1>10. ASSUME NEW a \in Attempts, NoClips(a) PROVE OwnFiles(b)'
    <2>1. CASE b = a
      <3>1. OwnFiles(a) /\ pc[a] = "clips" /\ pc'[a] = "json"
        BY <1>a, <1>b, <1>10, <2>1, GotoFacts DEF NoClips, AtWork, Files, After
      <3> QED
        BY <1>10, <2>1, <3>1 DEF NoClips, OwnFiles, Behind, Dir, storage
    <2>2. CASE b # a
      BY <1>a, <1>10, <2>2, GotoFacts, WorkKept DEF NoClips, storage
    <2> QED
      BY <2>1, <2>2
  <1>11. ASSUME NEW a \in Attempts, Persist(a) PROVE OwnFiles(b)'
    <2>1. b # a /\ pc'[b] = pc[b]
      BY <1>a, <1>11, GotoFacts DEF Persist, AtWork, Files
    <2> QED
      BY <1>a, <1>11, <2>1, WorkKept DEF Persist, Commit, Cataloged, EventsInserted
  <1>12. ASSUME NEW a \in Attempts, Fail(a) PROVE OwnFiles(b)'
    <2>1. b # a /\ pc'[b] = pc[b] /\ InSection(a)
      BY <1>a, <1>12, GotoFacts DEF Fail, AtWork, Files, InSection, Section
    <2> QED
      BY <1>a, <1>b, <2>1, Alone DEF AtWork
  <1>13. ASSUME NEW a \in Attempts, Crash(a) PROVE OwnFiles(b)'
    <2>1. b # a /\ pc'[b] = pc[b]
      BY <1>a, <1>13, GotoFacts DEF Crash, AtWork, Files
    <2>2. files' = files
      <3>1. SUFFICES ASSUME files' # files PROVE FALSE
        OBVIOUS
      <3>2. InSection(a)
        BY <1>13, <3>1 DEF Crash, CutShort, InSection, Section
      <3> QED
        BY <1>a, <1>b, <2>1, <3>2, Alone DEF AtWork
    <2> QED
      BY <1>a, <1>13, <2>1, <2>2, WorkKept DEF Crash
  <1>14. CASE UNCHANGED vars
    BY <1>a, <1>14, WorkKept DEF vars, storage
  <1> QED
    BY <1>1, <1>2, <1>3, <1>4, <1>5, <1>6, <1>7, <1>8, <1>9, <1>10, <1>11, <1>12, <1>13, <1>14
    DEF Next, Work, Stage

\* A step that changes the catalog is the commit of an attempt that published
\* everything it wrote.
LEMMA PublishedFirstStep == IInv /\ [Next]_vars => PublishedFirst
  <1> SUFFICES ASSUME IInv, [Next]_vars, overrun = {},
                      NEW i \in RunIDs, catalog'[i] # catalog[i],
                      NEW f \in Files \ {"clips"}
               PROVE  objects[i][f] \in OwnContents(catalog'[i], f)
    BY DEF PublishedFirst
  <1>1. PICK a \in Attempts : Persist(a)
    BY DEF Next, Work, Stage, Start, Timeout, Expire, Acquire, AcquireFails, Return, Produce,
           NoClips, AlreadyExists, Upload, Fail, Crash, storage, vars
  <1>2. i = Dir(a) /\ catalog'[i] = a
    BY <1>1, AttemptFacts DEF Persist, Commit, Cataloged, EventsInserted, IInv, TypeInv, TypeOK
  <1>3. AtWork(a) /\ pc[a] = "publish" /\ left[a] = {}
    BY <1>1 DEF Persist, AtWork
  <1>4. OwnFiles(a)
    BY <1>3 DEF IInv, WorkIsOwn
  <1> QED
    BY <1>2, <1>3, <1>4 DEF OwnFiles, Behind, Core

-----------------------------------------------------------------------------
(* Repetitions.                                                             *)

\* A goroutine that has not saved and still may.
Living == {"lock", "publish"} \cup Files

\* The attempts of a job that have saved or still may, abandoned ones included.
Savers(j) == {a \in Attempts : a[1] = j /\ (a \in saved \/ pc[a] \in Living)}

\* One of them needs no fault: that of a job that has completed, or whose last
\* attempt is awaited and has not failed.
Excused(j) ==
  \/ state[j] = "completed"
  \/ state[j] = "running" /\ pc[<<j, attempt[j]>>] \in Living \cup {"success"}

Allowance(j) == IF Excused(j) THEN 1 ELSE 0

NumbersGoUp == \A a \in Attempts : pc[a] # "idle" => a[2] <= attempt[a[1]]

RunningHasAttempt == \A j \in Jobs : state[j] = "running" => <<j, attempt[j]>> \in Attempts

SavedHaveEnded == \A a \in saved : pc[a] \in {"success", "failure", "over", "dead"}

SaversArePaid == \A j \in Jobs : Cardinality(Savers(j)) <= spent + Allowance(j)

RepeatInv == NumbersGoUp /\ RunningHasAttempt /\ SavedHaveEnded /\ SaversArePaid

\* Taking an element away, or adding one.
LEMMA Fewer ==
  ASSUME NEW S, IsFiniteSet(S), NEW x
  PROVE  /\ Cardinality(S \ {x}) \in Nat
         /\ Cardinality(S \ {x}) <= Cardinality(S)
         /\ x \in S => Cardinality(S \ {x}) = Cardinality(S) - 1
  <1>1. Cardinality(S) \in Nat
    BY FS_CardinalityType
  <1>2. IsFiniteSet(S \ {x}) /\ Cardinality(S \ {x}) \in {Cardinality(S), Cardinality(S) - 1}
    BY FS_RemoveElement
  <1>3. Cardinality(S \ {x}) \in Nat
    BY <1>2, FS_CardinalityType
  <1> QED
    BY <1>1, <1>2, <1>3, FS_RemoveElement

LEMMA More ==
  ASSUME NEW S, IsFiniteSet(S), NEW x
  PROVE  /\ IsFiniteSet(S \cup {x})
         /\ Cardinality(S \cup {x}) \in Nat
         /\ Cardinality(S \cup {x}) <= Cardinality(S) + 1
  <1>1. Cardinality(S) \in Nat
    BY FS_CardinalityType
  <1>2. /\ IsFiniteSet(S \cup {x})
        /\ Cardinality(S \cup {x}) = IF x \in S THEN Cardinality(S) ELSE Cardinality(S) + 1
    BY FS_AddElement
  <1> QED
    BY <1>1, <1>2

\* Savers are attempts of the retry policy, so they can be counted.
LEMMA SaversAreFinite ==
  ASSUME NEW j \in Jobs
  PROVE  IsFiniteSet(Savers(j)) /\ Cardinality(Savers(j)) \in Nat
  <1>1. IsFiniteSet({j})
    BY FS_Singleton
  <1>a. 1 \in Int /\ MaxAttempts \in Int
    BY RunAssumption
  <1>b. IsFiniteSet(1 .. MaxAttempts)
    BY <1>a, FS_Interval
  <1>2. IsFiniteSet({j} \X (1 .. MaxAttempts))
    BY <1>1, <1>b, FS_Product
  <1>3. Savers(j) \subseteq {j} \X (1 .. MaxAttempts)
    BY DEF Savers, Attempts
  <1>4. IsFiniteSet(Savers(j))
    BY <1>2, <1>3, FS_Subset
  <1> QED
    BY <1>4, FS_CardinalityType

\* What one attempt does changes the savers of its own job only, by itself.
LEMMA OneSaverMoves ==
  ASSUME TypeOK, NEW a \in Attempts, NEW label, Goto(a, label),
         saved' \in {saved, saved \cup {a}}
  PROVE  /\ \A j \in Jobs \ {a[1]} : Savers(j)' = Savers(j)
         /\ Savers(a[1])' = IF a \in saved' \/ label \in Living
                            THEN Savers(a[1]) \cup {a} ELSE Savers(a[1]) \ {a}
  BY GotoFacts DEF Savers

\* The last attempt of another job is another attempt.
LEMMA OthersAreExcused ==
  ASSUME TypeOK, RunningHasAttempt, NEW a \in Attempts, NEW label, Goto(a, label),
         attempt' = attempt, NEW j \in Jobs, state'[j] = state[j],
         j # a[1] \/ attempt[j] # a[2]
  PROVE  Allowance(j)' = Allowance(j)
  <1>1. CASE state[j] = "running"
    <2>1. <<j, attempt[j]>> \in Attempts /\ a # <<j, attempt[j]>>
      BY <1>1, AttemptFacts DEF RunningHasAttempt
    <2>2. pc'[<<j, attempt[j]>>] = pc[<<j, attempt[j]>>]
      BY <2>1, GotoFacts
    <2> QED
      BY <2>2 DEF Allowance, Excused
  <1>2. CASE state[j] # "running"
    BY <1>2 DEF Allowance, Excused
  <1> QED
    BY <1>1, <1>2

\* What may happen to an attempt and the job's allowance with no further fault:
\* an attempt that gives its job no excuse any more has died of a fault, or has
\* not saved and will not.
Paid(a, label) ==
  \/ spent' = spent + 1
  \/ spent' = spent
     /\ \/ label \in Living \cup {"success"}
        \/ ~Awaited(a)
        \/ pc[a] \notin Living \cup {"success"}
        \/ pc[a] \in Living /\ a \notin saved'

\* A step of an attempt that its job does not notice keeps the repetitions paid.
LEMMA RepeatKept ==
  ASSUME TypeOK, RepeatInv, NEW a \in Attempts, NEW label, Goto(a, label),
         pc[a] # "idle", label # "idle",
         UNCHANGED temporal, saved' \in {saved, saved \cup {a}},
         a \in saved' => label \in {"success", "failure", "over", "dead"},
         a \in saved' \/ label \in Living => a \in Savers(a[1]),
         label = "success" => pc[a] \in Living \cup {"success"},
         Paid(a, label)
  PROVE  RepeatInv'
  <1>1. NumbersGoUp' /\ RunningHasAttempt'
    BY GotoFacts DEF RepeatInv, NumbersGoUp, RunningHasAttempt, temporal
  <1>2. SavedHaveEnded'
    BY GotoFacts DEF RepeatInv, SavedHaveEnded, TypeOK
  <1>3. ASSUME NEW j \in Jobs
        PROVE  Cardinality(Savers(j)') <= spent' + Allowance(j)'
    <2>1. /\ IsFiniteSet(Savers(j)) /\ Cardinality(Savers(j)) \in Nat
          /\ Cardinality(Savers(j)) <= spent + Allowance(j)
          /\ spent \in Nat /\ spent' \in {spent, spent + 1}
          /\ Allowance(j) \in {0, 1} /\ Allowance(j)' \in {0, 1}
      BY SaversAreFinite, RunAssumption DEF RepeatInv, SaversArePaid, TypeOK, Allowance, Paid
    <2>2. CASE j # a[1]
      <3>1. Savers(j)' = Savers(j) /\ Allowance(j)' = Allowance(j)
        BY <2>2, OneSaverMoves, OthersAreExcused DEF RepeatInv, temporal
      <3> QED
        BY <2>1, <3>1
    <2>3. CASE j = a[1]
      <3>1. /\ a \in saved' \/ label \in Living => Savers(j)' = Savers(j)
            /\ ~(a \in saved' \/ label \in Living) => Savers(j)' = Savers(j) \ {a}
        <4>1. Savers(a[1])' = IF a \in saved' \/ label \in Living
                              THEN Savers(a[1]) \cup {a} ELSE Savers(a[1]) \ {a}
          BY OneSaverMoves
        <4> QED
          BY <2>3, <4>1
      <3>2. Cardinality(Savers(j)') \in Nat /\ Cardinality(Savers(j)') <= Cardinality(Savers(j))
        <4>1. Cardinality(Savers(j) \ {a}) \in Nat
              /\ Cardinality(Savers(j) \ {a}) <= Cardinality(Savers(j))
          BY <2>1, Fewer
        <4>2. CASE a \in saved' \/ label \in Living
          BY <2>1, <3>1, <4>2
        <4>3. CASE ~(a \in saved' \/ label \in Living)
          BY <2>1, <3>1, <4>1, <4>3
        <4> QED
          BY <4>2, <4>3
      <3>3. CASE spent' = spent + 1 \/ Allowance(j)' >= Allowance(j)
        BY <2>1, <3>2, <3>3
      <3>4. CASE spent' = spent /\ Allowance(j)' < Allowance(j)
        <4>1. Awaited(a)
          <5>1. j = a[1] /\ attempt[j] = a[2]
            BY <2>1, <2>3, <3>4, OthersAreExcused DEF RepeatInv, temporal
          <5>2. state[j] = "running"
            BY <2>1, <3>4 DEF Allowance, Excused, temporal
          <5> QED
            BY <5>1, <5>2 DEF Awaited
        <4>2. a = <<j, attempt[j]>> /\ state[j] = "running" /\ state' = state /\ attempt' = attempt
          BY <2>3, <4>1, AttemptFacts DEF Awaited, temporal
        <4>3. pc[a] \in Living \cup {"success"} /\ label \notin Living \cup {"success"}
          BY <2>1, <3>4, <4>2, GotoFacts DEF Allowance, Excused
        <4>4. pc[a] \in Living /\ a \notin saved' /\ label \notin Living
          BY <2>1, <3>4, <4>1, <4>3 DEF Paid
        <4>5. a \in Savers(j) /\ Savers(j)' = Savers(j) \ {a}
          BY <2>3, <3>1, <4>4 DEF Savers
        <4>6. Cardinality(Savers(j)') = Cardinality(Savers(j)) - 1
          BY <2>1, <4>5, FS_RemoveElement
        <4> QED
          BY <2>1, <3>4, <4>6
      <3> QED
        BY <2>1, <3>3, <3>4
    <2> QED
      BY <2>2, <2>3
  <1> QED
    BY <1>1, <1>2, <1>3 DEF RepeatInv, SaversArePaid

\* Steps that leave attempts, jobs and saved reports alone.
LEMMA RepeatUntouched ==
  ASSUME RepeatInv, UNCHANGED <<temporal, pc, saved>>, spent \in Nat,
         spent' \in {spent, spent + 1}
  PROVE  RepeatInv'
  <1>1. NumbersGoUp' /\ RunningHasAttempt' /\ SavedHaveEnded'
    BY DEF RepeatInv, NumbersGoUp, RunningHasAttempt, SavedHaveEnded, temporal
  <1>2. ASSUME NEW j \in Jobs PROVE Cardinality(Savers(j)') <= spent' + Allowance(j)'
    <2>1. Savers(j)' = Savers(j) /\ Allowance(j)' = Allowance(j)
      BY DEF Savers, Allowance, Excused, temporal
    <2>2. Cardinality(Savers(j)) \in Nat /\ Allowance(j) \in {0, 1}
      BY SaversAreFinite DEF Allowance
    <2>3. Cardinality(Savers(j)) <= spent + Allowance(j)
      BY DEF RepeatInv, SaversArePaid
    <2> QED
      BY <2>1, <2>2, <2>3
  <1> QED
    BY <1>1, <1>2 DEF RepeatInv, SaversArePaid

\* A new attempt takes the place of one that is paid for.
LEMMA RepeatStart ==
  ASSUME TypeInv, RepeatInv, NEW j \in Jobs, Start(j)
  PROVE  RepeatInv'
  <1> DEFINE a == <<j, attempt[j] + 1>>
  <1>1. /\ attempt[j] \in Nat /\ a \in Attempts /\ a[1] = j /\ a[2] = attempt[j] + 1
        /\ Goto(a, "lock") /\ attempt' = [attempt EXCEPT ![j] = @ + 1]
        /\ state[j] = "waiting" /\ state' = [state EXCEPT ![j] = "running"]
        /\ saved' = saved /\ spent' = spent /\ spent \in Nat
    BY RunAssumption DEF Start, TypeInv, TypeOK, WaitingHasRetries, Attempts, storage
  <1>2. attempt'[j] = attempt[j] + 1 /\ \A k \in Jobs : k # j => attempt'[k] = attempt[k]
    BY <1>1 DEF TypeInv, TypeOK
  <1>3. state'[j] = "running" /\ \A k \in Jobs : k # j => state'[k] = state[k]
    BY <1>1 DEF TypeInv, TypeOK
  <1>4. pc'[a] = "lock" /\ \A b \in Attempts : b # a => pc'[b] = pc[b]
    BY <1>1, GotoFacts DEF TypeInv
  <1>5. NumbersGoUp'
    <2> SUFFICES ASSUME NEW b \in Attempts, pc'[b] # "idle" PROVE b[2] <= attempt'[b[1]]
      BY DEF NumbersGoUp
    <2>1. b[1] \in Jobs /\ b[2] \in Nat /\ attempt[b[1]] \in Nat
      BY AttemptFacts DEF TypeInv, TypeOK
    <2>2. CASE b = a
      BY <1>1, <1>2, <2>2
    <2>3. CASE b # a
      <3>1. b[2] <= attempt[b[1]]
        BY <1>4, <2>3 DEF RepeatInv, NumbersGoUp
      <3>2. attempt'[b[1]] \in {attempt[b[1]], attempt[b[1]] + 1}
        BY <1>2, <2>1
      <3> QED
        BY <2>1, <3>1, <3>2
    <2> QED
      BY <2>2, <2>3
  <1>6. RunningHasAttempt'
    <2> SUFFICES ASSUME NEW k \in Jobs, state'[k] = "running" PROVE <<k, attempt'[k]>> \in Attempts
      BY DEF RunningHasAttempt
    <2> QED
      BY <1>1, <1>2, <1>3 DEF RepeatInv, RunningHasAttempt
  <1>7. a \notin saved
    BY <1>1 DEF RepeatInv, NumbersGoUp, SavedHaveEnded
  <1>8. SavedHaveEnded'
    BY <1>1, <1>4, <1>7 DEF RepeatInv, SavedHaveEnded, TypeInv, TypeOK
  <1>9. ASSUME NEW k \in Jobs PROVE Cardinality(Savers(k)') <= spent' + Allowance(k)'
    <2>1. /\ IsFiniteSet(Savers(k)) /\ Cardinality(Savers(k)) \in Nat
          /\ Cardinality(Savers(k)) <= spent + Allowance(k)
      BY SaversAreFinite DEF RepeatInv, SaversArePaid
    <2>2. CASE k = j
      <3>1. Allowance(j) = 0
        BY <1>1 DEF Allowance, Excused
      <3>2. Allowance(j)' = 1
        BY <1>2, <1>3, <1>4 DEF Allowance, Excused, Living
      <3>3. Savers(j)' = Savers(j) \cup {a}
        BY <1>1, OneSaverMoves DEF TypeInv, Living
      <3>4. Cardinality(Savers(j) \cup {a}) \in Nat
            /\ Cardinality(Savers(j) \cup {a}) <= Cardinality(Savers(j)) + 1
        BY <2>1, <2>2, More
      <3> QED
        BY <1>1, <2>1, <2>2, <3>1, <3>2, <3>3, <3>4
    <2>3. CASE k # j
      <3>1. Savers(k)' = Savers(k)
        BY <1>1, <2>3, OneSaverMoves DEF TypeInv
      <3>2. state'[k] = state[k] /\ attempt'[k] = attempt[k]
        BY <1>2, <1>3, <2>3
      <3>3. <<k, attempt[k]>> # a
        BY <2>3
      <3>4. Excused(k)' <=> Excused(k)
        <4>1. CASE state[k] = "running"
          <5>1. pc'[<<k, attempt[k]>>] = pc[<<k, attempt[k]>>]
            BY <1>4, <3>3, <4>1 DEF RepeatInv, RunningHasAttempt
          <5> QED
            BY <3>2, <5>1 DEF Excused
        <4> QED
          BY <3>2, <4>1 DEF Excused
      <3>5. Allowance(k)' = Allowance(k)
        BY <3>4 DEF Allowance
      <3> QED
        BY <1>1, <2>1, <3>1, <3>5
    <2> QED
      BY <2>2, <2>3
  <1> QED
    BY <1>5, <1>6, <1>8, <1>9 DEF RepeatInv, SaversArePaid

\* Jobs whose state changes: what Temporal no longer waits for was paid for, or
\* had not saved.
LEMMA RepeatAnswered ==
  ASSUME TypeOK, RepeatInv, NEW j \in Jobs, UNCHANGED <<attempt, saved>>,
         \A k \in Jobs : Savers(k)' = Savers(k),
         NumbersGoUp', SavedHaveEnded',
         \A k \in Jobs \ {j} : Allowance(k)' = Allowance(k) /\ state'[k] = state[k],
         state'[j] # "running",
         spent' = spent + 1 \/ (spent' = spent /\ Allowance(j)' >= Allowance(j))
  PROVE  RepeatInv'
  <1>1. RunningHasAttempt'
    BY DEF RepeatInv, RunningHasAttempt
  <1>2. ASSUME NEW k \in Jobs PROVE Cardinality(Savers(k)') <= spent' + Allowance(k)'
    <2>1. /\ Cardinality(Savers(k)) \in Nat /\ Savers(k)' = Savers(k)
          /\ Cardinality(Savers(k)) <= spent + Allowance(k)
          /\ Allowance(k) \in {0, 1} /\ Allowance(k)' \in {0, 1} /\ spent \in Nat
      BY SaversAreFinite, RunAssumption DEF RepeatInv, SaversArePaid, Allowance, TypeOK
    <2>2. spent' = spent + 1 \/ (spent' = spent /\ Allowance(k)' >= Allowance(k))
      BY <2>1
    <2> QED
      BY <2>1, <2>2
  <1> QED
    BY <1>1, <1>2 DEF RepeatInv, SaversArePaid

LEMMA RepeatTimeout ==
  ASSUME TypeInv, RepeatInv, NEW j \in Jobs, Timeout(j)
  PROVE  RepeatInv'
  <1>1. /\ state[j] = "running" /\ state' = [state EXCEPT ![j] = AfterFailure(j)]
        /\ attempt' = attempt /\ pc' = pc /\ saved' = saved
        /\ (pc[<<j, attempt[j]>>] = "dead" /\ spent' = spent) \/ spent' = spent + 1
    BY DEF Timeout, Fault, storage
  <1>2. state'[j] \in {"waiting", "failed"} /\ \A k \in Jobs : k # j => state'[k] = state[k]
    BY <1>1 DEF TypeInv, TypeOK, AfterFailure
  <1>3. \A k \in Jobs : Savers(k)' = Savers(k)
    BY <1>1 DEF Savers
  <1>4. \A k \in Jobs \ {j} : Allowance(k)' = Allowance(k)
    BY <1>1, <1>2 DEF Allowance, Excused
  <1>5. Allowance(j)' = 0 /\ (pc[<<j, attempt[j]>>] = "dead" => Allowance(j) = 0)
    BY <1>1, <1>2 DEF Allowance, Excused, Living, Files
  <1>6. NumbersGoUp' /\ SavedHaveEnded'
    BY <1>1 DEF RepeatInv, NumbersGoUp, SavedHaveEnded
  <1>7. spent' = spent + 1 \/ (spent' = spent /\ Allowance(j)' >= Allowance(j))
    BY <1>1, <1>5
  <1> QED
    BY <1>1, <1>2, <1>3, <1>4, <1>6, <1>7, RepeatAnswered DEF TypeInv

LEMMA RepeatReturn ==
  ASSUME TypeInv, RepeatInv, NEW a \in Attempts, Return(a)
  PROVE  RepeatInv'
  <1>1. /\ pc[a] \in {"success", "failure", "refused"} /\ Goto(a, "over")
        /\ attempt' = attempt /\ saved' = saved /\ spent \in Nat
        /\ spent' = spent + 1 \/ spent' = spent
    BY RunAssumption DEF Return, Fault, storage, TypeInv, TypeOK
  <1>2. pc[a] \notin Living /\ pc[a] # "idle" /\ "over" \notin Living
    BY <1>1 DEF Living, Files
  <1>3. CASE ~Awaited(a)
    <2>1. UNCHANGED temporal
      BY <1>1, <1>3 DEF Return, temporal
    <2>2. a \in saved => a \in Savers(a[1])
      BY DEF Savers
    <2> QED
      BY <1>1, <1>2, <1>3, <2>1, <2>2, RepeatKept DEF TypeInv, Paid
  <1>4. CASE Awaited(a)
    <2> DEFINE j == a[1]
    <2>1. /\ j \in Jobs /\ state[j] = "running" /\ a = <<j, attempt[j]>>
          /\ state' = [state EXCEPT ![j] =
                         IF pc[a] = "success" THEN "completed" ELSE AfterFailure(j)]
      BY <1>4, AttemptFacts DEF Awaited, Return
    <2>2. /\ state'[j] = IF pc[a] = "success" THEN "completed" ELSE AfterFailure(j)
          /\ \A k \in Jobs : k # j => state'[k] = state[k]
      BY <2>1 DEF TypeInv, TypeOK
    <2>3. state'[j] # "running"
      BY <2>2 DEF AfterFailure
    <2>4. \A k \in Jobs \ {j} : Allowance(k)' = Allowance(k) /\ state'[k] = state[k]
      BY <1>1, <2>2, OthersAreExcused DEF TypeInv, RepeatInv
    <2>5. \A k \in Jobs : Savers(k)' = Savers(k)
      <3>1. \A k \in Jobs \ {a[1]} : Savers(k)' = Savers(k)
        BY <1>1, OneSaverMoves DEF TypeInv
      <3>2. Savers(a[1])' = IF a \in saved' \/ "over" \in Living
                            THEN Savers(a[1]) \cup {a} ELSE Savers(a[1]) \ {a}
        BY <1>1, OneSaverMoves DEF TypeInv
      <3>3. Savers(a[1])' = Savers(a[1])
        BY <1>1, <1>2, <3>2 DEF Savers
      <3> QED
        BY <3>1, <3>3
    <2>6. NumbersGoUp'
      BY <1>1, <1>2, GotoFacts DEF TypeInv, RepeatInv, NumbersGoUp
    <2>7. SavedHaveEnded'
      BY <1>1, GotoFacts DEF TypeInv, TypeOK, RepeatInv, SavedHaveEnded
    <2>8. Allowance(j)' >= Allowance(j)
      <3>1. CASE pc[a] = "success"
        BY <2>2, <3>1 DEF Allowance, Excused
      <3>2. CASE pc[a] # "success"
        <4>1. Allowance(j) = 0
          BY <1>1, <1>2, <2>1, <3>2 DEF Allowance, Excused
        <4>2. Allowance(j)' \in {0, 1}
          BY DEF Allowance
        <4> QED
          BY <4>1, <4>2
      <3> QED
        BY <3>1, <3>2
    <2> QED
      BY <1>1, <2>1, <2>3, <2>4, <2>5, <2>6, <2>7, <2>8, RepeatAnswered DEF TypeInv
  <1> QED
    BY <1>3, <1>4

\* Every step keeps the repetitions paid.
LEMMA RepeatStep == TypeInv /\ RepeatInv /\ [Next]_vars => RepeatInv'
  <1> SUFFICES ASSUME TypeInv, RepeatInv, [Next]_vars PROVE RepeatInv'
    OBVIOUS
  <1>a. TypeOK /\ spent \in Nat
    BY RunAssumption DEF TypeInv, TypeOK
  <1>b. \A a \in Attempts : pc[a] \in Living => a \in Savers(a[1]) /\ a \notin saved
    <2>1. \A a \in saved : pc[a] \notin Living
      BY DEF RepeatInv, SavedHaveEnded, Living, Files
    <2> QED
      BY <2>1 DEF Savers
  <1>c. "lock" \in Living /\ "publish" \in Living /\ Files \subseteq Living
        /\ \A label \in {"idle", "success", "failure", "refused", "over", "dead"} : label \notin Living
    BY DEF Living, Files
  <1>1. ASSUME NEW j \in Jobs, Start(j) \/ Timeout(j) PROVE RepeatInv'
    BY <1>1, RepeatStart, RepeatTimeout
  <1>2. CASE Expire
    BY <1>a, <1>2, RepeatUntouched DEF Expire, Fault, storage
  <1>3. ASSUME NEW a \in Attempts, Acquire(a) \/ AcquireFails(a) PROVE RepeatInv'
    <2>1. /\ pc[a] = "lock" /\ UNCHANGED temporal /\ saved' = saved
          /\ spent' \in {spent, spent + 1}
          /\ Goto(a, "sample") \/ Goto(a, "refused")
      BY <1>3 DEF Acquire, AcquireFails, Fault, storage
    <2>2. a \in Savers(a[1]) /\ a \notin saved'
      BY <1>b, <1>c, <2>1
    <2>3. CASE Goto(a, "sample")
      BY <1>a, <1>c, <2>1, <2>2, <2>3, RepeatKept DEF Paid, Files
    <2>4. CASE Goto(a, "refused")
      BY <1>a, <1>c, <2>1, <2>2, <2>4, RepeatKept DEF Paid
    <2> QED
      BY <2>1, <2>3, <2>4
  <1>4. ASSUME NEW a \in Attempts, Return(a) PROVE RepeatInv'
    BY <1>4, RepeatReturn
  <1>5. ASSUME NEW a \in Attempts, NEW f \in Files, Produce(a, f) \/ AlreadyExists(a, f)
        PROVE  RepeatInv'
    <2>1. /\ pc[a] = f /\ UNCHANGED temporal /\ saved' = saved /\ spent' = spent
          /\ Goto(a, After[f]) \/ Goto(a, "failure")
      BY <1>5 DEF Produce, AlreadyExists, storage
    <2>2. a \in Savers(a[1]) /\ a \notin saved' /\ pc[a] \in Living
      BY <1>b, <1>c, <2>1
    <2>3. CASE Goto(a, After[f])
      <3>1. After[f] \in Living
        BY StageFacts DEF Living
      <3> QED
        BY <1>a, <1>c, <2>1, <2>2, <2>3, <3>1, RepeatKept DEF Paid
    <2>4. CASE Goto(a, "failure")
      BY <1>a, <1>c, <2>1, <2>2, <2>4, RepeatKept DEF Paid
    <2> QED
      BY <2>1, <2>3, <2>4
  <1>6. ASSUME NEW a \in Attempts, NEW f \in Files, Upload(a, f) PROVE RepeatInv'
    BY <1>a, <1>6, RepeatUntouched DEF Upload
  <1>7. ASSUME NEW a \in Attempts, NoClips(a) PROVE RepeatInv'
    <2>1. /\ pc[a] = "clips" /\ UNCHANGED temporal /\ saved' = saved /\ spent' = spent
          /\ Goto(a, "json")
      BY <1>7 DEF NoClips, After, storage
    <2>2. a \in Savers(a[1]) /\ a \notin saved' /\ pc[a] \in Living /\ "json" \in Living
      BY <1>b, <2>1 DEF Living, Files
    <2> QED
      BY <1>a, <1>c, <2>1, <2>2, RepeatKept DEF Paid
  <1>8. ASSUME NEW a \in Attempts, Persist(a) PROVE RepeatInv'
    <2>1. /\ pc[a] = "publish" /\ UNCHANGED temporal /\ saved' = saved \cup {a}
          /\ \/ Goto(a, "success") /\ spent' = spent
             \/ Goto(a, "failure") /\ spent' = spent + 1
      BY <1>8 DEF Persist, Commit, EventsInserted, Fault
    <2>2. a \in Savers(a[1])
      BY <1>b, <1>c, <2>1
    <2>3. CASE Goto(a, "success") /\ spent' = spent
      BY <1>a, <1>c, <2>1, <2>2, <2>3, RepeatKept DEF Paid
    <2>4. CASE Goto(a, "failure") /\ spent' = spent + 1
      BY <1>a, <1>c, <2>1, <2>2, <2>4, RepeatKept DEF Paid
    <2> QED
      BY <2>1, <2>3, <2>4
  <1>9. ASSUME NEW a \in Attempts, Fail(a) PROVE RepeatInv'
    <2>1. /\ pc[a] \in Files \cup {"publish"} /\ UNCHANGED temporal /\ saved' = saved
          /\ spent' \in {spent, spent + 1} /\ Goto(a, "failure")
      BY <1>9 DEF Fail, Fault
    <2>2. a \in Savers(a[1]) /\ a \notin saved' /\ pc[a] \in Living
      BY <1>b, <1>c, <2>1
    <2> QED
      BY <1>a, <1>c, <2>1, <2>2, RepeatKept DEF Paid
  <1>10. ASSUME NEW a \in Attempts, Crash(a) PROVE RepeatInv'
    <2>1. /\ pc[a] # "idle" /\ UNCHANGED temporal /\ saved' = saved
          /\ spent' = spent + 1 /\ Goto(a, "dead")
      BY <1>10 DEF Crash, Fault
    <2>2. a \in saved' => a \in Savers(a[1])
      BY <2>1 DEF Savers
    <2> QED
      BY <1>a, <1>c, <2>1, <2>2, RepeatKept DEF Paid
  <1>11. CASE UNCHANGED vars
    BY <1>a, <1>11, RepeatUntouched DEF vars, storage
  <1> QED
    BY <1>1, <1>2, <1>3, <1>4, <1>5, <1>6, <1>7, <1>8, <1>9, <1>10, <1>11 DEF Next, Work, Stage

\* Nobody has saved at first.
LEMMA RepeatInit == Init => RepeatInv
  <1> SUFFICES ASSUME Init PROVE RepeatInv
    OBVIOUS
  <1>1. \A a \in Attempts : a \notin saved /\ pc[a] = "idle"
    BY DEF Init
  <1>2. \A j \in Jobs : Savers(j) = {} /\ state[j] = "waiting"
    BY <1>1 DEF Init, Savers, Living, Files
  <1>3. ASSUME NEW j \in Jobs PROVE Cardinality(Savers(j)) <= spent + Allowance(j)
    <2>1. Cardinality(Savers(j)) = 0
      BY <1>2, FS_EmptySet
    <2>2. spent = 0 /\ Allowance(j) \in {0, 1}
      BY DEF Init, Allowance
    <2> QED
      BY <2>1, <2>2
  <1> QED
    BY <1>1, <1>2, <1>3 DEF Init, RepeatInv, NumbersGoUp, RunningHasAttempt, SavedHaveEnded, SaversArePaid

-----------------------------------------------------------------------------
(* The theorems.                                                            *)

\* The inductive invariant: types and retries, the lock, the files.
THEOREM InvariantHolds == Spec => []IInv
  <1>1. IInv /\ [Next]_vars => IInv'
    BY TypeStep, SectionStep, WorkStep DEF IInv
  <1> QED
    BY <1>1, InitIInv, PTL DEF Spec

\* Every variable keeps its kind, and no job gets more attempts than the retry
\* policy allows, for any jobs, run IDs and faults.
THEOREM TypeCorrect == Spec => []TypeOK
  <1>1. IInv => TypeOK
    BY DEF IInv, TypeInv
  <1> QED
    BY <1>1, InvariantHolds, PTL

\* An attempt in the section holds the key or has outlived it, whatever fails,
\* dies or times out.
THEOREM LockIsExclusive == Spec => []SectionIsHeld
  <1>1. IInv => SectionIsHeld
    BY DEF IInv
  <1> QED
    BY <1>1, InvariantHolds, PTL

\* Unless an attempt outlived its lock, a report is cataloged only after its
\* own frames and renderings are in the object store.
THEOREM PublishedBeforeCataloged == Spec => CatalogedIsPublished
  <1>1. IInv /\ [Next]_vars => [PublishedFirst]_vars
    BY PublishedFirstStep
  <1> QED
    BY <1>1, InvariantHolds, PTL DEF Spec, CatalogedIsPublished

\* A job saves its report once, and once more per fault: attempts Temporal gave
\* up on and retries of what was saved already are all paid for, for any jobs,
\* retry policy and faults.
THEOREM RepeatsAreRare == Spec => []RepeatsNeedFaults
  <1>1. TypeInv /\ RepeatInv /\ [Next]_vars => RepeatInv'
    BY RepeatStep
  <1>2. IInv => TypeInv
    BY DEF IInv
  <1>3. TypeInv /\ RepeatInv => RepeatsNeedFaults
    <2> SUFFICES ASSUME TypeInv, RepeatInv, NEW j \in Jobs
                 PROVE  Cardinality(SavesOf(j)) <= spent + (IF state[j] = "failed" THEN 0 ELSE 1)
      BY DEF RepeatsNeedFaults
    <2>1. IsFiniteSet(Savers(j)) /\ Cardinality(Savers(j)) \in Nat
      BY SaversAreFinite
    <2>2. SavesOf(j) \subseteq Savers(j)
      BY DEF SavesOf, Savers, TypeInv, TypeOK
    <2>3. Cardinality(SavesOf(j)) \in Nat /\ Cardinality(SavesOf(j)) <= Cardinality(Savers(j))
      <3>1. IsFiniteSet(SavesOf(j)) /\ Cardinality(SavesOf(j)) <= Cardinality(Savers(j))
        BY <2>1, <2>2, FS_Subset
      <3> QED
        BY <3>1, FS_CardinalityType
    <2>4. Cardinality(Savers(j)) <= spent + Allowance(j) /\ spent \in Nat
      BY RunAssumption DEF RepeatInv, SaversArePaid, TypeInv, TypeOK
    <2>5. Allowance(j) \in {0, 1} /\ (state[j] = "failed" => Allowance(j) = 0)
      BY DEF Allowance, Excused
    <2> QED
      BY <2>1, <2>3, <2>4, <2>5
  <1> QED
    BY <1>1, <1>2, <1>3, RepeatInit, InvariantHolds, PTL DEF Spec

=============================================================================
