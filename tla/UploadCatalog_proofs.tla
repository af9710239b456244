------------------------ MODULE UploadCatalog_proofs ------------------------
(***************************************************************************)
(* Theorems about the upload catalog: what it lists has its video, what was *)
(* deleted stays deleted, and the cleanup of a deletion takes nothing that  *)
(* is listed.  The argument is that of a critical section: a row is deleted *)
(* and written only by the holder of uploadMu, which found it there, and    *)
(* nobody but its creation knows of an upload that has no row yet.          *)
(***************************************************************************)
EXTENDS UploadCatalog, TLAPS

\* An analysis that goes on has metadata to save.
SeenIsSet ==
  \A a \in Analyses : pc[a] \in {"content", "publish", "commit"} => seen[a] # None

TypeInv == UploadTypeOK /\ SeenIsSet

\* The part of the type invariant that is about PostgreSQL.
RowsOK ==
  /\ vod \in Metadata \cup {None}
  /\ upload \in BOOLEAN
  /\ reports \subseteq Analyses
  /\ upload \/ reports # {} => vod # None

-----------------------------------------------------------------------------
(* Types.                                                                   *)

LEMMA MetadataFacts == Creation \in Metadata /\ None \notin Metadata /\ Edits \subseteq Metadata
  BY UploadAssumption DEF Metadata, Writers, Requests

LEMMA FaultFacts ==
  ASSUME UploadTypeOK, NEW kind, Fault(kind)
  PROVE  spent' \in 0 .. MaxFaults
  BY UploadAssumption DEF Fault, UploadTypeOK

\* The statements on the tables keep the references between them.
LEMMA SaveUploadFacts ==
  ASSUME RowsOK, NEW m \in Metadata, SaveUpload(m)
  PROVE  RowsOK'
  BY MetadataFacts DEF RowsOK, SaveUpload

LEMMA DeleteUploadFacts ==
  ASSUME RowsOK, DeleteUpload
  PROVE  RowsOK'
  BY DEF RowsOK, DeleteUpload

LEMMA SameRows ==
  ASSUME RowsOK, UNCHANGED rows
  PROVE  RowsOK'
  BY DEF RowsOK, rows

\* An upload.
LEMMA CreateTypes ==
  ASSUME TypeInv, Create
  PROVE  TypeInv'
  <1>1. CASE CreateLocal
    BY <1>1, UploadAssumption DEF CreateLocal, TypeInv, SeenIsSet, UploadTypeOK, Goto,
       Unlock, Fault, rows, blobs, Held, Over, Pcs, Metadata, Writers, Readers,
       Requests, ReaderHost, AfterResolve
  <1>2. CASE CreateObject
    <2>1. pc' \in [Requests -> Pcs] /\ mu' \in Writers \cup {None}
      BY <1>2 DEF TypeInv, UploadTypeOK, CreateObject, Goto, Unlock, Held, Over, Pcs,
         Writers, Requests
    <2>2. spent' \in 0 .. MaxFaults
      BY <1>2, FaultFacts DEF TypeInv, UploadTypeOK, CreateObject
    <2>3. RowsOK'
      BY <1>2, SameRows DEF TypeInv, UploadTypeOK, RowsOK, CreateObject
    <2>4. object' \in BOOLEAN /\ artifacts' \subseteq Analyses
      BY <1>2 DEF TypeInv, UploadTypeOK, CreateObject, blobs
    <2>5. cached' \subseteq Hosts /\ seen' = seen /\ warned' \subseteq Deletes
      BY <1>2 DEF TypeInv, UploadTypeOK, CreateObject
    <2>6. SeenIsSet'
      BY <1>2, <2>5, UploadAssumption DEF TypeInv, UploadTypeOK, SeenIsSet,
         CreateObject, Goto, Unlock, Writers, Readers, Requests
    <2> QED
      BY <2>1, <2>2, <2>3, <2>4, <2>5, <2>6 DEF TypeInv, UploadTypeOK, RowsOK
  <1>3. CASE CreateRow
    <2>1. pc' \in [Requests -> Pcs] /\ mu' \in Writers \cup {None}
      BY <1>3 DEF TypeInv, UploadTypeOK, CreateRow, Goto, Unlock, Held, Over, Pcs,
         Writers, Requests
    <2>2. spent' \in 0 .. MaxFaults
      BY <1>3, FaultFacts DEF TypeInv, UploadTypeOK, CreateRow
    <2>3. RowsOK'
      BY <1>3, SaveUploadFacts, SameRows, MetadataFacts DEF TypeInv, UploadTypeOK, RowsOK, CreateRow
    <2>4. object' \in BOOLEAN /\ artifacts' \subseteq Analyses
      BY <1>3 DEF TypeInv, UploadTypeOK, CreateRow, blobs
    <2>5. cached' \subseteq Hosts /\ seen' = seen /\ warned' \subseteq Deletes
      BY <1>3 DEF TypeInv, UploadTypeOK, CreateRow
    <2>6. SeenIsSet'
      BY <1>3, <2>5, UploadAssumption DEF TypeInv, UploadTypeOK, SeenIsSet, CreateRow,
         Goto, Unlock, Writers, Readers, Requests
    <2> QED
      BY <2>1, <2>2, <2>3, <2>4, <2>5, <2>6 DEF TypeInv, UploadTypeOK, RowsOK
  <1>4. CASE CreateUndo
    <2>1. pc' \in [Requests -> Pcs] /\ mu' \in Writers \cup {None}
      BY <1>4 DEF TypeInv, UploadTypeOK, CreateUndo, Goto, Unlock, Held, Over, Pcs,
         Writers, Requests
    <2>2. spent' \in 0 .. MaxFaults
      BY <1>4, FaultFacts DEF TypeInv, UploadTypeOK, CreateUndo
    <2>3. RowsOK'
      BY <1>4, SameRows DEF TypeInv, UploadTypeOK, RowsOK, CreateUndo
    <2>4. object' \in BOOLEAN /\ artifacts' \subseteq Analyses
      BY <1>4 DEF TypeInv, UploadTypeOK, CreateUndo, blobs
    <2>5. cached' \subseteq Hosts /\ seen' = seen /\ warned' \subseteq Deletes
      BY <1>4 DEF TypeInv, UploadTypeOK, CreateUndo
    <2>6. SeenIsSet'
      BY <1>4, <2>5, UploadAssumption DEF TypeInv, UploadTypeOK, SeenIsSet,
         CreateUndo, Goto, Unlock, Writers, Readers, Requests
    <2> QED
      BY <2>1, <2>2, <2>3, <2>4, <2>5, <2>6 DEF TypeInv, UploadTypeOK, RowsOK
  <1>5. CASE CreateDiscard
    BY <1>5, UploadAssumption DEF CreateDiscard, TypeInv, SeenIsSet, UploadTypeOK,
       Goto, Unlock, Fault, rows, blobs, Held, Over, Pcs, Metadata, Writers, Readers,
       Requests, ReaderHost, AfterResolve
  <1> QED
    BY <1>1, <1>2, <1>3, <1>4, <1>5 DEF Create

\* An edit.
LEMMA UpdateTypes ==
  ASSUME TypeInv, NEW e \in Edits, Update(e)
  PROVE  TypeInv'
  <1>1. CASE Find(e, "save")
    BY <1>1, UploadAssumption DEF Find, TypeInv, SeenIsSet, UploadTypeOK, Goto,
       Unlock, Fault, rows, blobs, Held, Over, Pcs, Metadata, Writers, Readers,
       Requests, ReaderHost, AfterResolve
  <1>2. CASE Save(e)
    <2>1. pc' \in [Requests -> Pcs] /\ mu' \in Writers \cup {None}
      BY <1>2 DEF TypeInv, UploadTypeOK, Save, Goto, Unlock, Held, Over, Pcs, Writers,
         Requests
    <2>2. spent' \in 0 .. MaxFaults
      BY <1>2, FaultFacts DEF TypeInv, UploadTypeOK, Save
    <2>3. RowsOK'
      BY <1>2, SaveUploadFacts, SameRows, MetadataFacts DEF TypeInv, UploadTypeOK, RowsOK, Save
    <2>4. object' \in BOOLEAN /\ artifacts' \subseteq Analyses
      BY <1>2 DEF TypeInv, UploadTypeOK, Save, blobs
    <2>5. cached' \subseteq Hosts /\ seen' = seen /\ warned' \subseteq Deletes
      BY <1>2 DEF TypeInv, UploadTypeOK, Save
    <2>6. SeenIsSet'
      BY <1>2, <2>5, UploadAssumption DEF TypeInv, UploadTypeOK, SeenIsSet, Save,
         Goto, Unlock, Writers, Readers, Requests
    <2> QED
      BY <2>1, <2>2, <2>3, <2>4, <2>5, <2>6 DEF TypeInv, UploadTypeOK, RowsOK
  <1> QED
    BY <1>1, <1>2 DEF Update

\* A deletion.
LEMMA DeleteTypes ==
  ASSUME TypeInv, NEW d \in Deletes, Delete(d)
  PROVE  TypeInv'
  <1>1. CASE Find(d, "delete")
    BY <1>1, UploadAssumption DEF Find, TypeInv, SeenIsSet, UploadTypeOK, Goto,
       Unlock, Fault, rows, blobs, Held, Over, Pcs, Metadata, Writers, Readers,
       Requests, ReaderHost, AfterResolve
  <1>2. CASE DeleteRow(d)
    <2>1. pc' \in [Requests -> Pcs] /\ mu' \in Writers \cup {None}
      BY <1>2 DEF TypeInv, UploadTypeOK, DeleteRow, Goto, Unlock, Held, Over, Pcs,
         Writers, Requests
    <2>2. spent' \in 0 .. MaxFaults
      BY <1>2, FaultFacts DEF TypeInv, UploadTypeOK, DeleteRow
    <2>3. RowsOK'
      BY <1>2, DeleteUploadFacts, SameRows DEF TypeInv, UploadTypeOK, RowsOK, DeleteRow
    <2>4. object' \in BOOLEAN /\ artifacts' \subseteq Analyses
      BY <1>2 DEF TypeInv, UploadTypeOK, DeleteRow, blobs
    <2>5. cached' \subseteq Hosts /\ seen' = seen /\ warned' \subseteq Deletes
      BY <1>2 DEF TypeInv, UploadTypeOK, DeleteRow
    <2>6. SeenIsSet'
      BY <1>2, <2>5, UploadAssumption DEF TypeInv, UploadTypeOK, SeenIsSet, DeleteRow,
         Goto, Unlock, Writers, Readers, Requests
    <2> QED
      BY <2>1, <2>2, <2>3, <2>4, <2>5, <2>6 DEF TypeInv, UploadTypeOK, RowsOK
  <1>3. CASE DeleteCache(d)
    BY <1>3, UploadAssumption DEF DeleteCache, CleanupFails, TypeInv, SeenIsSet,
       UploadTypeOK, Goto, Unlock, Fault, rows, blobs, Held, Over, Pcs, Metadata,
       Writers, Readers, Requests, ReaderHost, AfterResolve
  <1>4. CASE DeleteVideo(d)
    <2>1. pc' \in [Requests -> Pcs] /\ mu' \in Writers \cup {None}
      BY <1>4 DEF TypeInv, UploadTypeOK, DeleteVideo, CleanupFails, Goto, Unlock,
         Held, Over, Pcs, Writers, Requests
    <2>2. spent' \in 0 .. MaxFaults
      BY <1>4, FaultFacts DEF TypeInv, UploadTypeOK, DeleteVideo, CleanupFails
    <2>3. RowsOK'
      BY <1>4, SameRows DEF TypeInv, UploadTypeOK, RowsOK, DeleteVideo
    <2>4. object' \in BOOLEAN /\ artifacts' \subseteq Analyses
      BY <1>4 DEF TypeInv, UploadTypeOK, DeleteVideo, CleanupFails, blobs
    <2>5. cached' \subseteq Hosts /\ seen' = seen /\ warned' \subseteq Deletes
      BY <1>4 DEF TypeInv, UploadTypeOK, DeleteVideo, CleanupFails
    <2>6. SeenIsSet'
      BY <1>4, <2>5, UploadAssumption DEF TypeInv, UploadTypeOK, SeenIsSet,
         DeleteVideo, CleanupFails, Goto, Unlock, Writers, Readers, Requests
    <2> QED
      BY <2>1, <2>2, <2>3, <2>4, <2>5, <2>6 DEF TypeInv, UploadTypeOK, RowsOK
  <1>5. CASE DeletePrefix(d)
    BY <1>5, UploadAssumption DEF DeletePrefix, CleanupFails, TypeInv, SeenIsSet,
       UploadTypeOK, Goto, Unlock, Fault, rows, blobs, Held, Over, Pcs, Metadata,
       Writers, Readers, Requests, ReaderHost, AfterResolve
  <1> QED
    BY <1>1, <1>2, <1>3, <1>4, <1>5 DEF Delete

\* A reader.
LEMMA ReadTypes ==
  ASSUME TypeInv, NEW q \in Readers, Read(q)
  PROVE  TypeInv'
  <1>1. CASE Look(q)
    BY <1>1, UploadAssumption DEF Look, TypeInv, SeenIsSet, UploadTypeOK, Goto,
       Unlock, Fault, rows, blobs, Held, Over, Pcs, Metadata, Writers, Readers,
       Requests, ReaderHost, AfterResolve
  <1>2. CASE Content(q)
    BY <1>2, UploadAssumption DEF Content, TypeInv, SeenIsSet, UploadTypeOK, Goto,
       Unlock, Fault, rows, blobs, Held, Over, Pcs, Metadata, Writers, Readers,
       Requests, ReaderHost, AfterResolve
  <1> QED
    BY <1>1, <1>2 DEF Read

\* What an analysis does beyond reading.
LEMMA ReportTypes ==
  ASSUME TypeInv, NEW a \in Analyses, Publish(a) \/ Commit(a)
  PROVE  TypeInv'
  <1>1. CASE Publish(a)
    BY <1>1, UploadAssumption DEF Publish, TypeInv, SeenIsSet, UploadTypeOK, Goto,
       Unlock, Fault, rows, blobs, Held, Over, Pcs, Metadata, Writers, Readers,
       Requests, ReaderHost, AfterResolve
  <1>2. CASE Commit(a)
    BY <1>2, UploadAssumption DEF Commit, SaveResult, TypeInv, SeenIsSet,
       UploadTypeOK, Goto, Unlock, Fault, rows, blobs, Held, Over, Pcs, Metadata,
       Writers, Readers, Requests, ReaderHost, AfterResolve
  <1> QED
    BY <1>1, <1>2

\* A request that starts.
LEMMA LockTypes ==
  ASSUME TypeInv, NEW r \in Writers, Lock(r)
  PROVE  TypeInv'
  BY UploadAssumption DEF Lock, FirstStep, TypeInv, SeenIsSet, UploadTypeOK,
     Goto, Unlock, Fault, rows, blobs, Held, Over, Pcs, Metadata, Writers, Readers,
     Requests, ReaderHost, AfterResolve

\* A process that dies.
LEMMA CrashTypes ==
  ASSUME TypeInv, CrashWeb \/ \E a \in Analyses : CrashWorker(a)
  PROVE  TypeInv'
  <1>1. CASE CrashWeb
    BY <1>1, UploadAssumption DEF CrashWeb, TypeInv, SeenIsSet, UploadTypeOK, Goto,
       Unlock, Fault, rows, blobs, Held, Over, Pcs, Metadata, Writers, Readers,
       Requests, ReaderHost, AfterResolve
  <1>2. CASE \E a \in Analyses : CrashWorker(a)
    BY <1>2, UploadAssumption DEF CrashWorker, TypeInv, SeenIsSet, UploadTypeOK, Goto,
       Unlock, Fault, rows, blobs, Held, Over, Pcs, Metadata, Writers, Readers,
       Requests, ReaderHost, AfterResolve
  <1> QED
    BY <1>1, <1>2

\* A cache that is lost.
LEMMA EvictTypes ==
  ASSUME TypeInv, NEW h \in Hosts, Evict(h)
  PROVE  TypeInv'
  BY UploadAssumption DEF Evict, TypeInv, SeenIsSet, UploadTypeOK, Goto,
     Unlock, Fault, rows, blobs, Held, Over, Pcs, Metadata, Writers, Readers,
     Requests, ReaderHost, AfterResolve

\* No step.
LEMMA StutterTypes ==
  ASSUME TypeInv, UNCHANGED vars
  PROVE  TypeInv'
  BY UploadAssumption DEF vars, TypeInv, SeenIsSet, UploadTypeOK, Goto,
     Unlock, Fault, rows, blobs, Held, Over, Pcs, Metadata, Writers, Readers,
     Requests, ReaderHost, AfterResolve

LEMMA TypeInvariant == Spec => []TypeInv
<1>1. Init => TypeInv
  <2> SUFFICES ASSUME Init PROVE TypeInv
    OBVIOUS
  <2>1. RowsOK
    BY DEF Init, RowsOK
  <2>2. object \in BOOLEAN /\ mu \in Writers \cup {None}
    BY DEF Init
  <2>3. SeenIsSet
    BY DEF Init, SeenIsSet, Requests, Readers
  <2>4. pc \in [Requests -> Pcs] /\ seen \in [Analyses -> Metadata \cup {None}]
    BY DEF Init, Pcs
  <2>5. /\ artifacts \subseteq Analyses /\ cached \subseteq Hosts /\ warned \subseteq Deletes
        /\ spent \in 0 .. MaxFaults
    BY UploadAssumption DEF Init
  <2> QED
    BY <2>1, <2>2, <2>3, <2>4, <2>5 DEF TypeInv, UploadTypeOK, RowsOK
<1>2. TypeInv /\ [Next]_vars => TypeInv'
  <2> SUFFICES ASSUME TypeInv, [Next]_vars PROVE TypeInv'
    OBVIOUS
  <2>1. CASE \E r \in Writers : Write(r)
    BY <2>1, LockTypes, CreateTypes, UpdateTypes, DeleteTypes DEF Write
  <2>2. CASE \E q \in Views : Read(q)
    BY <2>2, ReadTypes DEF Readers
  <2>3. CASE \E a \in Analyses : Analyze(a)
    BY <2>3, ReadTypes, ReportTypes DEF Analyze, Readers
  <2>4. CASE CrashWeb \/ \E a \in Analyses : CrashWorker(a)
    BY <2>4, CrashTypes
  <2>5. CASE \E h \in Hosts : Evict(h)
    BY <2>5, EvictTypes
  <2>6. CASE UNCHANGED vars
    BY <2>6, StutterTypes
  <2> QED
    BY <2>1, <2>2, <2>3, <2>4, <2>5, <2>6 DEF Next
<1>3. QED
  BY <1>1, <1>2, PTL DEF Spec

\* Every variable keeps its kind and the tables their references, for any requests,
\* hosts and faults.
THEOREM UploadTypeCorrect == Spec => []UploadTypeOK
<1>1. TypeInv => UploadTypeOK
  BY DEF TypeInv
<1>2. QED
  BY <1>1, TypeInvariant, PTL

-----------------------------------------------------------------------------
(* The invariant.                                                           *)

LEMMA InitInvariant == Init => UploadInvariant
  BY DEF Init, UploadInvariant, HoldersHold, UnlistedIsUnknown, FoundIsThere,
         RemovedStaysRemoved, VideoBeforeRow, ListedHasVideo, CleanedIsGone,
         OnlyDeletionsTake, VideoIsFound, PublishedStays, Unlisted, RemovedBy, Held,
         Writers, Readers, Requests

USE DEF UploadInvariant, HoldersHold, UnlistedIsUnknown, FoundIsThere, RemovedStaysRemoved,
        VideoBeforeRow, ListedHasVideo, CleanedIsGone, OnlyDeletionsTake, VideoIsFound,
        PublishedStays, Unlisted, RemovedBy

\* uploadMu is free when it is taken.
LEMMA LockKeeps ==
  ASSUME TypeInv, UploadInvariant, NEW r \in Writers, Lock(r)
  PROVE  UploadInvariant'
  BY UploadAssumption DEF Lock, FirstStep, Goto, rows, blobs, Requests

\* Only the creation writes the video, and it does so before there is a row.
LEMMA CreateKeeps ==
  ASSUME TypeInv, UploadInvariant, Create
  PROVE  UploadInvariant'
  <1>1. CASE CreateLocal
    BY <1>1 DEF TypeInv, UploadTypeOK, CreateLocal, Goto, Unlock, rows, Held,
       Writers, Requests
  <1>2. CASE CreateObject
    BY <1>2 DEF TypeInv, UploadTypeOK, CreateObject, Goto, rows, Held, Writers,
       Requests
  <1>3. CASE CreateRow
    BY <1>3 DEF TypeInv, UploadTypeOK, CreateRow, SaveUpload, Goto, Unlock, rows,
       blobs, Held, Writers, Readers, Requests
  <1>4. CASE CreateUndo
    BY <1>4 DEF CreateUndo, Goto, rows, Held
  <1>5. CASE CreateDiscard
    BY <1>5 DEF TypeInv, UploadTypeOK, CreateDiscard, Goto, Unlock, rows, blobs,
       Held, Writers, Requests
  <1> QED
    BY <1>1, <1>2, <1>3, <1>4, <1>5 DEF Create

\* An edit writes a row that it found under the lock.
LEMMA UpdateKeeps ==
  ASSUME TypeInv, UploadInvariant, NEW e \in Edits, Update(e)
  PROVE  UploadInvariant'
  <1>1. CASE Find(e, "save")
    BY <1>1 DEF TypeInv, UploadTypeOK, Find, Goto, Unlock, rows, blobs, Held,
       Writers, Readers, Requests
  <1>2. CASE Save(e)
    BY <1>2 DEF TypeInv, UploadTypeOK, Save, SaveUpload, Goto, Unlock, rows, blobs,
       Held, Writers, Readers, Requests
  <1> QED
    BY <1>1, <1>2 DEF Update

\* A deletion takes the video, and then the artifacts, when there is no row
\* any more.
LEMMA DeleteKeeps ==
  ASSUME TypeInv, UploadInvariant, NEW d \in Deletes, Delete(d)
  PROVE  UploadInvariant'
  <1>1. CASE Find(d, "delete")
    BY <1>1 DEF TypeInv, UploadTypeOK, Find, Goto, Unlock, rows, blobs, Held,
       Writers, Readers, Requests
  <1>2. CASE DeleteRow(d)
    BY <1>2 DEF TypeInv, UploadTypeOK, DeleteRow, DeleteUpload, Goto, Unlock, rows,
       blobs, Held, Writers, Readers, Requests
  <1>3. CASE DeleteCache(d)
    BY <1>3 DEF DeleteCache, CleanupFails, Goto, rows, blobs, Held
  <1>4. CASE DeleteVideo(d)
    BY <1>4 DEF TypeInv, UploadTypeOK, DeleteVideo, CleanupFails, Goto, Unlock, rows,
       Held, Writers, Requests
  <1>5. CASE DeletePrefix(d)
    BY <1>5 DEF DeletePrefix, CleanupFails, Goto, rows, Held
  <1> QED
    BY <1>1, <1>2, <1>3, <1>4, <1>5 DEF Delete

\* A reader finds only what is listed.
LEMMA ReadKeeps ==
  ASSUME TypeInv, UploadInvariant, NEW q \in Readers, Read(q)
  PROVE  UploadInvariant'
  <1>1. CASE Look(q)
    BY <1>1 DEF TypeInv, UploadTypeOK, Look, Goto, rows, blobs, Held, Writers,
       Readers, Requests
  <1>2. CASE Content(q)
    BY <1>2 DEF TypeInv, UploadTypeOK, Content, AfterResolve, Goto, rows, blobs,
       Held, Writers, Readers, Requests
  <1> QED
    BY <1>1, <1>2 DEF Read

\* A report has published its artifacts, and brings no upload back.
LEMMA ReportKeeps ==
  ASSUME TypeInv, UploadInvariant, NEW a \in Analyses, Publish(a) \/ Commit(a)
  PROVE  UploadInvariant'
  <1>1. CASE Publish(a)
    BY <1>1 DEF TypeInv, UploadTypeOK, Publish, Goto, rows, Held, Writers, Readers,
       Requests
  <1>2. CASE Commit(a)
    BY <1>2 DEF TypeInv, UploadTypeOK, Commit, SaveResult, Goto, rows, blobs, Held,
       Writers, Readers, Requests
  <1> QED
    BY <1>1, <1>2

\* A process that dies takes the lock with it; the tables and objects stay.
LEMMA CrashKeeps ==
  ASSUME TypeInv, UploadInvariant, CrashWeb \/ \E a \in Analyses : CrashWorker(a)
  PROVE  UploadInvariant'
  <1>1. CASE CrashWeb
    BY <1>1 DEF CrashWeb, Over, rows, blobs, Held, Writers, Readers, Requests
  <1>2. CASE \E a \in Analyses : CrashWorker(a)
    BY <1>2 DEF CrashWorker, Over, Goto, rows, blobs, Held
  <1> QED
    BY <1>1, <1>2

\* No promise rests on a cache.
LEMMA EvictKeeps ==
  ASSUME TypeInv, UploadInvariant, NEW h \in Hosts, Evict(h)
  PROVE  UploadInvariant'
  BY DEF Evict, rows, blobs

\* A step that is none of a request's changes nothing.
LEMMA StutterKeeps ==
  ASSUME UploadInvariant, UNCHANGED vars
  PROVE  UploadInvariant'
  BY DEF vars, rows, blobs

HIDE DEF UploadInvariant, HoldersHold, UnlistedIsUnknown, FoundIsThere, RemovedStaysRemoved,
         VideoBeforeRow, ListedHasVideo, CleanedIsGone, OnlyDeletionsTake, VideoIsFound,
         PublishedStays, Unlisted, RemovedBy

\* The critical section, and what is known of an upload without a row.
THEOREM UploadInvariantHolds == Spec => []UploadInvariant
<1>1. TypeInv /\ UploadInvariant /\ [Next]_vars => UploadInvariant'
  <2> SUFFICES ASSUME TypeInv, UploadInvariant, [Next]_vars PROVE UploadInvariant'
    OBVIOUS
  <2>1. CASE \E r \in Writers : Write(r)
    BY <2>1, LockKeeps, CreateKeeps, UpdateKeeps, DeleteKeeps DEF Write
  <2>2. CASE \E q \in Views : Read(q)
    BY <2>2, ReadKeeps DEF Readers
  <2>3. CASE \E a \in Analyses : Analyze(a)
    BY <2>3, ReadKeeps, ReportKeeps DEF Analyze, Readers
  <2>4. CASE CrashWeb \/ \E a \in Analyses : CrashWorker(a)
    BY <2>4, CrashKeeps
  <2>5. CASE \E h \in Hosts : Evict(h)
    BY <2>5, EvictKeeps
  <2>6. CASE UNCHANGED vars
    BY <2>6, StutterKeeps
  <2> QED
    BY <2>1, <2>2, <2>3, <2>4, <2>5, <2>6 DEF Next
<1>2. QED
  BY <1>1, InitInvariant, TypeInvariant, PTL DEF Spec

\* A VOD whose upload succeeded has its video for as long as it is listed, however
\* requests overlap, fail or die.
THEOREM ListedAlwaysHasVideo == Spec => []ListedHasVideo
<1>1. UploadInvariant => ListedHasVideo
  BY DEF UploadInvariant
<1>2. QED
  BY <1>1, UploadInvariantHolds, PTL

\* No edit, report or repetition brings a deleted VOD back into the catalog.
THEOREM RemovedNeverReturns == Spec => []RemovedStaysRemoved
<1>1. UploadInvariant => RemovedStaysRemoved
  BY DEF UploadInvariant
<1>2. QED
  BY <1>1, UploadInvariantHolds, PTL

\* A deletion without a warning has removed the video for good.
THEOREM DeletionsTakeTheVideo == Spec => []DeletedVideoIsGone
<1>1. UploadInvariant => DeletedVideoIsGone
  BY DEF UploadInvariant, CleanedIsGone, DeletedVideoIsGone
<1>2. QED
  BY <1>1, UploadInvariantHolds, PTL

\* Whoever finds the row gets the video, or a deletion has come in between.
THEOREM VideoIsFoundOrDeleted == Spec => []VideoIsFound
<1>1. UploadInvariant => VideoIsFound
  BY DEF UploadInvariant
<1>2. QED
  BY <1>1, UploadInvariantHolds, PTL

\* The artifacts of a listed report are never cleaned up.
THEOREM ReportsKeepArtifacts == Spec => []ReportsHaveArtifacts
<1>1. UploadTypeOK /\ UploadInvariant => ReportsHaveArtifacts
  BY DEF UploadInvariant, PublishedStays, ReportsHaveArtifacts, UploadTypeOK
<1>2. QED
  BY <1>1, UploadTypeCorrect, UploadInvariantHolds, PTL

\* From the answer to its upload to its deletion the video of a VOD is there.
THEOREM VideosAreServed == Spec => []VideoIsServed
<1>1. UploadInvariant => VideoIsServed
  BY DEF UploadInvariant, VideoIsServed
<1>2. QED
  BY <1>1, UploadInvariantHolds, PTL

\* A deletion takes the VOD and its video for good, unless it said otherwise.
THEOREM DeletionsAreFinal == Spec => []DeletionIsFinal
<1>1. UploadInvariant => DeletionIsFinal
  BY DEF UploadInvariant, CleanedIsGone, DeletedVideoIsGone, DeletionIsFinal
<1>2. QED
  BY <1>1, UploadInvariantHolds, PTL

-----------------------------------------------------------------------------
(* Who may undo an edit.                                                    *)

\* Nobody has edited an upload before its row.
UnlistedIsUnedited == Unlisted => \A e \in Edits : pc[e] # "edited"

\* An edit is answered with success by its save alone, and an upload that is
\* listed once counts as listed.
LEMMA EditedBySave ==
  ASSUME TypeInv, [Next]_vars
  PROVE  /\ Unlisted' => Unlisted
         /\ \A e \in Edits : pc'[e] = "edited" => pc[e] = "edited" \/ Save(e)
  <1> DEFINE Claim == /\ Unlisted' => Unlisted
                      /\ \A e \in Edits : pc'[e] = "edited" => pc[e] = "edited" \/ Save(e)
  <1>t. pc \in [Requests -> Pcs] /\ Creation \in Requests /\ Edits \subseteq Requests
    BY DEF TypeInv, UploadTypeOK, Requests, Writers
  <1>1. ASSUME NEW r \in Writers, Write(r) PROVE Claim
    <2>1. CASE Lock(r)
      BY <1>t, <2>1 DEF Lock, Goto, FirstStep, Unlisted
    <2>2. CASE r = Creation /\ Create
      BY <1>t, <2>2 DEF Create, CreateLocal, CreateObject, CreateRow, CreateUndo,
         CreateDiscard, Goto, Unlock, Unlisted
    <2>3. CASE r \in Edits /\ Update(r)
      <3>1. CASE Find(r, "save")
        BY <1>t, <2>3, <3>1 DEF Find, Goto, Unlock, Unlisted
      <3>2. CASE Save(r)
        BY <1>t, <2>3, <3>2 DEF Save, Goto, Unlock, Unlisted
      <3>3. QED
        BY <2>3, <3>1, <3>2 DEF Update
    <2>4. CASE r \in Deletes /\ Delete(r)
      <3>1. CASE Find(r, "delete")
        BY <1>t, <2>4, <3>1 DEF Find, Goto, Unlock, Unlisted
      <3>2. CASE DeleteRow(r) \/ DeleteCache(r) \/ DeleteVideo(r) \/ DeletePrefix(r)
        BY <1>t, <2>4, <3>2 DEF DeleteRow, DeleteCache, DeleteVideo, DeletePrefix, Goto,
           Unlock, Unlisted
      <3>3. QED
        BY <2>4, <3>1, <3>2 DEF Delete
    <2>5. QED
      BY <1>1, <2>1, <2>2, <2>3, <2>4 DEF Write
  <1>2. ASSUME NEW q \in Readers, Read(q) PROVE Claim
    BY <1>t, <1>2 DEF Read, Look, Content, AfterResolve, Goto, Unlisted
  <1>3. ASSUME NEW a \in Analyses, Publish(a) \/ Commit(a) \/ CrashWorker(a) PROVE Claim
    BY <1>t, <1>3 DEF Publish, Commit, CrashWorker, Goto, Unlisted
  <1>4. CASE CrashWeb
    BY <1>t, <1>4 DEF CrashWeb, Unlisted
  <1>5. ASSUME NEW h \in Hosts, Evict(h) PROVE Claim
    BY <1>5 DEF Evict, Unlisted
  <1>6. CASE UNCHANGED vars
    BY <1>6 DEF vars, Unlisted
  <1>7. QED
    BY <1>1, <1>2, <1>3, <1>4, <1>5, <1>6 DEF Next, Analyze, Readers

\* An edit that was answered with success saw the row of the upload.
LEMMA UnlistedStaysUnedited ==
  ASSUME TypeInv, UploadInvariant, UnlistedIsUnedited, [Next]_vars
  PROVE  UnlistedIsUnedited'
  <1>1. \A e \in Edits : Save(e) => ~Unlisted
    BY DEF Save, UploadInvariant, UnlistedIsUnknown
  <1>2. QED
    BY <1>1, EditedBySave DEF UnlistedIsUnedited

\* The metadata of the row are written by an upload that is not listed yet, by an
\* edit, or by an analysis with the metadata it has seen; a deletion clears them.
LEMMA MetadataWriters ==
  ASSUME TypeInv, [Next]_vars, vod' # vod
  PROVE  \/ vod' = None
         \/ Unlisted
         \/ vod' \in Edits /\ pc[vod'] = "save"
         \/ \E a \in Analyses : pc[a] = "commit" /\ seen[a] = vod'
  <1>1. ASSUME NEW r \in Writers, Write(r)
        PROVE  vod' = None \/ Unlisted \/ (vod' \in Edits /\ pc[vod'] = "save")
    <2>1. CASE Lock(r)
      BY <2>1 DEF Lock, rows
    <2>2. CASE r = Creation /\ Create
      BY <2>2 DEF Create, CreateLocal, CreateObject, CreateRow, CreateUndo, CreateDiscard,
         rows, Unlisted
    <2>3. CASE r \in Edits /\ Update(r)
      BY <2>3 DEF Update, Find, Save, SaveUpload, rows
    <2>4. CASE r \in Deletes /\ Delete(r)
      BY <2>4 DEF Delete, Find, DeleteRow, DeleteUpload, DeleteCache, DeleteVideo,
         DeletePrefix, rows
    <2>5. QED
      BY <1>1, <2>1, <2>2, <2>3, <2>4 DEF Write
  <1>2. ASSUME NEW q \in Readers, Read(q) PROVE FALSE
    BY <1>2 DEF Read, Look, Content, rows
  <1>3. ASSUME NEW a \in Analyses, Publish(a) \/ Commit(a) \/ CrashWorker(a)
        PROVE  pc[a] = "commit" /\ seen[a] = vod'
    BY <1>3 DEF Publish, Commit, SaveResult, CrashWorker, rows
  <1>4. CASE CrashWeb
    BY <1>4 DEF CrashWeb, rows
  <1>5. ASSUME NEW h \in Hosts, Evict(h) PROVE FALSE
    BY <1>5 DEF Evict, rows
  <1>6. CASE UNCHANGED vars
    BY <1>6 DEF vars, rows
  <1>7. QED
    BY <1>1, <1>2, <1>3, <1>4, <1>5, <1>6 DEF Next, Analyze, Readers

\* An edit that was answered with success is undone by a deletion, a later edit
\* or an analysis that had resolved the VOD before, and by nothing else; never by
\* the upload itself (CatalogStore.Update, SaveAnalysisResult, upsertVOD).
THEOREM EditsAreKept == Spec => EditsYieldOnlyToStaleness
<1>1. Init => UnlistedIsUnedited
  BY DEF Init, UnlistedIsUnedited, Requests, Writers
<1>2. TypeInv /\ UploadInvariant /\ UnlistedIsUnedited /\ [Next]_vars => UnlistedIsUnedited'
  BY UnlistedStaysUnedited
<1>3. Spec => []UnlistedIsUnedited
  BY <1>1, <1>2, TypeInvariant, UploadInvariantHolds, PTL DEF Spec
<1>4. TypeInv /\ UnlistedIsUnedited /\ [Next]_vars => [UndoneByStaleAnalysis]_vars
  BY MetadataWriters DEF UnlistedIsUnedited, UndoneByStaleAnalysis
<1>5. QED
  BY <1>3, <1>4, TypeInvariant, PTL DEF Spec, EditsYieldOnlyToStaleness

=============================================================================
