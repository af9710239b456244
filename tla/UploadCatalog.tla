---------------------------- MODULE UploadCatalog ----------------------------
(***************************************************************************)
(* The life of ONE uploaded VOD (vodstore.CatalogStore and the upload       *)
(* handlers of vod-web): its rows in PostgreSQL, its video in the object    *)
(* store, the copies in the caches of the hosts, and the reports and        *)
(* artifacts of its analyses.  Labels are new for every upload and share    *)
(* nothing but uploadMu.                                                    *)
(*                                                                         *)
(* There is one vod-web process, whose uploadMu orders the requests that    *)
(* change the upload; whoever only reads it, the analyses of the workers    *)
(* included, takes no lock.                                                 *)
(***************************************************************************)
EXTENDS Naturals, FiniteSets

CONSTANTS
  Creation,   \* the request that uploads the VOD
  Edits,      \* PATCH requests, each named by the metadata it writes
  Deletes,    \* DELETE requests
  Views,      \* requests for the video, in vod-web
  Analyses,   \* attempts to analyze the VOD
  Hosts,
  Web,        \* the host of vod-web
  HostOf,     \* where an analysis runs
  None,
  Faults,     \* the kinds of fault of this instance
  MaxFaults   \* how many may happen (bound of the model)

FaultKinds == {"error", "lost", "crash"}

\* The requests that hold uploadMu, those that resolve the video, and all.
Writers == {Creation} \cup Edits \cup Deletes
Readers == Views \cup Analyses
Requests == Writers \cup Readers

ASSUME UploadAssumption ==
  /\ Creation \notin Edits \cup Deletes \cup Readers
  /\ Edits \cap (Deletes \cup Readers) = {}
  /\ Deletes \cap Readers = {}
  /\ Views \cap Analyses = {}
  /\ None \notin Requests
  /\ Web \in Hosts
  /\ HostOf \in [Analyses -> Hosts]
  /\ Faults \subseteq FaultKinds
  /\ MaxFaults \in Nat

VARIABLES
  vod,        \* the row of vods: whose metadata it holds, or None
  upload,     \* whether uploaded_vods has a row
  reports,    \* analyses with a row in analysis_reports
  object,     \* whether the object store holds the video
  artifacts,  \* analyses with artifacts in the object store
  cached,     \* hosts whose cache holds the video
  mu,         \* who holds uploadMu, or None
  pc,         \* per request, where its handler is
  seen,       \* per analysis, the metadata it resolved
  warned,     \* deletions with a cleanup that failed
  spent       \* faults so far

rows == <<vod, upload, reports>>
blobs == <<object, artifacts>>
vars == <<rows, blobs, cached, mu, pc, seen, warned, spent>>

-----------------------------------------------------------------------------

\* Between Lock and Unlock of uploadMu.
Held == {"local", "object", "row", "undo", "discard", "find", "save", "delete", "cache", "video"}

Over == {"created", "rejected", "edited", "deleted", "failed", "missing", "unavailable",
         "served", "saved", "dead"}

Pcs == {"idle", "content", "prefix", "publish", "commit"} \cup Held \cup Over

Metadata == {Creation} \cup Edits

Goto(r, label) == pc' = [pc EXCEPT ![r] = label]

\* The handler unlocks uploadMu; where it goes on is not under the lock.
Unlock(r, label) ==
  /\ Goto(r, label)
  /\ mu' = None

Init ==
  /\ vod = None
  /\ upload = FALSE
  /\ reports = {}
  /\ object = FALSE
  /\ artifacts = {}
  /\ cached = {}
  /\ mu = None
  /\ pc = [r \in Requests |-> "idle"]
  /\ seen = [a \in Analyses |-> None]
  /\ warned = {}
  /\ spent = 0

Fault(kind) ==
  /\ kind \in Faults
  /\ spent < MaxFaults
  /\ spent' = spent + 1

FirstStep(r) == IF r = Creation THEN "local" ELSE "find"

\* Mutant: the handler does not wait for uploadMu.
LockNothing(r) ==
  /\ pc[r] = "idle"
  /\ Goto(r, FirstStep(r))
  /\ mu' = r
  /\ UNCHANGED <<rows, blobs, cached, seen, warned, spent>>

\* The video of an upload has been staged before.
Lock(r) ==
  /\ pc[r] = "idle"
  /\ mu = None
  /\ Goto(r, FirstStep(r))
  /\ mu' = r
  /\ UNCHANGED <<rows, blobs, cached, seen, warned, spent>>

-----------------------------------------------------------------------------
(* The tables.                                                              *)

\* SaveUpload: the rows of both tables, inserted or updated.
SaveUpload(metadata) ==
  /\ vod' = metadata
  /\ upload' = TRUE
  /\ UNCHANGED reports

\* DeleteUpload: the row of vods and, by cascade, all that refer to it.
DeleteUpload ==
  /\ vod' = None
  /\ upload' = FALSE
  /\ reports' = {}

-----------------------------------------------------------------------------
(* CatalogStore.Create.                                                     *)

\* Files.Create: the staged video becomes the web host's copy.
CreateLocal ==
  /\ pc[Creation] = "local"
  /\ \/ cached' = cached \cup {Web} /\ Goto(Creation, "object") /\ UNCHANGED <<mu, spent>>
     \/ Fault("error") /\ Unlock(Creation, "rejected") /\ UNCHANGED cached
  /\ UNCHANGED <<rows, blobs, seen, warned>>

\* After an error the object may be there, and nobody deletes it.
CreateObject ==
  /\ pc[Creation] = "object"
  /\ \/ object' = TRUE /\ Goto(Creation, "row") /\ UNCHANGED spent
     \/ /\ Fault("error")
        /\ object' = TRUE \/ UNCHANGED object
        /\ Goto(Creation, "discard")
  /\ UNCHANGED <<rows, artifacts, cached, mu, seen, warned>>

\* SaveUpload fails before its COMMIT, or only the answer is lost.
CreateRow ==
  /\ pc[Creation] = "row"
  /\ \/ SaveUpload(Creation) /\ Unlock(Creation, "created") /\ UNCHANGED spent
     \/ Fault("error") /\ Goto(Creation, "undo") /\ UNCHANGED <<rows, mu>>
     \/ Fault("lost") /\ SaveUpload(Creation) /\ Goto(Creation, "undo") /\ UNCHANGED mu
  /\ UNCHANGED <<blobs, cached, seen, warned>>

\* The compensations; their errors are ignored.
CreateUndo ==
  /\ pc[Creation] = "undo"
  /\ \/ object' = FALSE /\ UNCHANGED spent
     \/ Fault("error") /\ UNCHANGED object
  /\ Goto(Creation, "discard")
  /\ UNCHANGED <<rows, artifacts, cached, mu, seen, warned>>

CreateDiscard ==
  /\ pc[Creation] = "discard"
  /\ \/ cached' = cached \ {Web} /\ UNCHANGED spent
     \/ Fault("error") /\ UNCHANGED cached
  /\ Unlock(Creation, "rejected")
  /\ UNCHANGED <<rows, blobs, seen, warned>>

Create == CreateLocal \/ CreateObject \/ CreateRow \/ CreateUndo \/ CreateDiscard

-----------------------------------------------------------------------------
(* CatalogStore.Update and CatalogStore.Delete.                             *)

\* Mutant: the answer "not found" leaves the lock behind.
FindKeepsLock(r, next) ==
  /\ pc[r] = "find"
  /\ \/ upload /\ Goto(r, next) /\ UNCHANGED <<mu, spent>>
     \/ ~upload /\ Goto(r, "missing") /\ UNCHANGED <<mu, spent>>
     \/ Fault("error") /\ Unlock(r, "failed")
  /\ UNCHANGED <<rows, blobs, cached, seen, warned>>

Find(r, next) ==
  /\ pc[r] = "find"
  /\ \/ upload /\ Goto(r, next) /\ UNCHANGED <<mu, spent>>
     \/ ~upload /\ Unlock(r, "missing") /\ UNCHANGED spent
     \/ Fault("error") /\ Unlock(r, "failed")
  /\ UNCHANGED <<rows, blobs, cached, seen, warned>>

\* The file next to the cached video is rewritten too; nobody reads it while
\* there is a catalog.
Save(e) ==
  /\ pc[e] = "save"
  /\ \/ SaveUpload(e) /\ Unlock(e, "edited") /\ UNCHANGED spent
     \/ Fault("error") /\ Unlock(e, "failed") /\ UNCHANGED rows
     \/ Fault("lost") /\ SaveUpload(e) /\ Unlock(e, "failed")
  /\ UNCHANGED <<blobs, cached, seen, warned>>

Update(e) == Find(e, "save") \/ Save(e)

DeleteRow(d) ==
  /\ pc[d] = "delete"
  /\ \/ DeleteUpload /\ Goto(d, "cache") /\ UNCHANGED <<mu, spent>>
     \/ Fault("error") /\ Unlock(d, "failed") /\ UNCHANGED rows
     \/ Fault("lost") /\ DeleteUpload /\ Unlock(d, "failed")
  /\ UNCHANGED <<blobs, cached, seen, warned>>

\* From here on an error only becomes a warning.
CleanupFails(d) ==
  /\ Fault("error")
  /\ warned' = warned \cup {d}

DeleteCache(d) ==
  /\ pc[d] = "cache"
  /\ \/ cached' = cached \ {Web} /\ UNCHANGED <<warned, spent>>
     \/ CleanupFails(d) /\ UNCHANGED cached
  /\ Goto(d, "video")
  /\ UNCHANGED <<rows, blobs, mu, seen>>

DeleteVideo(d) ==
  /\ pc[d] = "video"
  /\ \/ object' = FALSE /\ UNCHANGED <<warned, spent>>
     \/ CleanupFails(d) /\ (object' = FALSE \/ UNCHANGED object)
  /\ Unlock(d, "prefix")
  /\ UNCHANGED <<rows, artifacts, cached, seen>>

\* The handler's own cleanup: DeletePrefix goes page by page.
DeletePrefix(d) ==
  /\ pc[d] = "prefix"
  /\ \/ artifacts' = {} /\ UNCHANGED <<warned, spent>>
     \/ CleanupFails(d) /\ artifacts' \in SUBSET artifacts
  /\ Goto(d, "deleted")
  /\ UNCHANGED <<rows, object, cached, mu, seen>>

Delete(d) ==
  \/ Find(d, "delete")
  \/ DeleteRow(d)
  \/ DeleteCache(d)
  \/ DeleteVideo(d)
  \/ DeletePrefix(d)

-----------------------------------------------------------------------------
(* CatalogStore.Resolve, and the analyses.                                  *)

ReaderHost(q) == IF q \in Analyses THEN HostOf[q] ELSE Web

AfterResolve(q) == IF q \in Analyses THEN "publish" ELSE "served"

\* FindUpload.
Look(q) ==
  /\ pc[q] = "idle"
  /\ \/ upload /\ Goto(q, "content") /\ UNCHANGED spent
     \/ ~upload /\ Goto(q, "missing") /\ UNCHANGED spent
     \/ Fault("error") /\ Goto(q, "failed")
  /\ seen' = IF q \in Analyses /\ pc'[q] = "content" THEN [seen EXCEPT ![q] = vod] ELSE seen
  /\ UNCHANGED <<rows, blobs, cached, mu, warned>>

\* Mutant: a cold cache is not filled from the object store.
CachedContent(q) ==
  /\ pc[q] = "content"
  /\ Goto(q, IF ReaderHost(q) \in cached THEN AfterResolve(q) ELSE "unavailable")
  /\ UNCHANGED <<rows, blobs, cached, mu, seen, warned, spent>>

\* The host's copy, or a new one.
Content(q) ==
  /\ pc[q] = "content"
  /\ \/ /\ ReaderHost(q) \in cached
        /\ Goto(q, AfterResolve(q))
        /\ UNCHANGED <<cached, spent>>
     \/ /\ ReaderHost(q) \notin cached
        /\ object
        /\ cached' = cached \cup {ReaderHost(q)}
        /\ Goto(q, AfterResolve(q))
        /\ UNCHANGED spent
     \/ /\ ReaderHost(q) \notin cached
        /\ ~object
        /\ Goto(q, "unavailable")
        /\ UNCHANGED <<cached, spent>>
     \/ /\ ReaderHost(q) \notin cached
        /\ Fault("error")
        /\ Goto(q, "failed")
        /\ UNCHANGED cached
  /\ UNCHANGED <<rows, blobs, mu, seen, warned>>

\* Mutant: an artifact that could not be published does not fail the analysis.
PublishAnyway(a) ==
  /\ pc[a] = "publish"
  /\ \/ artifacts' = artifacts \cup {a} /\ UNCHANGED spent
     \/ Fault("error") /\ UNCHANGED artifacts
  /\ Goto(a, "commit")
  /\ UNCHANGED <<rows, object, cached, mu, seen, warned>>

\* The stages of AnalysisRunner.Run up to the publication of the report.
Publish(a) ==
  /\ pc[a] = "publish"
  /\ \/ artifacts' = artifacts \cup {a} /\ Goto(a, "commit") /\ UNCHANGED spent
     \/ /\ Fault("error")
        /\ artifacts' = artifacts \cup {a} \/ UNCHANGED artifacts
        /\ Goto(a, "failed")
  /\ UNCHANGED <<rows, object, cached, mu, seen, warned>>

\* Mutant: the report brings the metadata of the upload with it.
SaveResultAsUploaded(a) ==
  /\ vod' = Creation
  /\ reports' = reports \cup {a}
  /\ UNCHANGED upload

\* SaveAnalysisResult inserts or updates the row of vods as well.
SaveResult(a) ==
  /\ vod' = seen[a]
  /\ reports' = reports \cup {a}
  /\ UNCHANGED upload

Commit(a) ==
  /\ pc[a] = "commit"
  /\ \/ SaveResult(a) /\ Goto(a, "saved") /\ UNCHANGED spent
     \/ Fault("error") /\ Goto(a, "failed") /\ UNCHANGED rows
     \/ Fault("lost") /\ SaveResult(a) /\ Goto(a, "failed")
  /\ UNCHANGED <<blobs, cached, mu, seen, warned>>

Read(q) == Look(q) \/ Content(q)

Analyze(a) == Read(a) \/ Publish(a) \/ Commit(a)

-----------------------------------------------------------------------------

\* The requests in progress end with vod-web.
CrashWeb ==
  /\ Fault("crash")
  /\ pc' = [r \in Requests |->
              IF r \in Writers \cup Views /\ pc[r] \notin Over \cup {"idle"} THEN "dead" ELSE pc[r]]
  /\ mu' = None
  /\ UNCHANGED <<rows, blobs, cached, seen, warned>>

\* An attempt ends with its worker.
CrashWorker(a) ==
  /\ pc[a] \notin Over \cup {"idle"}
  /\ Fault("crash")
  /\ Goto(a, "dead")
  /\ UNCHANGED <<rows, blobs, cached, mu, seen, warned>>

\* A host loses its cache.
Evict(h) ==
  /\ h \in cached
  /\ cached' = cached \ {h}
  /\ UNCHANGED <<rows, blobs, mu, pc, seen, warned, spent>>

Write(r) ==
  \/ Lock(r)
  \/ r = Creation /\ Create
  \/ r \in Edits /\ Update(r)
  \/ r \in Deletes /\ Delete(r)

Next ==
  \/ \E r \in Writers : Write(r)
  \/ \E q \in Views : Read(q)
  \/ \E a \in Analyses : Analyze(a) \/ CrashWorker(a)
  \/ CrashWeb
  \/ \E h \in Hosts : Evict(h)

Spec == Init /\ [][Next]_vars

\* A handler goes on, and a request that waits for uploadMu gets it.
Fairness ==
  /\ \A r \in Writers : WF_vars(Write(r))
  /\ \A q \in Views : WF_vars(Read(q))
  /\ \A a \in Analyses : WF_vars(Analyze(a))

FairSpec == Spec /\ Fairness

-----------------------------------------------------------------------------
(* Properties.                                                              *)

\* Every variable keeps its kind, and uploaded_vods and analysis_reports refer
\* to rows of vods.
UploadTypeOK ==
  /\ vod \in Metadata \cup {None}
  /\ upload \in BOOLEAN
  /\ reports \subseteq Analyses
  /\ upload \/ reports # {} => vod # None
  /\ object \in BOOLEAN
  /\ artifacts \subseteq Analyses
  /\ cached \subseteq Hosts
  /\ mu \in Writers \cup {None}
  /\ pc \in [Requests -> Pcs]
  /\ seen \in [Analyses -> Metadata \cup {None}]
  /\ warned \subseteq Deletes
  /\ spent \in 0 .. MaxFaults

\* A VOD whose upload was answered with success has its video in the object
\* store for as long as the catalog lists it: whatever requests overlap, fail or
\* die, no cache is needed to get at it (CatalogStore.Create and Delete).
ListedHasVideo == pc[Creation] = "created" /\ upload => object

\* Once a deletion has removed the row, no edit, late report or repetition
\* brings the VOD back into the catalog (uploadMu in the upload handlers,
\* SaveAnalysisResult leaves uploaded_vods alone).
RemovedBy(d) == pc[d] \in {"cache", "video", "prefix", "deleted"}
RemovedStaysRemoved == (\E d \in Deletes : RemovedBy(d)) => ~upload

\* A deletion answered without a warning has removed the video for good
\* (CatalogStore.Delete, PostDeleteCleanupError).
DeletedVideoIsGone ==
  \A d \in Deletes : pc[d] = "deleted" /\ d \notin warned => ~object

\* Whoever found the row gets the video, however cold the caches are, unless a
\* deletion has come in between or the upload was not answered with success
\* (CatalogStore.Resolve).
VideoIsFound ==
  \A q \in Readers : pc[q] = "unavailable" =>
    \/ pc[Creation] # "created"
    \/ \E d \in Deletes : pc[d] \in {"prefix", "deleted", "dead"}

\* The video of a VOD is there from the answer to its upload to its deletion.
VideoIsServed == ListedHasVideo /\ VideoIsFound

\* A deletion takes the VOD and its video for good.
DeletionIsFinal == RemovedStaysRemoved /\ DeletedVideoIsGone

\* The reports of a listed VOD have their artifacts: the cleanup of a deletion
\* never takes those of a report that is listed (handleDeleteUploadedVOD).
ReportsHaveArtifacts == upload => reports \subseteq artifacts

\* Every request is answered or dies with its process: nobody leaves uploadMu
\* locked.
EveryRequestEnds == <>(\A r \in Requests : pc[r] \in Over)

\* An edit that was answered with success is undone by nothing but a deletion, a
\* later edit, or the end of an analysis that had resolved the VOD before the edit
\* and saves the metadata it read then (SaveAnalysisResult, upsertVOD).
UndoneByStaleAnalysis ==
  \A e \in Edits : vod = e /\ pc[e] = "edited" /\ vod' # e =>
    \/ vod' = None
    \/ vod' \in Edits /\ pc[vod'] = "save"
    \/ \E a \in Analyses : pc[a] = "commit" /\ seen[a] = vod'
EditsYieldOnlyToStaleness == [][UndoneByStaleAnalysis]_vars

-----------------------------------------------------------------------------
(* The inductive invariant behind them.                                     *)

HoldersHold == \A r \in Writers : pc[r] \in Held => mu = r

\* Until its row is there nobody has come across the upload.
Unlisted == pc[Creation] \in {"idle", "local", "object", "row"}
UnlistedIsUnknown ==
  Unlisted =>
    /\ ~upload
    /\ reports = {}
    /\ \A e \in Edits : pc[e] # "save"
    /\ \A d \in Deletes : pc[d] # "delete" /\ ~RemovedBy(d)
    /\ \A q \in Readers : pc[q] \notin {"content", "unavailable", "publish", "commit"}

\* What was found under uploadMu is still there.
FoundIsThere ==
  /\ \A e \in Edits : pc[e] = "save" => upload
  /\ \A d \in Deletes : pc[d] = "delete" => upload

VideoBeforeRow == pc[Creation] = "row" => object

CleanedIsGone ==
  \A d \in Deletes : pc[d] \in {"prefix", "deleted"} /\ d \notin warned => ~object

OnlyDeletionsTake ==
  pc[Creation] = "created" /\ ~object =>
    \E d \in Deletes : pc[d] \in {"prefix", "deleted", "dead"}

PublishedStays ==
  upload => \A a \in Analyses : pc[a] = "commit" \/ a \in reports => a \in artifacts

UploadInvariant ==
  /\ HoldersHold
  /\ UnlistedIsUnknown
  /\ FoundIsThere
  /\ RemovedStaysRemoved
  /\ VideoBeforeRow
  /\ ListedHasVideo
  /\ CleanedIsGone
  /\ OnlyDeletionsTake
  /\ VideoIsFound
  /\ PublishedStays

=============================================================================
