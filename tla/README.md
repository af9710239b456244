# A verification development of valorant-vod-coach

TLA+ specifications of the parts of this repository whose correctness depends on
the order in which several processes act, the TLC configurations that check them
on small instances, and TLAPS proofs of what matters most for instances of every
size. `src/...` names files of the repository.

## 1. The system

A user uploads a VOD of a match, asks for an analysis, watches the job, and reads
the report. In the durable deployment (`src/deployments/compose`) this takes five
kinds of process and five stores:

```
 browser -> vod-web ----> PostgreSQL <---- vod-worker ----> Redis (lock)
              |  \            ^  \             |  \
              |   dispatcher  |   outbox       |   local files -> object store
              v      |        |     |          v
            Temporal service -+     +--> vod-outbox-relay -> Kafka
             (workflow)  activities                            |
                                      ClickHouse <- vod-clickhouse-sink
```

Without Temporal, vod-web runs an analysis in a goroutine of its own.

### Components

For each: its state, its operations, whom it meets, what is hard about it and
what makes it correct.

**Analysis jobs** (`webapi/server.go`, `temporalworkflow/`, `postgres/jobs.go`).
State: the rows of `analysis_jobs`; the workflow execution of each job in Temporal;
the copies of rows in the hands of handlers, dispatcher and activities. Operations:
submit, request cancellation, the dispatcher's pass (every few seconds), the workflow
with its four activities, progress reports. Everybody reads a whole row, changes the
copy and writes the whole row back with `UPDATE ... WHERE id`; there is no version
and no condition. Hard: every interleaving of two such read-modify-writes, attempts
Temporal has given up on and which go on writing, calls to Temporal whose answer is
lost, a stop of vod-web between insert and start. Correct: a completed job has a report,
nothing is cancelled that nobody asked to cancel, a job fails only after its retries,
every submitted job is answered, a requested cancellation reaches Temporal.

**Analysis executor, lock and publication** (`app/analyze.go`, `redislock/lock.go`,
`localanalysis/`, `media/`, `report/`, `postgres/store.go`). State: a Redis key per
owner and VOD with a random token and a TTL of two hours; a directory per VOD and run
ID; the objects published from it; the catalog row. Operations: acquire, the stages
(frames, clips, `report.json`, `report.md`), upload, one transaction, release.
Hard: a worker dies with the key, two attempts overlap, a stage is cut short, the
answer to COMMIT is lost, a retry meets what an earlier attempt left. Correct: one
attempt at a time on a VOD, a cataloged report is a published one, an analysis is saved
once, the VOD becomes free again.

**Transactional outbox and relay** (`postgres/outbox.go`, `postgres/store.go`,
`cmd/vod-outbox-relay`, `kafka/producer.go`). State: `outbox_events`, topics,
the batch of each relay. Operations: insert with the report, claim a batch
(`FOR UPDATE SKIP LOCKED`, two-minute lock), publish, mark published or failed,
backoff. Hard: marks do not check who holds the row, a relay slower than its lock, a
crash between publish and mark, errors that hide a success. Correct: at-least-once
delivery, and no duplicate without an incident.

**ClickHouse sink** (`cmd/vod-clickhouse-sink`, `clickhouse/client.go`). State: the
offsets of a consumer group, the record in the hands of each member, the table
`kafka_events`, the dead-letter topic. Operations: fetch, insert or dead-letter,
commit. Hard: a commit stands for all earlier records, rebalances between insert and
commit, late commits of former owners, errors after which the loop goes on.
Correct: nothing is committed that was not dealt with or whose own write had failed,
everything is dealt with.

**In-process analysis jobs** (`webapi/server.go:1780`). The same rows, in PostgreSQL or in
the memory of vod-web, changed by a goroutine per job, and read page by page by clients
(`ListAnalysisJobs`). Hard: the goroutine dies with the process, progress reports race with
the end, a page is read while jobs are submitted and end, times of creation are equal or the
clock is set back. Correct: an answer for every job, no job that has ended changes, no page
repeats or drops a job.

**Upload library** (`vodstore/`, `s3store/`, `postgres/uploads.go`). State: a file, an
object and a row per upload. Operations: create, resolve (with a download into the
cache), update, delete, each in several steps with compensations whose errors are
ignored, under a mutex of one process. Hard: partial failures, two vod-web processes, an
analysis that ends after its VOD was deleted. Correct: a listed upload has content; a
deleted one does not come back.

**User documents** (`webapi/server.go:1960-2330`, `postgres/userdata.go`). Guided
reviews, evaluation sets and labels: JSON documents hydrated from PostgreSQL into a file, changed
and saved under a mutex of one process; requests that list them restore and save them without
that mutex. Hard: a list between the steps of a change, a failure or a restart between
file and row. Correct: no acknowledged change is lost, and answers are current.

**Accounts, sessions, rate limits** (`app/auth.go`, `webapi/security.go`,
`redissession/`, `redisrate/`). State: accounts in PostgreSQL or a file, sessions and
counters in Redis or in memory. Operations: registration (the first administrator under
`LOCK TABLE`), login, logout, the fixed-window counters of the limiter. Hard: two
registrations of a first administrator, a session created whose answer is lost, two tabs that
log in with one cookie, the edges of the window. Correct: one administrator, no session nobody
holds without one of these, a bounded rate.

**PostgreSQL migrations** (`postgres/migrations.go`). State: `schema_migrations` and the
advisory lock. Numbered files applied once each by several processes at start. Hard:
processes of different versions, a failure or a death in the middle. Correct: each migration
once, nobody serves on an older schema than its own.

**Local vision analysis** (`vision/local.go`, `vision/tesseract.go`). What is seen on the
sampled frames becomes phases, rounds and review windows with evidence. Hard: four searches
share one timeline and one budget; two ways to find boundaries. Correct: windows do not
overlap, rounds partition the recording, one death of a round is reviewed and none before it
without a reason.

**Match evaluation and coaching rules** (`app/coaching.go`, `app/evaluate.go`). The
assessment of a decision from the user's answers; the matching of labels to events. Hard: rules
that hide one another, labels that compete for an event. Correct: nobody is blamed on
unconfirmed facts, no match is missed that was left over.

**The rest.** Media tools (ffmpeg and ffprobe), the vision service and its client, the
operations console, observability, the dataset manifest, `vodctl`, the web UI,
deployment files: input and output, or computations without a decision of their own.

`PROJECT.json` lists each component with its status, and every hazard of the code with
the properties that cover it.

## 2. Modules

| module | models | extends |
| --- | --- | --- |
| `AnalysisJobs` | jobs in the durable mode: handlers, dispatcher, workflow, activities, rows | |
| `AnalysisRun` | the attempts of analyses of one VOD: lock, stages, publication, transaction | |
| `EventDelivery` | abstract: what the outbox promises | |
| `OutboxRelay` | outbox table, relays, topics; implements `EventDelivery` | |
| `EventSink` | consumer group, ClickHouse table, dead letters | |
| `EventPipeline` | relays and sinks over one log; implements `EventDelivery` again, from report to row | `OutboxRelay`, an instance of `EventSink` |
| `UploadCatalog` | one uploaded VOD: rows, object, caches, artifacts; uploads, edits, deletions, views, analyses | |
| `UserDocuments` | guided reviews and corrections: rows, files, the mutex, lists without it | |
| `JobLife` | abstract: what a reader of the job list may expect of a job | |
| `LocalJobs` | jobs without Temporal: request, goroutine, rows, restart; implements `JobLife` | |
| `JobPages` | the list of jobs read page by page beside them | `LocalJobs` |
| `Accounts` | registration, login, logout, sessions, the limiter | |
| `Migrations` | processes that migrate one database at start | |
| `WebStartup` | vod-web serves once it has migrated | `Accounts`, `Migrations` |
| `GameplayReview` | the local analysis: observations, text recognition, phases, rounds, windows, events | |
| `GuidedAssessment` | the questions, rules and verdicts of a guided review | |
| `MatchEvaluation` | labels matched to events, counts | |
| `MatchReview` | recording to report to assessment or evaluation | the three above |
| `SortedSets` | sorting, for the four above and `JobPages` | |
| `MC*` | values for TLC's constants | the module named |
| `*_proofs` | theorems | the module named, `TLAPS` |

### AnalysisJobs

`row` is the table; of a row it keeps the columns decisions are made on (status, stage,
`cancellation_requested`, attempts, whether `finished_at` and the report paths are set). `Overwrite` is
`UpdateAnalysisJob`; `MarkRunning`, `MarkCompleted` and so on are the assignments the
callers make to their copies, kept in `cancel`, `dispatch.rows` and `act`. A handler is
one action per call it makes: `Submit` (insert), `SubmitStart` (call to Temporal),
`SubmitDefer` (the write after a failed call); `CancelRead`, `CancelWrite`, `CancelCall`.
`DispatchList` .. `DispatchSleep` are one pass of `Reconcile`. `workflow` is Temporal's
view of the execution: the activity it awaits (`phase`), the attempt (`try`) and whether
its context is cancelled; `After` is the workflow's code between two activities together with the
retry policy. `act` holds every execution of an activity in a worker, including those
Temporal has given up on (`TimeoutAlive`), which go on to read and write.

One delicate point is `CanceledError` returned by an activity on its own (because of the
row's flag). The SDK turns it into a cancellation only if the activity's context has been
cancelled as well; `After` therefore allows both a cancellation and a retry.

### AnalysisRun

One owner's VOD: pairs of an owner and a VOD have different keys and directories and
share nothing. An attempt is a pair of a job and a number and is also the token of its
lock. `pc` walks through `AnalysisRunner.Run`; each file kind (frames with manifest, clips,
JSON, Markdown) is one stage and one cell of `files` and `objects`, whose value is the
attempt that wrote it. `Torn` is what a stage cut short leaves, and `Mixed` a sample with leftovers:
an unforced first attempt that finds frames without a manifest writes its own over them, removes
none, and lists whatever is there (`Yield`). `Refuses` is the
"already exists" check of the stages, which an attempt after the first skips because the
activity turns `Force` on. `Return` is the deferred release and the answer to Temporal in one step, since
nothing happens in the process between the two and the release is atomic in Redis.
Expiry of the key of an attempt at work is a fault ("overrun"): the TTL is two hours and
an attempt is cancelled after at most 55 minutes, so it takes one that ignores its
context. User cancellation is left to `AnalysisJobs`.

### OutboxRelay, EventSink, EventPipeline

A row of the outbox keeps its status, the rank of `occurred_at`, and whether its lock is
stale and its next attempt due: time is these two bits. The batch is worked off in any order, because
`UPDATE ... RETURNING` promises none. `Mark` is both marks, with the early return after an
error. The sink's `hand` is the local variable of the loop; `Move` commits an offset
even backwards, as Kafka accepts it. The dead-letter key is a record's partition and offset.
`EventPipeline` shares `log` between the two and nothing else.

`EventDelivery` has four sets: events committed with a report, events a consumer can
read, events acknowledged, and events of which a delivery failed that nobody repeats. Only the
first two of these ends make an event fit to be acknowledged: it can be read, or a delivery of it
is lost. Sending again and forgetting an acknowledgement are allowed.
`OutboxRelay` refines it with `sent` = in the topic, `acked` = marked published, and nothing lost;
`EventPipeline` refines it with `sent` = has a row in ClickHouse, `acked` = committed
by the group, and `lost` = an insert failed (`Skipped`).

### UploadCatalog

Labels are new for every upload, and two VODs share nothing but `uploadMu`; the module
is about one VOD. `vod` is the row of `vods`, reduced to the request whose metadata it
holds; `upload` says whether `uploaded_vods` refers to it, `reports` which analyses have a row in
`analysis_reports`; both follow it by cascade. `object` and `artifacts` are what the
object store has, `cached` the hosts with a copy of the video. Each handler is a program with
one action per call: `CreateLocal`, `CreateObject`, `CreateRow`, then the compensations
`CreateUndo` and `CreateDiscard`; `Find` and `Save`; `Find`, `DeleteRow`, `DeleteCache`,
`DeleteVideo`, and after the lock `DeletePrefix`. `Look` and `Content` are
`CatalogStore.Resolve`, which takes no lock, for a request for the video as well as for an analysis.
The latter goes on to `Publish` and `Commit`; the stages in between do not touch what is
modelled here, and the lock of `AnalysisRun`, which would only order the analyses
of one owner, is left out. A fault "error" fails a call, with or without effect where the
store may have acted; "lost" is a transaction that took place although its COMMIT
answered an error; "crash" ends vod-web with everything in it, or an attempt with its worker.
`Evict` empties the cache of a host at any time, since a cache is not a promise.

There is one vod-web process: the Compose deployment and the documentation run one, and
`uploadMu` is a mutex in memory. With two, an edit may restore the row of an
upload that the other has deleted.

### UserDocuments

`db` is `user_documents`, `file` the files of one vod-web, `mutex` is `guidedMu`. A document has
slots (a window of a guided review, or a correction) and of each slot the request that wrote it
last and the one that rated it. A change is `Lock`, `Hydrate`, `Restore`, `Change`, `Write`,
`Save`, one action per call of the handler; each step can fail and then unlocks and answers an error,
and a `Save` that fails may have saved. A list is `Find` and `Copy`, or `Find`, `Read` and `KeepFile`
when there is no row; it takes no mutex. `Restart` drops every request in flight and keeps the disk or
loses it. `turn`, `racing` and `known` are history: the order of the changes, the
lists in flight when a change was saved, and what had been answered when a list began. Evaluation labels take the same path as
corrections and are left out.

### JobLife, LocalJobs, JobPages

`work` is the handler and then the goroutine of a job: `Stamp` and `Insert`, `Begin`, then reports
(`Report` finds the row, `Save` writes it), `Return`, `Find`, `Finish`. In PostgreSQL every
call can fail with or without effect; what the goroutine then does (return, skip the
report, write the copy it began with) is the code's. `Restart` ends all goroutines, and loses the rows
when they are in memory. `JobLife` is the order queued, running, ended; `LocalJobs` refines it with the status of
the row. `JobPages` adds `created` with the two readings of a Go `time.Time`, a client that pages
(`Open`, `ReadPage`) by cursor or by time alone, and `steady`, the jobs that
matched all along, against which a whole listing is judged.

### Accounts, Migrations, WebStartup

`setup` chooses where accounts and sessions are kept, once. A browser has one cookie and several tabs.
`req` is the request each tab waits for, with the cookie it was sent with (`Send`), so that requests of one
browser overlap; `overlaps` counts those that did. The handler is
`Throttle`, `CountUsers`, `Register` or `Authenticate`, then `DropPrevious` and `CreateSession`;
`Logout`. `Register` is one action, because `LOCK TABLE` or the store's mutex covers all of it.
A failed write of the file may leave it undecodable (`readable`). `Seen` is `currentSession`: an
expired session is removed; visits do not renew one.
`Migrations` has one action per transaction; `Stop` is a failed statement, a death, or a commit whose
answer was lost, all of which end the session and with it the advisory lock. `WebStartup` lets
browsers act only while vod-web is up, and takes a migration step only between requests, since the two share
no state.

### GameplayReview, GuidedAssessment, MatchEvaluation, MatchReview

Three pure computations as a short program. `Recognize`, `Segment` and `Select` are the stages of
`AnalyzeGameplay`; a frame is an observation of texts and signals in hundredths (what is measured on pixels is
an input, `Looks`), averages and deviations are compared exactly by cross-multiplication. The
operators have the names of the functions: `Classify`, `AnchoredBoundaries`, `EstimatedBoundaries`,
`DeathReviewWindows`, `HighImpactWindows`, `PassiveWindows`, `RotationWindows`, `Pick`, `Evidence`.
`sort.Slice` is unstable: among candidates of equal score, which come in the order of time, the models
keep that order, as the sort does for the few elements it has here.
`AnswerQuestion` is one answer of the user, after which `AssessDecision` judges anew. `Evaluate` matches labels
to events greedily, in the order of the labels. `MatchReview` feeds the windows to the
review and the events to the evaluation, so that both are asked about reports the analysis can produce.

## 3. Runs

Faults are drawn from a set of kinds and counted; `MaxFaults` (`MaxSinkFaults`, `MaxStops`) bounds
how many happen in a behaviour, the other bounds are the numbers of actors, attempts,
records and ticks. All other counters are bounded by the code.

| run | instance | shows |
| --- | --- | --- |
| `jobs` | 1 job, 1 cancellation, 2 attempts, 2 tries of a finalizer, 1 fault of any kind, an executor that may never return | `EndsAreJustified`: reports, cancellations and failures have a cause however stale the copies; `RequestIsDelivered`: the dispatcher delivers a recorded request |
| `jobs_answered` | 2 jobs, one undecodable, no cancellation, pages of 1, 1 fault of any kind, fair | `SubmittedIsAnswered`: every submitted job is answered |
| `jobs_terminal_overwritten` | 1 job, 1 cancellation, no fault | finding: a terminal row is overwritten (`TerminalIsFinal`) |
| `relay` | 3 events in 2 transactions and 2 partitions, 2 relays, batches of 2, 2 faults, fair | `ImplementsDelivery` and `EveryEventIsDelivered`: at-least-once delivery, live; `DuplicatesNeedFaults` |
| `sink` | 2 members, 1 partition of 3 records, 3 faults of any kind, fair | `OnlyFailedAreSkipped`: a commit passes only records dealt with or failed; `RowsNeedFaults`; `EveryRecordIsSettled` |
| `pipeline` | 2 events, 2 relays, 2 members, 1 + 2 faults, fair | `PipelineImplementsDelivery` and `EveryEventIsSettled`: delivery end to end, live, but for events of which an insert failed; `PublishedIsNotForgotten` with the same exception |
| `run` | 2 jobs with one run ID, 2 attempts each, 1 fault of any kind, fair | `SectionIsHeld`: the lock excludes; `CatalogedIsPublished`; `RepeatsNeedFaults`; `NobodyWaitsForever`: the VOD becomes free and every run ends |
| `uploads` | 1 creation, 1 edit, 2 deletions, 1 view, 1 analysis on another host, 2 faults of any kind, fair | `VideoIsServed`, `DeletionIsFinal`, `ReportsHaveArtifacts`, `EditsYieldOnlyToStaleness`, `EveryRequestEnds` |
| `documents` | 2 assessments of one window, 1 feedback, 1 correction of another document, 1 list, 1 fault, fair | `AcknowledgedChangesSurvive`, `AnswersAreCurrent`, `EveryRequestEnds` |
| `startup` | 2 processes that know 1 and 2 migrations, 1 stop; 2 tabs of one browser, 2 addresses, 3 requests, limit 1 in a window of 2 ticks, sessions of 1 tick, 2 ticks, 1 fault, each store | `MigrationInv`, `OneAdministrator`, `StraySessionsNeedFaultsOrOverlaps`, `LimitIsKept` |
| `review` | recordings of 1 to 10 frames at six rhythms, windows 2 or as the default, every answer, 5 sets of labels, 3 of types, tolerances | `WindowsShareTheTimeline`, `RoundsPartition`, `OneDeathPerRound`, `EvidenceIsNearest`; `BlameIsConfirmed`, `VerdictsAreFair`; `EvaluationIsComplete` |
| `local` | 2 jobs beside an old one, in memory or PostgreSQL, 1 report of progress, 1 fault, pages of 1 by cursor or time, times 1 and 2, fair | `LocalImplementsLife`, `ProgressIsKept`, `EveryJobEnds`; `PagesAreExact` |

Where one property is the conjunction of several (`EndsAreJustified`, `NobodyWaitsForever`, `VideoIsServed`,
`DeletionIsFinal`, `AnswersAreCurrent`, `MigrationInv`, `LimitIsKept`, `EvaluationIsComplete`,
`VerdictsAreFair`), its parts are definitions of their own, with a comment on each. Type correctness of
the modules with proofs is left to the proofs.

Why these bounds. Two attempts are enough for an abandoned one beside its successor, two
jobs for a lock and directories they share, two relays and two members for every way of
taking over, three records for a commit that passes one and is read again, a page smaller
than the number of jobs for the dispatcher's limit and for the client's next page, two
deletions for a repetition beside the original, two faults for a failed step with a failed
compensation. Two changes of one slot, one that depends on them, one of another document and
one list are all the roles a request can have on a document. Two processes that know one and two
migrations meet as equals on the first and as older and newer on the second. Three requests are a
registration raced by another, and one more after either; with a limit of one the limiter already
refuses the second. A recording needs frames at the distances the rules compare (overlays hold 2 to 12 s,
windows span 14 to 18 s, rounds last at least 35 s), which the rhythms have; one of 60 s has
several rounds, those of 5 to 15 s have runs of frames. Where liveness is checked too, one fault
is what keeps a run within minutes; the theorems remove every bound for the invariants they
state. `startup` is symmetric in its tabs, which nothing names. Deadlock is
checked in the `jobs` runs, where the dispatcher never stops; the other systems do come
to rest (no more events to save, no more faults allowed, every request answered), and there it
is switched off.

**Fairness.** Only what the code keeps doing: a live goroutine goes on; the dispatcher's and the
relay's tickers tick; Temporal offers a task until a worker takes it, notices a dead worker
by its heartbeat and times the retry; Redis expires keys; locks of rows grow old and
backoffs end. Users need not act and faults never have to happen. Fairness is weak but
for the mutex of `UserDocuments` (`SF_vars(Lock(r))`): Go hands a mutex to the waiter that has starved for a
millisecond. The executor's return has fairness in `FairSpec` of `AnalysisJobs` and in
`LocalFairness`, where `OverallTimeout` bounds it, and not in `PatientSpec`. `EveryEventIsDelivered` and the other
liveness properties hold after finitely many faults, by the bound: against a store
that fails for ever nothing can be promised.

**What is not promised.** `SubmittedIsAnswered` is checked without a cancellation request.
With one, and a fault on the last try of the finalizer, it is false: the workflow closes, the
row stays active and `REJECT_DUPLICATE` keeps the dispatcher from starting another.
A request itself may be lost: the
reporter of an attempt writes back a row it read before, and `RequestIsDelivered` therefore
speaks of requests the row still shows.
An upload that was answered with an error although its row was committed is listed without
its video (`ListedHasVideo` and `VideoIsFound` except it), and an analysis that ends after
the deletion of its VOD leaves a row of `vods`, a report and artifacts that no DELETE finds.
An event of which an insert into ClickHouse failed may be committed without its row, and `pipeline`
promises it none. Two logins of one browser at once leave a session nobody holds:
`StraySessionsNeedFaultsOrOverlaps` allows one for each such overlap. A sample of an unforced first attempt
may hold frames of an interrupted one (`OwnContents`).
`EveryJobEnds` excepts the jobs whose goroutine died or failed to write, `PagesAreExact` jobs in
memory after the clock was set back, `AcknowledgedChangesSurvive` a change a list was in flight at.

### Finding

`jobs_terminal_overwritten`: the web handler for a cancellation writes back the copy it read
before the job ended; a completed job is shown as running again. Lines and quotation are in
`PROJECT.json`.

### Behaviours worth knowing

The models have these behaviours because the code has them; the properties are stated so that they are
what is left. No run is kept for them.

- After a failed insert the sink fetches the next record, whose commit covers the failed one: the
  event never reaches ClickHouse (`OnlyFailedAreSkipped` is exactly this;
  `docs/observability.md:59` and `docs/kafka-event-streaming.md:166` promise more).
- After a failed publish the relay goes on with later events of the same VOD, so that a
  partition is not in order of time.
- The lock of a dead worker lives for up to two hours and is not waited for. The remaining
  attempts follow within a minute, are refused, and the job fails (compare `docs/durable-workflows.md:33`).
- An unforced job that was refused because its run ID has a report overwrites that report on
  its second attempt, which sets `Force`.
- An analysis saves the VOD's metadata as it was when it started, and undoes an edit made
  since then.
- A list of documents that was in flight can undo a change already acknowledged, in one
  process: it restores the file while the next change holds the mutex.
- Without Temporal a restart leaves rows queued or running for ever, or loses the jobs in
  memory; a cancellation answers 503 and changes nothing.
- Paging by `before` alone passes over jobs of the same time. In memory the order of jobs goes by the
  monotonic clock and the cursor by the wall clock: set back, it makes pages repeat or drop jobs.
- The death reviewed need not be the first of its round. `vision/local.go:502-503` says that the first
  onset of the report is the death and later ones come from toggled overlays; but of onsets too near
  to be both shown the clearer one is kept (`565-577`), before the first of each round is chosen
  (`494-508`). So a report toggled soon after the death, and clearer, is the one reviewed, as in a
  recording of a death, a calm look and a clear report 5 s apart. `OneDeathPerRound` excepts exactly this
  (`Supplanted`).
- A wait is blamed as one of which "no purpose or information gain was confirmed"
  (`app/coaching.go:371-372`) when it had no purpose and there was safe space, also when the answer is
  that information was gained: the rule does not look at it. `BlameIsConfirmed` takes the grounds from the
  words of the verdicts and excepts exactly this (`BlamedDespiteInformation`).
- Two tabs that log in with the same cookie both end the session it names and each open one; the
  cookie keeps the last (`webapi/server.go:920-931`), and the other serves until it expires.
- An unforced first attempt that finds frames but no manifest lists them with its own
  (`media/sample.go:93-112`, `248`).
- A label with only a category meets only events of types that were asked for or labelled
  otherwise (`app/evaluate.go:135-164`, `235-246`). Asking for "unknown" alone asks for everything (`139`, `156`).

## 4. Proofs

TLAPS checks each `*_proofs` module from nothing. The assumptions are the named ASSUMEs of the modules: kinds of the
constants, and sentinels that differ from the values they stand beside.

| module | theorems | argument |
| --- | --- | --- |
| `AnalysisJobs_proofs` | `TypeCorrect`, `SoundnessHolds`, `CompletedJobsHaveReports`, `OnlyUsersCancel`, `FailuresFollowRetries`, `EndsAreAlwaysJustified` | `SoundEverywhere` |
| `EventPipeline_proofs` | of the relay: `InvariantHolds`, `TypeCorrect`, `PublishedEventsAreInLog`, `RelayImplementsDelivery`, `DuplicatesAreRare`; of the pipeline: `PipelineInvHolds`, `PublishedIsStoredOrAhead`, `PipelineDelivers` | `IInv`, `CopiesInv`, `PipelineInv` |
| `EventSink_proofs` | `SinkTypeCorrect`, `OnlyFailedSkipped`, `NoRecordSkipped`, `RowsAreRare` | `SinkInvariant`, `RowsInv` |
| `AnalysisRun_proofs` | `InvariantHolds`, `TypeCorrect`, `LockIsExclusive`, `PublishedBeforeCataloged`, `RepeatsAreRare` | `IInv`, `RepeatInv` |
| `UploadCatalog_proofs` | `UploadTypeCorrect`, `UploadInvariantHolds`, `ListedAlwaysHasVideo`, `RemovedNeverReturns`, `DeletionsTakeTheVideo`, `VideoIsFoundOrDeleted`, `VideosAreServed`, `DeletionsAreFinal`, `ReportsKeepArtifacts`, `EditsAreKept` | `UploadInvariant`, `UnlistedIsUnedited` |
| `JobPages_proofs` | of the jobs: `LocalInvariantHolds`, `LocalTypeCorrect`, `OnlyStruckAreLeftBehind`, `LocalJobsImplementLife`, `ProgressIsAlwaysKept`; of a reader beside them: `PageInvariantHolds`, `PagesAreAlwaysExact`, `ReadersChangeNothing`, `JobsLiveBesideReaders` | `LocalInv`, `ProgressInv`, `PageInv` |
| `WebStartup_proofs` | of migrations: `MigrationInvariantHolds`, `MigratorsAlwaysHold`, `MigrationsRunOnce`, `ServersAreMigrated`; of vod-web behind them: `StartupInvariantHolds`, `MigrationsHoldBehindTheWeb`, `AccountsAreTyped`, `TheFirstIsTheAdministrator`, `StraySessionsAreRare` | `MigrationInv`, `AccountInv` |
| `Reviews_proofs` | of documents: `DocumentsInvariantHolds`, `DocumentsTypeCorrect`, `AcknowledgedChangesAreKept`, `LaterAnswersAreCurrent`; of a match: `ReviewInvariantHolds`, `TheTimelineIsShared`, `TheEvidenceIsTheNearest`, `RoundsInvariantHolds`, `TheRoundsPartition`, `TheDeathsAreFirst`, `TheEvaluationIsComplete`, `BlameIsAlwaysConfirmed`, `TheVerdictsAreFair` | `DocumentsInv`, `WindowsInv`, `RoundsInv`, `VerdictInv`, `EvaluationInv` |

**AnalysisJobs.** `CompletedHasReport` alone is not inductive: a stale copy that says
"completed" can be written at any time. `SoundEverywhere` says of every copy in anyone's hands what it
says of the row (`SoundRow`), and of everybody who may decide an end that there is evidence
for it (`Evidence`: whoever finalizes a completion follows a saved report, and so on). The
evidence never goes away (`Monotone`: `reported` and `asked` only grow, attempts stay
started, a cancelled workflow stays cancelled), so a copy stays sound however old it is
(`SoundRowGrows`). The steps of the workflow are treated once, in `JustifiedMoves`, and each action shows
that it moves the workflow in one of these ways.

**OutboxRelay.** `PublishedIsInLog` needs `RelayEvidence`: a relay about to mark an
event as published has written it. Since the log only grows, it does not matter who holds the row
by then. The refinement theorem maps each action to a step of `EventDelivery` or a stutter.
`DuplicatesNeedFaults` is no bound of a single step: `CopiesArePaid` keeps, per event, a ledger of the
copies there are, the relays that have the event in a batch and have not sent it (`Owed`), and the row if somebody
may claim it without a further fault (`Offer`). A claim moves an entry from the row to a relay, a
publication from the relay to the topic, and only a fault adds one.

**EventPipeline.** The relay's invariant and the sink's meet in `PipelineInv`: the sink sees a topic that only
grows, so its lemmas are stated of any producer (`Step`), and are taken over by `INSTANCE`. What a
partition holds below the committed offset has a row or is among the dropped records, those whose own insert failed:
hence `PublishedIsNotForgotten` and the refinement of `EventDelivery` end to end, for any faults. Records dropped
stay dropped, so that an event once lost to the analytics is so in the abstract specification too.

**EventSink.** `OnlyFailedAreSkipped` needs what lies between fetch and commit: everything before a
record in hand has been dealt with or has failed (`HandsAreSound`), and so has everything an owner has
fetched, but for the record in its hand (`PositionsAreSound`). `NoRecordSkipped` adds that inserts, and dead letters of invalid records,
do not fail, and then nothing is skipped. `RowsNeedFaults` is again a ledger (`RowsArePaid`): rows, records in hand and
records ahead of the owner's position are together at most the records of the topic, times one and the faults; a
rebalance or a crash, which alone moves a position back, adds a fault and so a whole round.

**AnalysisRun.** `IInv` is `TypeOK`, `WaitingHasRetries` (a job that waits has an attempt
left, without which `attempt` would leave its range), `SectionIsHeld`, and `WorkIsOwn`: while no
attempt has outlived its lock, each file an attempt at work has behind it is its own on disk, and its own
in the object store once it has left the attempt's list of uploads (`OwnContents`: of the sample of an
unforced first attempt, its own among leftovers). `CatalogedIsPublished`, an action property, follows for each step from
`IInv` before it. `RepeatsNeedFaults` needs `SaversArePaid`: the attempts of a job that have saved or are still
able to, the abandoned ones included, are at most the faults and the one the job is owed.

**UploadCatalog.** The argument is that of a critical section. `HoldersHold` makes the handlers
between `Lock` and `Unlock` exclude each other, so what `Find` found is there when `Save` or
`DeleteRow` acts (`FoundIsThere`). `UnlistedIsUnknown` says that nobody has come across an upload before
its row, so that the compensations of a creation and the steps of a deletion never meet.
`VideoBeforeRow` and `OnlyDeletionsTake` give `ListedHasVideo` and `VideoIsFound`: the object
precedes the row and goes only after it. `PublishedStays` includes the analyses that have
published and not yet committed. Types need one more fact, `SeenIsSet`: an analysis that goes on has metadata to save.
`EditsYieldOnlyToStaleness` comes from who writes the metadata of the row (`MetadataWriters`): among them
the upload itself, but an edit is answered only when it has found the row, and then the upload has
written (`UnlistedIsUnedited`).

**LocalJobs.** `LocalInv` is the types, `LeftBehindWereStruck`, and `RowsFollowWork`: the status of a row,
and of the copy in the goroutine's hands, is the one its place implies, so that a report written late
meets a running row and the end is written over one. Each step then is a step of `JobLife` or a
stutter. `ProgressInv`, which says nothing of the jobs once a call to PostgreSQL has failed, adds that
the copy is the row itself and that a row is no further than the last report: so neither a late report
nor the end takes progress back. These theorems are about `LocalSpec`; `PagesSpec`, which the run checks,
adds a reader and implies `LocalSpec` (`ReadersChangeNothing`).

**JobPages.** While the list is in the order of the cursors (`Orderly`: rows in PostgreSQL, or clocks
that agree), `ReaderInv` says that what the client has been shown descends, that its cursor is the last
of it, and that every job in `steady` was shown or is still behind the cursor. A job gets its time
before it is listed and keeps it, so a list that is orderly later was orderly before (`PlacesStay`), and what
is inserted or ends meanwhile moves nothing. `PageFacts` says what a page is: `Sorted` picks
its k-th element as the one with k-1 before it, and `Ranks` shows without induction, by counting, that in a
finite set under a total strict order there is exactly one. Hence the assumption that `Jobs` is finite.

**Migrations.** `MigratorsHold` makes the transactions of different processes follow each other;
`PassedAreRecorded` carries what a process has learnt from one to the next: all versions before its
next one are recorded, and the one it runs is not, since nobody else can have recorded it meanwhile.

**Accounts.** `OneAdministrator` is inductive beside the types, because `Register` decides again under the lock what
the handler had counted. `StraySessionsNeedFaultsOrOverlaps` is again a ledger (`Paid`): the stray sessions
and the requests under way are together at most the faults, the overlaps and the calm browsers, those that
wait for requests all of which still carry the cookie held (`Calm`). A request sent alone makes its browser
calm, one that meets another adds an overlap. The first answer that changes the cookie ends a request and
the calm, and leaves no session behind, because the one its request carried has ended before
(`CreatorsCarryNothing`); a later, stale one may leave a session behind, in the place of its own request
(`ReplacingStrays`). The theorems are about `StartupSpec`, whose steps are steps of the accounts, of the migrations or of both (`StartupSteps`).

**UserDocuments.** The mutex orders the changes: whoever is inside has the largest turn
(`TurnsGrow`), and `Put` keeps what it does not replace by a later change, so that what the holder
writes still has every settled one. `SettledIsHeld` says so of the row, of every copy on its way to row
or file, and of the file whenever a change is about to read it; a list that began before
a change was saved is in `racing`, and the change is not settled.

**MatchReview.** The invariant is that of a pipeline: after each stage `WindowsInv` says what its result is
worth to the next. Frames follow the clock, through the recognition of texts, their propagation and the phases
(`InTime`); windows are `Tidy`, that is of the timeline and apart, within the budget and in turn. The four searches
each extend what the earlier ones found (`Found`). A search is a fold over ranked candidates, and the induction it
asks for is replaced by a least counterexample: the shortest prefix after which the picked
windows had lost a property would not be the empty one, and one candidate more keeps it (`ConsideredKeeps`). `Ranks`
shows by counting that a ranking lists everything once. The evidence search stops at the first frame that is
farther off, which is right because distances grow away from the wanted time (`OffGrows`). Rounds are what lies between
boundaries that follow each other through the recording (`Cuts`), and anchored and estimated boundaries are folds again.
That an anchor is kept only in its place is the code's own test; an estimate is moved to the calm near its target,
but only so far (`Reach`) that it stays short of the next target, which `Target` puts a round's length (`Cadence`) away: hence
`EstimateGrows`. `RoundsInv` carries the boundaries and the windows' numbers to the end. A death is reviewed as the first of
its round among those the search shows (`ReviewedDeathsAreFirst`: the searches that follow add none), and one the search does
not show overlaps one ranked ahead of it, which is clearer, or as clear and earlier (`UnpickedOverlap`). Of verdicts, `RulesAreFair` compares the
rules with the table of adverse facts and the one exception, and `JudgedWorsens` follows an answer through them one by one. An evaluation is
`Sound` when every label took the nearest event that those before it left (`MatchedInTurn`, a fold once more). An event no
label took was open to each of them, so none of them has a worse match (`SoundLeavesNoBetter`); and a matched label and its event
count under one key unless the label names a category, which has a key of its own (`EventsOfAKey`). The totals are sums over sets:
whatever function satisfies the recursion of such a sum counts the parts (`PartsAddUp`). Assumed are
`ReviewAssumption`, that looks and samples are numbers of the kind they are and a budget is an integer, and
`LabelAssumption`, that labels say when and what.

Model-checked only: liveness (TLAPS reasons about neither fairness nor ENABLED);
`LimitIsKept`, a sum over the ticks of the clock, whose operator is defined by recursion over sets.

## 5. Not modelled

Wording, confidences, texts and the content of reports: no decision modelled depends on them.
Pixels, OCR and the scores of colour and motion are inputs. Of uploads: listing, the modes without
PostgreSQL or object store, and a second vod-web, which Compose does not run. Of documents: a
second vod-web, and labels, which take the path of corrections. Of accounts: hashes, tokens, CSRF and origin
checks, which are single conditions. The handlers of vod-web that read and answer, the routes and the decoding of
requests. Everything `PROJECT.json` lists as `not_modelled`, for the reason given there: media tools,
vision service, console, CLI, UI and deployment keep no state that several actors change.

## 6. Plan

Done: jobs in both modes, relay, sink and pipeline, the run of an analysis, uploads, documents,
accounts, migrations, start, the review of a match; proofs for eight modules.

Open, in the order of importance:

1. Two vod-web processes: the mutexes of uploads and documents no longer exclude; which of the
   properties survive, and an abstract library in which an upload is either there with its content or gone.
2. Evaluation labels beside corrections; the catalog of reports read while it is written.
3. The dataset manifest and the planning of a vision run in `vodctl`.
