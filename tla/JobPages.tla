------------------------------ MODULE JobPages -------------------------------
(***************************************************************************)
(* The list of analysis jobs, read page by page while jobs are submitted   *)
(* and end: newest first, by times of creation that may be equal, taken    *)
(* before the jobs are inserted, from a clock that may be set back. A page *)
(* that is full carries the position of its last job, as a cursor of time  *)
(* and ID, or for older clients as a time alone.                           *)
(***************************************************************************)
EXTENDS LocalJobs, SortedSets, FiniteSets, Sequences, SequencesExt

CONSTANTS
  Limit,     \* jobs on a page
  Filters,   \* the status a client may ask for; "" is any
  MaxTime    \* times are 1..MaxTime

ASSUME PagesAssumption ==
  /\ IsFiniteSet(Jobs)
  /\ Limit \in Nat \ {0}
  /\ Filters \subseteq {"", "queued", "running", "completed", "failed"}
  /\ MaxTime \in Nat

VARIABLES
  created,   \* the times of creation; 0 before
  client,    \* a client that pages through the list
  steady     \* history: the jobs that matched since its first page

pageVars == <<created, client, steady>>

\* A time has the reading of the wall clock and, in memory only, of the
\* monotonic clock.
Time == [wall : 0..MaxTime, mono : Nat]
Never == [wall |-> 0, mono |-> 0]
NoCursor == [wall |-> 0, id |-> 0, by |-> "start"]
NoClient == [at |-> "idle", filter |-> "", by |-> "cursor", cursor |-> NoCursor, shown |-> <<>>]

PagesInit ==
  /\ LocalInit
  /\ created \in [Jobs -> {Never} \cup [wall : 1..MaxTime, mono : {0}]]
  /\ \A j \in Jobs : created[j] # Never <=> row[j] # Absent
  /\ client = NoClient
  /\ steady = {}

Matching(filter) ==
  {j \in Jobs : row[j] # Absent /\ (filter = "" \/ row[j].status = filter)}

\* The order of the list. Times in memory keep the reading of the monotonic
\* clock, which Go prefers when both have one; a column has the wall clock.
Reading(j) == IF store = "memory" THEN created[j].mono ELSE created[j].wall
Newer(a, b) ==
  \/ Reading(a) > Reading(b)
  \/ Reading(a) = Reading(b) /\ a > b

\* Mutant: the time alone decides.
AfterByTime(j, cursor) == cursor.by = "start" \/ created[j].wall < cursor.wall

\* What follows a cursor: it has lost the monotonic reading, and a time alone
\* passes over every job of that time.
After(j, cursor) ==
  \/ cursor.by = "start"
  \/ created[j].wall < cursor.wall
  \/ cursor.by = "cursor" /\ created[j].wall = cursor.wall /\ j < cursor.id

Page(filter, cursor) ==
  LET found == Sorted({j \in Matching(filter) : After(j, cursor)}, Newer)
  IN  SubSeq(found, 1, IF Len(found) < Limit THEN Len(found) ELSE Limit)

CursorAfter(page) == [wall |-> created[Last(page)].wall, id |-> Last(page), by |-> client.by]

\* Only a full page has a next one.
ReadPage ==
  /\ client.at = "paging"
  /\ LET page == Page(client.filter, client.cursor)
     IN  client' = IF Len(page) = Limit
                   THEN [client EXCEPT !.shown = @ \o page, !.cursor = CursorAfter(page)]
                   ELSE NoClient
  /\ UNCHANGED <<localVars, created>>

\* A client begins at the newest job.
Open ==
  /\ client.at = "idle"
  /\ \E filter \in Filters, by \in {"cursor", "before"} :
       client' = [NoClient EXCEPT !.at = "paging", !.filter = filter, !.by = by]
  /\ UNCHANGED <<localVars, created>>

\* A job is stamped with the time of its request. The wall clock may have
\* been set back since the last job, the monotonic clock never is.
StampNow(j) ==
  /\ Stamp(j)
  /\ LET latest == Max({created[k].mono : k \in Jobs})
     IN  \E wall \in 1..MaxTime, mono \in {latest, latest + 1} :
           /\ store = "postgres" => mono = 0
           /\ created' = [created EXCEPT ![j] = [wall |-> wall, mono |-> mono]]
  /\ UNCHANGED client

OtherJobStep ==
  /\ \/ \E j \in Jobs : JobStep(j)
     \/ Restart
  /\ UNCHANGED <<created, client>>

PagesNext ==
  /\ \/ \E j \in Jobs : StampNow(j)
     \/ OtherJobStep
     \/ Open \/ ReadPage
  /\ steady' = CASE client'.at = "idle" -> {}
                 [] client.at = "idle" -> Matching(client'.filter)
                 [] OTHER -> steady \cap Matching(client.filter)'

PagesSpec ==
  PagesInit /\ [][PagesNext]_<<localVars, pageVars>> /\ LocalFairness

-----------------------------------------------------------------------------
\* The wall clock was not set back between two jobs.
ClocksAgree ==
  \A j, k \in Jobs : created[j].mono < created[k].mono <=> created[j].wall < created[k].wall

\* A client that follows the cursors sees every job that matched all along,
\* and none twice, whatever is inserted, ends or carries the same time
\* meanwhile; one that follows the times misses only jobs of a time it has
\* seen. Not so for jobs in memory once the clock was set back, as their order
\* and the cursor go by different clocks (handleAnalysisJobs, ListAnalysisJobs).
PagesAreExact ==
  [][client.at = "paging" /\ client'.at = "idle" =>
       LET shown == client.shown \o Page(client.filter, client.cursor)
       IN  store = "postgres" \/ ClocksAgree =>
             /\ IsInjective(shown)
             /\ \A j \in steady \ ToSet(shown) :
                  /\ client.by = "before"
                  /\ \E k \in ToSet(shown) : created[k].wall = created[j].wall
    ]_pageVars
==============================================================================
