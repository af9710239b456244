----------------------------- MODULE OutboxRelay -----------------------------
(***************************************************************************)
(* The transactional outbox: SaveAnalysisResult commits a report together  *)
(* with its events (internal/adapters/postgres/store.go), and the relays   *)
(* (cmd/vod-outbox-relay) claim rows of outbox_events, publish them to     *)
(* Kafka and mark them (internal/adapters/postgres/outbox.go).             *)
(*                                                                         *)
(* A claim locks a row for two minutes, but neither mark looks at who holds *)
(* the lock: a relay that is slower than two minutes goes on with a batch   *)
(* another relay has claimed in the meantime.                               *)
(***************************************************************************)
EXTENDS Naturals, Sequences, FiniteSets

CONSTANTS
  Events,        \* events that may be saved
  Transactions,  \* the sets of events one SaveAnalysisResult inserts
  Partitions,    \* partitions of the topics
  Partition,     \* the partition of an event: its topic and VOD
  NoEvent,       \* not an event
  Relays,        \* the relay processes
  BatchSize,     \* rows one claim takes
  Faults,        \* the kinds of fault of this instance
  MaxFaults      \* how many faults may happen (bound of the model)

FaultKinds == {"rpc", "db", "crash", "slow"}

ASSUME OutboxAssumption ==
  /\ IsFiniteSet(Events)
  /\ Transactions \subseteq SUBSET Events
  /\ Partition \in [Events -> Partitions]
  /\ NoEvent \notin Events
  /\ BatchSize \in Nat \ {0}
  /\ Faults \subseteq FaultKinds
  /\ MaxFaults \in Nat

VARIABLES
  outbox,  \* the outbox_events table
  log,     \* per partition, the records Kafka holds
  relay,   \* per relay, its claimed batch and the event it is about
  faults   \* faults so far

vars == <<outbox, log, relay, faults>>

-----------------------------------------------------------------------------

Statuses == {"absent", "pending", "publishing", "failed", "published"}

\* age is occurred_at as a rank, stale says that locked_at is two minutes old
\* and due that next_attempt_at has come.
Row == [status : Statuses, age : Nat, stale : BOOLEAN, due : BOOLEAN]

NoRow == [status |-> "absent", age |-> 0, stale |-> FALSE, due |-> FALSE]

Pcs == {"idle", "publish", "sent", "failed"}
Relay == [pc : Pcs, batch : SUBSET Events, event : Events \cup {NoEvent}]

IdleRelay == [pc |-> "idle", batch |-> {}, event |-> NoEvent]

Init ==
  /\ outbox = [e \in Events |-> NoRow]
  /\ log = [p \in Partitions |-> <<>>]
  /\ relay = [r \in Relays |-> IdleRelay]
  /\ faults = 0

Fault(kind) ==
  /\ kind \in Faults
  /\ faults < MaxFaults
  /\ faults' = faults + 1

Saved == {e \in Events : outbox[e].status # "absent"}

InLog(e) == \E i \in DOMAIN log[Partition[e]] : log[Partition[e]][i] = e

-----------------------------------------------------------------------------
(* SaveAnalysisResult: the events are inserted in the transaction that      *)
(* stores the report, all with one occurred_at.                             *)

Save(S) ==
  /\ S \cap Saved = {}
  /\ outbox' = [e \in Events |->
       IF e \in S THEN [NoRow EXCEPT !.status = "pending", !.age = Cardinality(Saved)]
       ELSE outbox[e]]
  /\ UNCHANGED <<log, relay, faults>>

-----------------------------------------------------------------------------
(* processBatch.                                                            *)

\* Mutants: the age of the lock is not looked at; a lost batch is not
\* reclaimed.
ClaimableLocked ==
  {e \in Events : \/ outbox[e].status \in {"pending", "publishing"}
                  \/ outbox[e].status = "failed" /\ outbox[e].due}
ClaimableOnce ==
  {e \in Events : \/ outbox[e].status = "pending"
                  \/ outbox[e].status = "failed" /\ outbox[e].due}

Claimable ==
  {e \in Events : \/ outbox[e].status = "pending"
                  \/ outbox[e].status = "failed" /\ outbox[e].due
                  \/ outbox[e].status = "publishing" /\ outbox[e].stale}

\* ORDER BY occurred_at, id LIMIT BatchSize; an id is random, so it orders
\* events of one occurred_at in any way.
Batch(B) ==
  /\ B \subseteq Claimable
  /\ B # {}
  /\ Cardinality(B) <= BatchSize
  /\ B # Claimable => Cardinality(B) = BatchSize
  /\ \A e \in B, f \in Claimable \ B : outbox[e].age <= outbox[f].age

\* Mutant: the claim marks the rows published before they are sent.
ClaimMarks(r, B) ==
  /\ relay[r].pc = "idle"
  /\ Batch(B)
  /\ outbox' = [e \in Events |->
       IF e \in B THEN [outbox[e] EXCEPT !.status = "published"] ELSE outbox[e]]
  /\ relay' = [relay EXCEPT ![r] = [pc |-> "publish", batch |-> B, event |-> NoEvent]]
  /\ UNCHANGED <<log, faults>>

Claim(r, B) ==
  /\ relay[r].pc = "idle"
  /\ Batch(B)
  /\ outbox' = [e \in Events |->
       IF e \in B THEN [outbox[e] EXCEPT !.status = "publishing", !.stale = FALSE]
       ELSE outbox[e]]
  /\ \/ /\ relay' = [relay EXCEPT ![r] = [pc |-> "publish", batch |-> B, event |-> NoEvent]]
        /\ UNCHANGED faults
     \/ Fault("db") /\ UNCHANGED relay
  /\ UNCHANGED log

Written(e) == log' = [log EXCEPT ![Partition[e]] = Append(@, e)]

\* UPDATE ... RETURNING promises no order: the batch is worked off in any.
\* An error may hide a record that was written, a retry inside the client
\* writes it twice.
Publish(r, e) ==
  /\ relay[r].pc = "publish"
  /\ e \in relay[r].batch
  /\ \/ /\ Written(e)
        /\ relay' = [relay EXCEPT ![r].pc = "sent", ![r].event = e]
        /\ UNCHANGED faults
     \/ /\ Fault("rpc")
        /\ log' = [log EXCEPT ![Partition[e]] = Append(Append(@, e), e)]
        /\ relay' = [relay EXCEPT ![r].pc = "sent", ![r].event = e]
     \/ /\ Fault("rpc")
        /\ Written(e) \/ UNCHANGED log
        /\ relay' = [relay EXCEPT ![r].pc = "failed", ![r].event = e]
  /\ UNCHANGED outbox

Advanced(w) ==
  LET rest == w.batch \ {w.event} IN
  IF rest = {} THEN IdleRelay ELSE [pc |-> "publish", batch |-> rest, event |-> NoEvent]

\* Both marks are UPDATE ... WHERE id: whoever holds the row.

SetStatus(e, status) ==
  outbox' = [outbox EXCEPT ![e].status = status, ![e].stale = FALSE, ![e].due = FALSE]

\* MarkOutboxPublished after a success, MarkOutboxFailed after an error; an
\* error of the mark itself abandons the rest of the batch.

Mark(r) ==
  LET status == IF relay[r].pc = "sent" THEN "published" ELSE "failed" IN
  /\ relay[r].pc \in {"sent", "failed"}
  /\ \/ /\ SetStatus(relay[r].event, status)
        /\ relay' = [relay EXCEPT ![r] = Advanced(@)]
        /\ UNCHANGED faults
     \/ /\ Fault("db")
        /\ SetStatus(relay[r].event, status) \/ UNCHANGED outbox
        /\ relay' = [relay EXCEPT ![r] = IdleRelay]
  /\ UNCHANGED log

Crash(r) ==
  /\ relay[r].pc # "idle"
  /\ Fault("crash")
  /\ relay' = [relay EXCEPT ![r] = IdleRelay]
  /\ UNCHANGED <<outbox, log>>

-----------------------------------------------------------------------------
(* Time: the lock of a row grows old, the backoff of a row ends.  The lock  *)
(* of a row that a live relay holds grows old only if the relay is slow.    *)

Held(e) == \E r \in Relays : e \in relay[r].batch

LockExpires(e) ==
  /\ outbox[e].status = "publishing"
  /\ ~outbox[e].stale
  /\ outbox' = [outbox EXCEPT ![e].stale = TRUE]
  /\ IF Held(e) THEN Fault("slow") ELSE UNCHANGED faults
  /\ UNCHANGED <<log, relay>>

RetryDue(e) ==
  /\ outbox[e].status = "failed"
  /\ ~outbox[e].due
  /\ outbox' = [outbox EXCEPT ![e].due = TRUE]
  /\ UNCHANGED <<log, relay, faults>>

-----------------------------------------------------------------------------

RelayStep(r) ==
  \/ \E B \in SUBSET Events : Claim(r, B)
  \/ \E e \in Events : Publish(r, e)
  \/ Mark(r)

Time(e) == LockExpires(e) \/ RetryDue(e)

Next ==
  \/ \E S \in Transactions : Save(S)
  \/ \E r \in Relays : RelayStep(r) \/ Crash(r)
  \/ \E e \in Events : Time(e)

Spec == Init /\ [][Next]_vars

\* A live relay goes on polling and working off its batch, and time passes.
FairSpec ==
  /\ Spec
  /\ \A r \in Relays : WF_vars(RelayStep(r))
  /\ \A e \in Events : WF_vars(Time(e) /\ ~Held(e))

-----------------------------------------------------------------------------
(* Properties.                                                              *)

\* Every variable holds a value of its kind.
TypeOK ==
  /\ outbox \in [Events -> Row]
  /\ log \in [Partitions -> Seq(Events)]
  /\ relay \in [Relays -> Relay]
  /\ faults \in 0..MaxFaults

\* An event marked published is in its topic, whichever relay marked it and
\* however late: the outbox never forgets an event Kafka does not have.
PublishedIsInLog ==
  \A e \in Events : outbox[e].status = "published" => InLog(e)

Copies(e) ==
  Cardinality({i \in DOMAIN log[Partition[e]] : log[Partition[e]][i] = e})

\* An event is published more often than once only because something went
\* wrong, and once more per incident at most: two relays that poll the same
\* table do not both claim a row.
DuplicatesNeedFaults == \A e \in Events : Copies(e) <= 1 + faults

\* The outbox implements at-least-once delivery, and gives up no event.
Delivery == INSTANCE EventDelivery WITH
  saved <- Saved,
  sent <- {e \in Events : InLog(e)},
  acked <- {e \in Events : outbox[e].status = "published"},
  lost <- {}

\* Every step of the table, the relays and the topics is a step of the promise:
\* events are sent after they are saved and acknowledged after they are sent.
ImplementsDelivery == Delivery!Spec

\* Every saved event reaches its topic although a relay dies with a claimed
\* batch, a mark is lost or Kafka refuses for a while.
EveryEventIsDelivered == Delivery!LiveSpec

=============================================================================
