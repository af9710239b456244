------------------------------ MODULE EventSink ------------------------------
(***************************************************************************)
(* The ClickHouse sink (cmd/vod-clickhouse-sink): the members of a consumer *)
(* group fetch records, insert them into kafka_events or, when a record is  *)
(* not a valid envelope, publish them to the dead-letter topic, and then    *)
(* commit the offset.                                                      *)
(*                                                                         *)
(* The loop goes on with the NEXT record after every error: a committed     *)
(* offset stands for all the records before it, whatever became of them.   *)
(***************************************************************************)
EXTENDS Naturals, Sequences, FiniteSets

CONSTANTS
  Events,      \* values of the records
  Invalid,     \* records handleMessage calls permanently invalid
  Partitions,  \* partitions of the topics
  Sinks,       \* the members of the consumer group
  SinkFaults,  \* the kinds of fault of this instance
  MaxSinkFaults, \* how many faults may happen (bound of the model)
  MaxLog       \* records per partition (bound of the model)

SinkFaultKinds == {"insert", "dlq", "commit", "rebalance", "crash"}

ASSUME SinkAssumption ==
  /\ Invalid \subseteq Events
  /\ Partitions # {}
  /\ SinkFaults \subseteq SinkFaultKinds
  /\ MaxSinkFaults \in Nat
  /\ MaxLog \in Nat

VARIABLES
  log,        \* per partition, the records Kafka holds
  committed,  \* per partition, how many records the group has committed
  owner,      \* per partition, the member it is assigned to
  position,   \* per partition, how many records its owner has fetched
  hand,       \* per member, the record its loop is about
  rows,       \* per event, its rows in kafka_events
  dead,       \* records in the dead-letter topic, by partition and offset
  dropped,    \* history: records whose insert or dead-letter write failed
  sinkFaults  \* faults so far

group == <<committed, owner, position>>
store == <<rows, dead, dropped>>
vars == <<log, group, hand, store, sinkFaults>>

-----------------------------------------------------------------------------

\* "commit": the record is stored or dead-lettered, its offset not committed.
HandPcs == {"idle", "fetched", "invalid", "commit"}

\* offset counts from one.
Hand == [pc : HandPcs, partition : Partitions, offset : Nat]

EmptyHand == [pc |-> "idle", partition |-> CHOOSE p \in Partitions : TRUE, offset |-> 0]

Idle(s) == hand[s].pc = "idle"

Record(s) == log[hand[s].partition][hand[s].offset]

Init ==
  /\ log = [p \in Partitions |-> <<>>]
  /\ committed = [p \in Partitions |-> 0]
  /\ owner \in [Partitions -> Sinks]
  /\ position = committed
  /\ hand = [s \in Sinks |-> EmptyHand]
  /\ rows = [e \in Events |-> 0]
  /\ dead = {}
  /\ dropped = {}
  /\ sinkFaults = 0

SinkFault(kind) ==
  /\ kind \in SinkFaults
  /\ sinkFaults < MaxSinkFaults
  /\ sinkFaults' = sinkFaults + 1

-----------------------------------------------------------------------------
(* The producers of the topics.                                             *)

Produce(p, e) ==
  /\ Len(log[p]) < MaxLog
  /\ log' = [log EXCEPT ![p] = Append(@, e)]
  /\ UNCHANGED <<group, hand, store, sinkFaults>>

-----------------------------------------------------------------------------
(* The loop of one member.                                                  *)

\* Mutant: the reader does not move on.
FetchStays(s, p) ==
  /\ Idle(s)
  /\ owner[p] = s
  /\ position[p] < Len(log[p])
  /\ hand' = [hand EXCEPT ![s] =
       [pc |-> "fetched", partition |-> p, offset |-> position[p] + 1]]
  /\ UNCHANGED <<log, group, store, sinkFaults>>

Fetch(s, p) ==
  /\ Idle(s)
  /\ owner[p] = s
  /\ position[p] < Len(log[p])
  /\ position' = [position EXCEPT ![p] = @ + 1]
  /\ hand' = [hand EXCEPT ![s] =
       [pc |-> "fetched", partition |-> p, offset |-> position[p] + 1]]
  /\ UNCHANGED <<log, committed, owner, store, sinkFaults>>

\* The loop turns to its next record.
Drop(s) == hand' = [hand EXCEPT ![s] = EmptyHand]

Coordinates(s) == <<hand[s].partition, hand[s].offset>>

\* After an error too, and nobody comes back to the record.
GiveUp(s) ==
  /\ Drop(s)
  /\ dropped' = dropped \cup {Coordinates(s)}

Stored(e) == rows' = [rows EXCEPT ![e] = @ + 1]

\* handleMessage: a row per insert, whether or not the event has one.  After an
\* error the row may be there (a timeout) or not.
Insert(s) ==
  /\ hand[s].pc = "fetched"
  /\ Record(s) \notin Invalid
  /\ \/ /\ Stored(Record(s))
        /\ hand' = [hand EXCEPT ![s].pc = "commit"]
        /\ UNCHANGED <<dropped, sinkFaults>>
     \/ /\ SinkFault("insert")
        /\ Stored(Record(s)) \/ UNCHANGED rows
        /\ GiveUp(s)
  /\ UNCHANGED <<log, group, dead>>

Reject(s) ==
  /\ hand[s].pc = "fetched"
  /\ Record(s) \in Invalid
  /\ hand' = [hand EXCEPT ![s].pc = "invalid"]
  /\ UNCHANGED <<log, group, store, sinkFaults>>

\* publishDeadLetter.
DeadLetter(s) ==
  /\ hand[s].pc = "invalid"
  /\ \/ /\ dead' = dead \cup {Coordinates(s)}
        /\ hand' = [hand EXCEPT ![s].pc = "commit"]
        /\ UNCHANGED <<dropped, sinkFaults>>
     \/ /\ SinkFault("dlq")
        /\ dead' = dead \cup {Coordinates(s)} \/ UNCHANGED dead
        /\ GiveUp(s)
  /\ UNCHANGED <<log, group, rows>>

\* The group's offset becomes that of the record in hand, also when it is
\* behind the group's or the partition has another owner by now.
Move(s) ==
  committed' = [committed EXCEPT ![hand[s].partition] = hand[s].offset]

\* Mutant: an offset is committed before its record is dealt with.
CommitEarly(s) ==
  /\ hand[s].pc \in {"fetched", "commit"}
  /\ Move(s)
  /\ IF hand[s].pc = "commit" THEN Drop(s) ELSE UNCHANGED hand
  /\ UNCHANGED <<log, owner, position, store, sinkFaults>>

Commit(s) ==
  /\ hand[s].pc = "commit"
  /\ Drop(s)
  /\ \/ Move(s) /\ UNCHANGED sinkFaults
     \/ SinkFault("commit") /\ (Move(s) \/ UNCHANGED committed)
  /\ UNCHANGED <<log, owner, position, store>>

-----------------------------------------------------------------------------
(* The group.                                                               *)

\* A generation of the group reads every partition from its committed offset;
\* what a member has in hand it goes on with.
Reassign ==
  /\ owner' \in [Partitions -> Sinks]
  /\ position' = committed
  /\ UNCHANGED committed

Rebalance ==
  /\ SinkFault("rebalance")
  /\ Reassign
  /\ UNCHANGED <<log, hand, store>>

\* A process dies and the group finds out.
Crash(s) ==
  /\ SinkFault("crash")
  /\ Drop(s)
  /\ Reassign
  /\ UNCHANGED <<log, store>>

-----------------------------------------------------------------------------

Loop(s) ==
  \/ \E p \in Partitions : Fetch(s, p)
  \/ Insert(s)
  \/ Reject(s)
  \/ DeadLetter(s)
  \/ Commit(s)

Group == Rebalance \/ \E s \in Sinks : Loop(s) \/ Crash(s)

Next == Group \/ \E p \in Partitions, e \in Events : Produce(p, e)

Spec == Init /\ [][Next]_vars

\* A live member goes on polling and working off its record.
FairSpec == Spec /\ \A s \in Sinks : WF_vars(Loop(s))

-----------------------------------------------------------------------------
(* Properties.                                                              *)

\* Every variable holds a value of its kind.
SinkTypeOK ==
  /\ log \in [Partitions -> Seq(Events)]
  /\ committed \in [Partitions -> Nat]
  /\ owner \in [Partitions -> Sinks]
  /\ position \in [Partitions -> Nat]
  /\ \A p \in Partitions : committed[p] <= Len(log[p]) /\ position[p] <= Len(log[p])
  /\ hand \in [Sinks -> Hand]
  /\ \A s \in Sinks : ~Idle(s) => hand[s].offset \in 1..Len(log[hand[s].partition])
  /\ rows \in [Events -> Nat]
  /\ dead \subseteq Partitions \X (Nat \ {0})
  /\ dropped \subseteq Partitions \X (Nat \ {0})
  /\ sinkFaults \in 0..MaxSinkFaults

\* A record is in the table, or in the dead-letter topic if it is invalid.
Handled(p, o) ==
  IF log[p][o] \in Invalid THEN <<p, o>> \in dead ELSE rows[log[p][o]] > 0

\* The group never commits past a record that is neither stored nor
\* dead-lettered: what observability.md says of transient errors, and what the
\* loop does not keep.
NothingSkipped ==
  \A p \in Partitions : \A o \in 1..committed[p] : Handled(p, o)

Settled(p, o) == Handled(p, o) \/ <<p, o>> \in dropped

\* The only records the group commits past without having dealt with them are
\* those whose own insert or dead-letter write failed: no rebalance, crash, late
\* or failed commit adds another, whoever commits.
OnlyFailedAreSkipped ==
  \A p \in Partitions : \A o \in 1..committed[p] : Settled(p, o)

Copies(e) ==
  Cardinality({x \in Partitions \X (1..MaxLog) :
                 x[2] <= Len(log[x[1]]) /\ log[x[1]][x[2]] = e})

\* The inserts of a record are bounded by the faults: a generation inserts it
\* once, beside those who still have it in hand, and whatever an old member
\* commits does not make a live generation read backwards.
RowsNeedFaults ==
  \A e \in Events : rows[e] <= Copies(e) * (1 + sinkFaults)

\* Every record is stored, dead-lettered or given up after an error in the end.
EveryRecordIsSettled ==
  \A p \in Partitions, o \in 1..MaxLog :
    o <= Len(log[p]) ~> o <= Len(log[p]) /\ Settled(p, o)

-----------------------------------------------------------------------------
(* The inductive invariant behind OnlyFailedAreSkipped.                     *)

SettledUpTo(p, n) == \A o \in 1..n : Settled(p, o)

\* All that comes before a record in hand is settled, and the record itself
\* once it is to be committed.
HandsAreSound ==
  \A s \in Sinks : ~Idle(s) =>
    /\ SettledUpTo(hand[s].partition, hand[s].offset - 1)
    /\ hand[s].pc = "invalid" => Record(s) \in Invalid
    /\ hand[s].pc = "commit" => Settled(hand[s].partition, hand[s].offset)

\* So is all that an owner has fetched, but for the record in its hand.
PositionsAreSound ==
  \A p \in Partitions :
    \/ SettledUpTo(p, position[p])
    \/ LET h == hand[owner[p]] IN
       /\ h.pc # "idle"
       /\ h.partition = p
       /\ h.offset = position[p]

SinkInvariant == OnlyFailedAreSkipped /\ HandsAreSound /\ PositionsAreSound

=============================================================================
