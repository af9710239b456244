--------------------------- MODULE EventSink_proofs ---------------------------
(***************************************************************************)
(* The sink never commits past a record it has not dealt with, but for     *)
(* those whose own insert or dead-letter write failed, and inserts an event *)
(* no more often than its copies and the faults allow: for any number of   *)
(* members, partitions, rebalances, crashes and failed commits.            *)
(***************************************************************************)
EXTENDS EventSink, FiniteSetTheorems, TLAPS

\* A fault counts itself.
LEMMA SinkFaultType ==
  ASSUME sinkFaults \in 0..MaxSinkFaults, NEW kind, SinkFault(kind)
  PROVE  sinkFaults' \in 0..MaxSinkFaults
BY SinkAssumption DEF SinkFault

\* An empty hand is a hand.
LEMMA EmptyHandType == EmptyHand \in Hand /\ EmptyHand.pc = "idle" /\ EmptyHand.offset = 0
BY SinkAssumption DEF EmptyHand, Hand, HandPcs

-----------------------------------------------------------------------------
(* The records may come from anywhere: whoever writes the topics, the logs   *)
(* only grow, and that is all the sink needs to know of its producers.       *)

LogsGrow ==
  /\ log' \in [Partitions -> Seq(Events)]
  /\ \A p \in Partitions : \A o \in 1..Len(log[p]) :
       o \in 1..Len(log'[p]) /\ log'[p][o] = log[p][o]
  /\ UNCHANGED <<group, hand, store, sinkFaults>>

Step == Group \/ LogsGrow

\* A sequence keeps its elements when it is appended to.
LEMMA AppendKeeps ==
  ASSUME NEW t \in Seq(Events), NEW e \in Events
  PROVE  /\ Append(t, e) \in Seq(Events)
         /\ Len(Append(t, e)) = Len(t) + 1
         /\ Append(t, e)[Len(t) + 1] = e
         /\ \A o \in 1..Len(t) : o \in 1..Len(Append(t, e)) /\ Append(t, e)[o] = t[o]
OBVIOUS

\* A producer is one who only lets the logs grow.
LEMMA NextIsStep ==
  ASSUME SinkTypeOK, [Next]_vars
  PROVE  Step
<1> log \in [Partitions -> Seq(Events)]
  BY DEF SinkTypeOK
<1>1. CASE UNCHANGED vars
  <2>1. \A p \in Partitions : log[p] \in Seq(Events)
    OBVIOUS
  <2>2. LogsGrow
    BY <1>1, <2>1 DEF vars, LogsGrow
  <2>3. QED
    BY <2>2 DEF Step
<1>2. ASSUME NEW q \in Partitions, NEW e \in Events, Produce(q, e)
      PROVE  Step
  <2>1. \A p \in Partitions : log[p] \in Seq(Events)
                               /\ log'[p] = IF p = q THEN Append(log[p], e) ELSE log[p]
    BY <1>2 DEF Produce
  <2>2. ASSUME NEW p \in Partitions
        PROVE  /\ log'[p] \in Seq(Events)
               /\ \A o \in 1..Len(log[p]) : o \in 1..Len(log'[p]) /\ log'[p][o] = log[p][o]
    <3>1. CASE p = q
      <4>1. log[p] \in Seq(Events) /\ log'[p] = Append(log[p], e)
        BY <2>1, <3>1
      <4>2. QED
        BY <4>1, AppendKeeps
    <3>2. CASE p # q
      BY <2>1, <3>2
    <3>3. QED
      BY <3>1, <3>2
  <2>3. log' \in [Partitions -> Seq(Events)]
    BY <1>2, <2>2 DEF Produce
  <2>4. QED
    BY <1>2, <2>2, <2>3 DEF Produce, Step, LogsGrow
<1>3. QED
  BY <1>1, <1>2 DEF Next, Step

-----------------------------------------------------------------------------
(* Type correctness.                                                        *)

\* What a record in hand is.
LEMMA RecordInHand ==
  ASSUME SinkTypeOK, NEW s \in Sinks, ~Idle(s)
  PROVE  /\ hand[s] \in Hand
         /\ hand[s].partition \in Partitions
         /\ hand[s].offset \in Nat \ {0}
         /\ hand[s].offset <= Len(log[hand[s].partition])
         /\ Record(s) \in Events
<1>1. hand[s] \in Hand /\ hand[s].partition \in Partitions
  BY DEF SinkTypeOK, Hand
<1>2. log[hand[s].partition] \in Seq(Events)
  BY <1>1 DEF SinkTypeOK
<1>3. hand[s].offset \in 1..Len(log[hand[s].partition])
  BY DEF SinkTypeOK
<1>4. QED
  BY <1>1, <1>2, <1>3 DEF Record

\* A hand that is emptied, filled or goes on with its record.
LEMMA HandStep ==
  ASSUME SinkTypeOK, NEW s \in Sinks, log' = log,
         \/ Drop(s)
         \/ /\ ~Idle(s)
            /\ \E pc \in HandPcs : hand' = [hand EXCEPT ![s].pc = pc]
  PROVE  /\ hand' \in [Sinks -> Hand]
         /\ \A q \in Sinks : ~Idle(q)' => hand'[q].offset \in 1..Len(log'[hand'[q].partition])
<1>1. hand \in [Sinks -> Hand]
  BY DEF SinkTypeOK
<1>2. CASE Drop(s)
  <2>1. hand' \in [Sinks -> Hand]
    BY <1>1, <1>2, EmptyHandType DEF Drop
  <2>2. ASSUME NEW q \in Sinks, ~Idle(q)'
        PROVE  hand'[q].offset \in 1..Len(log'[hand'[q].partition])
    BY <1>1, <1>2, <2>2, EmptyHandType DEF Drop, Idle, SinkTypeOK
  <2>3. QED
    BY <2>1, <2>2
<1>3. ASSUME ~Idle(s), NEW pc \in HandPcs, hand' = [hand EXCEPT ![s].pc = pc]
      PROVE  /\ hand' \in [Sinks -> Hand]
             /\ \A q \in Sinks : ~Idle(q)' => hand'[q].offset \in 1..Len(log'[hand'[q].partition])
  <2>1. /\ hand'[s] = [hand[s] EXCEPT !.pc = pc]
        /\ \A q \in Sinks : q # s => hand'[q] = hand[q]
    BY <1>1, <1>3
  <2>2. /\ hand'[s] \in Hand
        /\ hand'[s].offset = hand[s].offset
        /\ hand'[s].partition = hand[s].partition
    BY <1>1, <2>1 DEF Hand
  <2>3. hand' \in [Sinks -> Hand]
    BY <1>1, <1>3, <2>2
  <2>4. ASSUME NEW q \in Sinks, ~Idle(q)'
        PROVE  hand'[q].offset \in 1..Len(log'[hand'[q].partition])
    BY <1>3, <2>1, <2>2, <2>4 DEF Idle, SinkTypeOK
  <2>5. QED
    BY <2>3, <2>4
<1>4. QED
  BY <1>2, <1>3

\* Every step keeps the types, whatever the faults.
LEMMA StepSinkTypeOK == SinkTypeOK /\ Step => SinkTypeOK'
<1> SUFFICES ASSUME SinkTypeOK, Step PROVE SinkTypeOK'
  OBVIOUS
<1>1. CASE LogsGrow
  <2>1. /\ log \in [Partitions -> Seq(Events)] /\ log' \in [Partitions -> Seq(Events)]
        /\ \A q \in Partitions : Len(log[q]) \in Nat /\ Len(log'[q]) \in Nat
    BY <1>1 DEF SinkTypeOK, LogsGrow
  <2>2. ASSUME NEW q \in Partitions PROVE Len(log[q]) <= Len(log'[q])
    <3>1. CASE Len(log[q]) = 0
      BY <2>1, <3>1
    <3>2. CASE Len(log[q]) # 0
      <4>1. Len(log[q]) \in 1..Len(log[q])
        BY <2>1, <3>2
      <4>2. Len(log[q]) \in 1..Len(log'[q])
        BY <1>1, <4>1 DEF LogsGrow
      <4>3. QED
        BY <2>1, <4>2
    <3>3. QED
      BY <3>1, <3>2
  <2>5. UNCHANGED <<committed, owner, position, hand, rows, dead, dropped, sinkFaults>>
    BY <1>1 DEF LogsGrow, group, store
  <2>6. \A q \in Partitions : committed'[q] <= Len(log'[q]) /\ position'[q] <= Len(log'[q])
    BY <2>1, <2>2, <2>5 DEF SinkTypeOK
  <2>7. ASSUME NEW s \in Sinks, ~Idle(s)'
        PROVE  hand'[s].offset \in 1..Len(log'[hand'[s].partition])
    <3>1. hand'[s] = hand[s] /\ ~Idle(s) /\ hand[s].partition \in Partitions
      BY <2>5, <2>7 DEF Idle, SinkTypeOK, Hand
    <3>2. hand[s].offset \in 1..Len(log[hand[s].partition])
      BY <3>1 DEF SinkTypeOK
    <3>3. QED
      BY <2>1, <2>2, <3>1, <3>2
  <2>8. QED
    BY <2>1, <2>5, <2>6, <2>7 DEF SinkTypeOK
<1>2. ASSUME NEW s \in Sinks, NEW p \in Partitions, Fetch(s, p)
      PROVE  SinkTypeOK'
  <2> DEFINE h == [pc |-> "fetched", partition |-> p, offset |-> position[p] + 1]
  <2>1. /\ UNCHANGED <<log, committed, owner, rows, dead, dropped, sinkFaults>>
        /\ hand' = [hand EXCEPT ![s] = h]
        /\ position' = [position EXCEPT ![p] = @ + 1]
        /\ position[p] < Len(log[p])
    BY <1>2 DEF Fetch, store
  <2>2. position[p] \in Nat /\ Len(log[p]) \in Nat /\ position \in [Partitions -> Nat]
        /\ hand \in [Sinks -> Hand]
    BY DEF SinkTypeOK
  <2>3. h \in Hand /\ h.partition = p /\ h.offset = position[p] + 1
    BY <2>2 DEF Hand, HandPcs
  <2>4. position' \in [Partitions -> Nat]
        /\ \A q \in Partitions : position'[q] <= Len(log'[q])
    BY <2>1, <2>2 DEF SinkTypeOK
  <2>5. /\ hand' \in [Sinks -> Hand]
        /\ \A q \in Sinks : hand'[q] = IF q = s THEN h ELSE hand[q]
    <3> HIDE DEF h
    <3>1. QED
      BY <2>1, <2>2, <2>3
  <2>6. ASSUME NEW q \in Sinks, ~Idle(q)'
        PROVE  hand'[q].offset \in 1..Len(log'[hand'[q].partition])
    <3>1. CASE q = s
      <4>1. position[p] + 1 \in 1..Len(log[p])
        BY <2>1, <2>2
      <4>2. hand'[q].offset = position[p] + 1 /\ hand'[q].partition = p
        BY <2>3, <2>5, <3>1
      <4>3. QED
        BY <2>1, <4>1, <4>2
    <3>2. CASE q # s
      BY <2>1, <2>5, <2>6, <3>2 DEF Idle, SinkTypeOK
    <3>3. QED
      BY <3>1, <3>2
  <2>7. QED
    BY <2>1, <2>4, <2>5, <2>6 DEF SinkTypeOK
<1>c. ASSUME NEW s \in Sinks, ~Idle(s) PROVE Coordinates(s) \in Partitions \X (Nat \ {0})
  BY <1>c, RecordInHand DEF Coordinates
<1>3. ASSUME NEW s \in Sinks, Insert(s) PROVE SinkTypeOK'
  <2>1. UNCHANGED <<log, committed, owner, position, dead>> /\ ~Idle(s)
    BY <1>3 DEF Insert, group, Idle
  <2>d. dropped' \subseteq Partitions \X (Nat \ {0})
    BY <1>3, <1>c, <2>1 DEF Insert, GiveUp, SinkTypeOK
  <2>2. Record(s) \in Events
    BY <2>1, RecordInHand
  <2>3. rows' \in [Events -> Nat]
    <3>1. rows \in [Events -> Nat]
      BY DEF SinkTypeOK
    <3>2. Stored(Record(s)) \/ rows' = rows
      BY <1>3 DEF Insert
    <3>3. QED
      BY <2>2, <3>1, <3>2 DEF Stored
  <2>4. sinkFaults' \in 0..MaxSinkFaults
    BY <1>3, SinkFaultType DEF Insert, SinkTypeOK
  <2>5. /\ hand' \in [Sinks -> Hand]
        /\ \A q \in Sinks : ~Idle(q)' => hand'[q].offset \in 1..Len(log'[hand'[q].partition])
    BY <1>3, <2>1, HandStep DEF Insert, GiveUp, HandPcs
  <2>6. QED
    BY <2>1, <2>3, <2>4, <2>5, <2>d DEF SinkTypeOK
<1>4. ASSUME NEW s \in Sinks, Reject(s) PROVE SinkTypeOK'
  <2>1. UNCHANGED <<log, committed, owner, position, rows, dead, dropped, sinkFaults>> /\ ~Idle(s)
    BY <1>4 DEF Reject, group, store, Idle
  <2>2. /\ hand' \in [Sinks -> Hand]
        /\ \A q \in Sinks : ~Idle(q)' => hand'[q].offset \in 1..Len(log'[hand'[q].partition])
    BY <1>4, <2>1, HandStep DEF Reject, HandPcs
  <2>3. QED
    BY <2>1, <2>2 DEF SinkTypeOK
<1>5. ASSUME NEW s \in Sinks, DeadLetter(s) PROVE SinkTypeOK'
  <2>1. UNCHANGED <<log, committed, owner, position, rows>> /\ ~Idle(s)
    BY <1>5 DEF DeadLetter, group, Idle
  <2>2. Coordinates(s) \in Partitions \X (Nat \ {0})
    BY <1>c, <2>1
  <2>3. dead' \subseteq Partitions \X (Nat \ {0})
    BY <1>5, <2>2 DEF DeadLetter, SinkTypeOK
  <2>d. dropped' \subseteq Partitions \X (Nat \ {0})
    BY <1>5, <2>2 DEF DeadLetter, GiveUp, SinkTypeOK
  <2>4. sinkFaults' \in 0..MaxSinkFaults
    BY <1>5, SinkFaultType DEF DeadLetter, SinkTypeOK
  <2>5. /\ hand' \in [Sinks -> Hand]
        /\ \A q \in Sinks : ~Idle(q)' => hand'[q].offset \in 1..Len(log'[hand'[q].partition])
    BY <1>5, <2>1, HandStep DEF DeadLetter, GiveUp, HandPcs
  <2>6. QED
    BY <2>1, <2>3, <2>4, <2>5, <2>d DEF SinkTypeOK
<1>6. ASSUME NEW s \in Sinks, Commit(s) PROVE SinkTypeOK'
  <2>1. UNCHANGED <<log, owner, position, rows, dead, dropped>> /\ ~Idle(s) /\ Drop(s)
    BY <1>6 DEF Commit, store, Idle
  <2>2. /\ hand[s].partition \in Partitions
        /\ hand[s].offset \in Nat
        /\ hand[s].offset <= Len(log[hand[s].partition])
    BY <2>1, RecordInHand
  <2>3. Move(s) \/ committed' = committed
    BY <1>6 DEF Commit
  <2>4. /\ committed' \in [Partitions -> Nat]
        /\ \A p \in Partitions : committed'[p] <= Len(log'[p])
    BY <2>1, <2>2, <2>3 DEF Move, SinkTypeOK
  <2>5. sinkFaults' \in 0..MaxSinkFaults
    BY <1>6, SinkFaultType DEF Commit, SinkTypeOK
  <2>6. /\ hand' \in [Sinks -> Hand]
        /\ \A q \in Sinks : ~Idle(q)' => hand'[q].offset \in 1..Len(log'[hand'[q].partition])
    BY <2>1, HandStep
  <2>7. QED
    BY <2>1, <2>4, <2>5, <2>6 DEF SinkTypeOK
<1>7. CASE Rebalance
  BY <1>7, SinkFaultType DEF Rebalance, Reassign, store, SinkTypeOK, Idle
<1>8. ASSUME NEW s \in Sinks, Crash(s) PROVE SinkTypeOK'
  <2>1. UNCHANGED <<log, committed, rows, dead, dropped>> /\ Drop(s)
        /\ position' = committed /\ owner' \in [Partitions -> Sinks]
    BY <1>8 DEF Crash, Reassign, store
  <2>2. /\ hand' \in [Sinks -> Hand]
        /\ \A q \in Sinks : ~Idle(q)' => hand'[q].offset \in 1..Len(log'[hand'[q].partition])
    BY <2>1, HandStep
  <2>3. sinkFaults' \in 0..MaxSinkFaults
    BY <1>8, SinkFaultType DEF Crash, SinkTypeOK
  <2>4. QED
    BY <2>1, <2>2, <2>3 DEF SinkTypeOK
<1>9. QED
  BY <1>1, <1>2, <1>3, <1>4, <1>5, <1>6, <1>7, <1>8 DEF Step, Group, Loop

\* Nothing is fetched or stored initially.
LEMMA InitSinkTypeOK == Init => SinkTypeOK
BY SinkAssumption, EmptyHandType DEF Init, SinkTypeOK, Idle

\* Every variable keeps its kind; no offset is committed or fetched beyond the
\* end of its partition.
THEOREM SinkTypeCorrect == Spec => []SinkTypeOK
BY InitSinkTypeOK, StepSinkTypeOK, NextIsStep, PTL DEF Spec

-----------------------------------------------------------------------------
(* No record is skipped but those that failed.                              *)

\* What is settled stays so: the topics and the tables only grow.
LEMMA SettledStays ==
  ASSUME SinkTypeOK, Step
  PROVE  \A p \in Partitions : \A o \in 1..Len(log[p]) :
           log'[p][o] = log[p][o] /\ (Settled(p, o) => Settled(p, o)')
<1>1. \A p \in Partitions : \A o \in 1..Len(log[p]) :
        log[p][o] \in Events /\ log'[p][o] = log[p][o]
  <2>1. \A p \in Partitions : log[p] \in Seq(Events)
    BY DEF SinkTypeOK
  <2>2. log' = log \/ LogsGrow
    BY DEF Step, Group, Loop, Rebalance, Crash, Fetch, Insert, Reject, DeadLetter, Commit
  <2>3. QED
    BY <2>1, <2>2 DEF LogsGrow
<1>2. \A e \in Events : rows[e] > 0 => rows'[e] > 0
  <2>1. rows \in [Events -> Nat]
    BY DEF SinkTypeOK
  <2>2. rows' = rows \/ \E s \in Sinks : ~Idle(s) /\ Stored(Record(s))
    BY DEF Step, LogsGrow, Group, Loop, Rebalance, Crash, Fetch, Insert, Reject, DeadLetter,
           Commit, store, Idle
  <2>3. ASSUME NEW s \in Sinks, ~Idle(s), Stored(Record(s))
        PROVE  \A e \in Events : rows[e] > 0 => rows'[e] > 0
    <3>1. Record(s) \in Events
      BY <2>3, RecordInHand
    <3>2. QED
      BY <2>1, <2>3, <3>1 DEF Stored
  <2>4. QED
    BY <2>2, <2>3
<1>3. dead \subseteq dead'
  BY DEF Step, LogsGrow, Group, Loop, Rebalance, Crash, Fetch, Insert, Reject, DeadLetter,
         Commit, store
<1>4. dropped \subseteq dropped'
  BY DEF Step, LogsGrow, Group, Loop, Rebalance, Crash, Fetch, Insert, Reject, DeadLetter,
         Commit, GiveUp, store
<1>5. QED
  BY <1>1, <1>2, <1>3, <1>4 DEF Settled, Handled

\* So does a whole prefix.
LEMMA PrefixStays ==
  ASSUME SinkTypeOK, Step, NEW p \in Partitions, NEW n \in Nat,
         n <= Len(log[p]), SettledUpTo(p, n)
  PROVE  SettledUpTo(p, n)'
<1>1. Len(log[p]) \in Nat
  BY DEF SinkTypeOK
<1>2. \A o \in 1..n : o \in 1..Len(log[p]) /\ Settled(p, o)
  BY <1>1 DEF SettledUpTo
<1>3. QED
  BY <1>2, SettledStays DEF SettledUpTo

\* A record in hand that is to be committed completes its prefix.
LEMMA CommittedPrefix ==
  ASSUME SinkTypeOK, HandsAreSound, NEW s \in Sinks, hand[s].pc = "commit"
  PROVE  SettledUpTo(hand[s].partition, hand[s].offset)
<1> DEFINE o == hand[s].offset
<1>1. o \in Nat \ {0}
  BY RecordInHand DEF Idle
<1>2. SettledUpTo(hand[s].partition, o - 1) /\ Settled(hand[s].partition, o)
  BY DEF HandsAreSound, Idle
<1>3. \A i \in 1..o : i \in 1..(o - 1) \/ i = o
  BY <1>1
<1>4. QED
  BY <1>2, <1>3 DEF SettledUpTo

\* Every commit stands for a prefix that is settled.
LEMMA StepOnlyFailedAreSkipped ==
  ASSUME SinkTypeOK, SinkInvariant, Step
  PROVE  OnlyFailedAreSkipped'
<1> SUFFICES ASSUME NEW p \in Partitions PROVE SettledUpTo(p, committed[p])'
  BY DEF OnlyFailedAreSkipped, SettledUpTo
<1>1. committed[p] \in Nat /\ committed[p] <= Len(log[p]) /\ SettledUpTo(p, committed[p])
  BY DEF SinkTypeOK, SinkInvariant, OnlyFailedAreSkipped, SettledUpTo
<1>2. CASE committed'[p] = committed[p]
  BY <1>1, <1>2, PrefixStays DEF SettledUpTo
<1>3. ASSUME NEW s \in Sinks, Commit(s), Move(s), committed'[p] # committed[p]
      PROVE  SettledUpTo(p, committed[p])'
  <2>1. p = hand[s].partition /\ committed'[p] = hand[s].offset
    BY <1>3 DEF Move, SinkTypeOK
  <2>2. SettledUpTo(p, hand[s].offset)
    BY <1>3, <2>1, CommittedPrefix DEF Commit, SinkInvariant
  <2>3. hand[s].offset \in Nat /\ hand[s].offset <= Len(log[p])
    BY <1>3, <2>1, RecordInHand DEF Commit, Idle
  <2>4. \A i \in 1..hand[s].offset : Settled(p, i)'
    <3> DEFINE n == hand[s].offset
    <3>1. Len(log[p]) \in Nat
      BY DEF SinkTypeOK
    <3>2. \A i \in 1..n : i \in 1..Len(log[p]) /\ Settled(p, i)
      BY <2>2, <2>3, <3>1 DEF SettledUpTo
    <3>3. QED
      BY <3>2, SettledStays
  <2>5. QED
    BY <2>1, <2>4 DEF SettledUpTo
<1>4. committed' = committed \/ \E s \in Sinks : Commit(s) /\ Move(s)
  BY DEF Step, LogsGrow, Group, Loop, Rebalance, Crash, Fetch, Insert, Reject, DeadLetter,
         Commit, Reassign, group
<1>5. QED
  BY <1>2, <1>3, <1>4

\* A hand is left alone, emptied, filled with the next record of a partition,
\* or goes on with its record.
LEMMA HandSteps ==
  ASSUME SinkTypeOK, Step, NEW s \in Sinks
  PROVE  \/ hand'[s] = hand[s]
         \/ hand'[s] = EmptyHand /\ (Commit(s) \/ Crash(s))
         \/ hand'[s] = EmptyHand /\ (Insert(s) \/ DeadLetter(s)) /\ GiveUp(s)
         \/ \E p \in Partitions : Fetch(s, p)
         \/ Insert(s) /\ hand' = [hand EXCEPT ![s].pc = "commit"] /\ Stored(Record(s))
         \/ Reject(s)
         \/ /\ DeadLetter(s)
            /\ hand' = [hand EXCEPT ![s].pc = "commit"]
            /\ dead' = dead \cup {Coordinates(s)}
<1>1. hand \in [Sinks -> Hand]
  BY DEF SinkTypeOK
<1>2. ASSUME NEW q \in Sinks, q # s, Loop(q) \/ Crash(q)
      PROVE  hand'[s] = hand[s]
  BY <1>1, <1>2 DEF Loop, Fetch, Insert, Reject, DeadLetter, Commit, Crash, Drop, GiveUp
<1>3. CASE Rebalance \/ LogsGrow
  BY <1>3 DEF Rebalance, LogsGrow
<1>5. CASE Loop(s)
  BY <1>1, <1>5 DEF Loop, Insert, DeadLetter, Commit, Drop, GiveUp
<1>6. CASE Crash(s)
  BY <1>1, <1>6 DEF Crash, Drop
<1>7. QED
  BY <1>2, <1>3, <1>5, <1>6 DEF Step, Group

\* What a sound hand knows of its record stays true.
LEMMA KnowledgeStays ==
  ASSUME SinkTypeOK, HandsAreSound, Step, NEW s \in Sinks, ~Idle(s)
  PROVE  \A p \in Partitions, o \in Nat :
           p = hand[s].partition /\ o = hand[s].offset =>
             /\ \A i \in 1..(o - 1) : Settled(p, i)'
             /\ log'[p][o] = Record(s)
             /\ Settled(p, o) => Settled(p, o)'
<1>1. PICK p \in Partitions, o \in Nat \ {0} :
         p = hand[s].partition /\ o = hand[s].offset /\ o <= Len(log[p])
  BY RecordInHand
<1>2. Len(log[p]) \in Nat
  BY DEF SinkTypeOK
<1>3. \A i \in 1..(o - 1) : i \in 1..Len(log[p]) /\ Settled(p, i)
  BY <1>1, <1>2 DEF HandsAreSound, SettledUpTo
<1>4. o \in 1..Len(log[p])
  BY <1>1, <1>2
<1>5. \A i \in 1..(o - 1) : Settled(p, i)'
  BY <1>3, SettledStays
<1>6. log'[p][o] = log[p][o] /\ (Settled(p, o) => Settled(p, o)')
  BY <1>4, SettledStays
<1>7. QED
  BY <1>1, <1>5, <1>6 DEF Record

\* Hands stay sound: a record is fetched only when all before it is dealt with.
LEMMA StepHandsAreSound ==
  ASSUME SinkTypeOK, SinkInvariant, Step
  PROVE  HandsAreSound'
<1>1. /\ hand \in [Sinks -> Hand]
      /\ \A p \in Partitions : position[p] \in Nat /\ Len(log[p]) \in Nat
                              /\ position[p] <= Len(log[p])
      /\ rows \in [Events -> Nat]
  BY DEF SinkTypeOK
<1>2. SUFFICES ASSUME NEW s \in Sinks, ~Idle(s)'
               PROVE  \E p \in Partitions, o \in Nat :
                        /\ p = hand'[s].partition /\ o = hand'[s].offset
                        /\ \A i \in 1..(o - 1) : Settled(p, i)'
                        /\ hand'[s].pc = "invalid" => log'[p][o] \in Invalid
                        /\ hand'[s].pc = "commit" => Settled(p, o)'
  BY DEF HandsAreSound, SettledUpTo, Record, Settled, Handled
<1> DEFINE Goal == \E p \in Partitions, o \in Nat :
                     /\ p = hand'[s].partition /\ o = hand'[s].offset
                     /\ \A i \in 1..(o - 1) : Settled(p, i)'
                     /\ hand'[s].pc = "invalid" => log'[p][o] \in Invalid
                     /\ hand'[s].pc = "commit" => Settled(p, o)'
<1>k. ASSUME ~Idle(s),
             hand'[s].partition = hand[s].partition, hand'[s].offset = hand[s].offset,
             hand'[s].pc = "invalid" => Record(s) \in Invalid,
             hand'[s].pc = "commit" =>
               \A p \in Partitions, o \in Nat :
                 p = hand[s].partition /\ o = hand[s].offset => Settled(p, o)'
      PROVE  Goal
  <2>1. PICK p \in Partitions, o \in Nat : p = hand[s].partition /\ o = hand[s].offset
    BY <1>1 DEF Hand
  <2>2. \A i \in 1..(o - 1) : Settled(p, i)'
    BY <1>k, <2>1, KnowledgeStays DEF SinkInvariant, Settled, Handled
  <2>3. log'[p][o] = Record(s)
    BY <1>k, <2>1, KnowledgeStays DEF SinkInvariant
  <2>4. hand'[s].pc = "commit" => Settled(p, o)'
    BY <1>k, <2>1
  <2>5. QED
    BY <1>k, <2>1, <2>2, <2>3, <2>4
<1>4. CASE hand'[s] = hand[s]
  <2>1. ~Idle(s)
    BY <1>2, <1>4 DEF Idle
  <2>2. hand[s].pc = "invalid" => Record(s) \in Invalid
    BY <2>1 DEF SinkInvariant, HandsAreSound
  <2>3. hand[s].pc = "commit" => Settled(hand[s].partition, hand[s].offset)
    BY <2>1 DEF SinkInvariant, HandsAreSound
  <2>4. hand[s].pc = "commit" =>
          \A p \in Partitions, o \in Nat :
            p = hand[s].partition /\ o = hand[s].offset => Settled(p, o)'
    BY <2>1, <2>3, KnowledgeStays DEF SinkInvariant
  <2>5. QED
    BY <1>4, <1>k, <2>1, <2>2, <2>4
<1>5. CASE hand'[s] = EmptyHand
  BY <1>2, <1>5, EmptyHandType DEF Idle
<1>6. ASSUME NEW p \in Partitions, Fetch(s, p) PROVE Goal
  <2>1. owner[p] = s /\ Idle(s) /\ log' = log /\ position[p] < Len(log[p])
    BY <1>6 DEF Fetch
  <2>2. SettledUpTo(p, position[p])
    BY <2>1 DEF SinkInvariant, PositionsAreSound, Idle
  <2>3. /\ hand'[s].pc = "fetched" /\ hand'[s].partition = p
        /\ hand'[s].offset = position[p] + 1
    BY <1>1, <1>6 DEF Fetch
  <2>4. \A i \in 1..position[p] : Settled(p, i)'
    <3>1. \A i \in 1..position[p] : i \in 1..Len(log[p]) /\ Settled(p, i)
      BY <1>1, <2>2 DEF SettledUpTo
    <3>2. QED
      BY <3>1, SettledStays
  <2>5. (position[p] + 1) - 1 = position[p] /\ position[p] + 1 \in Nat
    BY <1>1
  <2>6. QED
    BY <2>3, <2>4, <2>5
<1>7. ASSUME Insert(s), hand' = [hand EXCEPT ![s].pc = "commit"], Stored(Record(s)) PROVE Goal
  <2>1. ~Idle(s) /\ log' = log /\ Record(s) \notin Invalid
    BY <1>7 DEF Insert, Idle
  <2>2. /\ hand'[s].pc = "commit" /\ hand'[s].partition = hand[s].partition
        /\ hand'[s].offset = hand[s].offset
    BY <1>1, <1>7 DEF Hand
  <2>3. Record(s) \in Events
    BY <2>1, RecordInHand
  <2>4. rows'[Record(s)] > 0
    BY <1>1, <1>7, <2>3 DEF Stored
  <2>5. ASSUME NEW p \in Partitions, NEW o \in Nat,
               p = hand[s].partition, o = hand[s].offset
        PROVE  Settled(p, o)'
    BY <2>1, <2>4, <2>5 DEF Settled, Handled, Record
  <2>6. QED
    BY <1>k, <2>1, <2>2, <2>5
<1>8. ASSUME Reject(s) PROVE Goal
  <2>1. ~Idle(s) /\ Record(s) \in Invalid
    BY <1>8 DEF Reject, Idle
  <2>2. /\ hand'[s].pc = "invalid" /\ hand'[s].partition = hand[s].partition
        /\ hand'[s].offset = hand[s].offset
    BY <1>1, <1>8 DEF Hand, Reject
  <2>3. QED
    BY <1>k, <2>1, <2>2
<1>9. ASSUME DeadLetter(s), hand' = [hand EXCEPT ![s].pc = "commit"],
             dead' = dead \cup {Coordinates(s)}
      PROVE  Goal
  <2>1. ~Idle(s) /\ log' = log /\ hand[s].pc = "invalid"
    BY <1>9 DEF DeadLetter, Idle
  <2>2. /\ hand'[s].pc = "commit" /\ hand'[s].partition = hand[s].partition
        /\ hand'[s].offset = hand[s].offset
    BY <1>1, <1>9 DEF Hand
  <2>3. Record(s) \in Invalid
    BY <2>1 DEF SinkInvariant, HandsAreSound
  <2>4. ASSUME NEW p \in Partitions, NEW o \in Nat,
               p = hand[s].partition, o = hand[s].offset
        PROVE  Settled(p, o)'
    BY <1>9, <2>1, <2>3, <2>4 DEF Settled, Handled, Record, Coordinates
  <2>5. QED
    BY <1>k, <2>1, <2>2, <2>4
<1>10. QED
  BY <1>4, <1>5, <1>6, <1>7, <1>8, <1>9, HandSteps

\* Positions stay sound: a generation starts at the committed offset, and what
\* leaves the hand of an owner is dealt with.
LEMMA StepPositionsAreSound ==
  ASSUME SinkTypeOK, SinkInvariant, Step
  PROVE  PositionsAreSound'
<1>1. SUFFICES ASSUME NEW p \in Partitions
               PROVE  \/ \A i \in 1..position'[p] : Settled(p, i)'
                      \/ /\ hand'[owner'[p]].pc # "idle"
                         /\ hand'[owner'[p]].partition = p
                         /\ hand'[owner'[p]].offset = position'[p]
  BY DEF PositionsAreSound, SettledUpTo
<1>2. /\ hand \in [Sinks -> Hand] /\ owner[p] \in Sinks
      /\ position \in [Partitions -> Nat]
      /\ committed[p] \in Nat /\ position[p] \in Nat /\ Len(log[p]) \in Nat
      /\ committed[p] <= Len(log[p]) /\ position[p] <= Len(log[p])
  BY DEF SinkTypeOK
<1>3. ASSUME NEW n \in Nat, n <= Len(log[p]), SettledUpTo(p, n)
      PROVE  \A i \in 1..n : Settled(p, i)'
  <2>1. \A i \in 1..n : i \in 1..Len(log[p]) /\ Settled(p, i)
    BY <1>2, <1>3 DEF SettledUpTo
  <2>2. QED
    BY <2>1, SettledStays
<1>4. CASE Rebalance \/ \E s \in Sinks : Crash(s)
  <2>1. position' = committed
    BY <1>4 DEF Rebalance, Crash, Reassign
  <2>2. SettledUpTo(p, committed[p])
    BY DEF SinkInvariant, OnlyFailedAreSkipped, SettledUpTo
  <2>3. QED
    BY <1>2, <1>3, <2>1, <2>2
<1>5. ASSUME owner' = owner, position'[p] = position[p], SettledUpTo(p, position[p])
      PROVE  \A i \in 1..position'[p] : Settled(p, i)'
  BY <1>2, <1>3, <1>5
<1>6. ASSUME owner' = owner, position'[p] = position[p],
             ~SettledUpTo(p, position[p]), ~Commit(owner[p]),
             ~\E q \in Partitions : Fetch(owner[p], q),
             ~Crash(owner[p]), ~(/\ Insert(owner[p]) \/ DeadLetter(owner[p])
                                 /\ GiveUp(owner[p]))
      PROVE  /\ hand'[owner'[p]].pc # "idle"
             /\ hand'[owner'[p]].partition = p
             /\ hand'[owner'[p]].offset = position'[p]
  <2> DEFINE s == owner[p]
  <2>1. hand[s].pc # "idle" /\ hand[s].partition = p /\ hand[s].offset = position[p]
    BY <1>6 DEF SinkInvariant, PositionsAreSound
  <2>2. \/ hand'[s] = hand[s]
        \/ \E pc \in {"commit", "invalid"} : hand' = [hand EXCEPT ![s].pc = pc]
    BY <1>2, <1>6, HandSteps DEF Reject
  <2>3. CASE hand'[s] = hand[s]
    BY <1>6, <2>1, <2>3
  <2>4. ASSUME NEW pc \in {"commit", "invalid"}, hand' = [hand EXCEPT ![s].pc = pc]
        PROVE  /\ hand'[s].pc # "idle"
               /\ hand'[s].partition = hand[s].partition
               /\ hand'[s].offset = hand[s].offset
    <3>1. hand'[s] = [hand[s] EXCEPT !.pc = pc]
      BY <1>2, <2>4
    <3>2. hand[s] \in Hand
      BY <1>2
    <3>3. QED
      BY <3>1, <3>2 DEF Hand
  <2>5. QED
    BY <1>6, <2>1, <2>2, <2>3, <2>4
<1>7. ASSUME NEW s \in Sinks, NEW q \in Partitions, Fetch(s, q)
      PROVE  \/ \A i \in 1..position'[p] : Settled(p, i)'
             \/ /\ hand'[owner'[p]].pc # "idle"
                /\ hand'[owner'[p]].partition = p
                /\ hand'[owner'[p]].offset = position'[p]
  <2>1. /\ owner' = owner /\ owner[q] = s /\ Idle(s)
        /\ hand' = [hand EXCEPT ![s] =
             [pc |-> "fetched", partition |-> q, offset |-> position[q] + 1]]
        /\ position' = [position EXCEPT ![q] = @ + 1]
    BY <1>7 DEF Fetch
  <2>2. CASE p = q
    BY <1>2, <2>1, <2>2
  <2>3. CASE p # q
    <3>1. position'[p] = position[p]
      BY <1>2, <2>1, <2>3
    <3>2. CASE SettledUpTo(p, position[p])
      BY <1>5, <2>1, <3>1, <3>2
    <3>3. CASE ~SettledUpTo(p, position[p])
      <4>1. /\ hand[owner[p]].pc # "idle" /\ hand[owner[p]].partition = p
            /\ hand[owner[p]].offset = position[p]
        BY <3>3 DEF SinkInvariant, PositionsAreSound
      <4>2. owner[p] # s
        BY <2>1, <4>1 DEF Idle
      <4>3. hand'[owner[p]] = hand[owner[p]]
        BY <1>2, <2>1, <4>2
      <4>4. QED
        BY <2>1, <3>1, <4>1, <4>3
    <3>4. QED
      BY <3>2, <3>3
  <2>4. QED
    BY <2>2, <2>3
<1>8. CASE Commit(owner[p])
  <2> DEFINE s == owner[p]
  <2>1. owner' = owner /\ position' = position /\ hand[s].pc = "commit"
    BY <1>8 DEF Commit
  <2>2. CASE SettledUpTo(p, position[p])
    BY <1>5, <2>1, <2>2
  <2>3. CASE ~SettledUpTo(p, position[p])
    <3>1. hand[s].partition = p /\ hand[s].offset = position[p]
      BY <2>3 DEF SinkInvariant, PositionsAreSound
    <3>2. SettledUpTo(p, position[p])
      BY <1>2, <2>1, <3>1, CommittedPrefix DEF SinkInvariant
    <3>3. QED
      BY <2>3, <3>2
  <2>4. QED
    BY <2>2, <2>3
<1>g. CASE (Insert(owner[p]) \/ DeadLetter(owner[p])) /\ GiveUp(owner[p])
  <2> DEFINE s == owner[p]
  <2>1. owner' = owner /\ position' = position /\ ~Idle(s) /\ log' = log
    BY <1>g DEF Insert, DeadLetter, group, Idle
  <2>2. CASE SettledUpTo(p, position[p])
    BY <1>5, <2>1, <2>2
  <2>3. CASE ~SettledUpTo(p, position[p])
    <3>1. hand[s].partition = p /\ hand[s].offset = position[p]
      BY <2>3 DEF SinkInvariant, PositionsAreSound
    <3>2. position[p] \in 1..Len(log[p])
      BY <2>1, <3>1 DEF SinkTypeOK
    <3>3. SettledUpTo(p, position[p] - 1)
      BY <1>2, <2>1, <3>1 DEF SinkInvariant, HandsAreSound, SettledUpTo
    <3>4. \A i \in 1..(position[p] - 1) : Settled(p, i)'
      BY <1>2, <1>3, <3>2, <3>3
    <3>5. Settled(p, position[p])'
      <4>1. <<p, position[p]>> \in dropped'
        BY <1>g, <3>1 DEF GiveUp, Coordinates
      <4>2. \A o : <<p, o>> \in dropped' => Settled(p, o)'
        BY DEF Settled
      <4>3. \A o : o = position'[p] => Settled(p, o)' \/ <<p, o>> \notin dropped'
        BY <4>2
      <4>4. QED
        BY <2>1, <4>1, <4>3
    <3>6. \A i \in 1..position[p] : i \in 1..(position[p] - 1) \/ i = position[p]
      BY <1>2
    <3>7. QED
      BY <2>1, <3>4, <3>5, <3>6
  <2>4. QED
    BY <2>2, <2>3
<1>9. CASE /\ ~Rebalance /\ ~(\E s \in Sinks : Crash(s))
           /\ ~(\E s \in Sinks, q \in Partitions : Fetch(s, q))
  <2>1. owner' = owner /\ position' = position
    BY <1>9 DEF Step, LogsGrow, Group, Loop, Insert, Reject, DeadLetter, Commit, group
  <2>2. QED
    BY <1>2, <1>5, <1>6, <1>8, <1>9, <1>g, <2>1
<1>10. QED
  BY <1>4, <1>7, <1>9

\* No offset is committed and no record fetched initially.
LEMMA InitSinkInvariant == Init => SinkInvariant
<1> SUFFICES ASSUME Init PROVE SinkInvariant
  OBVIOUS
<1>1. \A p \in Partitions : committed[p] = 0 /\ position[p] = 0
  BY DEF Init
<1>2. \A s \in Sinks : Idle(s)
  BY EmptyHandType DEF Init, Idle
<1>3. QED
  BY <1>1, <1>2 DEF SinkInvariant, OnlyFailedAreSkipped, HandsAreSound, PositionsAreSound,
                    SettledUpTo

\* The invariant is inductive.
LEMMA StepSinkInvariant == SinkTypeOK /\ SinkInvariant /\ Step => SinkInvariant'
BY StepOnlyFailedAreSkipped, StepHandsAreSound, StepPositionsAreSound DEF SinkInvariant

\* The group commits past no record but those that failed, whatever fails and
\* for any number of members.
THEOREM OnlyFailedSkipped == Spec => []OnlyFailedAreSkipped
<1>1. SinkInvariant => OnlyFailedAreSkipped
  BY DEF SinkInvariant
<1>2. QED
  BY <1>1, InitSinkInvariant, StepSinkInvariant, NextIsStep, SinkTypeCorrect, PTL DEF Spec

\* Without failed inserts and dead letters the loop gives up no record.
LEMMA NothingGivenUp ==
  ASSUME "insert" \notin SinkFaults, "dlq" \notin SinkFaults \/ Invalid = {}
  PROVE  SinkInvariant /\ dropped = {} /\ Step => dropped' = {}
<1> SUFFICES ASSUME SinkInvariant, dropped = {}, Step PROVE dropped' = {}
  OBVIOUS
<1>1. ~SinkFault("insert")
  BY DEF SinkFault
<1>2. ASSUME NEW s \in Sinks, DeadLetter(s) PROVE dropped' = {}
  <2>1. Record(s) \in Invalid
    BY <1>2 DEF SinkInvariant, HandsAreSound, DeadLetter, Idle
  <2>2. ~SinkFault("dlq")
    BY <2>1 DEF SinkFault
  <2>3. QED
    BY <1>2, <2>2 DEF DeadLetter
<1>3. QED
  BY <1>1, <1>2 DEF Step, LogsGrow, Group, Loop, Rebalance, Crash, Fetch, Insert, Reject,
                    Commit, store

\* If the inserts and the dead-letter writes succeed, no rebalance, crash or
\* failed commit makes the group skip a record.
THEOREM NoRecordSkipped ==
  ASSUME "insert" \notin SinkFaults, "dlq" \notin SinkFaults \/ Invalid = {}
  PROVE  Spec => []NothingSkipped
<1> DEFINE NoneDropped == dropped = {}
<1>1. Init => NoneDropped
  BY DEF Init
<1>2. SinkTypeOK /\ SinkInvariant /\ NoneDropped /\ [Next]_vars => NoneDropped'
  BY NothingGivenUp, NextIsStep
<1>3. NoneDropped /\ SinkInvariant => NothingSkipped
  BY DEF SinkInvariant, OnlyFailedAreSkipped, NothingSkipped, Settled
<1> HIDE DEF NoneDropped
<1>4. QED
  BY <1>1, <1>2, <1>3, InitSinkInvariant, StepSinkInvariant, NextIsStep, SinkTypeCorrect,
     PTL DEF Spec

-----------------------------------------------------------------------------
(* Rows.  Every copy of an event allows one row, and one more per fault.  A  *)
(* row is used up by a row that is there, by a member that has the record    *)
(* in hand and may still insert it, and by a record that the generation has  *)
(* still to fetch.                                                           *)

Spots(e) ==
  {x \in Partitions \X (1..MaxLog) : x[2] <= Len(log[x[1]]) /\ log[x[1]][x[2]] = e}

Fetched(e) == {s \in Sinks : hand[s].pc = "fetched" /\ Record(s) = e}

Unread(e) == {x \in Spots(e) : x[2] > position[x[1]]}

LogsAreBounded == \A p \in Partitions : Len(log[p]) <= MaxLog

RowsArePaid ==
  \A e \in Events :
    /\ IsFiniteSet(Spots(e))
    /\ IsFiniteSet(Fetched(e))
    /\ rows[e] + Cardinality(Fetched(e)) + Cardinality(Unread(e))
         <= Cardinality(Spots(e)) * (1 + sinkFaults)

RowsInv == LogsAreBounded /\ RowsArePaid

\* A set with an element more or less.
LEMMA OneMoreOrLess ==
  ASSUME NEW S, IsFiniteSet(S), NEW x
  PROVE  /\ IsFiniteSet(S \cup {x}) /\ IsFiniteSet(S \ {x})
         /\ Cardinality(S) \in Nat /\ Cardinality(S \cup {x}) \in Nat
         /\ Cardinality(S \ {x}) \in Nat
         /\ Cardinality(S \cup {x}) = IF x \in S THEN Cardinality(S) ELSE Cardinality(S) + 1
         /\ Cardinality(S \ {x}) = IF x \in S THEN Cardinality(S) - 1 ELSE Cardinality(S)
<1>1. /\ IsFiniteSet(S \cup {x})
      /\ Cardinality(S \cup {x}) = IF x \in S THEN Cardinality(S) ELSE Cardinality(S) + 1
  BY FS_AddElement
<1>2. /\ IsFiniteSet(S \ {x})
      /\ Cardinality(S \ {x}) = IF x \in S THEN Cardinality(S) - 1 ELSE Cardinality(S)
  BY FS_RemoveElement
<1>3. Cardinality(S) \in Nat /\ Cardinality(S \cup {x}) \in Nat /\ Cardinality(S \ {x}) \in Nat
  BY <1>1, <1>2, FS_CardinalityType
<1>4. QED
  BY <1>1, <1>2, <1>3

\* What one more copy and one more fault allow.
LEMMA Allowance ==
  ASSUME NEW c \in Nat, NEW n \in Nat
  PROVE  /\ c * (1 + n) \in Nat
         /\ (c + 1) * (1 + n) = c * (1 + n) + (1 + n)
         /\ c * (1 + (n + 1)) = c * (1 + n) + c
BY SMT

\* What is still to be read is among the copies.
LEMMA UnreadFacts ==
  ASSUME NEW e, IsFiniteSet(Spots(e))
  PROVE  /\ IsFiniteSet(Unread(e))
         /\ Cardinality(Unread(e)) \in Nat
         /\ Cardinality(Spots(e)) \in Nat
         /\ Cardinality(Unread(e)) <= Cardinality(Spots(e))
<1>1. Unread(e) \subseteq Spots(e)
  BY DEF Unread
<1>2. IsFiniteSet(Unread(e)) /\ Cardinality(Unread(e)) <= Cardinality(Spots(e))
  BY <1>1, FS_Subset
<1>3. Cardinality(Unread(e)) \in Nat /\ Cardinality(Spots(e)) \in Nat
  BY <1>2, FS_CardinalityType
<1>4. QED
  BY <1>2, <1>3

\* A member that lets go of its record, or was not about to insert it, has none.
LEMMA LetGo ==
  ASSUME NEW s \in Sinks, log' = log, hand'[s].pc # "fetched",
         \A q \in Sinks : q # s => hand'[q] = hand[q]
  PROVE  \A e : Fetched(e)' = Fetched(e) \ {s}
<1>1. ASSUME NEW q \in Sinks, q # s PROVE hand'[q] = hand[q] /\ Record(q)' = Record(q)
  BY <1>1 DEF Record
<1>2. QED
  BY <1>1 DEF Fetched

\* Copies do not change with the group.
LEMMA SameSpots ==
  ASSUME log' = log
  PROVE  \A e : Spots(e)' = Spots(e)
BY DEF Spots

\* A step that reads nothing, adds no copy and uses up a record in hand before
\* it adds a row, keeps the budget.
LEMMA SpentInHand ==
  ASSUME SinkTypeOK, RowsArePaid, NEW s \in Sinks, log' = log, position' = position,
         hand'[s].pc # "fetched", \A q \in Sinks : q # s => hand'[q] = hand[q],
         sinkFaults' \in Nat, sinkFaults <= sinkFaults',
         \/ rows' = rows
         \/ hand[s].pc = "fetched" /\ Stored(Record(s))
  PROVE  RowsArePaid'
<1> SUFFICES ASSUME NEW f \in Events
             PROVE  /\ IsFiniteSet(Spots(f)')
                    /\ IsFiniteSet(Fetched(f)')
                    /\ rows'[f] + Cardinality(Fetched(f)') + Cardinality(Unread(f)')
                         <= Cardinality(Spots(f)') * (1 + sinkFaults')
  BY DEF RowsArePaid
<1> DEFINE c == Cardinality(Spots(f))
<1>1. IsFiniteSet(Spots(f)) /\ IsFiniteSet(Fetched(f))
      /\ rows[f] + Cardinality(Fetched(f)) + Cardinality(Unread(f)) <= c * (1 + sinkFaults)
  BY DEF RowsArePaid
<1>2. Spots(f)' = Spots(f) /\ Unread(f)' = Unread(f)
  BY DEF Spots, Unread
<1>3. Fetched(f)' = Fetched(f) \ {s}
  BY LetGo
<1>4. /\ IsFiniteSet(Fetched(f) \ {s})
      /\ Cardinality(Fetched(f)) \in Nat /\ Cardinality(Fetched(f) \ {s}) \in Nat
      /\ Cardinality(Fetched(f) \ {s})
           = IF s \in Fetched(f) THEN Cardinality(Fetched(f)) - 1 ELSE Cardinality(Fetched(f))
  BY <1>1, OneMoreOrLess
<1>5. Cardinality(Unread(f)) \in Nat /\ c \in Nat
  BY <1>1, UnreadFacts
<1>6. /\ rows \in [Events -> Nat] /\ rows[f] \in Nat
      /\ rows'[f] \in Nat
      /\ \/ rows'[f] = rows[f]
         \/ rows'[f] = rows[f] + 1 /\ s \in Fetched(f)
  BY DEF SinkTypeOK, Stored, Fetched
<1>7. rows'[f] + Cardinality(Fetched(f) \ {s}) <= rows[f] + Cardinality(Fetched(f))
  BY <1>4, <1>6
<1>8. c * (1 + sinkFaults) \in Nat /\ c * (1 + sinkFaults') \in Nat
      /\ c * (1 + sinkFaults) <= c * (1 + sinkFaults')
  <2>1. sinkFaults \in Nat
    BY DEF SinkTypeOK
  <2>2. PICK d \in Nat : sinkFaults' = sinkFaults + d
    BY <2>1
  <2>3. c * (1 + sinkFaults') = c * (1 + sinkFaults) + c * d /\ c * d \in Nat
    BY <1>5, <2>1, <2>2, SMT
  <2>4. c * (1 + sinkFaults) \in Nat
    BY <1>5, <2>1, Allowance
  <2>5. QED
    BY <2>3, <2>4
<1> HIDE DEF c
<1>9. rows'[f] + Cardinality(Fetched(f) \ {s}) + Cardinality(Unread(f))
        <= c * (1 + sinkFaults')
  BY <1>1, <1>4, <1>5, <1>6, <1>7, <1>8
<1>10. QED
  BY <1>1, <1>2, <1>3, <1>4, <1>9 DEF c

\* A new generation reads everything again, and costs a fault.
LEMMA SpentByFault ==
  ASSUME SinkTypeOK, RowsArePaid, log' = log, rows' = rows,
         sinkFaults' = sinkFaults + 1,
         \A f : Fetched(f)' = Fetched(f) \/ \E s \in Sinks : Fetched(f)' = Fetched(f) \ {s}
  PROVE  RowsArePaid'
<1> SUFFICES ASSUME NEW f \in Events
             PROVE  /\ IsFiniteSet(Spots(f)')
                    /\ IsFiniteSet(Fetched(f)')
                    /\ rows'[f] + Cardinality(Fetched(f)') + Cardinality(Unread(f)')
                         <= Cardinality(Spots(f)') * (1 + sinkFaults')
  BY DEF RowsArePaid
<1> DEFINE c == Cardinality(Spots(f))
<1>1. IsFiniteSet(Spots(f)) /\ IsFiniteSet(Fetched(f))
      /\ rows[f] + Cardinality(Fetched(f)) + Cardinality(Unread(f)) <= c * (1 + sinkFaults)
  BY DEF RowsArePaid
<1>2. Spots(f)' = Spots(f)
  BY DEF Spots
<1>3. Unread(f)' \subseteq Spots(f)
  BY <1>2 DEF Unread
<1>4. Cardinality(Unread(f)') \in Nat /\ Cardinality(Unread(f)') <= c
  BY <1>1, <1>3, FS_Subset, FS_CardinalityType
<1>5. Cardinality(Unread(f)) \in Nat /\ c \in Nat
  BY <1>1, UnreadFacts
<1>6. /\ IsFiniteSet(Fetched(f)') /\ Cardinality(Fetched(f)) \in Nat
      /\ Cardinality(Fetched(f)') \in Nat
      /\ Cardinality(Fetched(f)') <= Cardinality(Fetched(f))
  <2>1. Fetched(f)' \subseteq Fetched(f)
    <3>1. Fetched(f)' = Fetched(f) \/ \E s \in Sinks : Fetched(f)' = Fetched(f) \ {s}
      OBVIOUS
    <3>2. QED
      BY <3>1
  <2>2. QED
    BY <1>1, <2>1, FS_Subset, FS_CardinalityType
<1>7. rows[f] \in Nat /\ sinkFaults \in Nat
  BY DEF SinkTypeOK
<1>8. c * (1 + sinkFaults') = c * (1 + sinkFaults) + c /\ c * (1 + sinkFaults) \in Nat
  BY <1>5, <1>7, Allowance
<1> HIDE DEF c
<1>9. rows[f] + Cardinality(Fetched(f)') + Cardinality(Unread(f)') <= c * (1 + sinkFaults')
  BY <1>1, <1>4, <1>5, <1>6, <1>7, <1>8
<1>10. QED
  BY <1>1, <1>2, <1>6, <1>9 DEF c

\* A new record is one more copy, which the generation has still to fetch.
LEMMA PaidByProducer ==
  ASSUME SinkTypeOK, RowsInv, NEW p \in Partitions, NEW e \in Events, Produce(p, e)
  PROVE  RowsInv'
<1> DEFINE o == Len(log[p]) + 1
<1> DEFINE x == <<p, o>>
<1>1. /\ log \in [Partitions -> Seq(Events)] /\ hand \in [Sinks -> Hand]
      /\ log' = [log EXCEPT ![p] = Append(@, e)]
      /\ UNCHANGED <<committed, owner, position, hand, rows, dead, dropped, sinkFaults>>
      /\ Len(log[p]) < MaxLog
  BY DEF SinkTypeOK, Produce, group, store
<1>2. \A q \in Partitions : log[q] \in Seq(Events) /\ Len(log[q]) \in Nat
                             /\ log'[q] = IF q = p THEN Append(log[p], e) ELSE log[q]
  BY <1>1
<1>3. /\ Len(log'[p]) = o /\ log'[p][o] = e /\ o \in Nat /\ o \in 1..MaxLog
      /\ \A i \in 1..Len(log[p]) : log'[p][i] = log[p][i]
  <2>1. log[p] \in Seq(Events) /\ log'[p] = Append(log[p], e) /\ Len(log[p]) \in Nat
    BY <1>2
  <2>2. o \in 1..MaxLog
    BY <1>1, <2>1, SinkAssumption
  <2>3. QED
    BY <2>1, <2>2, AppendKeeps
<1>4. LogsAreBounded'
  BY <1>1, <1>2, <1>3, SinkAssumption DEF RowsInv, LogsAreBounded
<1>5. \A f \in Events : Spots(f)' = IF f = e THEN Spots(f) \cup {x} ELSE Spots(f)
  <2>1. ASSUME NEW y \in Partitions \X (1..MaxLog), NEW f \in Events
        PROVE  (y[2] <= Len(log'[y[1]]) /\ log'[y[1]][y[2]] = f)
                 <=> \/ y[2] <= Len(log[y[1]]) /\ log[y[1]][y[2]] = f
                     \/ y = x /\ f = e
    <3>1. PICK q \in Partitions, i \in 1..MaxLog : y = <<q, i>>
      OBVIOUS
    <3>2. CASE q # p
      BY <1>2, <3>1, <3>2
    <3>3. CASE q = p /\ i = o
      BY <1>2, <1>3, <3>1, <3>3
    <3>4. CASE q = p /\ i # o
      <4>1. i <= Len(log'[p]) <=> i <= Len(log[p])
        BY <1>2, <1>3, <3>4, SinkAssumption
      <4>2. i <= Len(log[p]) => i \in 1..Len(log[p])
        BY <1>2, SinkAssumption
      <4>3. QED
        BY <1>3, <3>1, <3>4, <4>1, <4>2
    <3>5. QED
      BY <3>2, <3>3, <3>4
  <2>2. x \in Partitions \X (1..MaxLog)
    BY <1>3
  <2> HIDE DEF x
  <2>3. QED
    BY <2>1, <2>2 DEF Spots
<1>6. \A f : Fetched(f)' = Fetched(f)
  <2>1. ASSUME NEW s \in Sinks, hand[s].pc = "fetched" PROVE Record(s)' = Record(s)
    <3>1. hand[s].partition \in Partitions /\ hand[s].offset \in 1..Len(log[hand[s].partition])
      BY <1>1, <2>1 DEF Hand, SinkTypeOK, Idle
    <3>2. log'[hand[s].partition][hand[s].offset] = log[hand[s].partition][hand[s].offset]
      BY <1>2, <1>3, <3>1
    <3>3. QED
      BY <1>1, <3>2 DEF Record
  <2>2. QED
    BY <1>1, <2>1 DEF Fetched
<1>7. x \notin Spots(e) /\ x[2] > position'[x[1]]
  <2>1. position[p] <= Len(log[p]) /\ position[p] \in Nat /\ Len(log[p]) \in Nat
    BY <1>2 DEF SinkTypeOK
  <2>2. QED
    BY <1>1, <2>1 DEF Spots
<1> HIDE DEF x
<1>8. \A f \in Events : Unread(f)' = IF f = e THEN Unread(f) \cup {x} ELSE Unread(f)
  BY <1>1, <1>5, <1>7 DEF Unread
<1>9. ASSUME NEW f \in Events
      PROVE  /\ IsFiniteSet(Spots(f)')
             /\ IsFiniteSet(Fetched(f)')
             /\ rows'[f] + Cardinality(Fetched(f)') + Cardinality(Unread(f)')
                  <= Cardinality(Spots(f)') * (1 + sinkFaults')
  <2>1. IsFiniteSet(Spots(f)) /\ IsFiniteSet(Fetched(f))
        /\ rows[f] + Cardinality(Fetched(f)) + Cardinality(Unread(f))
             <= Cardinality(Spots(f)) * (1 + sinkFaults)
    BY DEF RowsInv, RowsArePaid
  <2>2. CASE f # e
    BY <1>1, <1>5, <1>6, <1>8, <2>1, <2>2
  <2>3. CASE f = e
    <3> DEFINE c == Cardinality(Spots(f))
    <3>1. IsFiniteSet(Unread(f)) /\ Cardinality(Unread(f)) \in Nat /\ c \in Nat
      BY <2>1, UnreadFacts
    <3>2. x \notin Spots(f) /\ x \notin Unread(f)
      BY <1>7, <2>3 DEF Unread
    <3>3. IsFiniteSet(Spots(f) \cup {x}) /\ Cardinality(Spots(f) \cup {x}) = c + 1
      BY <2>1, <3>2, OneMoreOrLess
    <3>4. Cardinality(Unread(f) \cup {x}) = Cardinality(Unread(f)) + 1
      BY <3>1, <3>2, OneMoreOrLess
    <3>5. Cardinality(Fetched(f)) \in Nat
      BY <2>1, FS_CardinalityType
    <3>6. rows[f] \in Nat /\ sinkFaults \in Nat
      BY DEF SinkTypeOK
    <3>7. (c + 1) * (1 + sinkFaults) = c * (1 + sinkFaults) + (1 + sinkFaults)
          /\ c * (1 + sinkFaults) \in Nat
      BY <3>1, <3>6, Allowance
    <3> HIDE DEF c
    <3>8. rows[f] + Cardinality(Fetched(f)) + Cardinality(Unread(f) \cup {x})
            <= (c + 1) * (1 + sinkFaults)
      BY <2>1, <3>1, <3>4, <3>5, <3>6, <3>7 DEF c
    <3>9. QED
      BY <1>1, <1>5, <1>6, <1>8, <2>1, <2>3, <3>3, <3>8
  <2>4. QED
    BY <2>2, <2>3
<1>10. QED
  BY <1>4, <1>9 DEF RowsInv, RowsArePaid

\* A record that is fetched passes from the unread ones to a hand.
LEMMA FetchedFromUnread ==
  ASSUME SinkTypeOK, RowsArePaid, LogsAreBounded,
         NEW s \in Sinks, NEW p \in Partitions, Fetch(s, p)
  PROVE  RowsArePaid'
<1> DEFINE o == position[p] + 1
<1> DEFINE x == <<p, o>>
<1> DEFINE e == log[p][o]
<1>1. /\ hand' = [hand EXCEPT ![s] = [pc |-> "fetched", partition |-> p, offset |-> o]]
      /\ position' = [position EXCEPT ![p] = o]
      /\ UNCHANGED <<log, rows, sinkFaults>>
      /\ Idle(s) /\ position[p] < Len(log[p])
  BY DEF Fetch, store
<1>2. /\ hand \in [Sinks -> Hand] /\ position \in [Partitions -> Nat]
      /\ position[p] \in Nat /\ Len(log[p]) \in Nat /\ Len(log[p]) <= MaxLog
      /\ \A q \in Partitions : position[q] \in Nat
  BY DEF SinkTypeOK, LogsAreBounded
<1>3. o \in 1..MaxLog /\ o <= Len(log[p])
  BY <1>1, <1>2, SinkAssumption
<1>4. \A f : Spots(f)' = Spots(f)
  BY <1>1, SameSpots
<1>5. ASSUME NEW f
      PROVE  /\ Unread(f)' = Unread(f) \ {x}
             /\ f = e => x \in Unread(f)
  <2>1. f = e => x \in Unread(f)
    BY <1>2, <1>3 DEF Unread, Spots
  <2>2. ASSUME NEW y \in Spots(f)
        PROVE  y[2] > position'[y[1]] <=> y[2] > position[y[1]] /\ y # x
    <3>1. PICK q \in Partitions, i \in 1..MaxLog : y = <<q, i>>
      BY <2>2 DEF Spots
    <3>2. CASE q = p
      <4>1. i > o <=> i > position[p] /\ i # o
        BY <1>2, SinkAssumption
      <4>2. QED
        BY <1>1, <1>2, <3>1, <3>2, <4>1
    <3>3. CASE q # p
      BY <1>1, <1>2, <3>1, <3>3
    <3>4. QED
      BY <3>2, <3>3
  <2> HIDE DEF x
  <2>3. QED
    BY <1>4, <2>1, <2>2 DEF Unread
<1>6. \A f : Fetched(f)' = IF f = e THEN Fetched(f) \cup {s} ELSE Fetched(f)
  <2>1. hand'[s].pc = "fetched" /\ Record(s)' = e
    BY <1>1, <1>2 DEF Record
  <2>2. \A q \in Sinks : q # s => hand'[q] = hand[q] /\ Record(q)' = Record(q)
    BY <1>1, <1>2 DEF Record
  <2>3. hand[s].pc # "fetched"
    BY <1>1 DEF Idle
  <2> HIDE DEF e
  <2>4. QED
    BY <2>1, <2>2, <2>3 DEF Fetched
<1> HIDE DEF x, e
<1>7. ASSUME NEW f \in Events
      PROVE  /\ IsFiniteSet(Spots(f)')
             /\ IsFiniteSet(Fetched(f)')
             /\ rows'[f] + Cardinality(Fetched(f)') + Cardinality(Unread(f)')
                  <= Cardinality(Spots(f)') * (1 + sinkFaults')
  <2> DEFINE budget == Cardinality(Spots(f)) * (1 + sinkFaults)
  <2>1. IsFiniteSet(Spots(f)) /\ IsFiniteSet(Fetched(f))
        /\ rows[f] + Cardinality(Fetched(f)) + Cardinality(Unread(f)) <= budget
    BY DEF RowsArePaid
  <2>2. IsFiniteSet(Unread(f)) /\ Cardinality(Spots(f)) \in Nat
    BY <2>1, UnreadFacts
  <2>3. /\ Cardinality(Unread(f)) \in Nat /\ Cardinality(Unread(f) \ {x}) \in Nat
        /\ Cardinality(Unread(f) \ {x})
             = IF x \in Unread(f) THEN Cardinality(Unread(f)) - 1 ELSE Cardinality(Unread(f))
    BY <2>2, OneMoreOrLess
  <2>4. /\ IsFiniteSet(Fetched(f) \cup {s})
        /\ Cardinality(Fetched(f)) \in Nat /\ Cardinality(Fetched(f) \cup {s}) \in Nat
        /\ Cardinality(Fetched(f) \cup {s})
             = IF s \in Fetched(f) THEN Cardinality(Fetched(f)) ELSE Cardinality(Fetched(f)) + 1
    BY <2>1, OneMoreOrLess
  <2>5. /\ IsFiniteSet(Fetched(f)') /\ Cardinality(Fetched(f)') \in Nat
        /\ Cardinality(Fetched(f)') + Cardinality(Unread(f) \ {x})
             <= Cardinality(Fetched(f)) + Cardinality(Unread(f))
    <3>1. CASE f = e
      <4>1. Fetched(f)' = Fetched(f) \cup {s} /\ x \in Unread(f)
        BY <1>5, <1>6, <3>1
      <4>2. QED
        BY <2>3, <2>4, <4>1
    <3>2. CASE f # e
      <4>1. Fetched(f)' = Fetched(f)
        BY <1>6, <3>2
      <4>2. QED
        BY <2>1, <2>3, <2>4, <4>1
    <3>3. QED
      BY <3>1, <3>2
  <2>6. rows[f] \in Nat /\ budget \in Nat
    <3>1. rows[f] \in Nat /\ sinkFaults \in Nat
      BY DEF SinkTypeOK
    <3>2. QED
      BY <2>2, <3>1, Allowance
  <2> HIDE DEF budget
  <2>7. rows[f] + Cardinality(Fetched(f)') + Cardinality(Unread(f) \ {x}) <= budget
    BY <2>1, <2>3, <2>4, <2>5, <2>6
  <2>8. QED
    BY <1>1, <1>4, <1>5, <2>1, <2>5, <2>7 DEF budget
<1>8. QED
  BY <1>7 DEF RowsArePaid

\* Every step keeps the budget.
LEMMA NextRowsInv == SinkTypeOK /\ RowsInv /\ [Next]_vars => RowsInv'
<1> SUFFICES ASSUME SinkTypeOK, RowsInv, [Next]_vars PROVE RowsInv'
  OBVIOUS
<1>1. LogsAreBounded /\ RowsArePaid
  BY DEF RowsInv
<1>2. /\ hand \in [Sinks -> Hand] /\ sinkFaults \in Nat
      /\ \A s \in Sinks : hand[s] \in Hand
  BY DEF SinkTypeOK
<1>3. log' = log => LogsAreBounded'
  BY <1>1 DEF LogsAreBounded
<1>4. ASSUME NEW p \in Partitions, NEW e \in Events, Produce(p, e) PROVE RowsInv'
  BY <1>4, PaidByProducer
<1>5. ASSUME NEW s \in Sinks, NEW p \in Partitions, Fetch(s, p) PROVE RowsInv'
  BY <1>1, <1>3, <1>5, FetchedFromUnread DEF RowsInv, Fetch
<1>6. ASSUME NEW s \in Sinks, Insert(s) \/ Reject(s) \/ DeadLetter(s) \/ Commit(s)
      PROVE  RowsInv'
  <2>1. log' = log /\ position' = position
    BY <1>6 DEF Insert, Reject, DeadLetter, Commit, group
  <2>2. /\ hand'[s].pc # "fetched"
        /\ \A q \in Sinks : q # s => hand'[q] = hand[q]
    <3>1. \/ hand' = [hand EXCEPT ![s].pc = "commit"]
          \/ hand' = [hand EXCEPT ![s].pc = "invalid"]
          \/ hand' = [hand EXCEPT ![s] = EmptyHand]
      BY <1>6 DEF Insert, Reject, DeadLetter, Commit, GiveUp, Drop
    <3>2. QED
      BY <1>2, <3>1, EmptyHandType DEF Hand
  <2>3. sinkFaults' \in Nat /\ sinkFaults <= sinkFaults'
    BY <1>2, <1>6 DEF Insert, Reject, DeadLetter, Commit, SinkFault
  <2>4. rows' = rows \/ (hand[s].pc = "fetched" /\ Stored(Record(s)))
    BY <1>6 DEF Insert, Reject, DeadLetter, Commit, store
  <2>5. RowsArePaid'
    BY <1>1, <2>1, <2>2, <2>3, <2>4, SpentInHand
  <2>6. QED
    BY <1>3, <2>1, <2>5 DEF RowsInv
<1>7. CASE Rebalance
  <2>1. log' = log /\ rows' = rows /\ hand' = hand /\ sinkFaults' = sinkFaults + 1
    BY <1>7 DEF Rebalance, SinkFault, store
  <2>2. \A f : Fetched(f)' = Fetched(f)
    BY <2>1 DEF Fetched, Record
  <2>3. RowsArePaid'
    BY <1>1, <2>1, <2>2, SpentByFault
  <2>4. QED
    BY <1>3, <2>1, <2>3 DEF RowsInv
<1>8. ASSUME NEW s \in Sinks, Crash(s) PROVE RowsInv'
  <2>1. /\ log' = log /\ rows' = rows /\ sinkFaults' = sinkFaults + 1
        /\ hand' = [hand EXCEPT ![s] = EmptyHand]
    BY <1>8 DEF Crash, Drop, SinkFault, store
  <2>2. hand'[s].pc # "fetched" /\ \A q \in Sinks : q # s => hand'[q] = hand[q]
    BY <1>2, <2>1, EmptyHandType
  <2>3. \A f : Fetched(f)' = Fetched(f) \ {s}
    BY <2>1, <2>2, LetGo
  <2>4. RowsArePaid'
    BY <1>1, <2>1, <2>3, SpentByFault
  <2>5. QED
    BY <1>3, <2>1, <2>4 DEF RowsInv
<1>9. CASE UNCHANGED vars
  <2>1. UNCHANGED <<log, position, hand, rows, sinkFaults>>
    BY <1>9 DEF vars, group, store
  <2>2. \A e : /\ Spots(e)' = Spots(e) /\ Fetched(e)' = Fetched(e)
               /\ Unread(e)' = Unread(e)
    BY <2>1 DEF Spots, Fetched, Record, Unread
  <2>3. QED
    BY <1>1, <1>3, <2>1, <2>2 DEF RowsInv, RowsArePaid
<1>10. QED
  BY <1>4, <1>5, <1>6, <1>7, <1>8, <1>9 DEF Next, Group, Loop

\* An event has at most as many rows as it has copies, times one and the number
\* of faults: whatever a member of an older generation inserts or commits late.
THEOREM RowsAreRare == Spec => []RowsNeedFaults
<1>1. Init => RowsInv
  <2> SUFFICES ASSUME Init PROVE RowsInv
    OBVIOUS
  <2>1. LogsAreBounded
    BY SinkAssumption DEF Init, LogsAreBounded
  <2>2. ASSUME NEW e \in Events
        PROVE  Spots(e) = {} /\ Fetched(e) = {} /\ Unread(e) = {} /\ rows[e] = 0
    <3>1. Spots(e) = {}
      BY DEF Init, Spots
    <3>2. Fetched(e) = {}
      BY EmptyHandType DEF Init, Fetched
    <3>3. QED
      BY <3>1, <3>2 DEF Init, Unread
  <2>3. IsFiniteSet({}) /\ Cardinality({}) = 0
    BY FS_EmptySet
  <2>4. sinkFaults = 0
    BY DEF Init
  <2>5. RowsArePaid
    BY <2>2, <2>3, <2>4 DEF RowsArePaid
  <2>6. QED
    BY <2>1, <2>5 DEF RowsInv
<1>2. SinkTypeOK /\ RowsInv => RowsNeedFaults
  <2> SUFFICES ASSUME SinkTypeOK, RowsArePaid, NEW e \in Events
               PROVE  rows[e] <= Cardinality(Spots(e)) * (1 + sinkFaults)
    BY DEF RowsInv, RowsNeedFaults, Copies, Spots
  <2>1. /\ IsFiniteSet(Spots(e)) /\ IsFiniteSet(Fetched(e))
        /\ rows[e] + Cardinality(Fetched(e)) + Cardinality(Unread(e))
             <= Cardinality(Spots(e)) * (1 + sinkFaults)
    BY DEF RowsArePaid
  <2>2. Cardinality(Fetched(e)) \in Nat /\ Cardinality(Unread(e)) \in Nat
        /\ Cardinality(Spots(e)) \in Nat
    BY <2>1, UnreadFacts, FS_CardinalityType
  <2>3. rows[e] \in Nat /\ sinkFaults \in Nat
    BY DEF SinkTypeOK
  <2>4. Cardinality(Spots(e)) * (1 + sinkFaults) \in Nat
    BY <2>2, <2>3, Allowance
  <2>5. QED
    BY <2>1, <2>2, <2>3, <2>4
<1>3. QED
  BY <1>1, <1>2, NextRowsInv, SinkTypeCorrect, PTL DEF Spec

=============================================================================
