------------------------ MODULE EventPipeline_proofs ------------------------
(***************************************************************************)
(* From the outbox to ClickHouse.  The relays alone: OutboxRelay implements *)
(* EventDelivery and writes a record twice only after a fault.  Relays and  *)
(* sinks together: the rows in ClickHouse are at-least-once delivery again. *)
(* All for any events, transactions, processes, batch sizes and faults.     *)
(***************************************************************************)
EXTENDS EventPipeline, FiniteSetTheorems, TLAPS

\* What is proved of the sink holds of the sink in the pipeline.
SinkFacts == INSTANCE EventSink_proofs WITH Invalid <- {}, MaxLog <- 0

\* A relay that is about an event has it in its batch, its batch was saved, and
\* what it is about to mark published is in the topic.
RelayEvidence ==
  \A r \in Relays :
    /\ relay[r].batch \subseteq Saved
    /\ relay[r].pc \in {"sent", "failed"} => relay[r].event \in relay[r].batch
    /\ relay[r].pc = "sent" => InLog(relay[r].event)

IInv == TypeOK /\ RelayEvidence /\ PublishedIsInLog

-----------------------------------------------------------------------------
(* Lemmas.                                                                 *)

\* A record written to its partition is there, and nothing else changes.
LEMMA WrittenIsInLog ==
  ASSUME TypeOK, NEW e \in Events,
         \/ Written(e)
         \/ log' = [log EXCEPT ![Partition[e]] = Append(Append(@, e), e)]
  PROVE  /\ log' \in [Partitions -> Seq(Events)]
         /\ \A f \in Events : InLog(f)' <=> InLog(f) \/ f = e
<1> DEFINE p == Partition[e]
<1>1. p \in Partitions /\ log[p] \in Seq(Events) /\ log \in [Partitions -> Seq(Events)]
  BY OutboxAssumption DEF TypeOK
<1>2. \A s \in Seq(Events) :
        /\ Append(s, e) \in Seq(Events)
        /\ \A f \in Events : (\E i \in DOMAIN Append(s, e) : Append(s, e)[i] = f)
                               <=> (\E i \in DOMAIN s : s[i] = f) \/ f = e
  <2> SUFFICES ASSUME NEW s \in Seq(Events)
               PROVE  /\ Append(s, e) \in Seq(Events)
                      /\ \A f \in Events :
                           (\E i \in DOMAIN Append(s, e) : Append(s, e)[i] = f)
                             <=> (\E i \in DOMAIN s : s[i] = f) \/ f = e
    OBVIOUS
  <2>1. Append(s, e) \in Seq(Events) /\ Len(Append(s, e)) = Len(s) + 1
    OBVIOUS
  <2>2. /\ \A i \in 1..Len(s) : Append(s, e)[i] = s[i]
        /\ Append(s, e)[Len(s) + 1] = e
    OBVIOUS
  <2>3. DOMAIN s = 1..Len(s) /\ DOMAIN Append(s, e) = 1..(Len(s) + 1) /\ Len(s) \in Nat
    BY <2>1
  <2>4. QED
    BY <2>1, <2>2, <2>3
<1>3. \/ log'[p] = Append(log[p], e)
      \/ log'[p] = Append(Append(log[p], e), e)
  BY <1>1 DEF Written
<1>4. \A q \in Partitions : q # p => log'[q] = log[q]
  BY <1>1 DEF Written
<1>5. log' \in [Partitions -> Seq(Events)]
  <2>1. Append(log[p], e) \in Seq(Events) /\ Append(Append(log[p], e), e) \in Seq(Events)
    BY <1>1, <1>2
  <2>2. CASE Written(e)
    BY <1>1, <2>1, <2>2 DEF Written
  <2>3. CASE log' = [log EXCEPT ![p] = Append(Append(@, e), e)]
    BY <1>1, <2>1, <2>3
  <2>4. QED
    BY <2>2, <2>3
<1>6. ASSUME NEW f \in Events PROVE InLog(f)' <=> InLog(f) \/ f = e
  <2>1. Partition[f] \in Partitions
    BY OutboxAssumption
  <2>2. CASE Partition[f] = p
    <3>1. CASE log'[p] = Append(log[p], e)
      BY <1>1, <1>2, <2>2, <3>1 DEF InLog
    <3>2. CASE log'[p] = Append(Append(log[p], e), e)
      <4> DEFINE s == Append(log[p], e)
      <4>1. s \in Seq(Events)
        BY <1>1, <1>2
      <4>2. (\E i \in DOMAIN s : s[i] = f) <=> (\E i \in DOMAIN log[p] : log[p][i] = f) \/ f = e
        BY <1>1, <1>2
      <4>3. (\E i \in DOMAIN Append(s, e) : Append(s, e)[i] = f)
               <=> (\E i \in DOMAIN s : s[i] = f) \/ f = e
        BY <1>2, <4>1
      <4>4. InLog(f)' <=> \E i \in DOMAIN Append(s, e) : Append(s, e)[i] = f
        BY <2>2, <3>2 DEF InLog
      <4>5. InLog(f) <=> \E i \in DOMAIN log[p] : log[p][i] = f
        BY <2>2 DEF InLog
      <4> HIDE DEF s
      <4>6. QED
        BY <4>2, <4>3, <4>4, <4>5
    <3>3. QED
      BY <1>3, <3>1, <3>2
  <2>3. CASE Partition[f] # p
    BY <1>4, <2>1, <2>3 DEF InLog
  <2>4. QED
    BY <2>2, <2>3
<1>7. QED
  BY <1>5, <1>6

\* A fault counts itself.
LEMMA FaultType ==
  ASSUME faults \in 0..MaxFaults, NEW kind, Fault(kind)
  PROVE  faults' \in 0..MaxFaults
BY OutboxAssumption DEF Fault

\* What is left of a batch after one of its events.
LEMMA RestOfBatch ==
  ASSUME NEW w \in Relay
  PROVE  /\ Advanced(w) \in Relay
         /\ Advanced(w).batch \subseteq w.batch
         /\ Advanced(w).pc \in {"idle", "publish"}
BY DEF Advanced, IdleRelay, Relay, Pcs

\* Marking one row.
LEMMA MarkedRow ==
  ASSUME TypeOK, NEW e \in Saved, NEW status \in {"published", "failed"},
         SetStatus(e, status)
  PROVE  /\ outbox' \in [Events -> Row]
         /\ Saved' = Saved
         /\ \A f \in Events : outbox'[f].status = IF f = e THEN status ELSE outbox[f].status
<1>1. /\ \A f \in Events : f # e => outbox'[f] = outbox[f]
      /\ outbox'[e] = [outbox[e] EXCEPT !.status = status, !.stale = FALSE, !.due = FALSE]
  BY DEF TypeOK, SetStatus, Saved
<1>2. outbox'[e] \in Row /\ outbox'[e].status = status
  <2>1. outbox[e] \in Row
    BY DEF TypeOK, Saved
  <2>2. outbox'[e] = [status |-> status, age |-> outbox[e].age, stale |-> FALSE, due |-> FALSE]
    BY <1>1, <2>1 DEF Row
  <2>3. status \in Statuses
    BY DEF Statuses
  <2>4. QED
    BY <2>1, <2>2, <2>3 DEF Row
<1>3. outbox' \in [Events -> Row]
  BY <1>1, <1>2 DEF TypeOK, SetStatus
<1>4. QED
  BY <1>1, <1>2, <1>3 DEF Saved

-----------------------------------------------------------------------------
(* The relays: the inductive invariant, one step per action.               *)

\* Nothing is saved initially.
LEMMA InitIInv == Init => IInv
<1> SUFFICES ASSUME Init PROVE IInv
  OBVIOUS
<1>1. TypeOK
  BY OutboxAssumption DEF Init, TypeOK, NoRow, Row, Statuses, IdleRelay, Relay, Pcs
<1>2. RelayEvidence /\ PublishedIsInLog
  BY DEF Init, RelayEvidence, PublishedIsInLog, IdleRelay, NoRow
<1>3. QED
  BY <1>1, <1>2 DEF IInv

\* Every step keeps the invariant and is a step of the promise.
LEMMA NextIInv ==
  ASSUME IInv, [Next]_vars
  PROVE  IInv' /\ [Delivery!Next]_Delivery!vars
<1> DEFINE Sent == {e \in Events : InLog(e)}
<1> DEFINE Acked == {e \in Events : outbox[e].status = "published"}
<1> USE DEF IInv
<1>1. ASSUME outbox' \in [Events -> Row], log' = log, relay' \in [Relays -> Relay],
             faults' \in 0..MaxFaults, Saved' = Saved,
             \A e \in Events : outbox'[e].status = "published" <=> outbox[e].status = "published",
             RelayEvidence'
      PROVE  IInv' /\ [Delivery!Next]_Delivery!vars
  <2>1. \A e \in Events : InLog(e)' <=> InLog(e)
    BY <1>1 DEF InLog
  <2>2. TypeOK' /\ PublishedIsInLog'
    BY <1>1, <2>1 DEF TypeOK, PublishedIsInLog
  <2>3. Acked' = Acked /\ Sent' = Sent
    BY <1>1, <2>1
  <2>4. QED
    BY <1>1, <2>2, <2>3 DEF Delivery!vars
<1>2. ASSUME NEW S \in Transactions, Save(S) PROVE IInv' /\ [Delivery!Next]_Delivery!vars
  <2>1. S \subseteq Events /\ log' = log /\ relay' = relay /\ faults' = faults
    BY <1>2, OutboxAssumption DEF Save
  <2>2. Cardinality(Saved) \in Nat
    BY OutboxAssumption, FS_Subset, FS_CardinalityType DEF Saved
  <2>3. ASSUME NEW e \in Events
        PROVE  /\ outbox'[e] \in Row
               /\ outbox'[e].status = IF e \in S THEN "pending" ELSE outbox[e].status
    BY <1>2, <2>2 DEF Save, TypeOK, Row, NoRow, Statuses
  <2>4. outbox' \in [Events -> Row]
    BY <1>2, <2>3 DEF Save
  <2>5. Saved' = Saved \cup S
    BY <2>1, <2>3 DEF Saved
  <2>6. \A e \in Events : (InLog(e)' <=> InLog(e))
                          /\ (outbox'[e].status = "published" <=> outbox[e].status = "published")
    <3>1. \A e \in S : e \in Events /\ outbox[e].status = "absent"
      BY <1>2, <2>1 DEF Save, Saved
    <3>2. \A e \in Events : outbox'[e].status = "published" <=> outbox[e].status = "published"
      BY <2>3, <3>1
    <3>3. \A e \in Events : InLog(e)' <=> InLog(e)
      BY <2>1 DEF InLog
    <3>4. QED
      BY <3>2, <3>3
  <2>7. TypeOK' /\ PublishedIsInLog'
    BY <2>1, <2>4, <2>6 DEF TypeOK, PublishedIsInLog
  <2>8. RelayEvidence'
    BY <2>1, <2>5, <2>6 DEF RelayEvidence, TypeOK, Relay
  <2>9. Acked' = Acked /\ Sent' = Sent
    BY <2>6
  <2>10. S \cap Saved = {} /\ Saved \subseteq Events
    BY <1>2 DEF Save, Saved
  <2>11. CASE S = {}
    BY <2>5, <2>7, <2>8, <2>9, <2>11 DEF Delivery!vars
  <2>12. CASE S # {}
    <3>1. S \in SUBSET (Events \ Saved)
      BY <2>1, <2>10
    <3>2. Delivery!Save
      BY <2>5, <2>9, <2>12, <3>1 DEF Delivery!Save
    <3>3. QED
      BY <2>7, <2>8, <3>2 DEF Delivery!Next
  <2>13. QED
    BY <2>11, <2>12
<1>3. ASSUME NEW r \in Relays, NEW B \in SUBSET Events, Claim(r, B)
      PROVE  IInv' /\ [Delivery!Next]_Delivery!vars
  <2>1. B \subseteq Claimable /\ log' = log
    BY <1>3 DEF Claim, Batch
  <2>2. ASSUME NEW e \in Events
        PROVE  /\ outbox'[e] \in Row
               /\ outbox'[e].status = IF e \in B THEN "publishing" ELSE outbox[e].status
    BY <1>3 DEF Claim, TypeOK, Row, Statuses
  <2>3. outbox' \in [Events -> Row]
    BY <1>3, <2>2 DEF Claim
  <2>4. Saved' = Saved /\ B \subseteq Saved
    BY <2>1, <2>2 DEF Saved, Claimable
  <2>5. \A e \in Events : outbox'[e].status = "published" <=> outbox[e].status = "published"
    BY <2>1, <2>2 DEF Claimable
  <2> DEFINE claimed == [pc |-> "publish", batch |-> B, event |-> NoEvent]
  <2>a. relay' = [relay EXCEPT ![r] = claimed] \/ relay' = relay
    BY <1>3 DEF Claim
  <2>b. claimed \in Relay /\ claimed.batch = B /\ claimed.pc = "publish"
    BY DEF Relay, Pcs
  <2> HIDE DEF claimed
  <2>6. relay' \in [Relays -> Relay]
    BY <2>a, <2>b DEF TypeOK
  <2>7. faults' \in 0..MaxFaults
    BY <1>3, FaultType DEF Claim, TypeOK
  <2>8. \A e \in Events : InLog(e)' <=> InLog(e)
    BY <2>1 DEF InLog
  <2>9. RelayEvidence'
    <3>1. relay \in [Relays -> Relay]
      BY DEF TypeOK
    <3>2. ASSUME NEW q \in Relays
          PROVE  \/ relay'[q] = relay[q]
                 \/ relay'[q].batch = B /\ relay'[q].pc = "publish"
      BY <2>a, <2>b, <3>1
    <3>3. \A q \in Relays : relay[q].pc = "sent" => relay[q].event \in Events
      BY <3>1 DEF RelayEvidence, Relay
    <3>4. QED
      BY <2>4, <2>8, <3>2, <3>3 DEF RelayEvidence
  <2>10. QED
    BY <1>1, <2>1, <2>3, <2>4, <2>5, <2>6, <2>7, <2>9
<1>4. ASSUME NEW r \in Relays, NEW e \in Events, Publish(r, e)
      PROVE  IInv' /\ [Delivery!Next]_Delivery!vars
  <2>1. /\ outbox' = outbox /\ Saved' = Saved /\ e \in Saved /\ e \in relay[r].batch
        /\ relay[r].pc = "publish"
    BY <1>4 DEF Publish, Saved, RelayEvidence
  <2>2. \/ log' = log
        \/ /\ log' \in [Partitions -> Seq(Events)]
           /\ \A f \in Events : InLog(f)' <=> InLog(f) \/ f = e
    BY <1>4, WrittenIsInLog DEF Publish
  <2>3. \/ /\ relay' = [relay EXCEPT ![r].pc = "sent", ![r].event = e]
           /\ \A f \in Events : InLog(f)' <=> InLog(f) \/ f = e
        \/ relay' = [relay EXCEPT ![r].pc = "failed", ![r].event = e]
    BY <1>4, WrittenIsInLog DEF Publish
  <2>a. /\ relay[r] \in Relay /\ relay \in [Relays -> Relay]
        /\ relay'[r] \in {[pc |-> c, batch |-> relay[r].batch, event |-> e] : c \in {"sent", "failed"}}
        /\ \A q \in Relays : q # r => relay'[q] = relay[q]
    BY <2>3 DEF TypeOK, Relay
  <2>b. relay'[r].pc = "sent" => \A f \in Events : InLog(f)' <=> InLog(f) \/ f = e
    BY <2>3, <2>a
  <2>4. relay' \in [Relays -> Relay]
    <3>1. relay'[r] \in Relay
      BY <2>a DEF Relay, Pcs
    <3>2. QED
      BY <2>3, <2>a, <3>1
  <2>5. faults' \in 0..MaxFaults
    BY <1>4, FaultType DEF Publish, TypeOK
  <2>6. \A f \in Events : InLog(f) => InLog(f)'
    BY <2>2 DEF InLog
  <2>7. log' \in [Partitions -> Seq(Events)]
    BY <2>2 DEF TypeOK
  <2>8. TypeOK' /\ PublishedIsInLog'
    BY <2>1, <2>4, <2>5, <2>6, <2>7 DEF TypeOK, PublishedIsInLog
  <2>9. RelayEvidence'
    <3>1. ASSUME NEW q \in Relays
          PROVE  /\ relay'[q].batch \subseteq Saved'
                 /\ relay'[q].pc \in {"sent", "failed"} => relay'[q].event \in relay'[q].batch
                 /\ relay'[q].pc = "sent" =>
                      \E f \in Events : relay'[q].event = f /\ InLog(f)'
      <4>1. CASE q # r
        <5>1. relay'[q] = relay[q] /\ (relay[q].pc = "sent" => relay[q].event \in Events)
          BY <2>a, <4>1 DEF Relay, RelayEvidence
        <5>2. relay[q].pc = "sent" => \E f \in Events : relay[q].event = f /\ InLog(f)'
          BY <2>6, <5>1 DEF RelayEvidence
        <5>3. QED
          BY <2>1, <5>1, <5>2 DEF RelayEvidence
      <4>2. CASE q = r
        <5>1. relay'[r].batch = relay[r].batch /\ relay'[r].event = e
          BY <2>a
        <5>2. relay'[r].pc = "sent" => InLog(e)'
          BY <2>b
        <5>3. QED
          BY <2>1, <4>2, <5>1, <5>2 DEF RelayEvidence
      <4>3. QED
        BY <4>1, <4>2
    <3>2. QED
      BY <3>1 DEF RelayEvidence, InLog
  <2>10. Acked' = Acked
    BY <2>1
  <2>11. Sent' = Sent \/ Sent' = Sent \cup {e}
    BY <2>2 DEF InLog
  <2>12. CASE Sent' = Sent
    BY <2>1, <2>8, <2>9, <2>10, <2>12 DEF Delivery!vars
  <2>13. CASE Sent' = Sent \cup {e}
    BY <2>1, <2>8, <2>9, <2>10, <2>13 DEF Delivery!Next, Delivery!Send
  <2>14. QED
    BY <2>11, <2>12, <2>13
<1>5. ASSUME NEW r \in Relays, Mark(r)
      PROVE  IInv' /\ [Delivery!Next]_Delivery!vars
  <2>e. PICK e \in Saved : e = relay[r].event
    BY <1>5 DEF Mark, RelayEvidence
  <2>s. PICK status \in {"published", "failed"} :
             status = IF relay[r].pc = "sent" THEN "published" ELSE "failed"
    OBVIOUS
  <2>1. log' = log /\ relay[r] \in Relay /\ (status = "published" => InLog(e))
    BY <1>5, <2>e, <2>s DEF Mark, TypeOK, RelayEvidence
  <2>2. relay' = [relay EXCEPT ![r] = Advanced(@)] \/ relay' = [relay EXCEPT ![r] = IdleRelay]
    BY <1>5 DEF Mark
  <2>3. /\ relay' \in [Relays -> Relay]
        /\ relay'[r].batch \subseteq relay[r].batch
        /\ relay'[r].pc \in {"idle", "publish"}
        /\ \A q \in Relays : q # r => relay'[q] = relay[q]
    <3>1. IdleRelay \in Relay /\ IdleRelay.batch = {} /\ IdleRelay.pc = "idle"
      BY DEF IdleRelay, Relay, Pcs
    <3>2. /\ Advanced(relay[r]) \in Relay
          /\ Advanced(relay[r]).batch \subseteq relay[r].batch
          /\ Advanced(relay[r]).pc \in {"idle", "publish"}
      BY <2>1, RestOfBatch
    <3>3. QED
      BY <2>2, <3>1, <3>2 DEF TypeOK
  <2>4. faults' \in 0..MaxFaults
    BY <1>5, FaultType DEF Mark, TypeOK
  <2>5. \A f \in Events : InLog(f)' <=> InLog(f)
    BY <2>1 DEF InLog
  <2>6. ASSUME Saved' = Saved PROVE RelayEvidence'
    BY <2>3, <2>5, <2>6 DEF RelayEvidence, TypeOK, Relay
  <2>7. CASE outbox' = outbox
    <3>1. Saved' = Saved
      BY <2>7 DEF Saved
    <3>2. outbox' \in [Events -> Row]
      BY <2>7 DEF TypeOK
    <3>3. QED
      BY <1>1, <2>1, <2>3, <2>4, <2>6, <2>7, <3>1, <3>2
  <2>8. CASE SetStatus(e, status)
    <3>1. /\ outbox' \in [Events -> Row]
          /\ Saved' = Saved
          /\ \A f \in Events : outbox'[f].status = IF f = e THEN status ELSE outbox[f].status
      BY <2>8, MarkedRow
    <3>2. TypeOK' /\ PublishedIsInLog' /\ RelayEvidence'
      BY <2>1, <2>3, <2>4, <2>5, <2>6, <3>1 DEF TypeOK, PublishedIsInLog
    <3>3. Sent' = Sent
      BY <2>5
    <3>4. e \in Events
      BY <2>1 DEF Saved
    <3>5. CASE status = "published"
      <4>1. Acked' = Acked \cup {e} /\ e \in Sent
        BY <2>1, <3>1, <3>4, <3>5
      <4>2. Delivery!Ack({e})
        BY <3>1, <3>3, <4>1 DEF Delivery!Ack
      <4>3. Delivery!Next
        BY <3>4, <4>2 DEF Delivery!Next
      <4>4. QED
        BY <3>2, <4>3
    <3>6. CASE status = "failed"
      <4>1. Acked' = Acked \ {e}
        BY <3>1, <3>6
      <4>2. Delivery!Retract({e})
        BY <3>1, <3>3, <4>1 DEF Delivery!Retract
      <4>3. Delivery!Next
        BY <3>4, <4>2 DEF Delivery!Next
      <4>4. QED
        BY <3>2, <4>3
    <3>7. QED
      BY <2>1, <3>5, <3>6
  <2>9. QED
    BY <1>5, <2>e, <2>s, <2>7, <2>8 DEF Mark
<1>6. ASSUME NEW r \in Relays, Crash(r)
      PROVE  IInv' /\ [Delivery!Next]_Delivery!vars
  <2>1. outbox' = outbox /\ log' = log /\ Saved' = Saved
    BY <1>6 DEF Crash, Saved
  <2>2. relay' \in [Relays -> Relay]
    BY <1>6 DEF Crash, TypeOK, IdleRelay, Relay, Pcs
  <2>3. faults' \in 0..MaxFaults
    BY <1>6, FaultType DEF Crash, TypeOK
  <2>4. RelayEvidence'
    BY <1>6, <2>1 DEF Crash, RelayEvidence, IdleRelay, TypeOK, InLog
  <2>5. QED
    BY <1>1, <2>1, <2>2, <2>3, <2>4 DEF TypeOK
<1>7. ASSUME NEW e \in Events, Time(e)
      PROVE  IInv' /\ [Delivery!Next]_Delivery!vars
  <2>1. log' = log /\ relay' = relay
    BY <1>7 DEF Time, LockExpires, RetryDue
  <2>2. ASSUME NEW f \in Events
        PROVE  outbox'[f] \in Row /\ outbox'[f].status = outbox[f].status
    BY <1>7 DEF Time, LockExpires, RetryDue, TypeOK, Row
  <2>3. outbox' \in [Events -> Row] /\ Saved' = Saved
    BY <1>7, <2>2 DEF Time, LockExpires, RetryDue, TypeOK, Saved
  <2>4. faults' \in 0..MaxFaults
    BY <1>7, FaultType DEF Time, LockExpires, RetryDue, TypeOK
  <2>5. RelayEvidence'
    BY <2>1, <2>3 DEF RelayEvidence, InLog
  <2>6. QED
    BY <1>1, <2>1, <2>2, <2>3, <2>4, <2>5 DEF TypeOK
<1>8. CASE UNCHANGED vars
  BY <1>1, <1>8 DEF vars, TypeOK, RelayEvidence, Saved, InLog
<1>9. QED
  BY <1>2, <1>3, <1>4, <1>5, <1>6, <1>7, <1>8 DEF Next, RelayStep

-----------------------------------------------------------------------------
(* Duplicates.                                                              *)

\* The relays that may still write e or mark it failed.
Owed(e) ==
  {r \in Relays : e \in relay[r].batch /\ ~(relay[r].pc = "sent" /\ relay[r].event = e)}

\* The row of e may be claimed, now or when time has passed, with no further
\* fault.
Offered(e) ==
  \/ outbox[e].status \in {"absent", "pending", "failed"}
  \/ outbox[e].status = "publishing" /\ (outbox[e].stale \/ ~Held(e))

Offer(e) == IF Offered(e) THEN 1 ELSE 0

\* The copies of e there are, and those that may come without a fault.
Ledger(e) == Copies(e) + Cardinality(Owed(e)) + Offer(e)

IdleHoldsNothing == \A r \in Relays : relay[r].pc = "idle" => relay[r].batch = {}

CopiesArePaid == \A e \in Events : IsFiniteSet(Owed(e)) /\ Ledger(e) <= 1 + faults

CopiesInv == IdleHoldsNothing /\ CopiesArePaid

Places(s, e) == {i \in DOMAIN s : s[i] = e}

\* One record more is one copy more of its event.
LEMMA CopiesOfAppend ==
  ASSUME NEW s \in Seq(Events), NEW e \in Events, NEW f \in Events
  PROVE  /\ Append(s, e) \in Seq(Events)
         /\ Cardinality(Places(s, f)) \in Nat
         /\ Cardinality(Places(Append(s, e), f)) =
              Cardinality(Places(s, f)) + (IF f = e THEN 1 ELSE 0)
<1>1. /\ Append(s, e) \in Seq(Events) /\ Len(s) \in Nat /\ Len(Append(s, e)) = Len(s) + 1
      /\ DOMAIN s = 1..Len(s) /\ DOMAIN Append(s, e) = 1..(Len(s) + 1)
  OBVIOUS
<1>2. /\ \A i \in 1..Len(s) : Append(s, e)[i] = s[i]
      /\ Append(s, e)[Len(s) + 1] = e
  OBVIOUS
<1>3. IsFiniteSet(Places(s, f))
  <2>1. 1 \in Int /\ Len(s) \in Int /\ Places(s, f) \subseteq 1..Len(s)
    BY <1>1 DEF Places
  <2>2. IsFiniteSet(1..Len(s))
    BY <2>1, FS_Interval
  <2>3. QED
    BY <2>1, <2>2, FS_Subset
<1>4. Cardinality(Places(s, f)) \in Nat
  BY <1>3, FS_CardinalityType
<1>5. CASE f = e
  <2>1. Places(Append(s, e), f) = Places(s, f) \cup {Len(s) + 1} /\ Len(s) + 1 \notin Places(s, f)
    BY <1>1, <1>2, <1>5 DEF Places
  <2>2. Cardinality(Places(s, f) \cup {Len(s) + 1}) = Cardinality(Places(s, f)) + 1
    BY <1>3, <2>1, FS_AddElement
  <2>3. QED
    BY <1>1, <1>4, <1>5, <2>1, <2>2
<1>6. CASE f # e
  <2>1. Places(Append(s, e), f) = Places(s, f)
    BY <1>1, <1>2, <1>6 DEF Places
  <2>2. QED
    BY <1>1, <1>4, <1>6, <2>1
<1>7. QED
  BY <1>5, <1>6

LEMMA CopiesFacts ==
  ASSUME TypeOK, NEW e \in Events
  PROVE  /\ Copies(e) = Cardinality(Places(log[Partition[e]], e))
         /\ Copies(e)' = Cardinality(Places(log'[Partition[e]], e))
         /\ Copies(e) \in Nat
         /\ log' = log => Copies(e)' = Copies(e)
<1>1. Partition[e] \in Partitions /\ log[Partition[e]] \in Seq(Events)
  BY OutboxAssumption DEF TypeOK
<1>2. Copies(e) = Cardinality(Places(log[Partition[e]], e))
  BY DEF Copies, Places
<1>3. Copies(e)' = Cardinality(Places(log'[Partition[e]], e))
  BY DEF Copies, Places
<1>4. QED
  BY <1>1, <1>2, <1>3, CopiesOfAppend

\* What a write adds to the copies.
LEMMA CopiesWritten ==
  ASSUME TypeOK, NEW e \in Events, NEW f \in Events
  PROVE  /\ Written(e) => Copies(f)' = Copies(f) + (IF f = e THEN 1 ELSE 0)
         /\ log' = [log EXCEPT ![Partition[e]] = Append(Append(@, e), e)] =>
              Copies(f)' = Copies(f) + (IF f = e THEN 2 ELSE 0)
<1> DEFINE p == Partition[e]
<1>1. /\ p \in Partitions /\ Partition[f] \in Partitions /\ log[p] \in Seq(Events)
      /\ log \in [Partitions -> Seq(Events)]
  BY OutboxAssumption DEF TypeOK
<1>2. CASE Partition[f] # p
  <2>1. f # e
    BY <1>2
  <2>2. Written(e) \/ log' = [log EXCEPT ![p] = Append(Append(@, e), e)] =>
          log'[Partition[f]] = log[Partition[f]]
    BY <1>1, <1>2 DEF Written
  <2>3. QED
    BY <2>1, <2>2, CopiesFacts
<1>3. CASE Partition[f] = p
  <2>1. Written(e) => log'[Partition[f]] = Append(log[p], e)
    BY <1>1, <1>3 DEF Written
  <2>2. log' = [log EXCEPT ![p] = Append(Append(@, e), e)] =>
          log'[Partition[f]] = Append(Append(log[p], e), e)
    BY <1>1, <1>3
  <2>3. /\ Append(log[p], e) \in Seq(Events)
        /\ Cardinality(Places(log[p], f)) \in Nat
        /\ Cardinality(Places(Append(log[p], e), f)) =
             Cardinality(Places(log[p], f)) + (IF f = e THEN 1 ELSE 0)
    BY <1>1, CopiesOfAppend
  <2>4. Cardinality(Places(Append(Append(log[p], e), e), f)) =
          Cardinality(Places(Append(log[p], e), f)) + (IF f = e THEN 1 ELSE 0)
    BY <2>3, CopiesOfAppend
  <2>5. Copies(f) = Cardinality(Places(log[p], f))
        /\ Copies(f)' = Cardinality(Places(log'[Partition[f]], f))
    BY <1>3, CopiesFacts
  <2>6. ASSUME Written(e) PROVE Copies(f)' = Copies(f) + (IF f = e THEN 1 ELSE 0)
    <3>1. log'[Partition[f]] = Append(log[p], e)
      BY <2>1, <2>6
    <3>2. QED
      BY <2>3, <2>5, <3>1
  <2>7. ASSUME log' = [log EXCEPT ![p] = Append(Append(@, e), e)]
        PROVE  Copies(f)' = Copies(f) + (IF f = e THEN 2 ELSE 0)
    <3>1. log'[Partition[f]] = Append(Append(log[p], e), e)
      BY <2>2, <2>7
    <3>2. Copies(f)' = Cardinality(Places(log[p], f)) + (IF f = e THEN 1 ELSE 0)
                         + (IF f = e THEN 1 ELSE 0)
      BY <2>3, <2>4, <2>5, <3>1
    <3>3. QED
      BY <2>3, <2>5, <3>2
  <2>8. QED
    BY <2>6, <2>7
<1>4. QED
  BY <1>2, <1>3

\* Sets of relays grow and shrink by one.
LEMMA OneMoreOrLess ==
  ASSUME NEW S, IsFiniteSet(S), NEW x
  PROVE  /\ IsFiniteSet(S \cup {x}) /\ IsFiniteSet(S \ {x})
         /\ Cardinality(S) \in Nat
         /\ Cardinality(S \cup {x}) \in Nat /\ Cardinality(S \cup {x}) <= Cardinality(S) + 1
         /\ Cardinality(S \ {x}) \in Nat /\ Cardinality(S \ {x}) <= Cardinality(S)
         /\ x \in S => Cardinality(S \ {x}) = Cardinality(S) - 1
<1>1. Cardinality(S) \in Nat
  BY FS_CardinalityType
<1>2. /\ IsFiniteSet(S \cup {x})
      /\ Cardinality(S \cup {x}) = IF x \in S THEN Cardinality(S) ELSE Cardinality(S) + 1
  BY FS_AddElement
<1>3. /\ IsFiniteSet(S \ {x})
      /\ Cardinality(S \ {x}) = IF x \in S THEN Cardinality(S) - 1 ELSE Cardinality(S)
  BY FS_RemoveElement
<1>4. Cardinality(S \ {x}) \in Nat
  BY <1>3, FS_CardinalityType
<1>5. QED
  BY <1>1, <1>2, <1>3, <1>4

\* A step adds c copies and d relays that owe one, and counts n faults.
LEMMA StillPaid ==
  ASSUME TypeOK, CopiesArePaid, NEW f \in Events, NEW r,
         NEW c \in Nat, Copies(f)' = Copies(f) + c,
         NEW n \in {0, 1}, faults' = faults + n,
         NEW d \in {-1, 0, 1},
         \/ d = -1 /\ r \in Owed(f) /\ Owed(f)' = Owed(f) \ {r}
         \/ d = 0 /\ Owed(f)' \in {Owed(f), Owed(f) \ {r}}
         \/ d = 1 /\ Owed(f)' = Owed(f) \cup {r},
         c + d + Offer(f)' <= Offer(f) + n
  PROVE  IsFiniteSet(Owed(f)') /\ Ledger(f)' <= 1 + faults'
<1>1. /\ IsFiniteSet(Owed(f)) /\ Copies(f) \in Nat /\ faults \in Nat
      /\ Offer(f) \in {0, 1} /\ Offer(f)' \in {0, 1}
      /\ Copies(f) + Cardinality(Owed(f)) + Offer(f) <= 1 + faults
  BY CopiesFacts, OutboxAssumption DEF CopiesArePaid, Ledger, Offer, TypeOK
<1>2. /\ IsFiniteSet(Owed(f) \cup {r}) /\ IsFiniteSet(Owed(f) \ {r})
      /\ Cardinality(Owed(f)) \in Nat
      /\ Cardinality(Owed(f) \cup {r}) \in Nat
      /\ Cardinality(Owed(f) \cup {r}) <= Cardinality(Owed(f)) + 1
      /\ Cardinality(Owed(f) \ {r}) \in Nat
      /\ Cardinality(Owed(f) \ {r}) <= Cardinality(Owed(f))
      /\ r \in Owed(f) => Cardinality(Owed(f) \ {r}) = Cardinality(Owed(f)) - 1
  BY <1>1, OneMoreOrLess
<1>3. /\ IsFiniteSet(Owed(f)') /\ Cardinality(Owed(f)') \in Nat
      /\ Cardinality(Owed(f)') <= Cardinality(Owed(f)) + d
  <2>1. CASE Owed(f)' = Owed(f) /\ d = 0
    BY <1>1, <1>2, <2>1
  <2>2. CASE Owed(f)' = Owed(f) \ {r} /\ (d = 0 \/ (d = -1 /\ r \in Owed(f)))
    BY <1>1, <1>2, <2>2
  <2>3. CASE Owed(f)' = Owed(f) \cup {r} /\ d = 1
    BY <1>1, <1>2, <2>3
  <2>4. QED
    BY <2>1, <2>2, <2>3
<1>4. Ledger(f)' = Copies(f)' + Cardinality(Owed(f)') + Offer(f)'
  BY DEF Ledger
<1>5. QED
  BY <1>1, <1>2, <1>3, <1>4

\* Every step keeps the copies paid, one step per action.
LEMMA NextCopies ==
  ASSUME IInv, CopiesInv, [Next]_vars
  PROVE  CopiesInv'
<1> DEFINE Paid(f) == IsFiniteSet(Owed(f)') /\ Ledger(f)' <= 1 + faults'
<1>a. /\ TypeOK /\ CopiesArePaid /\ RelayEvidence
      /\ relay \in [Relays -> Relay] /\ outbox \in [Events -> Row] /\ faults \in Nat
  BY OutboxAssumption DEF IInv, TypeOK, CopiesInv
<1>b. \A f \in Events : Offer(f) \in {0, 1} /\ Offer(f)' \in {0, 1}
  BY DEF Offer
<1>c. ASSUME UNCHANGED <<log, relay, faults>>,
             \A f \in Events : Offered(f)' => Offered(f)
      PROVE  CopiesInv'
  <2>1. IdleHoldsNothing'
    BY <1>c DEF CopiesInv, IdleHoldsNothing
  <2>2. ASSUME NEW f \in Events PROVE Paid(f)
    <3>1. Owed(f)' = Owed(f) /\ Copies(f)' = Copies(f) + 0 /\ faults' = faults + 0
      BY <1>a, <1>c, CopiesFacts DEF Owed
    <3>2. 0 + 0 + Offer(f)' <= Offer(f) + 0
      BY <1>c DEF Offer
    <3>3. QED
      BY <1>a, <3>1, <3>2, StillPaid
  <2>3. QED
    BY <2>1, <2>2 DEF CopiesInv, CopiesArePaid
<1>1. ASSUME NEW S \in Transactions, Save(S) PROVE CopiesInv'
  <2>1. UNCHANGED <<log, relay, faults>>
    BY <1>1 DEF Save
  <2>2. ASSUME NEW f \in Events PROVE Offered(f)' => Offered(f)
    <3>1. CASE f \in S
      BY <1>1, <3>1 DEF Save, Saved, Offered
    <3>2. CASE f \notin S
      <4>1. outbox'[f] = outbox[f]
        BY <1>1, <3>2 DEF Save
      <4>2. QED
        BY <2>1, <4>1 DEF Offered, Held
    <3>3. QED
      BY <3>1, <3>2
  <2>3. QED
    BY <1>c, <2>1, <2>2
<1>2. ASSUME NEW r \in Relays, NEW B \in SUBSET Events, Claim(r, B) PROVE CopiesInv'
  <2> DEFINE claimed == [pc |-> "publish", batch |-> B, event |-> NoEvent]
  <2>1. /\ relay[r].pc = "idle" /\ relay[r].batch = {} /\ B \subseteq Claimable /\ log' = log
        /\ \/ relay' = [relay EXCEPT ![r] = claimed] /\ faults' = faults
           \/ relay' = relay /\ faults' = faults + 1
    BY <1>2 DEF Claim, Batch, Fault, CopiesInv, IdleHoldsNothing
  <2>2. ASSUME NEW f \in B
        PROVE  /\ Offered(f) /\ outbox'[f].status = "publishing" /\ ~outbox'[f].stale
    BY <1>2, <1>a, <2>1 DEF Claim, Claimable, Offered, Row
  <2>3. \A f \in Events \ B : outbox'[f] = outbox[f]
    BY <1>2 DEF Claim
  <2>4. CASE relay' = relay /\ faults' = faults + 1
    <3>1. IdleHoldsNothing'
      BY <2>4 DEF CopiesInv, IdleHoldsNothing
    <3>2. ASSUME NEW f \in Events PROVE Paid(f)
      <4>1. Owed(f)' = Owed(f) /\ Copies(f)' = Copies(f) + 0
        BY <1>a, <2>1, <2>4, CopiesFacts DEF Owed
      <4>2. 0 + 0 + Offer(f)' <= Offer(f) + 1
        BY <1>b
      <4>3. QED
        BY <1>a, <2>4, <4>1, <4>2, StillPaid
    <3>3. QED
      BY <3>1, <3>2 DEF CopiesInv, CopiesArePaid
  <2>5. CASE relay' = [relay EXCEPT ![r] = claimed] /\ faults' = faults
    <3>1. relay'[r] = claimed /\ \A q \in Relays : q # r => relay'[q] = relay[q]
      BY <1>a, <2>5
    <3>2. IdleHoldsNothing'
      BY <3>1 DEF CopiesInv, IdleHoldsNothing
    <3>3. ASSUME NEW f \in Events PROVE Paid(f)
      <4>1. Copies(f)' = Copies(f) + 0 /\ faults' = faults + 0
        BY <1>a, <2>1, <2>5, CopiesFacts
      <4>2. CASE f \in B
        <5>1. Owed(f)' = Owed(f) \cup {r}
          BY <3>1, <4>2 DEF Owed
        <5>2. Held(f)'
          BY <3>1, <4>2 DEF Held
        <5>3. ~Offered(f)' /\ Offered(f)
          BY <2>2, <4>2, <5>2 DEF Offered
        <5>4. 0 + 1 + Offer(f)' <= Offer(f) + 0
          BY <5>3 DEF Offer
        <5>5. QED
          BY <1>a, <4>1, <5>1, <5>4, StillPaid
      <4>3. CASE f \notin B
        <5>1. Owed(f)' = Owed(f)
          BY <2>1, <3>1, <4>3 DEF Owed
        <5>2. Held(f)' <=> Held(f)
          BY <2>1, <3>1, <4>3 DEF Held
        <5>3. Offered(f)' <=> Offered(f)
          BY <2>3, <4>3, <5>2 DEF Offered
        <5>4. 0 + 0 + Offer(f)' <= Offer(f) + 0
          BY <5>3 DEF Offer
        <5>5. QED
          BY <1>a, <4>1, <5>1, <5>4, StillPaid
      <4>4. QED
        BY <4>2, <4>3
    <3>4. QED
      BY <3>2, <3>3 DEF CopiesInv, CopiesArePaid
  <2>6. QED
    BY <2>1, <2>4, <2>5
<1>3. ASSUME NEW r \in Relays, NEW e \in Events, Publish(r, e) PROVE CopiesInv'
  <2>1. /\ relay[r].pc = "publish" /\ e \in relay[r].batch /\ outbox' = outbox
        /\ \A q \in Relays : q # r => relay'[q] = relay[q]
        /\ relay'[r].batch = relay[r].batch /\ relay'[r].event = e
        /\ relay'[r].pc \in {"sent", "failed"}
        /\ relay[r].pc # "sent"
    BY <1>3, <1>a DEF Publish, Relay
  <2>2. \/ Written(e) /\ relay'[r].pc = "sent" /\ faults' = faults
        \/ /\ log' = [log EXCEPT ![Partition[e]] = Append(Append(@, e), e)]
           /\ relay'[r].pc = "sent" /\ faults' = faults + 1
        \/ (Written(e) \/ log' = log) /\ relay'[r].pc = "failed" /\ faults' = faults + 1
    BY <1>3, <1>a DEF Publish, Relay, Fault
  <2>3. IdleHoldsNothing'
    BY <2>1 DEF CopiesInv, IdleHoldsNothing
  <2>4. \A f \in Events : (Offered(f)' <=> Offered(f)) /\ Offer(f)' = Offer(f)
    <3>1. \A f \in Events : Held(f)' <=> Held(f)
      BY <2>1 DEF Held
    <3>2. QED
      BY <2>1, <3>1 DEF Offered, Offer
  <2>5. ASSUME NEW f \in Events \ {e} PROVE Paid(f)
    <3>1. Owed(f)' = Owed(f)
      BY <2>1, <2>5 DEF Owed
    <3>2. Copies(f)' = Copies(f) + 0
      <4>1. Copies(f) \in Nat /\ (log' = log => Copies(f)' = Copies(f))
        BY <1>a, CopiesFacts
      <4>2. /\ Written(e) => Copies(f)' = Copies(f) + 0
            /\ log' = [log EXCEPT ![Partition[e]] = Append(Append(@, e), e)] =>
                 Copies(f)' = Copies(f) + 0
        BY <1>a, <2>5, CopiesWritten
      <4>3. QED
        BY <2>2, <4>1, <4>2
    <3>3. faults' \in {faults + 0, faults + 1}
      BY <1>a, <2>2
    <3>4. Offer(f)' = Offer(f) /\ Offer(f) \in {0, 1}
      BY <1>b, <2>4
    <3>5. CASE faults' = faults + 0
      BY <1>a, <3>1, <3>2, <3>4, <3>5, StillPaid
    <3>6. CASE faults' = faults + 1
      BY <1>a, <3>1, <3>2, <3>4, <3>6, StillPaid
    <3>7. QED
      BY <3>3, <3>5, <3>6
  <2>6. Paid(e)
    <3>1. r \in Owed(e)
      BY <2>1 DEF Owed
    <3>2. Owed(e)' = IF relay'[r].pc = "sent" THEN Owed(e) \ {r} ELSE Owed(e)
      BY <2>1 DEF Owed
    <3>3. Offer(e)' = Offer(e) /\ Offer(e) \in {0, 1}
      BY <1>b, <2>4
    <3>4. CASE Written(e) /\ relay'[r].pc = "sent" /\ faults' = faults
      <4>1. Copies(e)' = Copies(e) + 1 /\ faults' = faults + 0 /\ Owed(e)' = Owed(e) \ {r}
        BY <1>a, <3>2, <3>4, CopiesWritten
      <4>2. 1 + (-1) + Offer(e)' <= Offer(e) + 0
        BY <3>3
      <4>3. QED
        BY <1>a, <3>1, <4>1, <4>2, StillPaid
    <3>5. CASE /\ log' = [log EXCEPT ![Partition[e]] = Append(Append(@, e), e)]
               /\ relay'[r].pc = "sent" /\ faults' = faults + 1
      <4>1. Copies(e)' = Copies(e) + 2 /\ Owed(e)' = Owed(e) \ {r}
        BY <1>a, <3>2, <3>5, CopiesWritten
      <4>2. 2 + (-1) + Offer(e)' <= Offer(e) + 1
        BY <3>3
      <4>3. QED
        BY <1>a, <3>1, <3>5, <4>1, <4>2, StillPaid
    <3>6. CASE (Written(e) \/ log' = log) /\ relay'[r].pc = "failed" /\ faults' = faults + 1
      <4>1. PICK c \in {0, 1} : Copies(e)' = Copies(e) + c
        BY <1>a, <3>6, CopiesFacts, CopiesWritten
      <4>2. Owed(e)' = Owed(e)
        BY <3>2, <3>6
      <4>3. c + 0 + Offer(e)' <= Offer(e) + 1
        BY <3>3, <4>1
      <4>4. QED
        BY <1>a, <3>6, <4>1, <4>2, <4>3, StillPaid
    <3>7. QED
      BY <2>2, <3>4, <3>5, <3>6
  <2>7. QED
    BY <2>3, <2>5, <2>6 DEF CopiesInv, CopiesArePaid
<1>4. ASSUME NEW r \in Relays, relay' = [relay EXCEPT ![r] = IdleRelay], log' = log,
             faults' = faults + 1
      PROVE  CopiesInv'
  <2>1. /\ relay'[r].batch = {} /\ \A q \in Relays : q # r => relay'[q] = relay[q]
    BY <1>4, <1>a DEF IdleRelay
  <2>2. IdleHoldsNothing'
    BY <2>1 DEF CopiesInv, IdleHoldsNothing
  <2>3. ASSUME NEW f \in Events PROVE Paid(f)
    <3>1. Owed(f)' = Owed(f) \ {r}
      BY <2>1 DEF Owed
    <3>2. Copies(f)' = Copies(f) + 0
      BY <1>4, <1>a, CopiesFacts
    <3>3. 0 + 0 + Offer(f)' <= Offer(f) + 1
      BY <1>b
    <3>4. QED
      BY <1>a, <1>4, <3>1, <3>2, <3>3, StillPaid
  <2>4. QED
    BY <2>2, <2>3 DEF CopiesInv, CopiesArePaid
<1>5. ASSUME NEW r \in Relays, Mark(r) PROVE CopiesInv'
  <2>1. CASE relay' = [relay EXCEPT ![r] = IdleRelay] /\ faults' = faults + 1
    BY <1>4, <1>5, <2>1 DEF Mark
  <2>2. CASE relay' = [relay EXCEPT ![r] = Advanced(@)] /\ faults' = faults
    <3>e. PICK e \in Saved : e = relay[r].event
      BY <1>5, <1>a DEF Mark, RelayEvidence
    <3>s. PICK status \in {"published", "failed"} :
               status = IF relay[r].pc = "sent" THEN "published" ELSE "failed"
      OBVIOUS
    <3>1. /\ relay[r].pc \in {"sent", "failed"} /\ e \in relay[r].batch /\ log' = log
      BY <1>5, <1>a, <3>e DEF Mark, RelayEvidence
    <3>2. CASE SetStatus(e, status)
      <4>1. /\ outbox'[e].status = status /\ \A f \in Events \ {e} : outbox'[f] = outbox[f]
        BY <1>a, <3>2 DEF SetStatus, Saved, Row
      <4>2. /\ relay'[r] = Advanced(relay[r]) /\ \A q \in Relays : q # r => relay'[q] = relay[q]
        BY <1>a, <2>2
      <4>3. /\ relay'[r].batch = relay[r].batch \ {e} /\ relay'[r].pc \in {"idle", "publish"}
            /\ relay'[r].pc = "idle" => relay'[r].batch = {}
        BY <3>e, <4>2 DEF Advanced, IdleRelay
      <4>4. IdleHoldsNothing'
        BY <4>2, <4>3 DEF CopiesInv, IdleHoldsNothing
      <4>5. ASSUME NEW f \in Events \ {e} PROVE Paid(f)
        <5>1. Owed(f)' = Owed(f)
          BY <3>1, <3>e, <4>2, <4>3, <4>5 DEF Owed
        <5>2. Held(f)' <=> Held(f)
          BY <4>2, <4>3, <4>5 DEF Held
        <5>3. Offered(f)' <=> Offered(f)
          BY <4>1, <4>5, <5>2 DEF Offered
        <5>4. 0 + 0 + Offer(f)' <= Offer(f) + 0
          BY <5>3 DEF Offer
        <5>5. Copies(f)' = Copies(f) + 0 /\ faults' = faults + 0
          BY <1>a, <2>2, <3>1, CopiesFacts
        <5>6. QED
          BY <1>a, <5>1, <5>4, <5>5, StillPaid
      <4>6. Paid(e)
        <5>1. Owed(e)' = Owed(e) \ {r}
          BY <4>2, <4>3 DEF Owed
        <5>2. e \in Events /\ Copies(e)' = Copies(e) + 0 /\ faults' = faults + 0
          BY <1>a, <2>2, <3>1, CopiesFacts DEF Saved
        <5>3. CASE relay[r].pc = "sent"
          <6>1. ~Offered(e)'
            BY <3>s, <4>1, <5>3 DEF Offered
          <6>2. 0 + 0 + Offer(e)' <= Offer(e) + 0
            BY <6>1 DEF Offer
          <6>3. QED
            BY <1>a, <5>1, <5>2, <6>2, StillPaid
        <5>4. CASE relay[r].pc = "failed"
          <6>1. r \in Owed(e)
            BY <3>1, <5>4 DEF Owed
          <6>2. 0 + (-1) + Offer(e)' <= Offer(e) + 0
            BY <1>b, <5>2
          <6>3. QED
            BY <1>a, <5>1, <5>2, <6>1, <6>2, StillPaid
        <5>5. QED
          BY <3>1, <5>3, <5>4
      <4>7. QED
        BY <4>4, <4>5, <4>6 DEF CopiesInv, CopiesArePaid
    <3>3. QED
      BY <1>a, <1>5, <2>2, <3>e, <3>s, <3>2 DEF Mark, Fault
  <2>3. QED
    BY <1>5, <2>1, <2>2 DEF Mark, Fault
<1>6. ASSUME NEW r \in Relays, Crash(r) PROVE CopiesInv'
  BY <1>4, <1>6 DEF Crash, Fault
<1>7. ASSUME NEW e \in Events, LockExpires(e) PROVE CopiesInv'
  <2>1. /\ outbox[e].status = "publishing" /\ log' = log /\ relay' = relay
        /\ \A f \in Events \ {e} : outbox'[f] = outbox[f]
        /\ \/ Held(e) /\ faults' = faults + 1
           \/ ~Held(e) /\ faults' = faults
    BY <1>7 DEF LockExpires, Fault
  <2>2. \A f \in Events \ {e} : Offered(f)' <=> Offered(f)
    BY <2>1 DEF Offered, Held
  <2>3. CASE ~Held(e) /\ faults' = faults
    <3>1. Offered(e)
      BY <2>1, <2>3 DEF Offered
    <3>2. QED
      BY <1>c, <2>1, <2>2, <2>3, <3>1
  <2>4. CASE Held(e) /\ faults' = faults + 1
    <3>1. IdleHoldsNothing'
      BY <2>1 DEF CopiesInv, IdleHoldsNothing
    <3>2. ASSUME NEW f \in Events PROVE Paid(f)
      <4>1. Owed(f)' = Owed(f) /\ Copies(f)' = Copies(f) + 0
        BY <1>a, <2>1, CopiesFacts DEF Owed
      <4>2. 0 + 0 + Offer(f)' <= Offer(f) + 1
        BY <1>b
      <4>3. QED
        BY <1>a, <2>4, <4>1, <4>2, StillPaid
    <3>3. QED
      BY <3>1, <3>2 DEF CopiesInv, CopiesArePaid
  <2>5. QED
    BY <2>1, <2>3, <2>4
<1>8. ASSUME NEW e \in Events, RetryDue(e) PROVE CopiesInv'
  <2>1. \A f \in Events : Offered(f)' => Offered(f)
    BY <1>8, <1>a DEF RetryDue, Offered, Held, Row
  <2>2. QED
    BY <1>c, <1>8, <2>1 DEF RetryDue
<1>9. CASE UNCHANGED vars
  <2>1. \A f \in Events : Offered(f)' => Offered(f)
    BY <1>9 DEF vars, Offered, Held
  <2>2. QED
    BY <1>c, <1>9, <2>1 DEF vars
<1>10. QED
  BY <1>1, <1>2, <1>3, <1>5, <1>6, <1>7, <1>8, <1>9 DEF Next, RelayStep, Time

\* Nothing is written, owed or held at first.
LEMMA InitCopies == Init => CopiesInv
<1> SUFFICES ASSUME Init PROVE CopiesInv
  OBVIOUS
<1>1. IdleHoldsNothing
  BY DEF Init, IdleHoldsNothing, IdleRelay
<1>2. ASSUME NEW e \in Events PROVE IsFiniteSet(Owed(e)) /\ Ledger(e) <= 1 + faults
  <2>1. Owed(e) = {} /\ faults = 0
    BY DEF Init, Owed, IdleRelay
  <2>2. {i \in DOMAIN log[Partition[e]] : log[Partition[e]][i] = e} = {}
    BY OutboxAssumption DEF Init
  <2>3. Copies(e) = 0 /\ Cardinality(Owed(e)) = 0 /\ IsFiniteSet(Owed(e))
    BY <2>1, <2>2, FS_EmptySet DEF Copies
  <2>4. Offer(e) \in {0, 1}
    BY DEF Offer
  <2>5. QED
    BY <2>1, <2>3, <2>4 DEF Ledger
<1>3. QED
  BY <1>1, <1>2 DEF CopiesInv, CopiesArePaid

-----------------------------------------------------------------------------
(* The theorems about the relays.                                          *)

\* The invariant holds in every reachable state.
THEOREM InvariantHolds == Spec => []IInv
<1>1. Init => IInv
  BY InitIInv
<1>2. IInv /\ [Next]_vars => IInv'
  BY NextIInv
<1>3. QED
  BY <1>1, <1>2, PTL DEF Spec

\* The table, the topics and the relays hold values of their kinds.
THEOREM TypeCorrect == Spec => []TypeOK
<1>1. IInv => TypeOK
  BY DEF IInv
<1>2. QED
  BY <1>1, InvariantHolds, PTL

\* For any number of relays, batch size and faults: MarkOutboxPublished is
\* called only for an event that Kafka holds, however late the relay is.
THEOREM PublishedEventsAreInLog == Spec => []PublishedIsInLog
<1>1. IInv => PublishedIsInLog
  BY DEF IInv
<1>2. QED
  BY <1>1, InvariantHolds, PTL

\* The outbox and its relays implement at-least-once delivery: an event is sent
\* only after it is saved and acknowledged only after it is sent.
THEOREM RelayImplementsDelivery == Spec => ImplementsDelivery
<1>1. Init => Delivery!Init
  <2> SUFFICES ASSUME Init PROVE Delivery!Init
    OBVIOUS
  <2>1. \A e \in Events : outbox[e].status = "absent"
    BY DEF Init, NoRow
  <2>2. \A e \in Events : ~InLog(e)
    BY OutboxAssumption DEF Init, InLog
  <2>3. QED
    BY <2>1, <2>2 DEF Delivery!Init, Saved
<1>2. IInv /\ [Next]_vars => [Delivery!Next]_Delivery!vars
  BY NextIInv
<1>3. Spec => Delivery!Spec
  BY <1>1, <1>2, InvariantHolds, PTL DEF Spec, Delivery!Spec
<1>4. QED
  BY <1>3 DEF ImplementsDelivery

\* An event is in its topic once, and once more per fault at most, for any
\* relays, batch size and faults: relays that poll one table do not both publish
\* a row.
THEOREM DuplicatesAreRare == Spec => []DuplicatesNeedFaults
<1>1. IInv /\ CopiesInv /\ [Next]_vars => CopiesInv'
  BY NextCopies
<1>2. IInv /\ CopiesInv => DuplicatesNeedFaults
  <2> SUFFICES ASSUME IInv, CopiesInv, NEW e \in Events PROVE Copies(e) <= 1 + faults
    BY DEF DuplicatesNeedFaults
  <2>1. IsFiniteSet(Owed(e)) /\ Copies(e) \in Nat /\ faults \in Nat /\ Offer(e) \in {0, 1}
    BY CopiesFacts, OutboxAssumption DEF IInv, TypeOK, CopiesInv, CopiesArePaid, Offer
  <2>2. Cardinality(Owed(e)) \in Nat
    BY <2>1, FS_CardinalityType
  <2>3. Copies(e) + Cardinality(Owed(e)) + Offer(e) <= 1 + faults
    BY DEF CopiesInv, CopiesArePaid, Ledger
  <2>4. QED
    BY <2>1, <2>2, <2>3
<1>3. QED
  BY <1>1, <1>2, InitCopies, InvariantHolds, PTL DEF Spec

-----------------------------------------------------------------------------
(* The pipeline.                                                           *)

\* The sink's constants are as the sink assumes them.
LEMMA SinkAssumptionHolds == SinkFacts!SinkAssumption
BY PipelineAssumption DEF SinkFacts!SinkAssumption, SinkFacts!SinkFaultKinds,
   Sink!SinkFaultKinds

\* The sink of the pipeline is the one the facts are about.
LEMMA SameSink ==
  /\ Sink!Init => SinkFacts!Init
  /\ Sink!Group => SinkFacts!Group
BY DEF Sink!Init, SinkFacts!Init, Sink!EmptyHand, SinkFacts!EmptyHand,
       Sink!Group, SinkFacts!Group, Sink!Rebalance, SinkFacts!Rebalance,
       Sink!Reassign, SinkFacts!Reassign, Sink!SinkFault, SinkFacts!SinkFault,
       Sink!store, SinkFacts!store, Sink!group, SinkFacts!group,
       Sink!Loop, SinkFacts!Loop, Sink!Crash, SinkFacts!Crash, Sink!Drop, SinkFacts!Drop,
       Sink!Fetch, SinkFacts!Fetch, Sink!Insert, SinkFacts!Insert,
       Sink!Reject, SinkFacts!Reject, Sink!DeadLetter, SinkFacts!DeadLetter,
       Sink!Commit, SinkFacts!Commit, Sink!Move, SinkFacts!Move,
       Sink!GiveUp, SinkFacts!GiveUp, Sink!Coordinates, SinkFacts!Coordinates,
       Sink!Stored, SinkFacts!Stored, Sink!Record, SinkFacts!Record,
       Sink!Idle, SinkFacts!Idle

\* Every record the topics hold was saved with a report and is in the partition
\* of its event.
RecordsAreSaved ==
  \A p \in Partitions : \A i \in DOMAIN log[p] :
    log[p][i] \in Saved /\ Partition[log[p][i]] = p

\* Only a record that a topic holds was given up.
DroppedAreRead ==
  \A p \in Partitions : \A i \in Nat : <<p, i>> \in dropped => i \in DOMAIN log[p]

PipelineInv ==
  /\ IInv
  /\ RecordsAreSaved
  /\ SinkFacts!SinkTypeOK
  /\ SinkFacts!SinkInvariant
  /\ DroppedAreRead

\* What a relay writes of an event goes to the end of a partition.
LEMMA WrittenGrows ==
  ASSUME TypeOK, NEW e \in Events,
         \/ Written(e)
         \/ log' = [log EXCEPT ![Partition[e]] = Append(Append(@, e), e)]
  PROVE  \A q \in Partitions :
           /\ \A i \in 1..Len(log[q]) : i \in 1..Len(log'[q]) /\ log'[q][i] = log[q][i]
           /\ \A i \in 1..Len(log'[q]) :
                \/ log'[q][i] = e /\ q = Partition[e]
                \/ i \in 1..Len(log[q]) /\ log'[q][i] = log[q][i]
<1> DEFINE p == Partition[e]
<1>1. log \in [Partitions -> Seq(Events)] /\ log[p] \in Seq(Events) /\ p \in Partitions
  BY OutboxAssumption DEF TypeOK
<1>2. ASSUME NEW t \in Seq(Events)
      PROVE  /\ Append(t, e) \in Seq(Events)
             /\ \A i \in 1..Len(t) : i \in 1..Len(Append(t, e)) /\ Append(t, e)[i] = t[i]
             /\ \A i \in 1..Len(Append(t, e)) :
                  Append(t, e)[i] = e \/ (i \in 1..Len(t) /\ Append(t, e)[i] = t[i])
  <2>1. /\ Append(t, e) \in Seq(Events) /\ Len(Append(t, e)) = Len(t) + 1 /\ Len(t) \in Nat
        /\ Append(t, e)[Len(t) + 1] = e
        /\ \A i \in 1..Len(t) : Append(t, e)[i] = t[i]
    OBVIOUS
  <2>2. QED
    BY <2>1
<1>3. \A q \in Partitions : q # p => log'[q] = log[q]
  BY <1>1 DEF Written
<1>4. CASE Written(e)
  <2>1. log'[p] = Append(log[p], e)
    BY <1>1, <1>4 DEF Written
  <2>2. \A i \in 1..Len(log[p]) : i \in 1..Len(log'[p]) /\ log'[p][i] = log[p][i]
    BY <1>1, <1>2, <2>1
  <2>3. \A i \in 1..Len(log'[p]) :
          log'[p][i] = e \/ (i \in 1..Len(log[p]) /\ log'[p][i] = log[p][i])
    BY <1>1, <1>2, <2>1
  <2>4. QED
    BY <1>3, <2>2, <2>3
<1>5. CASE log' = [log EXCEPT ![p] = Append(Append(@, e), e)]
  <2>1. PICK t \in Seq(Events) : t = Append(log[p], e)
    BY <1>1, <1>2
  <2>2. log'[p] = Append(t, e)
    BY <1>1, <1>5, <2>1
  <2>3. \A i \in 1..Len(log[p]) : i \in 1..Len(log'[p]) /\ log'[p][i] = log[p][i]
    BY <1>1, <1>2, <2>1, <2>2
  <2>4. \A i \in 1..Len(log'[p]) :
          log'[p][i] = e \/ (i \in 1..Len(log[p]) /\ log'[p][i] = log[p][i])
    BY <1>1, <1>2, <2>1, <2>2
  <2>5. QED
    BY <1>3, <2>3, <2>4
<1>6. QED
  BY <1>4, <1>5

\* To the sink, the relays are producers who only let the logs grow; they write
\* what was saved.
LEMMA RelaysProduce ==
  ASSUME IInv, RecordsAreSaved, [Next]_vars, UNCHANGED sinkVars
  PROVE  SinkFacts!Step /\ SinkFacts!LogsGrow /\ RecordsAreSaved'
<1>1. \A q \in Partitions : log[q] \in Seq(Events) /\ DOMAIN log[q] = 1..Len(log[q])
  BY DEF IInv, TypeOK
<1>2. log' \in [Partitions -> Seq(Events)] /\ IInv'
  BY NextIInv DEF IInv, TypeOK
<1>3. \A q \in Partitions : log'[q] \in Seq(Events) /\ DOMAIN log'[q] = 1..Len(log'[q])
  BY <1>2
<1>4. Saved \subseteq Saved'
  <2>1. Saved' = Saved \/ \E S \in SUBSET (Events \ Saved) : Saved' = Saved \cup S
    BY NextIInv DEF Delivery!Next, Delivery!vars, Delivery!Save, Delivery!Send, Delivery!Ack,
                    Delivery!Retract, Delivery!Lose
  <2>2. QED
    BY <2>1
<1>5. \/ log' = log
      \/ \E e \in Saved : \/ Written(e)
                          \/ log' = [log EXCEPT ![Partition[e]] = Append(Append(@, e), e)]
  BY DEF Next, RelayStep, Time, Save, Claim, Publish, Mark, Crash, LockExpires, RetryDue,
         vars, IInv, RelayEvidence
<1>6. /\ \A q \in Partitions : \A i \in 1..Len(log[q]) :
           i \in 1..Len(log'[q]) /\ log'[q][i] = log[q][i]
      /\ RecordsAreSaved'
  <2>1. CASE log' = log
    BY <1>1, <1>4, <2>1 DEF RecordsAreSaved
  <2>2. ASSUME NEW e \in Saved,
               \/ Written(e)
               \/ log' = [log EXCEPT ![Partition[e]] = Append(Append(@, e), e)]
        PROVE  /\ \A q \in Partitions : \A i \in 1..Len(log[q]) :
                    i \in 1..Len(log'[q]) /\ log'[q][i] = log[q][i]
               /\ RecordsAreSaved'
    <3>1. e \in Events /\ TypeOK
      BY DEF Saved, IInv
    <3>2. \A q \in Partitions :
            /\ \A i \in 1..Len(log[q]) : i \in 1..Len(log'[q]) /\ log'[q][i] = log[q][i]
            /\ \A i \in 1..Len(log'[q]) :
                 \/ log'[q][i] = e /\ q = Partition[e]
                 \/ i \in 1..Len(log[q]) /\ log'[q][i] = log[q][i]
      BY <2>2, <3>1, WrittenGrows
    <3>3. ASSUME NEW q \in Partitions, NEW i \in DOMAIN log'[q]
          PROVE  log'[q][i] \in Saved' /\ Partition[log'[q][i]] = q
      BY <1>1, <1>3, <1>4, <3>2 DEF RecordsAreSaved
    <3>4. QED
      BY <3>2, <3>3 DEF RecordsAreSaved
  <2>3. QED
    BY <1>5, <2>1, <2>2
<1>7. SinkFacts!LogsGrow
  BY <1>2, <1>6 DEF SinkFacts!LogsGrow, SinkFacts!group, SinkFacts!store, sinkVars
<1>8. QED
  BY <1>6, <1>7 DEF SinkFacts!Step

\* The sinks only read the topics.
LEMMA SinksRead == SinkFacts!Group => log' = log
BY DEF SinkFacts!Group, SinkFacts!Loop, SinkFacts!Rebalance, SinkFacts!Crash,
       SinkFacts!Fetch, SinkFacts!Insert, SinkFacts!Reject, SinkFacts!DeadLetter,
       SinkFacts!Commit

\* A record in hand is one that a topic holds: it was saved.
LEMMA HandFacts ==
  ASSUME PipelineInv, NEW s \in Sinks, ~SinkFacts!Idle(s)
  PROVE  /\ hand[s].partition \in Partitions
         /\ hand[s].offset \in Nat
         /\ hand[s].offset \in DOMAIN log[hand[s].partition]
         /\ SinkFacts!Record(s) \in Saved /\ SinkFacts!Record(s) \in Events
         /\ Partition[SinkFacts!Record(s)] = hand[s].partition
<1>1. /\ hand[s].partition \in Partitions
      /\ hand[s].offset \in 1..Len(log[hand[s].partition])
  BY DEF PipelineInv, SinkFacts!SinkTypeOK, SinkFacts!Hand
<1>2. /\ DOMAIN log[hand[s].partition] = 1..Len(log[hand[s].partition])
      /\ Len(log[hand[s].partition]) \in Nat
  BY <1>1 DEF PipelineInv, IInv, TypeOK
<1>3. hand[s].offset \in Nat
  BY <1>1, <1>2
<1>4. QED
  BY <1>1, <1>2, <1>3 DEF PipelineInv, RecordsAreSaved, SinkFacts!Record, Saved

\* A sink's step gives up nothing but the record whose insert failed: the relays
\* write no invalid ones.
LEMMA GivesUpInserts ==
  ASSUME PipelineInv, SinkFacts!Group
  PROVE  \/ dropped' = dropped
         \/ \E s \in Sinks : SinkFacts!Insert(s) /\ SinkFacts!GiveUp(s)
<1>1. ASSUME NEW s \in Sinks, SinkFacts!DeadLetter(s) PROVE FALSE
  BY <1>1 DEF SinkFacts!DeadLetter, PipelineInv, SinkFacts!SinkInvariant,
              SinkFacts!HandsAreSound, SinkFacts!Idle
<1>2. QED
  BY <1>1 DEF SinkFacts!Group, SinkFacts!Loop, SinkFacts!Rebalance, SinkFacts!Crash,
       SinkFacts!Fetch, SinkFacts!Insert, SinkFacts!Reject, SinkFacts!Commit, SinkFacts!store

\* Every step of the pipeline keeps its invariant.
LEMMA PipelineInvStep ==
  ASSUME PipelineInv, [PipelineNext]_<<vars, sinkVars>>
  PROVE  PipelineInv' /\ [Next]_vars /\ (UNCHANGED sinkVars \/ Sink!Group)
<1>1. CASE [Next]_vars /\ UNCHANGED sinkVars
  <2>1. IInv' /\ SinkFacts!Step /\ RecordsAreSaved'
    BY <1>1, NextIInv, RelaysProduce DEF PipelineInv
  <2>2. SinkFacts!SinkTypeOK' /\ SinkFacts!SinkInvariant'
    BY <2>1, SinkAssumptionHolds, SinkFacts!StepSinkTypeOK, SinkFacts!StepSinkInvariant
    DEF PipelineInv
  <2>3. DroppedAreRead'
    <3>1. dropped' = dropped
      BY <1>1 DEF sinkVars
    <3>2. \A p \in Partitions : /\ DOMAIN log[p] = 1..Len(log[p])
                                /\ DOMAIN log'[p] = 1..Len(log'[p])
      BY <2>1 DEF PipelineInv, IInv, TypeOK
    <3>3. \A p \in Partitions : \A i \in 1..Len(log[p]) : i \in 1..Len(log'[p])
      BY <1>1, RelaysProduce DEF PipelineInv, SinkFacts!LogsGrow
    <3>4. QED
      BY <3>1, <3>2, <3>3 DEF PipelineInv, DroppedAreRead
  <2>4. QED
    BY <1>1, <2>1, <2>2, <2>3 DEF PipelineInv
<1>2. CASE Sink!Group /\ UNCHANGED <<outbox, relay, faults>>
  <2>1. SinkFacts!Group /\ SinkFacts!Step
    BY <1>2, SameSink DEF SinkFacts!Step
  <2>2. UNCHANGED vars
    BY <1>2, <2>1, SinksRead DEF vars
  <2>3. IInv' /\ RecordsAreSaved'
    BY <2>2, NextIInv DEF PipelineInv, RecordsAreSaved, vars, Saved
  <2>4. SinkFacts!SinkTypeOK' /\ SinkFacts!SinkInvariant'
    BY <2>1, SinkAssumptionHolds, SinkFacts!StepSinkTypeOK, SinkFacts!StepSinkInvariant
    DEF PipelineInv
  <2>5. DroppedAreRead'
    <3>1. CASE dropped' = dropped
      BY <2>2, <3>1 DEF PipelineInv, DroppedAreRead, vars
    <3>2. ASSUME NEW s \in Sinks, SinkFacts!Insert(s), SinkFacts!GiveUp(s)
          PROVE  DroppedAreRead'
      <4>1. ~SinkFacts!Idle(s)
        BY <3>2 DEF SinkFacts!Insert, SinkFacts!Idle
      <4>2. log' = log /\ dropped' = dropped \cup {<<hand[s].partition, hand[s].offset>>}
        BY <2>2, <3>2 DEF vars, SinkFacts!GiveUp, SinkFacts!Coordinates
      <4>3. QED
        BY <4>1, <4>2, HandFacts DEF PipelineInv, DroppedAreRead
    <3>3. QED
      BY <2>1, <3>1, <3>2, GivesUpInserts
  <2>6. QED
    BY <1>2, <2>2, <2>3, <2>4, <2>5 DEF PipelineInv
<1>3. QED
  BY <1>1, <1>2 DEF PipelineNext, vars, sinkVars

\* The pipeline starts empty.
LEMMA PipelineInvInit == PipelineInit => PipelineInv
<1> SUFFICES ASSUME Init, Sink!Init PROVE PipelineInv
  BY DEF PipelineInit
<1>1. IInv
  BY InitIInv
<1>2. SinkFacts!SinkTypeOK /\ SinkFacts!SinkInvariant
  BY SameSink, SinkAssumptionHolds, SinkFacts!InitSinkTypeOK, SinkFacts!InitSinkInvariant
<1>3. DroppedAreRead /\ RecordsAreSaved
  BY DEF Init, Sink!Init, RecordsAreSaved, DroppedAreRead
<1>4. QED
  BY <1>1, <1>2, <1>3 DEF PipelineInv

\* The group has committed only events that have their row or were given up.
LEMMA ConsumedIsStored ==
  PipelineInv => Consumed \subseteq {e \in Events : rows[e] > 0} \cup Skipped
<1> SUFFICES ASSUME PipelineInv, NEW e \in Consumed
             PROVE  e \in Events /\ (rows[e] > 0 \/ e \in Skipped)
  OBVIOUS
<1>1. PICK i \in 1..committed[Partition[e]] : log[Partition[e]][i] = e
  BY DEF Consumed
<1>2. e \in Events /\ Partition[e] \in Partitions
  BY OutboxAssumption DEF Consumed
<1>3. i \in DOMAIN log[Partition[e]]
  <2>1. /\ committed[Partition[e]] \in Nat /\ Len(log[Partition[e]]) \in Nat
        /\ committed[Partition[e]] <= Len(log[Partition[e]])
        /\ DOMAIN log[Partition[e]] = 1..Len(log[Partition[e]])
    BY <1>2 DEF PipelineInv, SinkFacts!SinkTypeOK, IInv, TypeOK
  <2>2. QED
    BY <1>1, <2>1
<1>4. QED
  BY <1>1, <1>2, <1>3 DEF PipelineInv, SinkFacts!SinkInvariant,
     SinkFacts!OnlyFailedAreSkipped, SinkFacts!Settled, SinkFacts!Handled, Skipped

\* So it has after a step.
LEMMA ConsumedIsStoredNext ==
  PipelineInv' => (Consumed \subseteq {e \in Events : rows[e] > 0} \cup Skipped)'
BY ConsumedIsStored, PTL

\* What the group has committed grows and shrinks with its offsets.
LEMMA ConsumedGrows ==
  ASSUME log' = log,
         \A q \in Partitions : /\ committed[q] \in Nat /\ committed'[q] \in Nat
                               /\ committed[q] <= committed'[q]
  PROVE  Consumed \subseteq Consumed'
<1> SUFFICES ASSUME NEW e \in Consumed PROVE e \in Consumed'
  OBVIOUS
<1>1. e \in Events /\ Partition[e] \in Partitions
  BY OutboxAssumption DEF Consumed
<1>2. PICK i \in 1..committed[Partition[e]] : log[Partition[e]][i] = e
  BY DEF Consumed
<1>3. i \in 1..committed'[Partition[e]]
  BY <1>1, <1>2
<1>4. QED
  BY <1>1, <1>2, <1>3 DEF Consumed

LEMMA ConsumedShrinks ==
  ASSUME log' = log,
         \A q \in Partitions : /\ committed[q] \in Nat /\ committed'[q] \in Nat
                               /\ committed'[q] <= committed[q]
  PROVE  Consumed' \subseteq Consumed
<1> SUFFICES ASSUME NEW e \in Consumed' PROVE e \in Consumed
  OBVIOUS
<1>1. e \in Events /\ Partition[e] \in Partitions
  BY OutboxAssumption DEF Consumed
<1>2. PICK i \in 1..committed'[Partition[e]] : log[Partition[e]][i] = e
  BY DEF Consumed
<1>3. i \in 1..committed[Partition[e]]
  BY <1>1, <1>2
<1>4. QED
  BY <1>1, <1>2, <1>3 DEF Consumed

\* A relay step is, to the analytics, a save or nothing.
LEMMA RelayIsSave ==
  ASSUME PipelineInv, [Next]_vars, UNCHANGED sinkVars
  PROVE  [Store!Next]_Store!vars
<1>1. IInv /\ RecordsAreSaved
  BY DEF PipelineInv
<1>2. UNCHANGED <<rows, committed, dropped>>
  BY DEF sinkVars
<1>3. Saved' = Saved \/ \E S \in SUBSET (Events \ Saved) : S # {} /\ Saved' = Saved \cup S
  BY <1>1, NextIInv DEF Delivery!Next, Delivery!vars, Delivery!Save, Delivery!Send,
                        Delivery!Ack, Delivery!Retract, Delivery!Lose
<1>4. Consumed' = Consumed
  <2>1. SinkFacts!Step
    BY <1>1, RelaysProduce
  <2>2. \A p \in Partitions : \A i \in 1..committed[p] : log'[p][i] = log[p][i]
    <3>1. \A p \in Partitions : committed[p] \in Nat /\ Len(log[p]) \in Nat
                                 /\ committed[p] <= Len(log[p])
      BY DEF PipelineInv, SinkFacts!SinkTypeOK
    <3>2. \A p \in Partitions : \A i \in 1..Len(log[p]) : log'[p][i] = log[p][i]
      BY <2>1, SinkAssumptionHolds, SinkFacts!SettledStays DEF PipelineInv
    <3>3. QED
      BY <3>1, <3>2
  <2>3. QED
    BY <1>2, <2>2, OutboxAssumption DEF Consumed
<1>5. Skipped' = Skipped
  <2>1. SinkFacts!LogsGrow
    BY <1>1, RelaysProduce
  <2>2. \A p \in Partitions : /\ DOMAIN log[p] = 1..Len(log[p])
                              /\ DOMAIN log'[p] = 1..Len(log'[p])
    BY <1>1, NextIInv DEF IInv, TypeOK
  <2>3. \A p \in Partitions : \A i \in DOMAIN log[p] :
          i \in DOMAIN log'[p] /\ log'[p][i] = log[p][i]
    BY <2>1, <2>2 DEF SinkFacts!LogsGrow
  <2>4. \A p \in Partitions : \A i \in DOMAIN log'[p] :
          <<p, i>> \in dropped => i \in DOMAIN log[p]
    BY <2>2 DEF PipelineInv, DroppedAreRead
  <2>5. ASSUME NEW e \in Events PROVE e \in Skipped' <=> e \in Skipped
    <3>1. Partition[e] \in Partitions
      BY OutboxAssumption
    <3>2. QED
      BY <1>2, <2>3, <2>4, <3>1 DEF Skipped
  <2>6. QED
    BY <2>5 DEF Skipped
<1>6. QED
  BY <1>2, <1>3, <1>4, <1>5 DEF Store!Next, Store!vars, Store!Save

\* A sink's step sends one event, fails to, acknowledges, retracts, or nothing.
LEMMA SinkIsDelivery ==
  ASSUME PipelineInv, PipelineInv', Sink!Group, UNCHANGED vars
  PROVE  [Store!Next]_Store!vars
<1> DEFINE Stored == {e \in Events : rows[e] > 0}
<1>1. SinkFacts!Group /\ Saved' = Saved /\ log' = log
  BY SameSink DEF vars, Saved
<1>2. /\ rows \in [Events -> Nat]
      /\ Consumed \subseteq Stored \cup Skipped
      /\ Consumed' \subseteq Stored' \cup Skipped'
  <2>1. rows \in [Events -> Nat]
    BY DEF PipelineInv, SinkFacts!SinkTypeOK
  <2>2. QED
    BY <2>1, ConsumedIsStored, ConsumedIsStoredNext
<1>a. dropped' = dropped => Skipped' = Skipped
  BY <1>1 DEF Skipped
<1>3. CASE committed' = committed /\ rows' = rows /\ dropped' = dropped
  BY <1>1, <1>3, <1>a DEF Store!vars, Consumed
<1>4. ASSUME NEW s \in Sinks, SinkFacts!Insert(s), SinkFacts!Stored(SinkFacts!Record(s)),
             dropped' = dropped
      PROVE  [Store!Next]_Store!vars
  <2> DEFINE e == SinkFacts!Record(s)
  <2>1. e \in Events /\ e \in Saved
    <3>1. ~SinkFacts!Idle(s)
      BY <1>4 DEF SinkFacts!Insert, SinkFacts!Idle
    <3>2. QED
      BY <3>1, HandFacts
  <2>2. rows' = [rows EXCEPT ![e] = @ + 1] /\ committed' = committed
    BY <1>4 DEF SinkFacts!Insert, SinkFacts!Stored, SinkFacts!group
  <2> HIDE DEF e
  <2>3. Stored' = Stored \cup {e} /\ Consumed' = Consumed
    BY <1>1, <1>2, <2>1, <2>2 DEF Consumed
  <2>4. Store!Send(e)
    BY <1>1, <1>4, <1>a, <2>1, <2>3 DEF Store!Send
  <2>5. QED
    BY <2>1, <2>4 DEF Store!Next, Store!Send
<1>b. ASSUME NEW s \in Sinks, SinkFacts!Insert(s), SinkFacts!GiveUp(s)
      PROVE  [Store!Next]_Store!vars
  <2> DEFINE e == SinkFacts!Record(s)
  <2>1. /\ hand[s].partition \in Partitions
        /\ hand[s].offset \in Nat
        /\ hand[s].offset \in DOMAIN log[hand[s].partition]
        /\ e \in Saved /\ e \in Events
        /\ Partition[e] = hand[s].partition
    <3>1. ~SinkFacts!Idle(s)
      BY <1>b DEF SinkFacts!Insert, SinkFacts!Idle
    <3>2. QED
      BY <3>1, HandFacts
  <2>2. /\ rows' = [rows EXCEPT ![e] = @ + 1] \/ rows' = rows
        /\ committed' = committed
    BY <1>b DEF SinkFacts!Insert, SinkFacts!Stored, SinkFacts!group
  <2>3. /\ dropped' = dropped \cup {<<hand[s].partition, hand[s].offset>>}
        /\ log[hand[s].partition][hand[s].offset] = e
    BY <1>b DEF SinkFacts!GiveUp, SinkFacts!Coordinates, SinkFacts!Record
  <2> HIDE DEF e
  <2>4. Stored' \in {Stored, Stored \cup {e}} /\ Consumed' = Consumed
    BY <1>1, <1>2, <2>1, <2>2 DEF Consumed
  <2>5. ASSUME NEW f \in Events PROVE f \in Skipped' <=> f \in Skipped \/ f = e
    BY <1>1, <2>1, <2>3 DEF Skipped
  <2>6. Skipped' = Skipped \cup {e}
    <3>1. Skipped \subseteq Events /\ Skipped' \subseteq Events
      BY DEF Skipped
    <3>2. QED
      BY <2>1, <2>5, <3>1
  <2>7. Store!Lose(e)
    BY <1>1, <2>1, <2>4, <2>6 DEF Store!Lose
  <2>8. QED
    BY <2>1, <2>7 DEF Store!Next, Store!Lose
<1>5. ASSUME NEW s \in Sinks, SinkFacts!Commit(s), SinkFacts!Move(s)
      PROVE  [Store!Next]_Store!vars
  <2>0. Skipped' = Skipped
    BY <1>5, <1>a DEF SinkFacts!Commit, SinkFacts!store
  <2>1. rows' = rows
        /\ committed' = [committed EXCEPT ![hand[s].partition] = hand[s].offset]
    BY <1>5 DEF SinkFacts!Commit, SinkFacts!Move, SinkFacts!store
  <2>2. PICK p \in Partitions, o \in Nat : p = hand[s].partition /\ o = hand[s].offset
    BY <1>5 DEF PipelineInv, SinkFacts!SinkTypeOK, SinkFacts!Hand
  <2>3. ASSUME NEW q \in Partitions
        PROVE  committed[q] \in Nat /\ committed'[q] = IF q = p THEN o ELSE committed[q]
    BY <2>1, <2>2 DEF PipelineInv, SinkFacts!SinkTypeOK
  <2>4. Consumed \subseteq Consumed' \/ Consumed' \subseteq Consumed
    <3>1. CASE committed[p] <= o
      <4>1. \A q \in Partitions : /\ committed[q] \in Nat /\ committed'[q] \in Nat
                                   /\ committed[q] <= committed'[q]
        BY <2>3, <3>1
      <4>2. QED
        BY <1>1, <4>1, ConsumedGrows
    <3>2. CASE o <= committed[p]
      <4>1. \A q \in Partitions : /\ committed[q] \in Nat /\ committed'[q] \in Nat
                                   /\ committed'[q] <= committed[q]
        BY <2>3, <3>2
      <4>2. QED
        BY <1>1, <4>1, ConsumedShrinks
    <3>3. QED
      BY <2>3, <3>1, <3>2
  <2>5. /\ Consumed' \subseteq Stored \cup Skipped
        /\ Consumed \subseteq Events /\ Consumed' \subseteq Events
    BY <1>2, <2>0, <2>1 DEF Consumed
  <2>6. CASE Consumed \subseteq Consumed'
    <3>1. Store!Ack(Consumed')
      BY <1>1, <2>0, <2>1, <2>5, <2>6 DEF Store!Ack
    <3>2. QED
      BY <2>5, <3>1 DEF Store!Next
  <2>7. CASE Consumed' \subseteq Consumed
    <3>1. Store!Retract(Consumed \ Consumed')
      BY <1>1, <2>0, <2>1, <2>7 DEF Store!Retract
    <3>2. Consumed \ Consumed' \in SUBSET Events
      BY <2>5
    <3>3. QED
      BY <3>1, <3>2 DEF Store!Next
  <2>8. QED
    BY <2>4, <2>6, <2>7
<1>6. \/ committed' = committed /\ rows' = rows /\ dropped' = dropped
      \/ \E s \in Sinks : /\ SinkFacts!Insert(s) /\ SinkFacts!Stored(SinkFacts!Record(s))
                          /\ dropped' = dropped
      \/ \E s \in Sinks : SinkFacts!Insert(s) /\ SinkFacts!GiveUp(s)
      \/ \E s \in Sinks : SinkFacts!Commit(s) /\ SinkFacts!Move(s)
  BY <1>1, GivesUpInserts
  DEF SinkFacts!Group, SinkFacts!Loop, SinkFacts!Rebalance, SinkFacts!Reassign,
      SinkFacts!Crash, SinkFacts!Fetch, SinkFacts!Insert, SinkFacts!Reject,
      SinkFacts!DeadLetter, SinkFacts!Commit, SinkFacts!store, SinkFacts!group
<1>7. QED
  BY <1>3, <1>4, <1>b, <1>5, <1>6

-----------------------------------------------------------------------------
(* The theorems about the pipeline.                                        *)

\* The pipeline keeps its invariant through the death of relays and sinks, failed
\* calls, inserts included, and rebalances.
THEOREM PipelineInvHolds == PipelineSpec => []PipelineInv
<1>1. PipelineInv /\ [PipelineNext]_<<vars, sinkVars>> => PipelineInv'
  BY PipelineInvStep
<1>2. QED
  BY <1>1, PipelineInvInit, PTL DEF PipelineSpec

\* An event the relays consider published has its row, or a record the group has
\* not committed yet, unless an insert of that event failed.
THEOREM PublishedIsStoredOrAhead == PipelineSpec => []PublishedIsNotForgotten
<1>1. PipelineInv => PublishedIsNotForgotten
  <2> SUFFICES ASSUME PipelineInv, NEW e \in Events, outbox[e].status = "published",
                      ~(rows[e] > 0), e \notin Skipped
               PROVE  \E i \in DOMAIN log[Partition[e]] :
                        log[Partition[e]][i] = e /\ i > committed[Partition[e]]
    BY DEF PublishedIsNotForgotten
  <2>1. PICK i \in DOMAIN log[Partition[e]] : log[Partition[e]][i] = e
    BY DEF PipelineInv, IInv, PublishedIsInLog, InLog
  <2>2. /\ Partition[e] \in Partitions /\ committed[Partition[e]] \in Nat
        /\ i \in 1..Len(log[Partition[e]]) /\ Len(log[Partition[e]]) \in Nat
    BY <2>1, OutboxAssumption DEF PipelineInv, IInv, TypeOK, SinkFacts!SinkTypeOK
  <2>3. e \notin Consumed
    BY ConsumedIsStored
  <2>4. i \notin 1..committed[Partition[e]]
    BY <2>1, <2>3 DEF Consumed
  <2>5. QED
    BY <2>1, <2>2, <2>4
<1>2. QED
  BY <1>1, PipelineInvHolds, PTL

\* Relays and sinks together implement delivery from a saved report to a row, at
\* least once but for failed inserts: a row stands for a saved event, and the
\* group commits an event only when its row is there or an insert of it failed.
THEOREM PipelineDelivers == PipelineSpec => PipelineImplementsDelivery
<1>1. PipelineInit => Store!Init
  BY OutboxAssumption DEF PipelineInit, Init, Sink!Init, Store!Init, Saved, NoRow, Consumed,
              Skipped
<1>2. PipelineInv /\ PipelineInv' /\ [PipelineNext]_<<vars, sinkVars>>
        => [Store!Next]_Store!vars
  <2> SUFFICES ASSUME PipelineInv, PipelineInv', [PipelineNext]_<<vars, sinkVars>>
               PROVE  [Store!Next]_Store!vars
    OBVIOUS
  <2>1. CASE UNCHANGED sinkVars
    BY <2>1, PipelineInvStep, RelayIsSave
  <2>2. CASE Sink!Group /\ UNCHANGED <<outbox, relay, faults>>
    <3>1. UNCHANGED vars
      BY <2>2, SameSink, SinksRead DEF vars
    <3>2. QED
      BY <2>2, <3>1, SinkIsDelivery
  <2>3. QED
    BY <2>1, <2>2 DEF PipelineNext, vars, sinkVars
<1>3. PipelineSpec => Store!Spec
  BY <1>1, <1>2, PipelineInvHolds, PTL DEF PipelineSpec, Store!Spec
<1>4. QED
  BY <1>3 DEF PipelineImplementsDelivery

=============================================================================
