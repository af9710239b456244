---------------------------- MODULE EventPipeline ----------------------------
(***************************************************************************)
(* From the outbox to ClickHouse: the relays write the topics that the     *)
(* sinks read.  The two share the log and nothing else.                    *)
(***************************************************************************)
EXTENDS OutboxRelay

CONSTANTS Sinks, SinkFaults, MaxSinkFaults

VARIABLES committed, owner, position, hand, rows, dead, dropped, sinkFaults

sinkVars == <<committed, owner, position, hand, rows, dead, dropped, sinkFaults>>

\* The relays publish valid envelopes, and nothing else bounds the log.
Sink == INSTANCE EventSink WITH Invalid <- {}, MaxLog <- 0

ASSUME PipelineAssumption ==
  /\ Partitions # {}
  /\ SinkFaults \subseteq Sink!SinkFaultKinds
  /\ MaxSinkFaults \in Nat

PipelineInit == Init /\ Sink!Init

PipelineNext ==
  \/ Next /\ UNCHANGED sinkVars
  \/ Sink!Group /\ UNCHANGED <<outbox, relay, faults>>

PipelineSpec == PipelineInit /\ [][PipelineNext]_<<vars, sinkVars>>

FairPipelineSpec ==
  /\ PipelineSpec
  /\ \A r \in Relays : WF_vars(RelayStep(r) /\ UNCHANGED sinkVars)
  /\ \A e \in Events : WF_vars(Time(e) /\ ~Held(e) /\ UNCHANGED sinkVars)
  /\ \A s \in Sinks : WF_sinkVars(Sink!Loop(s) /\ UNCHANGED <<outbox, relay, faults>>)

-----------------------------------------------------------------------------
(* Properties.                                                              *)

\* Events of which the group has committed a record.
Consumed ==
  {e \in Events : \E i \in 1..committed[Partition[e]] : log[Partition[e]][i] = e}

\* Events of which some insert failed: the loop went on with the next record.
Skipped ==
  {e \in Events : \E i \in DOMAIN log[Partition[e]] :
     log[Partition[e]][i] = e /\ <<Partition[e], i>> \in dropped}

\* To the analytics, the pipeline is at-least-once delivery again but for failed
\* inserts: a row stands for an event committed with its report, and the group
\* commits an event only when its row is there or an insert of it has failed.
Store == INSTANCE EventDelivery WITH
  saved <- Saved,
  sent <- {e \in Events : rows[e] > 0},
  acked <- Consumed,
  lost <- Skipped

PipelineImplementsDelivery == Store!Spec

\* Every event saved with a report gets its row although relays and sinks die,
\* publishes, marks and commits fail and the group rebalances: only an event of
\* which an insert into ClickHouse failed may be without one, as the loop of the
\* sink goes on with the next record and its commit passes the failed one.
EveryEventIsSettled == Store!LiveSpec

\* An event the relays consider published is stored or will be read again: it
\* is not behind the committed offset without a row, unless an insert of that
\* very event failed.
PublishedIsNotForgotten ==
  \A e \in Events :
    outbox[e].status = "published" =>
      \/ rows[e] > 0
      \/ e \in Skipped
      \/ \E i \in DOMAIN log[Partition[e]] :
           log[Partition[e]][i] = e /\ i > committed[Partition[e]]

=============================================================================
