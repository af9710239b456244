----------------------------- MODULE MCEventSink -----------------------------
(* Instances of EventSink for TLC.                                           *)
EXTENDS EventSink

\* The faults after which the loop drops a record it has not dealt with.
LoopFaults == {"insert", "dlq"}
AllSinkFaults == SinkFaultKinds
=============================================================================
