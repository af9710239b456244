---------------------------- MODULE MCOutboxRelay ----------------------------
(* Instances of OutboxRelay for TLC: two runs of one VOD, whose events go to *)
(* the processing and the lifecycle topic.                                   *)
EXTENDS OutboxRelay

CONSTANTS e1, e2, e3

MCTransactions == {{e1, e2}, {e3}}
MCPartition == [e \in Events |-> IF e = e2 THEN "lifecycle" ELSE "processing"]
AllFaults == FaultKinds
=============================================================================
