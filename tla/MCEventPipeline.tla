--------------------------- MODULE MCEventPipeline ---------------------------
(* Instances of EventPipeline for TLC: two runs of one VOD.                  *)
EXTENDS EventPipeline

CONSTANTS e1, e2

MCTransactions == {{e1}, {e2}}
MCPartition == [e \in Events |-> "processing"]
RelayFaults == {"rpc", "crash", "slow"}
GroupFaults == {"insert", "commit", "rebalance", "crash"}
=============================================================================
