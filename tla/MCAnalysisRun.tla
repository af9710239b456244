---------------------------- MODULE MCAnalysisRun ----------------------------
(* Instances of AnalysisRun for TLC.                                         *)
EXTENDS AnalysisRun

\* Every job has the same run ID: chosen by the user, or two submissions within
\* a second.
SameRunID == [j \in Jobs |-> CHOOSE i \in RunIDs : TRUE]

AllFaults == FaultKinds
=============================================================================
