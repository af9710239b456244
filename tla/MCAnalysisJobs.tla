--------------------------- MODULE MCAnalysisJobs ---------------------------
(* Instances of AnalysisJobs for TLC.                                       *)
EXTENDS AnalysisJobs

AllFaults == FaultKinds
NoFaults == {}
=============================================================================
