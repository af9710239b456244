----------------------------- MODULE MCLocalJobs -----------------------------
(* Two jobs beside one that an earlier process left, on pages of one job.   *)
EXTENDS JobPages

MCLeft == {Running}
==============================================================================
