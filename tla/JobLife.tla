------------------------------- MODULE JobLife -------------------------------
(***************************************************************************)
(* What a reader of the job list may expect of an analysis job: it waits,  *)
(* runs and ends, in this order and once. A job may stay where it is for   *)
(* ever, and the installation may lose all its jobs together. Some jobs    *)
(* may be there from the start.                                            *)
(***************************************************************************)
CONSTANT Jobs

VARIABLE status

Ends == {"completed", "failed"}
Statuses == {"absent", "queued", "running"} \cup Ends

Init == status \in [Jobs -> Statuses]

Become(j, from, to) ==
  /\ status[j] = from
  /\ status' = [status EXCEPT ![j] = to]

Submit(j) == Become(j, "absent", "queued")

Begin(j) == Become(j, "queued", "running")

End(j) == \E end \in Ends : Become(j, "running", end)

Forget == status' = [j \in Jobs |-> "absent"]

Next ==
  \/ \E j \in Jobs : Submit(j) \/ Begin(j) \/ End(j)
  \/ Forget

Spec == Init /\ [][Next]_status
==============================================================================
