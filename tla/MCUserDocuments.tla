-------------------------- MODULE MCUserDocuments --------------------------
(* Two assessments of the same window and feedback on it, a correction of  *)
(* another document, and a list of the review.                             *)
EXTENDS UserDocuments, TLC

CONSTANTS a1, a2, f1, c1, l1, review, notes, w1

Ops == (a1 :> "assess") @@ (a2 :> "assess") @@ (f1 :> "feedback")
         @@ (c1 :> "correct") @@ (l1 :> "list")
Docs == [r \in Requests |-> IF r = c1 THEN notes ELSE review]
Places == [r \in Requests |-> w1]
=============================================================================
