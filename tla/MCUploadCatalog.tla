--------------------------- MODULE MCUploadCatalog ---------------------------
(* Instances of UploadCatalog for TLC. *)
EXTENDS UploadCatalog

CONSTANTS e1, e2, d1, d2, v1, a1, a2

MCHostOf == [a \in Analyses |-> "worker"]
=============================================================================
