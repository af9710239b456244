--------------------------- MODULE MCWebStartup ---------------------------
(* Two processes of different versions, two tabs of a browser and two *)
(* addresses.                                                         *)
EXTENDS WebStartup, TLC

CONSTANTS w1, w2, b1

MCKnown == [p \in {w1, w2} |-> IF p = w1 THEN 1 ELSE 2]

MCBrowserOf == [tab \in Tabs |-> b1]

Symmetry == Permutations(Tabs)
===========================================================================
