--------------------------- MODULE MCWorkspace ---------------------------
(* Workspace for TLC: two days, two calls at a time.                      *)
EXTENDS Workspace

CONSTANTS c1, c2

MCSlot == {c1, c2}

\* Bound: the server begins with no day or with all; Purge reaches what lies between.
MCInit == Init /\ listed \in {{}, Day}
MCSpec == MCInit /\ [][Next]_vars /\ Fairness
==========================================================================
