---------------------------- MODULE MCLiveGateway ----------------------------
(* LiveGateway for TLC: slots and callers are interchangeable.             *)
EXTENDS LiveGateway, TLC

Symmetry == Permutations(Socket) \cup Permutations(Caller)
=============================================================================
