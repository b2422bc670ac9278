---------------------------- MODULE MCEventFeed ----------------------------
(* EventFeed for TLC: two messages of the assistant in two sessions, or one *)
(* of them the user's.                                                      *)
EXTENDS EventFeed, TLC

CONSTANTS m1, m2, s1, s2

MCSessionOf == m1 :> s1 @@ m2 :> s2
=============================================================================
