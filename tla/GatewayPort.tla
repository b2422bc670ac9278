----------------------------- MODULE GatewayPort -----------------------------
(***************************************************************************)
(* What the API routes may rely on when they use the GatewayPort interface *)
(* of apps/api/src/gateway.ts: a port that is linking, ready or blocked,   *)
(* and calls of request() that are accepted only while it is ready and     *)
(* whose promises are settled, all of them, when it stops being ready.     *)
(***************************************************************************)
CONSTANT Caller          \* routes that may have one call outstanding each

VARIABLES
    mode,                \* what getState() reports
    outstanding          \* callers whose promise is unsettled

vars == <<mode, outstanding>>

Init == mode = "new" /\ outstanding = {}

\* createLiveGateway starts the first attempt.
Dial == mode = "new" /\ mode' = "linking" /\ UNCHANGED outstanding

\* A negotiation ends with all the required scopes, or without them.
Negotiate ==
    /\ mode = "linking"
    /\ mode' \in {"ready", "blocked"}
    /\ UNCHANGED outstanding

\* The link is lost: every outstanding call is rejected.
Lose ==
    /\ mode \in {"ready", "blocked"}
    /\ mode' = "linking"
    /\ outstanding' = {}

Submit(c) ==
    /\ mode = "ready" /\ c \notin outstanding
    /\ outstanding' = outstanding \cup {c}
    /\ UNCHANGED mode

Answer(c) ==
    /\ mode = "ready" /\ c \in outstanding
    /\ outstanding' = outstanding \ {c}
    /\ UNCHANGED mode

\* close(): no call is accepted any more.
Shut ==
    /\ mode \notin {"new", "shut"}
    /\ mode' = "shut"
    /\ outstanding' = {}

\* The API process ends, and the calls with it; another one takes its place.
Restart ==
    /\ mode # "new"
    /\ mode' = "new"
    /\ outstanding' = {}

Next == Dial \/ Negotiate \/ Lose \/ Shut \/ Restart \/ \E c \in Caller : Submit(c) \/ Answer(c)

SafeSpec == Init /\ [][Next]_vars

\* No call is left unsettled for ever.
Spec == SafeSpec /\ \A c \in Caller : WF_vars(Answer(c) \/ (c \in outstanding /\ Lose))
=============================================================================
