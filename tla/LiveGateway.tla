----------------------------- MODULE LiveGateway -----------------------------
(***************************************************************************)
(* The API's connection to the OpenClaw gateway: class LiveGateway of      *)
(* apps/api/src/live-gateway.ts.                                           *)
(*                                                                         *)
(* One step is one macrotask of the Node event loop together with the      *)
(* microtasks it leaves behind: a timer callback, a WebSocket event, or a  *)
(* call from an API route, followed by every promise continuation it       *)
(* settles.  Each call of openAndNegotiate creates one socket, so the call *)
(* is named by its socket and phase[s] says what it awaits.  Nothing       *)
(* cancels such a call: it may outlive the socket it opened, which is      *)
(* where the interleavings come from.                                      *)
(*                                                                         *)
(* Time: a timer may fire at any moment, with one exception.  The delay of *)
(* the reconnect timer doubles with every failure; from SlowAfter failures *)
(* on it is longer than timeoutMs, so the timers that were running when it *)
(* was armed fire before it does.                                          *)
(*                                                                         *)
(* Left out: the contents of events, timestamps, and the counters and      *)
(* fields of the state that are only reported.                             *)
(***************************************************************************)
EXTENDS Naturals, FiniteSets

CONSTANTS
    Socket,           \* slots for WebSocket objects and the attempts that opened them
    Caller,           \* API routes that may have one control request outstanding each
    None,             \* no socket, or a request of the gateway client itself
    PlanLength,       \* length of buildReconnectPlan (6 in the code)
    Threshold,        \* serviceRecovery.failureThreshold (5 by default)
    SlowAfter,        \* failures from which the reconnect delay exceeds timeoutMs (3)
    RecoveryEnabled,  \* serviceRecovery.enabled
    MaxFaults         \* bound: how often the gateway or the network misbehaves

ASSUME SocketAssumption    == IsFiniteSet(Socket) /\ None \notin Socket
ASSUME CallerAssumption    == None \notin Caller /\ Caller \cap Socket = {}
ASSUME PlanAssumption      == PlanLength \in Nat \ {0}
ASSUME ThresholdAssumption == Threshold \in Nat \ {0}
ASSUME BackoffAssumption   == SlowAfter \in Nat
ASSUME RecoveryAssumption  == RecoveryEnabled \in BOOLEAN
ASSUME FaultAssumption     == MaxFaults \in Nat

VARIABLES
    \* --- fields of the LiveGateway object ---
    launched,        \* start() has been called
    boot,            \* the attempt start() awaits; None before and after
    closed,          \* this.closed
    ws,              \* this.ws
    status,          \* state.connectionStatus
    canIssue,        \* state.canIssueControlActions
    reconnectTimer,  \* "off", or armed with a delay "short" or "long" against timeoutMs
    heartbeat,       \* heartbeatTimer is armed
    pending,         \* this.pending, the requests whose promise is unsettled
    failures,        \* consecutiveFailures, counted up to FailureCap
    windowElapsed,   \* minFailureWindowMs has passed since firstFailureAtMs
    cooling,         \* now < serviceRecovery.nextAllowedAt
    \* --- sockets and the calls of openAndNegotiate ---
    net,             \* readyState of each socket
    listening,       \* sockets that still have their event listeners
    phase,           \* what the call that opened the socket awaits
    \* --- the gateway at the other end ---
    granted,         \* sockets on which the gateway granted all required scopes
    faults           \* faults left in the budget

linkVars  == <<ws, status, canIssue>>
timerVars == <<reconnectTimer, heartbeat>>
retryVars == <<failures, windowElapsed, cooling>>
vars == <<launched, boot, closed, linkVars, timerVars, pending, retryVars,
          net, listening, phase, granted, faults>>

\* "hung": the socket looks open, but the gateway process answers nothing more.
NetState == {"free", "connecting", "open", "hung", "closing"}
Phase    == {"idle", "challenge", "hello", "plan", "recover"}

\* A pending request: who awaits it, the socket it was sent on, and how much of
\* the plan is left with it.
Request ==
    [kind : {"connect", "plan"}, by : Socket, on : Socket, left : 0 .. PlanLength]
      \cup [kind : {"health"}, by : {None}, on : Socket, left : {0}]
      \cup [kind : {"app"}, by : Caller, on : Socket, left : {0}]

\* Beyond this count no condition of the code tells two numbers apart.
FailureCap == IF Threshold >= SlowAfter THEN Threshold ELSE SlowAfter

TypeOK ==
    /\ launched \in BOOLEAN /\ closed \in BOOLEAN
    /\ boot \in Socket \cup {None}
    /\ ws \in Socket \cup {None}
    /\ status \in {"disconnected", "connecting", "connected"}
    /\ canIssue \in BOOLEAN
    /\ reconnectTimer \in {"off", "short", "long"} /\ heartbeat \in BOOLEAN
    /\ pending \subseteq Request
    /\ failures \in 0 .. FailureCap
    /\ windowElapsed \in BOOLEAN /\ cooling \in BOOLEAN
    /\ net \in [Socket -> NetState]
    /\ listening \subseteq Socket
    /\ phase \in [Socket -> Phase]
    /\ granted \subseteq Socket
    /\ faults \in 0 .. MaxFaults

Init ==
    /\ launched = FALSE /\ boot = None /\ closed = FALSE
    /\ ws = None /\ status = "disconnected" /\ canIssue = FALSE
    /\ reconnectTimer = "off" /\ heartbeat = FALSE
    /\ pending = {}
    /\ failures = 0 /\ windowElapsed = FALSE /\ cooling = FALSE
    /\ net = [s \in Socket |-> "free"]
    /\ listening = {}
    /\ phase = [s \in Socket |-> "idle"]
    /\ granted = {}
    /\ faults = MaxFaults

-----------------------------------------------------------------------------
(* Counting failures and backing off.                                      *)

Capped(n) == IF n >= FailureCap THEN FailureCap ELSE n

\* Mutant of Delay: the delay does not grow.
ConstantDelay(n) == "short"

\* reconnectDelayMs after n consecutive failures.
Delay(n) == IF n >= SlowAfter THEN "long" ELSE "short"

\* Mutants of Scheduled: it gives up after so many failures; it ignores this.closed.
GivesUp(n)             == IF closed \/ reconnectTimer # "off" \/ n >= FailureCap
                          THEN reconnectTimer ELSE Delay(n)
SchedulesWhenClosed(n) == IF reconnectTimer # "off" THEN reconnectTimer ELSE Delay(n)

\* The reconnect timer after scheduleReconnect, with n failures counted.
Scheduled(n) == IF closed \/ reconnectTimer # "off" THEN reconnectTimer ELSE Delay(n)

-----------------------------------------------------------------------------
(* Requests.                                                               *)

ConnectRequest(s)    == [kind |-> "connect", by |-> s, on |-> ws, left |-> 0]
PlanRequest(s, n)    == [kind |-> "plan", by |-> s, on |-> ws, left |-> n]
HealthRequest        == [kind |-> "health", by |-> None, on |-> ws, left |-> 0]
AppRequest(c)        == [kind |-> "app", by |-> c, on |-> ws, left |-> 0]

Connects(reqs) == {r \in reqs : r.kind = "connect"}

\* Mutant of Owners: plan requests are dropped, but not rejected.
OwnersOfConnect(reqs) == {r.by : r \in Connects(reqs)}

\* The attempts that await a request of reqs: rejecting it makes them fail.
Owners(reqs) == {r.by : r \in {q \in reqs : q.kind \in {"connect", "plan"}}}

\* The checks request() makes before it sends.
SocketOpen == ws # None /\ net[ws] \in {"open", "hung"}
MaySendControl == status = "connected" /\ canIssue /\ SocketOpen

\* handleFrame accepts a frame from the current socket only.
Answerable(r) == r \in pending /\ r.on = ws /\ net[r.on] = "open"

SpendFault == faults > 0 /\ faults' = faults - 1

\* A timer fires before an answer that could still come: a slow gateway.
LateIf(possible) == IF possible THEN SpendFault ELSE UNCHANGED faults

-----------------------------------------------------------------------------
(* Losing the link.                                                        *)

\* Mutants of DropLink: one of the assignments is missing, or calls are not rejected.
DropLinkKeepsControl ==
    /\ heartbeat' = FALSE /\ pending' = {} /\ listening' = listening \ {ws}
    /\ ws' = None /\ status' = "connecting" /\ canIssue' = canIssue

DropLinkKeepsSocket ==
    /\ heartbeat' = FALSE /\ pending' = {} /\ listening' = listening \ {ws}
    /\ ws' = ws /\ status' = "connecting" /\ canIssue' = FALSE

DropLinkKeepsCalls ==
    /\ heartbeat' = FALSE /\ pending' = {r \in pending : r.kind = "app"}
    /\ listening' = listening \ {ws}
    /\ ws' = None /\ status' = "connecting" /\ canIssue' = FALSE

\* What recordDisconnect and recordConnectionFailure do to the current link,
\* whichever attempt or socket the error came from.
DropLink ==
    /\ heartbeat' = FALSE
    /\ pending' = {}
    /\ listening' = listening \ {ws}
    /\ ws' = None
    /\ status' = "connecting"
    /\ canIssue' = FALSE

\* Mutant of MayRestart: without the condition on failureWindowMs.
MayRestartAtOnce(a, A, first, recoverable) ==
    /\ RecoveryEnabled /\ a # boot /\ ~cooling /\ recoverable
    /\ failures + (IF a = first THEN 1 ELSE Cardinality(A)) >= Threshold

\* The conditions of maybeRecoverGatewayService, for an attempt of A.  The
\* attempt `first` runs its catch block before the others of A are rejected.
MayRestart(a, A, first, recoverable) ==
    /\ RecoveryEnabled
    /\ a # boot
    /\ failures + (IF a = first THEN 1 ELSE Cardinality(A)) >= Threshold
    /\ windowElapsed
    /\ ~cooling
    /\ recoverable

\* The catch blocks of the attempts in A: each counts a failure; the one in R
\* awaits the service restart, the others call scheduleReconnect at once.
\* `reschedule` holds if handleSocketClosed called it as well, and a rejected
\* health probe calls it through handleConnectionProblem.
EndAttempts(A, R, reschedule) ==
    /\ failures' = Capped(failures + Cardinality(A))
    /\ phase' = [s \in Socket |-> IF s \in R THEN "recover"
                                  ELSE IF s \in A THEN "idle" ELSE phase[s]]
    /\ cooling' = (cooling \/ R # {})
    /\ boot' = IF boot \in A THEN None ELSE boot
    /\ reconnectTimer' =
         IF reschedule \/ A # R \/ \E r \in pending : r.kind = "health"
         THEN Scheduled(IF reschedule THEN failures ELSE Capped(failures + 1))
         ELSE reconnectTimer
    /\ UNCHANGED <<windowElapsed, launched>>

FailAttempts(A, first, recoverable, reschedule) ==
    LET eligible == {a \in A : MayRestart(a, A, first, recoverable)}
        chosen   == IF first \in eligible THEN {first} ELSE eligible
    IN  \/ /\ eligible = {}
           /\ EndAttempts(A, {}, reschedule)
        \/ \E a \in chosen : EndAttempts(A, {a}, reschedule)

\* Attempt s throws: recordConnectionFailure rejects every pending request,
\* so an attempt that awaits one of them fails in the same macrotask.
AttemptFails(s, reqs, recoverable) ==
    /\ DropLink
    /\ FailAttempts({s} \cup Owners(reqs), s, recoverable, FALSE)

\* handleSocketClosed(this.ws): the owners of the rejected requests fail.
LinkFails(reqs, recoverable) ==
    /\ DropLink
    /\ FailAttempts(Owners(reqs), None, recoverable, TRUE)

-----------------------------------------------------------------------------
(* Opening a link: start, the reconnect timer and openAndNegotiate.        *)

\* A slot whose earlier socket and attempt nothing refers to any more.
Reusable(s) ==
    /\ phase[s] = "idle" /\ s # ws /\ s \notin listening
    /\ \A r \in pending : r.on # s

\* openAndNegotiate up to its first await.
OpenSocket(s) ==
    /\ Reusable(s)
    /\ heartbeat' = FALSE
    /\ net' = [net EXCEPT ![s] = "connecting"]
    /\ ws' = s
    /\ status' = "connecting"
    /\ listening' = listening \cup {s}
    /\ phase' = [phase EXCEPT ![s] = "challenge"]
    /\ granted' = granted \ {s}
    /\ UNCHANGED <<closed, canIssue, pending, retryVars, faults>>

Start(s) ==
    /\ ~launched
    /\ launched' = TRUE
    /\ boot' = s
    /\ OpenSocket(s)
    /\ UNCHANGED reconnectTimer

\* The reconnect timer fires: reconnectOnce.
ReconnectTimerFires(s) ==
    /\ reconnectTimer # "off"
    /\ reconnectTimer = "long" => \A a \in Socket : phase[a] # "challenge"
    /\ reconnectTimer' = "off"
    /\ OpenSocket(s)
    /\ UNCHANGED <<launched, boot>>

ConnectionOpens(s) ==
    /\ net[s] = "connecting"
    /\ net' = [net EXCEPT ![s] = "open"]
    /\ UNCHANGED <<launched, boot, closed, linkVars, timerVars, pending, retryVars,
                   listening, phase, granted, faults>>

\* The challenge arrives and the connect request goes out, on this.ws.
ChallengeArrives(s) ==
    /\ phase[s] = "challenge" /\ net[s] = "open" /\ s \in listening
    /\ SocketOpen
    /\ phase' = [phase EXCEPT ![s] = "hello"]
    /\ pending' = (pending \ Connects(pending)) \cup {ConnectRequest(s)}
    /\ UNCHANGED <<launched, boot, closed, linkVars, timerVars, retryVars,
                   net, listening, granted, faults>>

\* The challenge arrives, but the token or the device identity cannot be read,
\* or the current socket is not open.
ChallengeUnusable(s) ==
    /\ phase[s] = "challenge" /\ net[s] = "open" /\ s \in listening
    /\ IF SocketOpen THEN SpendFault ELSE UNCHANGED faults
    /\ AttemptFails(s, pending, FALSE)
    /\ UNCHANGED <<closed, net, granted>>

ChallengeTimeout(s) ==
    /\ phase[s] = "challenge"
    /\ LateIf(s \in listening /\ net[s] \in {"connecting", "open"})
    /\ AttemptFails(s, pending, TRUE)
    /\ UNCHANGED <<closed, net, granted>>

\* hello-ok with every required scope: the reconnect plan starts.
HelloReady(r) ==
    /\ Answerable(r) /\ r.kind = "connect"
    /\ status' = "connected" /\ canIssue' = TRUE
    /\ granted' = granted \cup {ws}
    /\ failures' = 0 /\ windowElapsed' = FALSE
    /\ pending' = (pending \ {r}) \cup {PlanRequest(r.by, PlanLength)}
    /\ phase' = [phase EXCEPT ![r.by] = "plan"]
    /\ UNCHANGED <<launched, boot, closed, ws, timerVars, cooling, net, listening, faults>>

\* Mutant of HelloBlocked: the missing scopes are not looked at.
HelloTakesAnyScope(r) ==
    /\ Answerable(r) /\ r.kind = "connect"
    /\ status' = "connected" /\ canIssue' = TRUE
    /\ failures' = 0 /\ windowElapsed' = FALSE
    /\ pending' = (pending \ {r}) \cup {PlanRequest(r.by, PlanLength)}
    /\ phase' = [phase EXCEPT ![r.by] = "plan"]
    /\ UNCHANGED <<launched, boot, closed, ws, timerVars, cooling, net, listening,
                   granted, faults>>

\* hello-ok without them: connected, but neither plan nor heartbeat.
HelloBlocked(r) ==
    /\ Answerable(r) /\ r.kind = "connect"
    /\ status' = "connected" /\ canIssue' = FALSE
    /\ failures' = 0 /\ windowElapsed' = FALSE
    /\ pending' = pending \ {r}
    /\ phase' = [phase EXCEPT ![r.by] = "idle"]
    /\ boot' = IF boot = r.by THEN None ELSE boot
    /\ UNCHANGED <<launched, closed, ws, timerVars, cooling, net, listening, granted, faults>>

\* The gateway answers connect or a plan request with an error.
NegotiationRefused(r) ==
    /\ Answerable(r) /\ r.kind \in {"connect", "plan"}
    /\ SpendFault
    /\ \E recoverable \in BOOLEAN : AttemptFails(r.by, pending \ {r}, recoverable)
    /\ UNCHANGED <<closed, net, granted>>

\* The connect request's own timer: it deletes whatever is pending as "connect".
ConnectTimeout(s) ==
    /\ phase[s] = "hello"
    /\ LateIf(\E r \in pending : r.by = s /\ Answerable(r))
    /\ AttemptFails(s, pending \ Connects(pending), TRUE)
    /\ UNCHANGED <<closed, net, granted>>

\* A plan request is answered and the next one is sent.
PlanContinues(r) ==
    /\ Answerable(r) /\ r.kind = "plan" /\ r.left > 1
    /\ MaySendControl
    /\ pending' = (pending \ {r}) \cup {PlanRequest(r.by, r.left - 1)}
    /\ UNCHANGED <<launched, boot, closed, linkVars, timerVars, retryVars,
                   net, listening, phase, granted, faults>>

\* It is answered, but request() refuses to send the next one.
PlanInterrupted(r) ==
    /\ Answerable(r) /\ r.kind = "plan" /\ r.left > 1
    /\ ~MaySendControl
    /\ AttemptFails(r.by, pending \ {r}, FALSE)
    /\ UNCHANGED <<closed, net, granted, faults>>

\* The last one is answered: gateway.reconnected is emitted, the heartbeat starts.
PlanCompletes(r) ==
    /\ Answerable(r) /\ r.kind = "plan" /\ r.left = 1
    /\ pending' = pending \ {r}
    /\ phase' = [phase EXCEPT ![r.by] = "idle"]
    /\ boot' = IF boot = r.by THEN None ELSE boot
    /\ heartbeat' = TRUE
    /\ UNCHANGED <<launched, closed, linkVars, reconnectTimer, retryVars,
                   net, listening, granted, faults>>

\* A listener of gateway.reconnected throws: the journal write failed.  start()
\* runs before any listener is registered.
ReconnectedListenerThrows(r) ==
    /\ Answerable(r) /\ r.kind = "plan" /\ r.left = 1
    /\ r.by # boot
    /\ SpendFault
    /\ AttemptFails(r.by, pending \ {r}, FALSE)
    /\ UNCHANGED <<closed, net, granted>>

-----------------------------------------------------------------------------
(* Using and watching a link.                                              *)

\* An API route calls request().
Submit(c) ==
    /\ MaySendControl
    /\ \A r \in pending : r.by # c
    /\ pending' = pending \cup {AppRequest(c)}
    /\ UNCHANGED <<launched, boot, closed, linkVars, timerVars, retryVars,
                   net, listening, phase, granted, faults>>

Answered(r) ==
    /\ Answerable(r) /\ r.kind = "app"
    /\ pending' = pending \ {r}
    /\ UNCHANGED <<launched, boot, closed, linkVars, timerVars, retryVars,
                   net, listening, phase, granted, faults>>

\* Mutant of RequestTimeout: the health probe has no timer.
CallTimeout(r) ==
    /\ r \in pending /\ r.kind \notin {"connect", "health"}
    /\ LateIf(Answerable(r))
    /\ LinkFails(pending, TRUE)
    /\ UNCHANGED <<closed, net, granted>>

\* The timer of a control request: handleConnectionProblem.
RequestTimeout(r) ==
    /\ r \in pending /\ r.kind # "connect"
    /\ LateIf(Answerable(r))
    /\ LinkFails(pending, TRUE)
    /\ UNCHANGED <<closed, net, granted>>

HeartbeatFires ==
    /\ heartbeat /\ MaySendControl
    /\ heartbeat' = FALSE
    /\ pending' = pending \cup {HealthRequest}
    /\ UNCHANGED <<launched, boot, closed, linkVars, reconnectTimer, retryVars,
                   net, listening, phase, granted, faults>>

\* request("health") throws, for the socket is closing or a reconnect is due.
HeartbeatRefused ==
    /\ heartbeat /\ ~MaySendControl
    /\ LinkFails(pending, FALSE)
    /\ UNCHANGED <<closed, net, granted, faults>>

\* Mutant of HealthAnswered: the next heartbeat is not started.
HealthProbedOnce(r) ==
    /\ Answerable(r) /\ r.kind = "health"
    /\ pending' = pending \ {r}
    /\ UNCHANGED <<launched, boot, closed, linkVars, timerVars, retryVars,
                   net, listening, phase, granted, faults>>

HealthAnswered(r) ==
    /\ Answerable(r) /\ r.kind = "health"
    /\ pending' = pending \ {r}
    /\ heartbeat' = (heartbeat \/ (~closed /\ status = "connected"))
    /\ UNCHANGED <<launched, boot, closed, linkVars, reconnectTimer, retryVars,
                   net, listening, phase, granted, faults>>

HealthRefused(r) ==
    /\ Answerable(r) /\ r.kind = "health"
    /\ SpendFault
    /\ LinkFails(pending \ {r}, FALSE)
    /\ UNCHANGED <<closed, net, granted>>

-----------------------------------------------------------------------------
(* The network and the gateway process.                                    *)

SocketDrops(s) ==
    /\ net[s] \in {"open", "hung"}
    /\ SpendFault
    /\ net' = [net EXCEPT ![s] = "closing"]
    /\ UNCHANGED <<launched, boot, closed, linkVars, timerVars, pending, retryVars,
                   listening, phase, granted>>

SocketHangs(s) ==
    /\ net[s] = "open"
    /\ SpendFault
    /\ net' = [net EXCEPT ![s] = "hung"]
    /\ UNCHANGED <<launched, boot, closed, linkVars, timerVars, pending, retryVars,
                   listening, phase, granted>>

\* Socket s is gone; nobody listens to it, or handleSocketClosed returns early.
ForgetSocket(s) ==
    /\ net' = [net EXCEPT ![s] = "free"]
    /\ listening' = listening \ {s}
    /\ UNCHANGED <<launched, boot, closed, linkVars, timerVars, pending, retryVars,
                   phase, granted>>

\* The 'close' event, delivered to handleSocketClosed if it is still heard.
CloseEvent(s) ==
    /\ net[s] = "closing"
    /\ IF s \in listening /\ s = ws /\ ~closed
       THEN /\ LinkFails(pending, TRUE)
            /\ net' = [net EXCEPT ![s] = "free"]
            /\ UNCHANGED <<closed, granted>>
       ELSE ForgetSocket(s)
    /\ UNCHANGED faults

\* The 'error' event: handleSocketClosed, and waitForChallenge rejects.
ErrorEvent(s) ==
    /\ net[s] \in {"connecting", "open"} /\ s \in listening
    /\ SpendFault
    /\ IF phase[s] = "challenge"
       THEN /\ \E recoverable \in BOOLEAN :
                 /\ DropLink
                 /\ FailAttempts({s} \cup Owners(pending), IF s = ws THEN None ELSE s,
                                 recoverable, s = ws)
            /\ net' = [net EXCEPT ![s] = "free"]
            /\ UNCHANGED <<closed, granted>>
       ELSE IF s = ws
       THEN /\ \E recoverable \in BOOLEAN : LinkFails(pending, recoverable)
            /\ net' = [net EXCEPT ![s] = "free"]
            /\ UNCHANGED <<closed, granted>>
       ELSE ForgetSocket(s)

\* An exception nobody catches ends the process, and launchd starts it again: the
\* 'error' event of a socket without listeners, a frame that is not JSON, or an
\* event whose listener cannot journal it.
ProcessDies(s) ==
    /\ \/ net[s] \in {"connecting", "open"} /\ s \notin listening
       \/ net[s] = "open" /\ s \in listening /\ (s = ws \/ phase[s] = "challenge")
    /\ SpendFault
    /\ launched' = FALSE /\ boot' = None /\ closed' = FALSE
    /\ ws' = None /\ status' = "disconnected" /\ canIssue' = FALSE
    /\ reconnectTimer' = "off" /\ heartbeat' = FALSE
    /\ pending' = {}
    /\ failures' = 0 /\ windowElapsed' = FALSE /\ cooling' = FALSE
    /\ net' = [q \in Socket |-> "free"]
    /\ listening' = {}
    /\ phase' = [q \in Socket |-> "idle"]
    /\ granted' = {}

-----------------------------------------------------------------------------
(* Service recovery and shutdown.                                          *)

WindowElapses ==
    /\ RecoveryEnabled /\ failures > 0 /\ ~windowElapsed
    /\ windowElapsed' = TRUE
    /\ UNCHANGED <<launched, boot, closed, linkVars, timerVars, pending, failures, cooling,
                   net, listening, phase, granted, faults>>

CooldownElapses ==
    /\ cooling
    /\ cooling' = FALSE
    /\ UNCHANGED <<launched, boot, closed, linkVars, timerVars, pending, failures,
                   windowElapsed, net, listening, phase, granted, faults>>

\* restartGatewayService settles, either way; reconnectOnce goes on.
RecoveryEnds(s) ==
    /\ phase[s] = "recover"
    /\ phase' = [phase EXCEPT ![s] = "idle"]
    /\ reconnectTimer' = Scheduled(failures)
    /\ status' = IF reconnectTimer' = reconnectTimer THEN status ELSE "connecting"
    /\ UNCHANGED <<launched, boot, closed, ws, canIssue, heartbeat, pending, retryVars,
                   net, listening, granted, faults>>

\* close(), which createLiveGateway's caller can call once start() has settled.
Close ==
    /\ launched /\ boot = None /\ ~closed
    /\ closed' = TRUE
    /\ reconnectTimer' = "off" /\ heartbeat' = FALSE
    /\ pending' = {}
    /\ listening' = listening \ {ws}
    /\ net' = [s \in Socket |-> IF s # ws THEN net[s]
                                ELSE IF net[s] = "connecting" THEN "free" ELSE "closing"]
    /\ ws' = None
    /\ LET A == Owners(pending)
       IN  /\ failures' = Capped(failures + Cardinality(A))
           /\ phase' = [s \in Socket |-> IF s \in A THEN "idle" ELSE phase[s]]
           /\ status' = IF A = {} THEN status ELSE "connecting"
           /\ canIssue' = (canIssue /\ A = {})
    /\ UNCHANGED <<launched, boot, windowElapsed, cooling, granted, faults>>

\* After close() nothing need ever happen again.
Quiescent ==
    /\ closed /\ \A s \in Socket : phase[s] = "idle"
    /\ UNCHANGED vars

-----------------------------------------------------------------------------
Negotiate ==
    \/ \E s \in Socket : \/ Start(s) \/ ReconnectTimerFires(s) \/ ConnectionOpens(s)
                         \/ ChallengeArrives(s) \/ ChallengeUnusable(s)
                         \/ ChallengeTimeout(s) \/ ConnectTimeout(s)
    \/ \E r \in pending : \/ HelloReady(r) \/ HelloBlocked(r) \/ NegotiationRefused(r)
                          \/ PlanContinues(r) \/ PlanInterrupted(r) \/ PlanCompletes(r)
                          \/ ReconnectedListenerThrows(r)

UseLink ==
    \/ \E c \in Caller : Submit(c)
    \/ \E r \in pending : \/ Answered(r) \/ RequestTimeout(r)
                          \/ HealthAnswered(r) \/ HealthRefused(r)
    \/ HeartbeatFires \/ HeartbeatRefused

Environment ==
    \E s \in Socket : \/ SocketDrops(s) \/ SocketHangs(s)
                     \/ CloseEvent(s) \/ ErrorEvent(s) \/ ProcessDies(s)

Lifecycle ==
    \/ \E s \in Socket : RecoveryEnds(s)
    \/ WindowElapses \/ CooldownElapses \/ Close \/ Quiescent

Next == Negotiate \/ UseLink \/ Environment \/ Lifecycle

Spec == Init /\ [][Next]_vars

(* Fairness: timers fire, the event loop delivers what has arrived, a      *)
(* restart settles, and a gateway that is not faulty answers.              *)
Fairness ==
    /\ WF_vars(\E s \in Socket : Start(s))
    /\ WF_vars(\E s \in Socket : ReconnectTimerFires(s))
    /\ WF_vars(HeartbeatFires \/ HeartbeatRefused)
    /\ \A s \in Socket :
         /\ WF_vars(ConnectionOpens(s))
         /\ WF_vars(ChallengeArrives(s) \/ ChallengeUnusable(s) \/ ChallengeTimeout(s))
         /\ WF_vars(ConnectTimeout(s))
         /\ WF_vars(CloseEvent(s))
         /\ WF_vars(RecoveryEnds(s))
    /\ WF_vars(\E r \in pending :
                 \/ HelloReady(r) \/ HelloBlocked(r)
                 \/ PlanContinues(r) \/ PlanCompletes(r) \/ HealthAnswered(r))
    /\ \A c \in Caller : WF_vars(\E r \in pending : r.by = c /\ (Answered(r) \/ RequestTimeout(r)))
    /\ WF_vars(\E r \in pending : RequestTimeout(r))

FairSpec == Spec /\ Fairness

-----------------------------------------------------------------------------
(* Safety.                                                                 *)

\* Unless close() was called, a gateway without a link has something armed that
\* will open the next one: the reconnect timer, or a restart reconnectOnce awaits.
NeverStranded ==
    (launched /\ ~closed /\ ws = None) =>
        (reconnectTimer # "off" \/ \E s \in Socket : phase[s] = "recover")

\* Control requests (the plan, the heartbeat, the routes' calls) are on a socket on
\* which the gateway itself granted every required scope: request() reads
\* connectionStatus and canIssueControlActions, which outlive sockets.
ControlOnGrantedSocket ==
    \A r \in pending : r.kind # "connect" => r.on \in granted

\* The flags the routes and the UI read speak of the current socket: control is
\* allowed only while connected, and on a socket that was granted the scopes.
ReadyMeansGranted ==
    (canIssue /\ ~closed) => (status = "connected" /\ ws \in granted)

\* A link that may carry control requests is always being probed, by an armed
\* heartbeat or by a request that is under way: a dead link cannot go unnoticed.
ReadyLinkIsWatched ==
    (canIssue /\ ~closed) =>
        (heartbeat \/ \E r \in pending : r.kind \in {"plan", "health"})

\* There is one conversation at a time: an armed reconnect timer excludes a link,
\* and an attempt past its challenge is talking on the current socket.
OneConversation ==
    /\ reconnectTimer # "off" => ws = None
    /\ \A s \in Socket : phase[s] \in {"hello", "plan"} => s = ws

\* After close() no timer is armed, nothing is pending, no link is referenced.
ClosedIsQuiet ==
    closed => (ws = None /\ reconnectTimer = "off" /\ ~heartbeat /\ pending = {})

\* An attempt that awaits an answer has a request out whose timer will end it.
AttemptsAreBounded ==
    \A s \in Socket : phase[s] \in {"hello", "plan"} => \E r \in pending : r.by = s

\* The service is never restarted by the callback that takes down a link in use.
RestartSparesReadyLink ==
    [][\A s \in Socket : (phase[s] # "recover" /\ phase'[s] = "recover") => ~canIssue]_vars

(* Liveness.                                                               *)

\* Connected; a link that was granted too few scopes carries no heartbeat, so
\* nothing tells a hung one from a healthy one.
Linked == status = "connected" /\ ws # None /\ (canIssue => net[ws] = "open")

\* However the gateway misbehaves for a while, the API ends up linked for good.
EventuallyLinked == <>[](closed \/ Linked)

\* A gateway process that hangs is noticed, unless it granted too few scopes.
HungLinkIsNoticed ==
    \A s \in Socket :
        (ws = s /\ net[s] = "hung" /\ (status = "connected" => canIssue)) ~> (ws # s)

-----------------------------------------------------------------------------
(* The port the routes see.                                                *)

Mode == IF closed THEN "shut"
        ELSE IF ~launched THEN "new"
        ELSE IF status # "connected" THEN "linking"
        ELSE IF canIssue THEN "ready" ELSE "blocked"

Outstanding == {r.by : r \in {q \in pending : q.kind = "app"}}

Port == INSTANCE GatewayPort WITH mode <- Mode, outstanding <- Outstanding

\* The gateway client is such a port, and no call of a route is left unsettled.
ImplementsPort == Port!Spec
=============================================================================
