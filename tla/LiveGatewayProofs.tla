-------------------------- MODULE LiveGatewayProofs --------------------------
(***************************************************************************)
(* Theorems about LiveGateway, for every number of sockets, callers and    *)
(* faults, every plan length and every threshold.                          *)
(***************************************************************************)
EXTENDS LiveGateway, FiniteSetTheorems, TLAPS

USE SocketAssumption, CallerAssumption, PlanAssumption, ThresholdAssumption,
    BackoffAssumption, RecoveryAssumption, FaultAssumption

-----------------------------------------------------------------------------
(* Lemmas about the operators the actions are built from.                  *)

\* The count of failures starts within its cap.
LEMMA CapType == FailureCap \in Nat /\ 0 \in 0 .. FailureCap
  BY DEF FailureCap

\* Counting a failure stays within the cap (reconnectAttempt, consecutiveFailures).
LEMMA CappedType ==
    ASSUME NEW n \in Nat
    PROVE  Capped(n) \in 0 .. FailureCap
  BY DEF Capped, FailureCap

\* Only attempts await a connect or a plan request.
LEMMA OwnersType ==
    ASSUME NEW reqs \in SUBSET Request
    PROVE  Owners(reqs) \subseteq Socket
  BY DEF Owners, Request

\* What the catch blocks of failing attempts leave behind has the right type.
LEMMA EndAttemptsType ==
    ASSUME TypeOK, NEW A \in SUBSET Socket, NEW R \in SUBSET A,
           NEW reschedule \in BOOLEAN, EndAttempts(A, R, reschedule)
    PROVE  /\ failures' \in 0 .. FailureCap
           /\ phase' \in [Socket -> Phase]
           /\ cooling' \in BOOLEAN /\ windowElapsed' \in BOOLEAN
           /\ boot' \in Socket \cup {None} /\ launched' \in BOOLEAN
           /\ reconnectTimer' \in {"off", "short", "long"}
  <1>1. Cardinality(A) \in Nat
    BY FS_Subset, FS_CardinalityType
  <1>2. failures' \in 0 .. FailureCap
    <2>1. failures + Cardinality(A) \in Nat
      BY <1>1 DEF TypeOK
    <2> QED BY <2>1, CappedType DEF EndAttempts
  <1>3. phase' \in [Socket -> Phase]
    BY DEF EndAttempts, TypeOK, Phase
  <1> QED BY <1>2, <1>3 DEF EndAttempts, TypeOK, Scheduled, Delay

\* FailAttempts is EndAttempts for some choice of the attempt that restarts the service.
LEMMA FailAttemptsEnds ==
    ASSUME NEW A, NEW first, NEW recoverable, NEW reschedule,
           FailAttempts(A, first, recoverable, reschedule)
    PROVE  \E R \in SUBSET A : /\ EndAttempts(A, R, reschedule)
                               /\ R # {} => RecoveryEnabled
  BY DEF FailAttempts, MayRestart

\* What reconnectOnce leaves behind has the right type.
LEMMA FailAttemptsType ==
    ASSUME TypeOK, NEW A \in SUBSET Socket, NEW first, NEW recoverable,
           NEW reschedule \in BOOLEAN, FailAttempts(A, first, recoverable, reschedule)
    PROVE  /\ failures' \in 0 .. FailureCap
           /\ phase' \in [Socket -> Phase]
           /\ cooling' \in BOOLEAN /\ windowElapsed' \in BOOLEAN
           /\ boot' \in Socket \cup {None} /\ launched' \in BOOLEAN
           /\ reconnectTimer' \in {"off", "short", "long"}
  <1>1. PICK R \in SUBSET A : EndAttempts(A, R, reschedule)
    BY FailAttemptsEnds
  <1> QED BY <1>1, EndAttemptsType

\* An attempt that fails, or a link that is lost, leaves a state of the right type.
LEMMA FailureType ==
    ASSUME TypeOK, NEW A \in SUBSET Socket, NEW first, NEW recoverable,
           NEW reschedule \in BOOLEAN,
           DropLink, FailAttempts(A, first, recoverable, reschedule),
           closed' = closed, net' \in [Socket -> NetState], granted' = granted,
           faults' \in 0 .. MaxFaults
    PROVE  TypeOK'
  <1>1. /\ ws' \in Socket \cup {None} /\ status' \in {"disconnected", "connecting", "connected"}
        /\ canIssue' \in BOOLEAN /\ heartbeat' \in BOOLEAN /\ pending' \subseteq Request
        /\ listening' \subseteq Socket
    BY DEF DropLink, TypeOK
  <1>2. closed' \in BOOLEAN /\ granted' \subseteq Socket
    BY DEF TypeOK
  <1> QED BY <1>1, <1>2, FailAttemptsType DEF TypeOK

\* A fault is taken from the budget.
LEMMA SpendFaultType ==
    ASSUME TypeOK, SpendFault PROVE faults' \in 0 .. MaxFaults
  BY DEF TypeOK, SpendFault

\* So is a timer that beats an answer on its way.
LEMMA LateIfType ==
    ASSUME TypeOK, NEW possible, LateIf(possible) PROVE faults' \in 0 .. MaxFaults
  BY DEF TypeOK, SpendFault, LateIf

-----------------------------------------------------------------------------
(* Type correctness.                                                       *)

\* Every reachable state is of the declared type, whatever the constants are.
THEOREM TypeCorrect == Spec => []TypeOK
<1>1. Init => TypeOK
  <2> SUFFICES ASSUME Init PROVE TypeOK
    OBVIOUS
  <2>1. net \in [Socket -> NetState] /\ phase \in [Socket -> Phase]
    BY DEF Init, NetState, Phase
  <2>2. failures \in 0 .. FailureCap /\ faults \in 0 .. MaxFaults
    BY CapType DEF Init
  <2> QED BY <2>1, <2>2 DEF Init, TypeOK
<1>2. TypeOK /\ [Next]_vars => TypeOK'
  <2> SUFFICES ASSUME TypeOK, [Next]_vars PROVE TypeOK'
    OBVIOUS
  <2>1. ASSUME NEW s \in Socket, OpenSocket(s), launched' \in BOOLEAN,
               boot' \in Socket \cup {None}, reconnectTimer' \in {"off", "short", "long"}
        PROVE  TypeOK'
    <3>1. net' \in [Socket -> NetState] /\ phase' \in [Socket -> Phase]
      BY <2>1 DEF OpenSocket, TypeOK, NetState, Phase
    <3>2. UNCHANGED <<closed, canIssue, pending, failures, windowElapsed, cooling, faults>>
      BY <2>1 DEF OpenSocket, retryVars
    <3>3. ws' \in Socket /\ listening' \subseteq Socket /\ granted' \subseteq Socket
          /\ heartbeat' \in BOOLEAN /\ status' \in {"disconnected", "connecting", "connected"}
      BY <2>1 DEF OpenSocket, TypeOK
    <3> QED BY <2>1, <3>1, <3>2, <3>3 DEF TypeOK
  <2>2. ASSUME NEW s \in Socket, Start(s) PROVE TypeOK'
    BY <2>1, <2>2 DEF Start, TypeOK
  <2>3. ASSUME NEW s \in Socket, ReconnectTimerFires(s) PROVE TypeOK'
    BY <2>1, <2>3 DEF ReconnectTimerFires, TypeOK
  <2>4. ASSUME NEW s \in Socket, ConnectionOpens(s) PROVE TypeOK'
    BY <2>4 DEF ConnectionOpens, TypeOK, NetState, linkVars, timerVars, retryVars
  <2>5. ASSUME NEW s \in Socket, ChallengeArrives(s) PROVE TypeOK'
    <3>1. ConnectRequest(s) \in Request
      BY <2>5 DEF ChallengeArrives, ConnectRequest, Request, SocketOpen, TypeOK
    <3>2. pending' \subseteq Request
      BY <2>5, <3>1 DEF ChallengeArrives, TypeOK
    <3> QED BY <2>5, <3>2 DEF ChallengeArrives, TypeOK, Phase, linkVars, timerVars, retryVars
  <2>6. ASSUME NEW s \in Socket, NEW reqs \in SUBSET Request, NEW recoverable,
               AttemptFails(s, reqs, recoverable),
               UNCHANGED <<closed, net, granted>>, faults' \in 0 .. MaxFaults
        PROVE  TypeOK'
    <3>1. {s} \cup Owners(reqs) \in SUBSET Socket
      BY OwnersType
    <3>2. net' \in [Socket -> NetState]
      BY <2>6 DEF TypeOK
    <3> QED BY <2>6, <3>1, <3>2, FailureType DEF AttemptFails
  <2>7. ASSUME NEW reqs \in SUBSET Request, NEW recoverable, LinkFails(reqs, recoverable),
               UNCHANGED <<closed, granted>>, net' \in [Socket -> NetState],
               faults' \in 0 .. MaxFaults
        PROVE  TypeOK'
    BY <2>7, OwnersType, FailureType DEF LinkFails
  <2>8. ASSUME NEW s \in Socket, ChallengeUnusable(s) PROVE TypeOK'
    <3>1. faults' \in 0 .. MaxFaults
      BY <2>8, SpendFaultType DEF ChallengeUnusable, TypeOK
    <3> QED BY <2>6, <2>8, <3>1 DEF ChallengeUnusable, TypeOK
  <2>9. ASSUME NEW s \in Socket, ChallengeTimeout(s) PROVE TypeOK'
    <3>1. faults' \in 0 .. MaxFaults
      BY <2>9, LateIfType DEF ChallengeTimeout
    <3> QED BY <2>6, <2>9, <3>1 DEF ChallengeTimeout, TypeOK
  <2>10. ASSUME NEW s \in Socket, ConnectTimeout(s) PROVE TypeOK'
    <3>1. faults' \in 0 .. MaxFaults
      BY <2>10, LateIfType DEF ConnectTimeout
    <3> QED BY <2>6, <2>10, <3>1 DEF ConnectTimeout, Connects, TypeOK
  <2>11. ASSUME NEW r \in pending, HelloReady(r) PROVE TypeOK'
    <3>1. r.by \in Socket /\ ws \in Socket
      BY <2>11 DEF HelloReady, Answerable, TypeOK, Request
    <3>2. PlanRequest(r.by, PlanLength) \in Request
      BY <3>1 DEF PlanRequest, Request
    <3>3. pending' \subseteq Request
      BY <2>11, <3>2 DEF HelloReady, TypeOK
    <3>4. phase' \in [Socket -> Phase] /\ granted' \subseteq Socket
      BY <2>11, <3>1 DEF HelloReady, TypeOK, Phase
    <3> QED BY <2>11, <3>3, <3>4, CapType DEF HelloReady, TypeOK, timerVars
  <2>12. ASSUME NEW r \in pending, HelloBlocked(r) PROVE TypeOK'
    <3>1. r.by \in Socket
      BY <2>12 DEF HelloBlocked, TypeOK, Request
    <3>2. phase' \in [Socket -> Phase]
      BY <2>12, <3>1 DEF HelloBlocked, TypeOK, Phase
    <3> QED BY <2>12, <3>1, <3>2, CapType DEF HelloBlocked, TypeOK, timerVars
  <2>13. ASSUME NEW r \in pending, NegotiationRefused(r) PROVE TypeOK'
    <3>1. r.by \in Socket
      BY <2>13 DEF NegotiationRefused, TypeOK, Request
    <3>2. faults' \in 0 .. MaxFaults
      BY <2>13, SpendFaultType DEF NegotiationRefused
    <3> QED BY <2>6, <2>13, <3>1, <3>2 DEF NegotiationRefused, TypeOK
  <2>14. ASSUME NEW r \in pending, PlanContinues(r) PROVE TypeOK'
    <3>1. r.by \in Socket /\ ws \in Socket /\ r.left - 1 \in 0 .. PlanLength
      BY <2>14 DEF PlanContinues, Answerable, TypeOK, Request
    <3>2. PlanRequest(r.by, r.left - 1) \in Request
      BY <3>1 DEF PlanRequest, Request
    <3>3. pending' \subseteq Request
      BY <2>14, <3>2 DEF PlanContinues, TypeOK
    <3> QED BY <2>14, <3>3 DEF PlanContinues, TypeOK, linkVars, timerVars, retryVars
  <2>15. ASSUME NEW r \in pending, PlanInterrupted(r) PROVE TypeOK'
    <3>1. r.by \in Socket
      BY <2>15 DEF PlanInterrupted, TypeOK, Request
    <3> QED BY <2>6, <2>15, <3>1 DEF PlanInterrupted, TypeOK
  <2>16. ASSUME NEW r \in pending, PlanCompletes(r) PROVE TypeOK'
    <3>1. r.by \in Socket
      BY <2>16 DEF PlanCompletes, TypeOK, Request
    <3> QED BY <2>16, <3>1 DEF PlanCompletes, TypeOK, Phase, linkVars, retryVars
  <2>17. ASSUME NEW r \in pending, ReconnectedListenerThrows(r) PROVE TypeOK'
    <3>1. r.by \in Socket
      BY <2>17 DEF ReconnectedListenerThrows, TypeOK, Request
    <3>2. faults' \in 0 .. MaxFaults
      BY <2>17, SpendFaultType DEF ReconnectedListenerThrows
    <3> QED BY <2>6, <2>17, <3>1, <3>2 DEF ReconnectedListenerThrows, TypeOK
  <2>18. ASSUME NEW c \in Caller, Submit(c) PROVE TypeOK'
    <3>1. AppRequest(c) \in Request
      BY <2>18 DEF Submit, AppRequest, Request, MaySendControl, SocketOpen, TypeOK
    <3>2. pending' \subseteq Request
      BY <2>18, <3>1 DEF Submit, TypeOK
    <3> QED BY <2>18, <3>2 DEF Submit, TypeOK, linkVars, timerVars, retryVars
  <2>19. ASSUME NEW r \in pending, Answered(r) PROVE TypeOK'
    BY <2>19 DEF Answered, TypeOK, linkVars, timerVars, retryVars
  <2>20. ASSUME NEW r \in pending, RequestTimeout(r) PROVE TypeOK'
    <3>1. faults' \in 0 .. MaxFaults
      BY <2>20, LateIfType DEF RequestTimeout
    <3> QED BY <2>7, <2>20, <3>1 DEF RequestTimeout, TypeOK
  <2>21. ASSUME HeartbeatFires PROVE TypeOK'
    <3>1. HealthRequest \in Request
      BY <2>21 DEF HeartbeatFires, HealthRequest, Request, MaySendControl, SocketOpen, TypeOK
    <3>2. pending' \subseteq Request
      BY <2>21, <3>1 DEF HeartbeatFires, TypeOK
    <3> QED BY <2>21, <3>2 DEF HeartbeatFires, TypeOK, linkVars, retryVars
  <2>22. ASSUME HeartbeatRefused PROVE TypeOK'
    BY <2>7, <2>22 DEF HeartbeatRefused, TypeOK
  <2>23. ASSUME NEW r \in pending, HealthAnswered(r) PROVE TypeOK'
    BY <2>23 DEF HealthAnswered, TypeOK, linkVars, retryVars
  <2>24. ASSUME NEW r \in pending, HealthRefused(r) PROVE TypeOK'
    <3>1. faults' \in 0 .. MaxFaults
      BY <2>24, SpendFaultType DEF HealthRefused
    <3> QED BY <2>7, <2>24, <3>1 DEF HealthRefused, TypeOK
  <2>25. ASSUME NEW s \in Socket, SocketDrops(s) \/ SocketHangs(s) PROVE TypeOK'
    <3>1. faults' \in 0 .. MaxFaults
      BY <2>25, SpendFaultType DEF SocketDrops, SocketHangs
    <3> QED BY <2>25, <3>1
         DEF SocketDrops, SocketHangs, TypeOK, NetState, linkVars, timerVars, retryVars
  <2>26. ASSUME NEW s \in Socket, ForgetSocket(s), faults' \in 0 .. MaxFaults PROVE TypeOK'
    BY <2>26 DEF ForgetSocket, TypeOK, NetState, linkVars, timerVars, retryVars
  <2>27. ASSUME NEW s \in Socket, CloseEvent(s) PROVE TypeOK'
    <3>1. faults' \in 0 .. MaxFaults /\ [net EXCEPT ![s] = "free"] \in [Socket -> NetState]
      BY <2>27 DEF CloseEvent, TypeOK, NetState
    <3> QED BY <2>7, <2>26, <2>27, <3>1 DEF CloseEvent, TypeOK
  <2>28. ASSUME NEW s \in Socket, ErrorEvent(s) PROVE TypeOK'
    <3>1. faults' \in 0 .. MaxFaults
      BY <2>28, SpendFaultType DEF ErrorEvent
    <3>2. [net EXCEPT ![s] = "free"] \in [Socket -> NetState]
      BY DEF TypeOK, NetState
    <3>3. {s} \cup Owners(pending) \in SUBSET Socket
      BY OwnersType DEF TypeOK
    <3>4. CASE phase[s] = "challenge"
      BY <2>28, <3>1, <3>2, <3>3, <3>4, FailureType DEF ErrorEvent
    <3>5. CASE phase[s] # "challenge" /\ s = ws
      BY <2>7, <2>28, <3>1, <3>2, <3>5 DEF ErrorEvent, TypeOK
    <3>6. CASE phase[s] # "challenge" /\ s # ws
      BY <2>26, <2>28, <3>1, <3>6 DEF ErrorEvent
    <3> QED BY <3>4, <3>5, <3>6
  <2>29. ASSUME NEW s \in Socket, ProcessDies(s) PROVE TypeOK'
    <3>1. net' \in [Socket -> NetState] /\ phase' \in [Socket -> Phase]
      BY <2>29 DEF ProcessDies, NetState, Phase
    <3>2. failures' \in 0 .. FailureCap /\ faults' \in 0 .. MaxFaults
      BY <2>29, CapType, SpendFaultType DEF ProcessDies
    <3> QED BY <2>29, <3>1, <3>2 DEF ProcessDies, TypeOK
  <2>30. ASSUME NEW s \in Socket, RecoveryEnds(s) PROVE TypeOK'
    BY <2>30 DEF RecoveryEnds, TypeOK, Phase, Scheduled, Delay, retryVars
  <2>31. ASSUME WindowElapses \/ CooldownElapses PROVE TypeOK'
    BY <2>31 DEF WindowElapses, CooldownElapses, TypeOK, linkVars, timerVars
  <2>32. ASSUME Close PROVE TypeOK'
    <3> DEFINE A == Owners(pending)
    <3>1. A \subseteq Socket
      BY OwnersType DEF TypeOK
    <3>2. failures + Cardinality(A) \in Nat
      BY <3>1, FS_Subset, FS_CardinalityType DEF TypeOK
    <3>3. failures' \in 0 .. FailureCap
      BY <2>32, <3>2, CappedType DEF Close
    <3>4. net' \in [Socket -> NetState] /\ phase' \in [Socket -> Phase]
      BY <2>32 DEF Close, TypeOK, NetState, Phase
    <3> QED BY <2>32, <3>3, <3>4 DEF Close, TypeOK
  <2>33. CASE UNCHANGED vars
    BY <2>33 DEF vars, TypeOK, linkVars, timerVars, retryVars
  <2>34. CASE Negotiate
    BY <2>34, <2>2, <2>3, <2>4, <2>5, <2>8, <2>9, <2>10, <2>11, <2>12, <2>13,
       <2>14, <2>15, <2>16, <2>17 DEF Negotiate
  <2>35. CASE UseLink
    BY <2>35, <2>18, <2>19, <2>20, <2>21, <2>22, <2>23, <2>24 DEF UseLink
  <2>36. CASE Environment
    BY <2>36, <2>25, <2>27, <2>28, <2>29 DEF Environment
  <2>37. CASE Lifecycle
    BY <2>37, <2>30, <2>31, <2>32, <2>33 DEF Lifecycle, Quiescent
  <2> QED BY <2>33, <2>34, <2>35, <2>36, <2>37 DEF Next
<1> QED BY <1>1, <1>2, PTL DEF Spec

-----------------------------------------------------------------------------
(* Safety, with or without service recovery.                               *)

\* What request() checks implies the grant: the strengthening that makes
\* ControlOnGrantedSocket inductive.
GrantInv == (status = "connected" /\ canIssue /\ ws # None) => ws \in granted

\* Only a gateway that was started is closed.
LaunchInv == closed => launched

SafetyInv == /\ NeverStranded /\ ClosedIsQuiet /\ LaunchInv
             /\ ControlOnGrantedSocket /\ GrantInv

\* Whatever fails, the gateway is left quiet if closed and with something armed if not.
LEMMA FailureSafe ==
    ASSUME TypeOK, SafetyInv, NEW A, NEW first, NEW recoverable, NEW reschedule \in BOOLEAN,
           reschedule \/ A # {},
           DropLink, FailAttempts(A, first, recoverable, reschedule),
           A \subseteq Socket, UNCHANGED <<closed, granted>>
    PROVE  SafetyInv'
  <1>1. PICK R \in SUBSET A : EndAttempts(A, R, reschedule)
    BY FailAttemptsEnds
  <1>2. CASE closed
    BY <1>1, <1>2 DEF SafetyInv, NeverStranded, ClosedIsQuiet, LaunchInv, ControlOnGrantedSocket,
       GrantInv, DropLink, EndAttempts, Scheduled
  <1>3. CASE ~closed
    <2>1. reconnectTimer' # "off" \/ \E s \in Socket : phase'[s] = "recover"
      <3>1. CASE reschedule \/ A # R
        BY <1>1, <1>3, <3>1 DEF EndAttempts, Scheduled, Delay
      <3>2. CASE ~reschedule /\ A = R
        BY <1>1, <3>2 DEF EndAttempts
      <3> QED BY <3>1, <3>2
    <2> QED BY <1>3, <2>1 DEF SafetyInv, NeverStranded, ClosedIsQuiet, LaunchInv,
            ControlOnGrantedSocket, GrantInv, DropLink
  <1> QED BY <1>2, <1>3

\* An attempt that fails leaves a reconnect or a restart behind.
LEMMA AttemptFailsSafe ==
    ASSUME TypeOK, SafetyInv, NEW s \in Socket, NEW reqs \in SUBSET pending,
           NEW recoverable, AttemptFails(s, reqs, recoverable),
           UNCHANGED <<closed, granted>>
    PROVE  SafetyInv'
  <1>1. {s} \cup Owners(reqs) \subseteq Socket
    BY OwnersType DEF TypeOK
  <1> QED BY <1>1, FailureSafe DEF AttemptFails

\* So does a link that fails.
LEMMA LinkFailsSafe ==
    ASSUME TypeOK, SafetyInv, NEW reqs \in SUBSET pending, NEW recoverable,
           LinkFails(reqs, recoverable), UNCHANGED <<closed, granted>>
    PROVE  SafetyInv'
  <1>1. Owners(reqs) \subseteq Socket
    BY OwnersType DEF TypeOK
  <1> QED BY <1>1, FailureSafe DEF LinkFails

\* Opening the next link: by the timer, hence not after close().
LEMMA OpenSafe ==
    ASSUME TypeOK, SafetyInv, NEW s \in Socket, OpenSocket(s), ~closed
    PROVE  SafetyInv'
  <1>1. ws' # None /\ ~closed' /\ status' = "connecting"
    BY SocketAssumption DEF OpenSocket
  <1>2. ControlOnGrantedSocket'
    BY DEF OpenSocket, Reusable, SafetyInv, ControlOnGrantedSocket
  <1> QED BY <1>1, <1>2 DEF SafetyInv, NeverStranded, ClosedIsQuiet, LaunchInv, GrantInv

\* A gateway client is never left without a link and without a timer; after close() it
\* is quiet; and control requests only ever go out on sockets that were granted the scopes.
THEOREM SafetyHolds == Spec => []SafetyInv
<1>1. Init => SafetyInv
  BY DEF Init, SafetyInv, NeverStranded, ClosedIsQuiet, LaunchInv, ControlOnGrantedSocket, GrantInv
<1>2. TypeOK /\ SafetyInv /\ [Next]_vars => SafetyInv'
  <2> SUFFICES ASSUME TypeOK, SafetyInv, [Next]_vars PROVE SafetyInv'
    OBVIOUS
  <2> USE DEF SafetyInv
  <2>1. ASSUME NEW s \in Socket, Start(s) PROVE SafetyInv'
    BY <2>1, OpenSafe DEF Start, LaunchInv
  <2>2. ASSUME NEW s \in Socket, ReconnectTimerFires(s) PROVE SafetyInv'
    BY <2>2, OpenSafe DEF ReconnectTimerFires, ClosedIsQuiet
  <2>3. ASSUME UNCHANGED <<launched, closed, linkVars, timerVars, pending, phase, granted>>
        PROVE  SafetyInv'
    BY <2>3 DEF linkVars, timerVars, NeverStranded, ClosedIsQuiet, LaunchInv,
       ControlOnGrantedSocket, GrantInv
  <2>4. ASSUME NEW s \in Socket, ConnectionOpens(s) PROVE SafetyInv'
    BY <2>3, <2>4 DEF ConnectionOpens
  <2>5. ASSUME ~closed, ws # None, UNCHANGED <<launched, closed, linkVars, granted>>,
               \A r \in pending' : r \in pending \/ r.kind = "connect" \/ r.on \in granted
        PROVE  SafetyInv'
    BY <2>5 DEF linkVars, NeverStranded, ClosedIsQuiet, LaunchInv, ControlOnGrantedSocket, GrantInv
  <2>6. \A r \in pending : ~closed /\ (Answerable(r) => ws # None)
    BY DEF ClosedIsQuiet, Answerable, TypeOK, Request
  <2>7. (SocketOpen => ~closed /\ ws # None) /\ (MaySendControl => ws \in granted)
    BY DEF SocketOpen, MaySendControl, ClosedIsQuiet, GrantInv
  <2>8. ASSUME NEW s \in Socket, ChallengeArrives(s) PROVE SafetyInv'
    BY <2>5, <2>7, <2>8 DEF ChallengeArrives, ConnectRequest
  <2>9. ASSUME NEW s \in Socket, ChallengeUnusable(s) \/ ChallengeTimeout(s) \/ ConnectTimeout(s)
        PROVE  SafetyInv'
    <3>1. pending \ Connects(pending) \in SUBSET pending
      BY DEF Connects
    <3> QED BY <2>9, <3>1, AttemptFailsSafe
         DEF ChallengeUnusable, ChallengeTimeout, ConnectTimeout
  <2>10. ASSUME NEW r \in pending, HelloReady(r) PROVE SafetyInv'
    <3>1. \A q \in pending' : q.kind # "connect" => q.on \in granted'
      BY <2>10 DEF HelloReady, PlanRequest, ControlOnGrantedSocket
    <3> QED BY <2>6, <2>10, <3>1 DEF HelloReady, NeverStranded, ClosedIsQuiet, LaunchInv,
            ControlOnGrantedSocket, GrantInv
  <2>11. ASSUME NEW r \in pending, HelloBlocked(r) PROVE SafetyInv'
    BY <2>6, <2>11 DEF HelloBlocked, NeverStranded, ClosedIsQuiet, LaunchInv,
       ControlOnGrantedSocket, GrantInv
  <2>12. ASSUME NEW r \in pending,
                NegotiationRefused(r) \/ PlanInterrupted(r) \/ ReconnectedListenerThrows(r)
         PROVE  SafetyInv'
    <3>1. r.by \in Socket
      BY <2>12 DEF NegotiationRefused, PlanInterrupted, ReconnectedListenerThrows, TypeOK, Request
    <3>2. PICK recoverable : AttemptFails(r.by, pending \ {r}, recoverable)
      BY <2>12 DEF NegotiationRefused, PlanInterrupted, ReconnectedListenerThrows
    <3>3. UNCHANGED <<closed, granted>>
      BY <2>12 DEF NegotiationRefused, PlanInterrupted, ReconnectedListenerThrows
    <3> QED BY <3>1, <3>2, <3>3, AttemptFailsSafe
  <2>13. ASSUME NEW r \in pending, PlanContinues(r) PROVE SafetyInv'
    BY <2>5, <2>6, <2>7, <2>13 DEF PlanContinues, PlanRequest
  <2>14. ASSUME NEW r \in pending, PlanCompletes(r) \/ Answered(r) \/ HealthAnswered(r)
         PROVE  SafetyInv'
    BY <2>5, <2>6, <2>14 DEF PlanCompletes, Answered, HealthAnswered
  <2>15. ASSUME NEW c \in Caller, Submit(c) PROVE SafetyInv'
    BY <2>5, <2>7, <2>15 DEF Submit, MaySendControl, AppRequest
  <2>16. ASSUME NEW r \in pending, RequestTimeout(r) \/ HealthRefused(r) PROVE SafetyInv'
    BY <2>16, LinkFailsSafe DEF RequestTimeout, HealthRefused
  <2>17. ASSUME HeartbeatFires PROVE SafetyInv'
    BY <2>5, <2>7, <2>17 DEF HeartbeatFires, MaySendControl, HealthRequest
  <2>18. ASSUME HeartbeatRefused PROVE SafetyInv'
    BY <2>18, LinkFailsSafe DEF HeartbeatRefused
  <2>19. ASSUME NEW s \in Socket, SocketDrops(s) \/ SocketHangs(s) \/ ForgetSocket(s)
         PROVE  SafetyInv'
    BY <2>3, <2>19 DEF SocketDrops, SocketHangs, ForgetSocket
  <2>20. ASSUME NEW s \in Socket, CloseEvent(s) PROVE SafetyInv'
    BY <2>19, <2>20, LinkFailsSafe DEF CloseEvent
  <2>21. ASSUME NEW s \in Socket, ErrorEvent(s) PROVE SafetyInv'
    <3>1. {s} \cup Owners(pending) \subseteq Socket
      BY OwnersType DEF TypeOK
    <3> QED BY <2>19, <2>21, <3>1, LinkFailsSafe, FailureSafe DEF ErrorEvent
  <2>22. ASSUME NEW s \in Socket, ProcessDies(s) PROVE SafetyInv'
    BY <2>22 DEF ProcessDies, NeverStranded, ClosedIsQuiet, LaunchInv, ControlOnGrantedSocket,
       GrantInv
  <2>23. ASSUME NEW s \in Socket, RecoveryEnds(s) PROVE SafetyInv'
    <3>1. closed \/ reconnectTimer' # "off"
      BY <2>23 DEF RecoveryEnds, Scheduled, Delay
    <3>2. closed => reconnectTimer' = reconnectTimer
      BY <2>23 DEF RecoveryEnds, Scheduled
    <3> QED BY <2>23, <3>1, <3>2 DEF RecoveryEnds, NeverStranded, ClosedIsQuiet, LaunchInv,
            ControlOnGrantedSocket, GrantInv
  <2>24. ASSUME WindowElapses \/ CooldownElapses PROVE SafetyInv'
    BY <2>3, <2>24 DEF WindowElapses, CooldownElapses
  <2>25. ASSUME Close PROVE SafetyInv'
    BY <2>25 DEF Close, NeverStranded, ClosedIsQuiet, LaunchInv, ControlOnGrantedSocket, GrantInv
  <2>26. CASE UNCHANGED vars
    BY <2>3, <2>26 DEF vars
  <2>27. CASE Negotiate
    BY <2>27, <2>1, <2>2, <2>4, <2>8, <2>9, <2>10, <2>11, <2>12, <2>13, <2>14 DEF Negotiate
  <2>28. CASE UseLink
    BY <2>28, <2>14, <2>15, <2>16, <2>17, <2>18 DEF UseLink
  <2>29. CASE Environment
    BY <2>29, <2>19, <2>20, <2>21, <2>22 DEF Environment
  <2>30. CASE Lifecycle
    BY <2>30, <2>23, <2>24, <2>25, <2>26 DEF Lifecycle, Quiescent
  <2> QED BY <2>26, <2>27, <2>28, <2>29, <2>30 DEF Next
<1> QED BY <1>1, <1>2, TypeCorrect, PTL DEF Spec

\* Until close(), a client without a link has a reconnect timer armed or a restart under
\* way, with service recovery on or off.
COROLLARY NeverStrandedHolds == Spec => []NeverStranded
  BY SafetyHolds, PTL DEF SafetyInv

\* After close() neither the reconnect timer nor the heartbeat is armed, no link is
\* referenced and no request is out.
COROLLARY ClosedIsQuietHolds == Spec => []ClosedIsQuiet
  BY SafetyHolds, PTL DEF SafetyInv

\* Every control request, of any caller, is on a socket the gateway granted the scopes on.
COROLLARY ControlOnGrantedSocketHolds == Spec => []ControlOnGrantedSocket
  BY SafetyHolds, PTL DEF SafetyInv

-----------------------------------------------------------------------------
(* Service recovery.                                                       *)

\* While control requests may be sent no failure has been counted: hello-ok starts the
\* count anew, and whatever counts a failure takes the flag back.
SteadyInv == canIssue => failures = 0 /\ ~windowElapsed

\* A step of the recovery that is chosen by attempts that fail spares a link in use.
Spares == \A s \in Socket : (phase[s] # "recover" /\ phase'[s] = "recover") => ~canIssue

\* A failure restarts the service only if failures were counted before it.
LEMMA FailureSpares ==
    ASSUME SteadyInv, NEW A, NEW first, NEW recoverable, NEW reschedule,
           DropLink, FailAttempts(A, first, recoverable, reschedule)
    PROVE  SteadyInv' /\ Spares
  <1>1. SteadyInv'
    BY DEF DropLink, SteadyInv
  <1>2. CASE EndAttempts(A, {}, reschedule)
    BY <1>1, <1>2 DEF EndAttempts, Spares
  <1>3. ASSUME NEW a, MayRestart(a, A, first, recoverable)
        PROVE  ~canIssue
    BY <1>3 DEF MayRestart, SteadyInv
  <1> QED BY <1>1, <1>2, <1>3 DEF FailAttempts, Spares

\* No step begins a restart while the link is in use.
LEMMA NextSpares == TypeOK /\ SteadyInv /\ [Next]_vars => SteadyInv' /\ Spares
  <1> SUFFICES ASSUME TypeOK, SteadyInv, [Next]_vars PROVE SteadyInv' /\ Spares
    OBVIOUS
  <1>1. ASSUME UNCHANGED <<failures, windowElapsed>>, canIssue' => canIssue,
               \A s \in Socket : phase'[s] = "recover" => phase[s] = "recover"
        PROVE  SteadyInv' /\ Spares
    BY <1>1 DEF SteadyInv, Spares
  <1>2. ASSUME NEW s, NEW reqs, NEW recoverable, AttemptFails(s, reqs, recoverable)
        PROVE  SteadyInv' /\ Spares
    BY <1>2, FailureSpares DEF AttemptFails
  <1>3. ASSUME NEW reqs, NEW recoverable, LinkFails(reqs, recoverable)
        PROVE  SteadyInv' /\ Spares
    BY <1>3, FailureSpares DEF LinkFails
  <1>4. ASSUME NEW s \in Socket, OpenSocket(s) PROVE SteadyInv' /\ Spares
    <2>1. \A t \in Socket : phase'[t] = "recover" => phase[t] = "recover"
      BY <1>4 DEF OpenSocket, TypeOK
    <2> QED BY <1>1, <1>4, <2>1 DEF OpenSocket, retryVars
  <1>5. CASE Negotiate
    <2>1. ASSUME NEW s \in Socket,
                 Start(s) \/ ReconnectTimerFires(s) \/ ConnectionOpens(s) \/ ChallengeArrives(s)
          PROVE  SteadyInv' /\ Spares
      BY <1>1, <1>4, <2>1 DEF Start, ReconnectTimerFires, ConnectionOpens, ChallengeArrives,
         retryVars, linkVars, TypeOK
    <2>2. ASSUME NEW s \in Socket,
                 ChallengeUnusable(s) \/ ChallengeTimeout(s) \/ ConnectTimeout(s)
          PROVE  SteadyInv' /\ Spares
      BY <1>2, <2>2 DEF ChallengeUnusable, ChallengeTimeout, ConnectTimeout
    <2>3. ASSUME NEW r \in pending, HelloReady(r) \/ HelloBlocked(r)
          PROVE  SteadyInv' /\ Spares
      BY <2>3 DEF HelloReady, HelloBlocked, SteadyInv, Spares, TypeOK
    <2>4. ASSUME NEW r \in pending,
                 NegotiationRefused(r) \/ PlanInterrupted(r) \/ ReconnectedListenerThrows(r)
          PROVE  SteadyInv' /\ Spares
      BY <1>2, <2>4 DEF NegotiationRefused, PlanInterrupted, ReconnectedListenerThrows
    <2>5. ASSUME NEW r \in pending, PlanContinues(r) \/ PlanCompletes(r)
          PROVE  SteadyInv' /\ Spares
      BY <1>1, <2>5 DEF PlanContinues, PlanCompletes, retryVars, linkVars, TypeOK
    <2> QED BY <1>5, <2>1, <2>2, <2>3, <2>4, <2>5 DEF Negotiate
  <1>6. CASE UseLink
    <2>1. ASSUME NEW r \in pending, RequestTimeout(r) \/ HealthRefused(r)
          PROVE  SteadyInv' /\ Spares
      BY <1>3, <2>1 DEF RequestTimeout, HealthRefused
    <2>2. CASE HeartbeatRefused
      BY <1>3, <2>2 DEF HeartbeatRefused
    <2>3. ASSUME UNCHANGED <<retryVars, linkVars, phase>> PROVE SteadyInv' /\ Spares
      BY <1>1, <2>3 DEF retryVars, linkVars
    <2> QED BY <1>6, <2>1, <2>2, <2>3
            DEF UseLink, Submit, Answered, HeartbeatFires, HealthAnswered
  <1>7. CASE Environment
    <2>1. ASSUME NEW s \in Socket, SocketDrops(s) \/ SocketHangs(s) \/ ForgetSocket(s)
          PROVE  SteadyInv' /\ Spares
      BY <1>1, <2>1 DEF SocketDrops, SocketHangs, ForgetSocket, retryVars, linkVars
    <2>2. ASSUME NEW s \in Socket, CloseEvent(s) PROVE SteadyInv' /\ Spares
      BY <1>3, <2>1, <2>2 DEF CloseEvent
    <2>3. ASSUME NEW s \in Socket, ErrorEvent(s) PROVE SteadyInv' /\ Spares
      BY <1>3, <2>1, <2>3, FailureSpares DEF ErrorEvent
    <2>4. ASSUME NEW s \in Socket, ProcessDies(s) PROVE SteadyInv' /\ Spares
      BY <2>4 DEF ProcessDies, SteadyInv, Spares
    <2> QED BY <1>7, <2>1, <2>2, <2>3, <2>4 DEF Environment
  <1>8. CASE Lifecycle
    <2>1. CASE WindowElapses
      BY <2>1 DEF WindowElapses, SteadyInv, Spares, linkVars
    <2>2. CASE CooldownElapses
      BY <1>1, <2>2 DEF CooldownElapses, linkVars
    <2>3. ASSUME NEW s \in Socket, RecoveryEnds(s) PROVE SteadyInv' /\ Spares
      BY <1>1, <2>3 DEF RecoveryEnds, retryVars, TypeOK
    <2>4. CASE Close
      <3>1. \A s \in Socket : phase'[s] = "recover" => phase[s] = "recover"
        BY <2>4 DEF Close
      <3>2. canIssue' => canIssue /\ failures' = failures
        <4>1. Owners(pending) = {} => Capped(failures + Cardinality({})) = failures
          BY FS_EmptySet DEF Capped, TypeOK, FailureCap
        <4> QED BY <2>4, <4>1 DEF Close
      <3> QED BY <2>4, <3>1, <3>2 DEF Close, SteadyInv, Spares
    <2>5. CASE Quiescent
      BY <1>1, <2>5 DEF Quiescent, vars, retryVars, linkVars
    <2> QED BY <1>8, <2>1, <2>2, <2>3, <2>4, <2>5 DEF Lifecycle
  <1>9. CASE UNCHANGED vars
    BY <1>1, <1>9 DEF vars, retryVars, linkVars
  <1> QED BY <1>5, <1>6, <1>7, <1>8, <1>9 DEF Next

\* The gateway service is never restarted by what takes down a link in use
\* (maybeRecoverGatewayService), with any thresholds and any number of attempts.
THEOREM RestartSparesReadyLinkHolds == Spec => RestartSparesReadyLink
  <1>1. Init => SteadyInv
    BY DEF Init, SteadyInv
  <1>2. TypeOK /\ SteadyInv /\ [Next]_vars => [Spares]_vars
    BY NextSpares
  <1>3. TypeOK /\ SteadyInv /\ [Next]_vars => SteadyInv'
    BY NextSpares
  <1> QED BY <1>1, <1>2, <1>3, TypeCorrect, PTL DEF Spec, RestartSparesReadyLink, Spares

-----------------------------------------------------------------------------
(* Service recovery, which is on by default: reconnectOnce awaits a restart *)
(* of the gateway service, and nothing keeps the reconnect timer from      *)
(* opening a link meanwhile.  If it does, the restart that ends then arms  *)
(* the timer although a link is up, and all that follows may fail.  That   *)
(* is the only way it fails: as long as every restart ends before the next *)
(* link is opened, and so always when recovery is off, there is a link or  *)
(* something that will open one, and everything under way is about it.     *)

\* No link is opened while a restart of the service is awaited.
RestartAlone == \A s \in Socket : phase[s] = "recover" => ws = None

TimerOrLink == reconnectTimer # "off" => ws = None

OnlyCurrentHeard == listening \subseteq {ws}

AttemptIsCurrent ==
    \A s \in Socket : phase[s] \in {"hello", "plan"} =>
        s = ws /\ \E r \in pending : r.by = s

RequestsOnLink ==
    \A r \in pending :
        /\ r.on = ws
        /\ r.kind = "connect" => r.by = ws /\ phase[ws] = "hello"
        /\ r.kind = "plan" => r.by = ws /\ phase[ws] = "plan"
        /\ r.kind # "connect" => canIssue /\ status = "connected"

OneNegotiation ==
    \A r, q \in pending : (r.kind \in {"connect", "plan"} /\ q.kind \in {"connect", "plan"}) => r = q

ReadyLink ==
    (canIssue /\ ~closed) =>
        /\ status = "connected" /\ ws \in granted
        /\ heartbeat \/ \E r \in pending : r.kind \in {"plan", "health"}

NoLink == (ws = None /\ ~closed) => (~canIssue /\ status # "connected" /\ ~heartbeat)

Negotiating ==
    \A s \in Socket : (s = ws /\ phase[s] \in {"challenge", "hello"}) =>
        (~canIssue /\ status = "connecting" /\ ~heartbeat)

Idle == ~launched => /\ ws = None /\ reconnectTimer = "off"
                     /\ \A s \in Socket : phase[s] = "idle"

LinkInv == /\ TimerOrLink /\ OnlyCurrentHeard /\ AttemptIsCurrent
           /\ RequestsOnLink /\ OneNegotiation /\ ReadyLink /\ NoLink /\ Negotiating /\ Idle

-----------------------------------------------------------------------------
(* What a failure leaves behind.                                           *)

\* If every attempt past its challenge is among those that fail, the failure leaves no
\* conversation at all: no link, no request, at most a reconnect timer.
LEMMA FailureLinks ==
    ASSUME TypeOK, LinkInv, launched,
           NEW A, NEW first, NEW recoverable, NEW reschedule \in BOOLEAN,
           DropLink, FailAttempts(A, first, recoverable, reschedule),
           \A t \in Socket : phase[t] \in {"hello", "plan"} => t \in A
    PROVE  LinkInv'
  <1>1. PICK R \in SUBSET A : EndAttempts(A, R, reschedule)
    BY FailAttemptsEnds
  <1>3. \A t \in Socket : phase'[t] \notin {"hello", "plan"}
    BY <1>1 DEF EndAttempts, TypeOK, Phase
  <1>4. /\ ws' = None /\ pending' = {} /\ ~canIssue' /\ ~heartbeat' /\ status' = "connecting"
        /\ listening' \subseteq {}
    BY DEF DropLink, LinkInv, OnlyCurrentHeard
  <1>5. launched'
    BY <1>1 DEF EndAttempts
  <1> QED BY <1>3, <1>4, <1>5, SocketAssumption DEF LinkInv, TimerOrLink,
          OnlyCurrentHeard, AttemptIsCurrent, RequestsOnLink, OneNegotiation, ReadyLink, NoLink, Negotiating, Idle

\* The attempts past their challenge are those that await a pending request.
LEMMA OwnersAreAttempts ==
    ASSUME TypeOK, LinkInv, NEW t \in Socket, phase[t] \in {"hello", "plan"}
    PROVE  t \in Owners(pending) /\ t = ws
  <1>1. PICK r \in pending : r.by = t
    BY DEF LinkInv, AttemptIsCurrent
  <1>2. r.kind \in {"connect", "plan"}
    BY <1>1, SocketAssumption, CallerAssumption DEF TypeOK, Request
  <1> QED BY <1>1, <1>2 DEF Owners, LinkInv, AttemptIsCurrent

\* A link that fails takes its conversation with it.
LEMMA LinkLossLinks ==
    ASSUME TypeOK, LinkInv, launched, NEW recoverable,
           LinkFails(pending, recoverable)
    PROVE  LinkInv'
  <1>1. \A t \in Socket : phase[t] \in {"hello", "plan"} => t \in Owners(pending)
    BY OwnersAreAttempts
  <1> QED BY <1>1, FailureLinks DEF LinkFails

\* An attempt in its challenge fails, together with the one that is past it.
LEMMA ChallengeFailureLinks ==
    ASSUME TypeOK, LinkInv, launched, NEW s \in Socket, NEW recoverable,
           AttemptFails(s, pending, recoverable)
    PROVE  LinkInv'
  <1>1. \A t \in Socket : phase[t] \in {"hello", "plan"} => t \in {s} \cup Owners(pending)
    BY OwnersAreAttempts
  <1> QED BY <1>1, FailureLinks DEF AttemptFails

\* The attempt past its challenge fails.
LEMMA CurrentFailureLinks ==
    ASSUME TypeOK, LinkInv, launched, NEW reqs, NEW recoverable,
           AttemptFails(ws, reqs, recoverable)
    PROVE  LinkInv'
  <1>1. \A t \in Socket : phase[t] \in {"hello", "plan"} => t \in {ws} \cup Owners(reqs)
    BY OwnersAreAttempts
  <1> QED BY <1>1, FailureLinks DEF AttemptFails

\* There was no link and nothing pending, and the new socket is in its challenge.
LEMMA OpenLinks ==
    ASSUME TypeOK, LinkInv, NEW s \in Socket, OpenSocket(s), ws = None, ~closed,
           launched', reconnectTimer' = "off"
    PROVE  LinkInv'
  <1>1. pending = {}
    BY SocketAssumption DEF LinkInv, RequestsOnLink, TypeOK, Request
  <1>2. ws' = s /\ ~canIssue' /\ ~heartbeat' /\ status' = "connecting" /\ pending' = {}
    BY <1>1 DEF OpenSocket, LinkInv, NoLink
  <1>4. listening' \subseteq {s}
    BY SocketAssumption DEF OpenSocket, LinkInv, OnlyCurrentHeard, TypeOK
  <1>3. \A t \in Socket : phase'[t] \notin {"hello", "plan"}
    <2>1. \A t \in Socket : phase[t] \notin {"hello", "plan"}
      BY SocketAssumption DEF LinkInv, AttemptIsCurrent
    <2> QED BY <2>1 DEF OpenSocket, TypeOK
  <1> QED BY <1>2, <1>3, <1>4, SocketAssumption DEF LinkInv, TimerOrLink,
          OnlyCurrentHeard, AttemptIsCurrent, RequestsOnLink, OneNegotiation, ReadyLink, NoLink, Negotiating, Idle

-----------------------------------------------------------------------------
(* One link at a time.                                                     *)

\* With recovery off no restart is ever awaited, so the condition of the theorems
\* below always holds (maybeRecoverGatewayService returns at once).
THEOREM NoRestartWithoutRecovery == ASSUME ~RecoveryEnabled PROVE Spec => []RestartAlone
<1> DEFINE Inv == \A s \in Socket : phase[s] # "recover"
<1>1. Init => Inv
  BY DEF Init
<1>2. TypeOK /\ Inv /\ [Next]_vars => Inv'
  <2> SUFFICES ASSUME TypeOK, Inv, [Next]_vars PROVE Inv'
    OBVIOUS
  <2>1. ASSUME NEW A, NEW first, NEW recoverable, NEW reschedule,
               FailAttempts(A, first, recoverable, reschedule)
        PROVE  Inv'
    <3>1. PICK R \in SUBSET A : EndAttempts(A, R, reschedule) /\ (R # {} => RecoveryEnabled)
      BY <2>1, FailAttemptsEnds
    <3> QED BY <3>1 DEF EndAttempts
  <2>2. CASE Negotiate
    BY <2>1, <2>2 DEF Negotiate, Start, ReconnectTimerFires, OpenSocket, ConnectionOpens,
       ChallengeArrives, ChallengeUnusable, ChallengeTimeout, ConnectTimeout, HelloReady,
       HelloBlocked, NegotiationRefused, PlanContinues, PlanInterrupted, PlanCompletes,
       ReconnectedListenerThrows, AttemptFails, TypeOK
  <2>3. CASE UseLink
    BY <2>1, <2>3 DEF UseLink, Submit, Answered, RequestTimeout, HeartbeatFires,
       HeartbeatRefused, HealthAnswered, HealthRefused, LinkFails
  <2>4. CASE Environment
    BY <2>1, <2>4 DEF Environment, SocketDrops, SocketHangs, ForgetSocket, CloseEvent,
       ErrorEvent, ProcessDies, LinkFails
  <2>5. CASE Lifecycle
    BY <2>5 DEF Lifecycle, RecoveryEnds, WindowElapses, CooldownElapses, Close, Quiescent, vars
  <2>6. CASE UNCHANGED vars
    BY <2>6 DEF vars
  <2> QED BY <2>2, <2>3, <2>4, <2>5, <2>6 DEF Next
<1>3. Inv => RestartAlone
  BY DEF RestartAlone
<1> QED BY <1>1, <1>2, <1>3, TypeCorrect, PTL DEF Spec

\* With recovery or without, as long as every restart of the service ends before the
\* next link is opened: there is one link at a time, and every request, attempt, timer
\* and flag of the client is about it, however often the link is lost and the service
\* restarted.
THEOREM LinkHolds == Spec /\ []RestartAlone => []LinkInv
<1>1. Init => LinkInv
  BY SocketAssumption DEF Init, LinkInv, TimerOrLink, OnlyCurrentHeard,
     AttemptIsCurrent, RequestsOnLink, OneNegotiation, ReadyLink, NoLink, Negotiating, Idle
<1>2. TypeOK /\ SafetyInv /\ RestartAlone /\ LinkInv /\ [Next]_vars => LinkInv'
  <2> SUFFICES ASSUME TypeOK, SafetyInv, RestartAlone, LinkInv, [Next]_vars PROVE LinkInv'
    OBVIOUS
  <2>1. ASSUME NEW s \in Socket, Start(s) PROVE LinkInv'
    BY <2>1, OpenLinks DEF Start, SafetyInv, LaunchInv, LinkInv, Idle, OpenSocket
  <2>2. ASSUME NEW s \in Socket, ReconnectTimerFires(s) PROVE LinkInv'
    BY <2>2, OpenLinks DEF ReconnectTimerFires, SafetyInv, ClosedIsQuiet, LinkInv,
       TimerOrLink, Idle, OpenSocket
  <2>3. ASSUME UNCHANGED <<launched, closed, linkVars, timerVars, pending, phase, granted>>,
               listening' \subseteq listening
        PROVE  LinkInv'
    BY <2>3 DEF linkVars, timerVars, LinkInv, TimerOrLink,
       OnlyCurrentHeard, AttemptIsCurrent, RequestsOnLink, OneNegotiation, ReadyLink, NoLink, Negotiating, Idle
  <2>4. ASSUME NEW s \in Socket, ConnectionOpens(s) PROVE LinkInv'
    BY <2>3, <2>4 DEF ConnectionOpens
  <2>5. ASSUME NEW s \in Socket, ChallengeArrives(s) PROVE LinkInv'
    <3>1. s = ws /\ ~canIssue /\ status = "connecting" /\ ~heartbeat
      BY <2>5 DEF ChallengeArrives, LinkInv, OnlyCurrentHeard, Negotiating
    <3>2. pending' = {ConnectRequest(s)}
      BY <2>5, <3>1 DEF ChallengeArrives, LinkInv, RequestsOnLink, Connects
    <3>3. \A t \in Socket : t # s => phase'[t] = phase[t] /\ phase'[t] \notin {"hello", "plan"}
      BY <2>5, <3>1 DEF ChallengeArrives, LinkInv, AttemptIsCurrent, TypeOK
    <3>4. phase'[s] = "hello"
      BY <2>5 DEF ChallengeArrives, TypeOK
    <3>5. launched /\ launched' /\ UNCHANGED <<ws, canIssue, status, heartbeat, reconnectTimer, listening>>
      BY <2>5, <3>1 DEF ChallengeArrives, linkVars, timerVars, LinkInv, Idle
    <3> QED BY <3>1, <3>2, <3>3, <3>4, <3>5 DEF ConnectRequest, LinkInv, TimerOrLink, OnlyCurrentHeard, AttemptIsCurrent, RequestsOnLink, OneNegotiation, ReadyLink, NoLink,
            Negotiating, Idle
  <2>6. ASSUME NEW s \in Socket, ChallengeUnusable(s) \/ ChallengeTimeout(s) PROVE LinkInv'
    BY <2>6, ChallengeFailureLinks DEF ChallengeUnusable, ChallengeTimeout, LinkInv, Idle
  <2>7. ASSUME NEW s \in Socket, ConnectTimeout(s) PROVE LinkInv'
    BY <2>7, CurrentFailureLinks DEF ConnectTimeout, LinkInv, AttemptIsCurrent, Idle
  <2>8. \A r \in pending : /\ r.on = ws /\ ws \in Socket /\ launched /\ ~closed
                           /\ r.kind \in {"connect", "plan"} => r.by = ws
    BY SocketAssumption DEF LinkInv, RequestsOnLink, Idle, TypeOK, Request, SafetyInv, ClosedIsQuiet
  <2>9. ASSUME NEW r \in pending, r.kind = "connect"
        PROVE  /\ pending \ {r} = {} /\ phase[ws] = "hello" /\ r.by = ws
               /\ \A t \in Socket : t # ws => phase[t] \notin {"hello", "plan"}
               /\ ~heartbeat
    <3>1. phase[ws] = "hello" /\ r.by = ws
      BY <2>9 DEF LinkInv, RequestsOnLink
    <3>2. ~canIssue /\ ~heartbeat
      BY <2>8, <3>1 DEF LinkInv, Negotiating
    <3>3. \A q \in pending : q.kind = "connect"
      BY <3>2 DEF LinkInv, RequestsOnLink
    <3>4. \A q \in pending : q = r
      BY <2>9, <3>3 DEF LinkInv, OneNegotiation
    <3> QED BY <3>1, <3>2, <3>4 DEF LinkInv, AttemptIsCurrent
  <2>10. ASSUME NEW r \in pending, HelloReady(r) PROVE LinkInv'
    <3>1. pending' = {PlanRequest(ws, PlanLength)}
      BY <2>9, <2>10 DEF HelloReady
    <3>2. /\ phase'[ws] = "plan"
          /\ \A t \in Socket : t # ws => phase'[t] \notin {"hello", "plan"}
      BY <2>8, <2>9, <2>10 DEF HelloReady, TypeOK
    <3>3. UNCHANGED <<ws, reconnectTimer, listening, launched, closed>> /\ canIssue'
          /\ status' = "connected" /\ granted' = granted \cup {ws} /\ ws # None /\ launched
      BY <2>8, <2>10, SocketAssumption DEF HelloReady, timerVars
    <3> QED BY <3>1, <3>2, <3>3 DEF PlanRequest, LinkInv, TimerOrLink,
            OnlyCurrentHeard, AttemptIsCurrent, RequestsOnLink, OneNegotiation, ReadyLink, NoLink, Negotiating, Idle
  <2>11. ASSUME NEW r \in pending, HelloBlocked(r) PROVE LinkInv'
    <3>1. pending' = {}
      BY <2>9, <2>11 DEF HelloBlocked
    <3>2. \A t \in Socket : phase'[t] \notin {"hello", "plan"}
      BY <2>8, <2>9, <2>11 DEF HelloBlocked, TypeOK
    <3>3. phase'[ws] = "idle"
      BY <2>8, <2>9, <2>11 DEF HelloBlocked, TypeOK
    <3>4. UNCHANGED <<ws, reconnectTimer, listening, launched, closed>> /\ ~canIssue'
          /\ ws # None /\ launched
      BY <2>8, <2>11, SocketAssumption DEF HelloBlocked, timerVars
    <3> QED BY <3>1, <3>2, <3>3, <3>4 DEF LinkInv, TimerOrLink,
            OnlyCurrentHeard, AttemptIsCurrent, RequestsOnLink, OneNegotiation, ReadyLink, NoLink, Negotiating, Idle
  <2>12. ASSUME NEW r \in pending,
                NegotiationRefused(r) \/ PlanInterrupted(r) \/ ReconnectedListenerThrows(r)
         PROVE  LinkInv'
    <3>1. r.by = ws /\ launched
      BY <2>8, <2>12 DEF NegotiationRefused, PlanInterrupted, ReconnectedListenerThrows
    <3>2. PICK recoverable : AttemptFails(r.by, pending \ {r}, recoverable)
      BY <2>12 DEF NegotiationRefused, PlanInterrupted, ReconnectedListenerThrows
    <3> QED BY <3>1, <3>2, CurrentFailureLinks
  <2>13. ASSUME NEW r \in pending, PlanContinues(r) PROVE LinkInv'
    <3>1. r.by = ws /\ r.on = ws /\ phase[ws] = "plan" /\ canIssue /\ status = "connected"
      BY <2>13 DEF PlanContinues, LinkInv, RequestsOnLink
    <3> DEFINE q == PlanRequest(ws, r.left - 1)
    <3>2. q \in pending' /\ q.by = ws /\ q.on = ws /\ q.kind = "plan"
      BY <2>13, <3>1 DEF PlanContinues, PlanRequest
    <3>3. \A p \in pending' : (p \in pending /\ p.kind \notin {"connect", "plan"}) \/ p = q
      BY <2>13, <3>1 DEF PlanContinues, LinkInv, OneNegotiation
    <3>4. UNCHANGED <<launched, closed, ws, status, canIssue, reconnectTimer, heartbeat,
                      phase, listening, granted>>
      BY <2>13 DEF PlanContinues, linkVars, timerVars
    <3> HIDE DEF q
    <3>5. AttemptIsCurrent' /\ RequestsOnLink' /\ OneNegotiation'
      BY <3>1, <3>2, <3>3, <3>4 DEF LinkInv, AttemptIsCurrent, RequestsOnLink, OneNegotiation
    <3>6. ReadyLink'
      BY <3>1, <3>2, <3>4 DEF LinkInv, ReadyLink
    <3> QED BY <3>1, <3>4, <3>5, <3>6 DEF LinkInv, TimerOrLink,
            OnlyCurrentHeard, AttemptIsCurrent, RequestsOnLink, OneNegotiation, ReadyLink, NoLink, Negotiating, Idle
  <2>14. ASSUME NEW r \in pending, PlanCompletes(r) PROVE LinkInv'
    <3>1. r.by = ws /\ phase[ws] = "plan" /\ canIssue /\ status = "connected" /\ ws \in Socket
          /\ launched /\ ~closed
      BY <2>8, <2>14 DEF PlanCompletes, LinkInv, RequestsOnLink
    <3>2. \A q \in pending' : q \in pending /\ q.kind \notin {"connect", "plan"}
      BY <2>14 DEF PlanCompletes, LinkInv, OneNegotiation
    <3>3. \A t \in Socket : phase'[t] \notin {"challenge", "hello", "plan"} \/ t # ws
      BY <2>14, <3>1 DEF PlanCompletes, TypeOK
    <3>4. \A t \in Socket : phase'[t] \notin {"hello", "plan"}
      BY <2>14, <3>1 DEF PlanCompletes, LinkInv, AttemptIsCurrent, TypeOK
    <3>5. UNCHANGED <<launched, closed, ws, status, canIssue, reconnectTimer, listening, granted>>
          /\ heartbeat' /\ ws # None
      BY <2>14, <3>1, SocketAssumption DEF PlanCompletes, linkVars
    <3> QED BY <3>1, <3>2, <3>3, <3>4, <3>5 DEF LinkInv, TimerOrLink,
            OnlyCurrentHeard, AttemptIsCurrent, RequestsOnLink, OneNegotiation, ReadyLink, NoLink,
            Negotiating, Idle
  <2>15. ASSUME UNCHANGED <<launched, closed, linkVars, reconnectTimer, phase, listening, granted>>,
                canIssue, status = "connected", ws # None,
                \A q \in pending' : q \in pending \/ (q.on = ws /\ q.kind \in {"app", "health"}),
                \A q \in pending : q \in pending' \/ q.kind \in {"app", "health"},
                heartbeat' \/ \E q \in pending' : q.kind \in {"plan", "health"}
         PROVE  LinkInv'
    <3>1. UNCHANGED <<launched, closed, ws, status, canIssue, reconnectTimer, phase, listening, granted>>
      BY <2>15 DEF linkVars
    <3>2. \A s \in Socket : phase[s] \in {"hello", "plan"} => \E q \in pending' : q.by = s
      BY <2>15, CallerAssumption, SocketAssumption DEF LinkInv, AttemptIsCurrent, TypeOK, Request
    <3> QED BY <2>15, <3>1, <3>2 DEF LinkInv, TimerOrLink, OnlyCurrentHeard,
            AttemptIsCurrent, RequestsOnLink, OneNegotiation, ReadyLink, NoLink, Negotiating, Idle
  <2>16. ASSUME NEW r \in pending, r.kind \in {"app", "health"}
         PROVE  /\ canIssue /\ status = "connected" /\ ws # None
                /\ heartbeat \/ \E q \in pending : q.kind \in {"plan", "health"}
    BY <2>8, <2>16, SocketAssumption DEF LinkInv, RequestsOnLink, ReadyLink
  <2>17. ASSUME NEW c \in Caller, Submit(c) PROVE LinkInv'
    <3>1. canIssue /\ status = "connected" /\ ws # None /\ ~closed
      BY <2>17 DEF Submit, MaySendControl, SocketOpen, SafetyInv, ClosedIsQuiet
    <3>2. heartbeat \/ \E q \in pending : q.kind \in {"plan", "health"}
      BY <3>1 DEF LinkInv, ReadyLink
    <3> QED BY <2>15, <2>17, <3>1, <3>2 DEF Submit, AppRequest, timerVars
  <2>18. ASSUME NEW r \in pending, Answered(r) PROVE LinkInv'
    BY <2>15, <2>16, <2>18 DEF Answered, timerVars
  <2>19. ASSUME NEW r \in pending, RequestTimeout(r) PROVE LinkInv'
    BY <2>8, <2>19, LinkLossLinks DEF RequestTimeout
  <2>20. ASSUME HeartbeatFires PROVE LinkInv'
    <3>1. HealthRequest \in pending' /\ HealthRequest.kind = "health" /\ HealthRequest.on = ws
      BY <2>20 DEF HeartbeatFires, HealthRequest
    <3>2. pending' = pending \cup {HealthRequest}
      BY <2>20 DEF HeartbeatFires
    <3> QED BY <2>15, <2>20, <3>1, <3>2 DEF HeartbeatFires, MaySendControl, SocketOpen
  <2>21. ASSUME HeartbeatRefused PROVE LinkInv'
    <3>1. launched
      BY <2>21 DEF HeartbeatRefused, LinkInv, NoLink, Idle, SafetyInv, ClosedIsQuiet
    <3> QED BY <2>21, <3>1, LinkLossLinks DEF HeartbeatRefused
  <2>22. ASSUME NEW r \in pending, HealthAnswered(r) PROVE LinkInv'
    <3>1. heartbeat'
      BY <2>8, <2>16, <2>22 DEF HealthAnswered
    <3> QED BY <2>15, <2>16, <2>22, <3>1 DEF HealthAnswered
  <2>23. ASSUME NEW r \in pending, HealthRefused(r) PROVE LinkInv'
    <3>1. LinkFails(pending \ {r}, FALSE) /\ launched
      BY <2>8, <2>23 DEF HealthRefused
    <3>2. \A t \in Socket : phase[t] \in {"hello", "plan"} => t \in Owners(pending \ {r})
      BY <2>23, OwnersAreAttempts DEF HealthRefused, Owners
    <3> QED BY <3>1, <3>2, FailureLinks DEF LinkFails
  <2>24. ASSUME NEW s \in Socket, SocketDrops(s) \/ SocketHangs(s) \/ ForgetSocket(s)
         PROVE  LinkInv'
    BY <2>3, <2>24 DEF SocketDrops, SocketHangs, ForgetSocket
  <2>25. \A s \in listening : s = ws /\ launched
    BY SocketAssumption DEF LinkInv, OnlyCurrentHeard, Idle, TypeOK
  <2>26. ASSUME NEW s \in Socket, CloseEvent(s) PROVE LinkInv'
    BY <2>24, <2>25, <2>26, LinkLossLinks DEF CloseEvent
  <2>27. ASSUME NEW s \in Socket, ErrorEvent(s) PROVE LinkInv'
    <3>1. CASE phase[s] = "challenge"
      <4>1. \A t \in Socket : phase[t] \in {"hello", "plan"} => t \in {s} \cup Owners(pending)
        BY OwnersAreAttempts
      <4> QED BY <2>25, <2>27, <3>1, <4>1, FailureLinks DEF ErrorEvent
    <3>2. CASE phase[s] # "challenge"
      BY <2>24, <2>25, <2>27, <3>2, LinkLossLinks DEF ErrorEvent
    <3> QED BY <3>1, <3>2
  <2>28. ASSUME NEW s \in Socket, ProcessDies(s) PROVE LinkInv'
    BY <2>28, SocketAssumption DEF ProcessDies, LinkInv, TimerOrLink, OnlyCurrentHeard,
       AttemptIsCurrent, RequestsOnLink, OneNegotiation, ReadyLink, NoLink, Negotiating, Idle
  <2>29. ASSUME NEW s \in Socket, RecoveryEnds(s) PROVE LinkInv'
    <3>1. ws = None /\ launched
      BY <2>29 DEF RecoveryEnds, RestartAlone, LinkInv, Idle
    <3>2. \A t \in Socket : phase'[t] \in {"challenge", "hello", "plan"} => phase'[t] = phase[t]
      BY <2>29 DEF RecoveryEnds, TypeOK
    <3>3. ~closed => status # "connected" /\ status' # "connected"
      BY <2>29, <3>1 DEF RecoveryEnds, LinkInv, NoLink
    <3>4. pending = {} /\ pending' = {}
      BY <2>29, <3>1, SocketAssumption DEF RecoveryEnds, LinkInv, RequestsOnLink, TypeOK, Request
    <3>5. UNCHANGED <<launched, closed, ws, canIssue, heartbeat, pending, listening, granted>>
      BY <2>29 DEF RecoveryEnds
    <3> QED BY <3>1, <3>2, <3>3, <3>4, <3>5, SocketAssumption DEF LinkInv, TimerOrLink,
            OnlyCurrentHeard, AttemptIsCurrent, RequestsOnLink, OneNegotiation, ReadyLink, NoLink,
            Negotiating, Idle
  <2>30. ASSUME WindowElapses \/ CooldownElapses PROVE LinkInv'
    BY <2>3, <2>30 DEF WindowElapses, CooldownElapses
  <2>31. ASSUME Close PROVE LinkInv'
    <3>1. \A t \in Socket : phase'[t] \notin {"hello", "plan"}
      BY <2>31, OwnersAreAttempts DEF Close, LinkInv, TypeOK
    <3>2. closed' /\ launched' /\ ws' = None /\ reconnectTimer' = "off" /\ pending' = {}
          /\ listening' \subseteq {}
      BY <2>31 DEF Close, LinkInv, OnlyCurrentHeard
    <3> QED BY <3>1, <3>2, SocketAssumption DEF LinkInv, TimerOrLink, OnlyCurrentHeard,
            AttemptIsCurrent, RequestsOnLink, OneNegotiation, ReadyLink, NoLink, Negotiating, Idle
  <2>32. CASE UNCHANGED vars
    BY <2>3, <2>32 DEF vars
  <2>33. CASE Negotiate
    BY <2>33, <2>1, <2>2, <2>4, <2>5, <2>6, <2>7, <2>10, <2>11, <2>12, <2>13, <2>14 DEF Negotiate
  <2>34. CASE UseLink
    BY <2>34, <2>17, <2>18, <2>19, <2>20, <2>21, <2>22, <2>23 DEF UseLink
  <2>35. CASE Environment
    BY <2>35, <2>24, <2>26, <2>27, <2>28 DEF Environment
  <2>36. CASE Lifecycle
    BY <2>36, <2>29, <2>30, <2>31, <2>32 DEF Lifecycle, Quiescent
  <2> QED BY <2>32, <2>33, <2>34, <2>35, <2>36 DEF Next
<1> QED BY <1>1, <1>2, TypeCorrect, SafetyHolds, PTL DEF Spec

\* The flags speak of the current, granted socket, as long as every restart of the
\* service ends before the next link is opened.
COROLLARY ReadyMeansGrantedHolds == Spec /\ []RestartAlone => []ReadyMeansGranted
<1>1. LinkInv => ReadyMeansGranted
  BY DEF LinkInv, ReadyLink, ReadyMeansGranted
<1> QED BY <1>1, LinkHolds, PTL

\* A link in use is always being probed, under the same condition.
COROLLARY ReadyLinkIsWatchedHolds == Spec /\ []RestartAlone => []ReadyLinkIsWatched
<1>1. LinkInv => ReadyLinkIsWatched
  BY DEF LinkInv, ReadyLink, ReadyLinkIsWatched
<1> QED BY <1>1, LinkHolds, PTL

\* There is one conversation at a time, under the same condition.
COROLLARY OneConversationHolds == Spec /\ []RestartAlone => []OneConversation
<1>1. LinkInv => OneConversation
  BY DEF LinkInv, TimerOrLink, AttemptIsCurrent, OneConversation
<1> QED BY <1>1, LinkHolds, PTL

\* An attempt that awaits an answer has a request out whose timer will end it, under
\* the same condition.
COROLLARY AttemptsAreBoundedHolds == Spec /\ []RestartAlone => []AttemptsAreBounded
<1>1. LinkInv => AttemptsAreBounded
  BY DEF LinkInv, AttemptIsCurrent, AttemptsAreBounded
<1> QED BY <1>1, LinkHolds, PTL

-----------------------------------------------------------------------------
(* The port the routes see.                                                *)

\* A failure maps to a loss of the port, or to nothing if it was not in use.
LEMMA FailureMaps ==
    ASSUME TypeOK, SafetyInv, LinkInv, launched, launched', closed' = closed, DropLink
    PROVE  [Port!Next]_(Port!vars)
  <1>1. pending' = {} /\ status' = "connecting" /\ ~canIssue'
    BY DEF DropLink
  <1>2. Outstanding' = {} /\ Mode' = (IF closed THEN "shut" ELSE "linking")
    BY <1>1 DEF Outstanding, Mode
  <1>3. CASE closed
    <2>1. pending = {}
      BY <1>3 DEF SafetyInv, ClosedIsQuiet
    <2> QED BY <1>2, <1>3, <2>1 DEF Port!vars, Outstanding, Mode
  <1>4. CASE ~closed /\ status = "connected"
    BY <1>2, <1>4 DEF Port!Next, Port!Lose, Mode
  <1>5. CASE ~closed /\ status # "connected"
    <2>1. Outstanding = {}
      BY <1>5 DEF LinkInv, RequestsOnLink, Outstanding
    <2> QED BY <1>2, <1>5, <2>1 DEF Port!vars, Mode
  <1> QED BY <1>3, <1>4, <1>5

\* As long as every restart of the service ends before the next link is opened, every
\* step of the gateway client is a step of the port or none: the routes' calls are
\* accepted only while it is ready, and all of them are rejected in the step in which
\* it stops being ready.
THEOREM ImplementsPortSafely == Spec /\ []RestartAlone => Port!SafeSpec
<1>1. Init => Port!Init
  BY DEF Init, Port!Init, Mode, Outstanding
<1>2. TypeOK /\ SafetyInv /\ RestartAlone /\ LinkInv /\ [Next]_vars => [Port!Next]_(Port!vars)
  <2> SUFFICES ASSUME TypeOK, SafetyInv, RestartAlone, LinkInv, [Next]_vars
               PROVE  [Port!Next]_(Port!vars)
    OBVIOUS
  <2>1. ASSUME UNCHANGED <<launched, closed, status, canIssue>>,
               \A r \in pending \cup pending' : r.kind = "app" => r \in pending \cap pending'
        PROVE  UNCHANGED Port!vars
    <3>1. Mode' = Mode
      BY <2>1 DEF Mode
    <3>2. {q \in pending' : q.kind = "app"} = {q \in pending : q.kind = "app"}
      BY <2>1
    <3> QED BY <3>1, <3>2 DEF Port!vars, Outstanding
  <2>2. \A r \in pending : r.kind = "app" => status = "connected" /\ canIssue
    BY DEF LinkInv, RequestsOnLink
  <2>3. \A r \in pending : /\ launched /\ ~closed /\ ws \in Socket
                           /\ r.kind = "connect" => status = "connecting" /\ ~canIssue
    BY SocketAssumption DEF LinkInv, RequestsOnLink, Negotiating, Idle, TypeOK, Request,
       SafetyInv, ClosedIsQuiet
  <2>4. ASSUME NEW s \in Socket, Start(s) PROVE [Port!Next]_(Port!vars)
    <3>1. ~closed /\ Mode = "new" /\ Mode' = "linking"
      BY <2>4 DEF Start, OpenSocket, Mode, SafetyInv, LaunchInv
    <3>2. Outstanding' = Outstanding
      BY <2>4 DEF Start, OpenSocket, Outstanding
    <3> QED BY <3>1, <3>2 DEF Port!Next, Port!Dial
  <2>5. ASSUME NEW s \in Socket, ReconnectTimerFires(s) PROVE [Port!Next]_(Port!vars)
    <3>1. ~closed /\ launched /\ status # "connected"
      BY <2>5 DEF ReconnectTimerFires, SafetyInv, ClosedIsQuiet, LinkInv, TimerOrLink, NoLink, Idle
    <3>2. Mode' = "linking" /\ Mode = "linking"
      BY <2>5, <3>1 DEF ReconnectTimerFires, OpenSocket, Mode
    <3>3. Outstanding' = Outstanding
      BY <2>5 DEF ReconnectTimerFires, OpenSocket, Outstanding
    <3> QED BY <3>2, <3>3 DEF Port!vars
  <2>6. ASSUME NEW s \in Socket, ConnectionOpens(s) \/ SocketDrops(s) \/ SocketHangs(s) \/ ForgetSocket(s)
        PROVE  UNCHANGED Port!vars
    BY <2>1, <2>6 DEF ConnectionOpens, SocketDrops, SocketHangs, ForgetSocket, linkVars
  <2>7. ASSUME NEW s \in Socket, ChallengeArrives(s) PROVE UNCHANGED Port!vars
    BY <2>1, <2>7 DEF ChallengeArrives, ConnectRequest, Connects, linkVars
  <2>8. ASSUME NEW s \in Socket, ChallengeUnusable(s) \/ ChallengeTimeout(s) \/ ConnectTimeout(s)
        PROVE  [Port!Next]_(Port!vars)
    <3>1. launched
      BY <2>8 DEF ChallengeUnusable, ChallengeTimeout, ConnectTimeout, LinkInv, Idle
    <3> QED BY <2>8, <3>1, FailureMaps DEF ChallengeUnusable, ChallengeTimeout, ConnectTimeout,
            AttemptFails, FailAttempts, EndAttempts
  <2>9. ASSUME NEW r \in pending, HelloReady(r) \/ HelloBlocked(r)
        PROVE  [Port!Next]_(Port!vars)
    <3>1. Mode = "linking" /\ Mode' \in {"ready", "blocked"}
      BY <2>3, <2>9 DEF HelloReady, HelloBlocked, Mode
    <3>2. \A q \in pending' : q \in pending \/ q.kind = "plan"
      BY <2>9 DEF HelloReady, HelloBlocked, PlanRequest
    <3>3. Outstanding = {} /\ Outstanding' = {}
      BY <2>2, <2>3, <2>9, <3>2 DEF HelloReady, HelloBlocked, Outstanding
    <3> QED BY <3>1, <3>3 DEF Port!Next, Port!Negotiate
  <2>10. ASSUME NEW r \in pending,
                NegotiationRefused(r) \/ PlanInterrupted(r) \/ ReconnectedListenerThrows(r)
         PROVE  [Port!Next]_(Port!vars)
    BY <2>3, <2>10, FailureMaps DEF NegotiationRefused, PlanInterrupted,
       ReconnectedListenerThrows, AttemptFails, FailAttempts, EndAttempts
  <2>11. ASSUME NEW r \in pending, PlanContinues(r) \/ PlanCompletes(r) \/ HealthAnswered(r)
         PROVE  UNCHANGED Port!vars
    BY <2>1, <2>11 DEF PlanContinues, PlanCompletes, HealthAnswered, PlanRequest, linkVars
  <2>12. ASSUME NEW c \in Caller, Submit(c) PROVE [Port!Next]_(Port!vars)
    <3>1. Mode = "ready" /\ Mode' = Mode
      BY <2>12 DEF Submit, MaySendControl, SocketOpen, Mode, linkVars, LinkInv, Idle,
         SafetyInv, ClosedIsQuiet
    <3>2. c \notin Outstanding
      BY <2>12 DEF Submit, Outstanding
    <3>3. Outstanding' = Outstanding \cup {c}
      <4> DEFINE q == AppRequest(c)
      <4>1. q.kind = "app" /\ q.by = c
        BY DEF AppRequest
      <4>2. pending' = pending \cup {q}
        BY <2>12 DEF Submit
      <4> HIDE DEF q
      <4> QED BY <4>1, <4>2 DEF Outstanding
    <3> QED BY <3>1, <3>2, <3>3 DEF Port!Next, Port!Submit
  <2>13. ASSUME NEW r \in pending, Answered(r) PROVE [Port!Next]_(Port!vars)
    <3>1. Mode = "ready" /\ Mode' = Mode
      BY <2>2, <2>3, <2>13 DEF Answered, Mode, linkVars
    <3>2. r.by \in Caller /\ r.by \in Outstanding
      BY <2>13 DEF Answered, Outstanding, TypeOK, Request
    <3>3. \A q \in pending : q.kind = "app" /\ q.by = r.by => q = r
      BY <2>13 DEF Answered, LinkInv, RequestsOnLink, TypeOK, Request
    <3>4. Outstanding' = Outstanding \ {r.by}
      BY <2>13, <3>3 DEF Answered, Outstanding
    <3> QED BY <3>1, <3>2, <3>4 DEF Port!Next, Port!Answer
  <2>14. ASSUME NEW r \in pending, RequestTimeout(r) \/ HealthRefused(r)
         PROVE  [Port!Next]_(Port!vars)
    BY <2>3, <2>14, FailureMaps DEF RequestTimeout, HealthRefused, LinkFails, FailAttempts, EndAttempts
  <2>15. ASSUME HeartbeatFires PROVE UNCHANGED Port!vars
    BY <2>1, <2>15 DEF HeartbeatFires, HealthRequest, linkVars
  <2>16. ASSUME HeartbeatRefused PROVE [Port!Next]_(Port!vars)
    <3>1. launched
      BY <2>16 DEF HeartbeatRefused, LinkInv, NoLink, Idle, SafetyInv, ClosedIsQuiet
    <3> QED BY <2>16, <3>1, FailureMaps DEF HeartbeatRefused, LinkFails, FailAttempts, EndAttempts
  <2>17. \A s \in listening : launched
    BY SocketAssumption DEF LinkInv, OnlyCurrentHeard, Idle, TypeOK
  <2>18. ASSUME NEW s \in Socket, CloseEvent(s) \/ ErrorEvent(s) PROVE [Port!Next]_(Port!vars)
    BY <2>6, <2>17, <2>18, FailureMaps DEF CloseEvent, ErrorEvent, LinkFails, FailAttempts, EndAttempts
  <2>19. ASSUME NEW s \in Socket, ProcessDies(s) PROVE [Port!Next]_(Port!vars)
    <3>1. Mode' = "new" /\ Outstanding' = {}
      BY <2>19 DEF ProcessDies, Mode, Outstanding
    <3>2. CASE Mode = "new"
      BY <2>3, <3>1, <3>2 DEF Mode, Outstanding, Port!vars
    <3>3. CASE Mode # "new"
      BY <3>1, <3>3 DEF Port!Next, Port!Restart
    <3> QED BY <3>2, <3>3
  <2>20. ASSUME NEW s \in Socket, RecoveryEnds(s) PROVE UNCHANGED Port!vars
    <3>1. ~closed => status # "connected" /\ status' # "connected"
      BY <2>20 DEF RecoveryEnds, RestartAlone, LinkInv, NoLink
    <3>2. UNCHANGED <<launched, closed, canIssue, pending>>
      BY <2>20 DEF RecoveryEnds
    <3> QED BY <3>1, <3>2 DEF Mode, Outstanding, Port!vars
  <2>21. ASSUME WindowElapses \/ CooldownElapses PROVE UNCHANGED Port!vars
    BY <2>1, <2>21 DEF WindowElapses, CooldownElapses, linkVars
  <2>22. ASSUME Close PROVE [Port!Next]_(Port!vars)
    BY <2>22 DEF Close, Mode, Outstanding, Port!Next, Port!Shut
  <2>23. CASE UNCHANGED vars
    BY <2>1, <2>23 DEF vars, linkVars
  <2>24. CASE Negotiate
    BY <2>24, <2>4, <2>5, <2>6, <2>7, <2>8, <2>9, <2>10, <2>11 DEF Negotiate
  <2>25. CASE UseLink
    BY <2>25, <2>11, <2>12, <2>13, <2>14, <2>15, <2>16 DEF UseLink
  <2>26. CASE Environment
    BY <2>26, <2>6, <2>18, <2>19 DEF Environment
  <2>27. CASE Lifecycle
    BY <2>27, <2>20, <2>21, <2>22, <2>23 DEF Lifecycle, Quiescent
  <2> QED BY <2>23, <2>24, <2>25, <2>26, <2>27 DEF Next
<1> QED BY <1>1, <1>2, TypeCorrect, SafetyHolds, LinkHolds, PTL DEF Spec, Port!SafeSpec
=============================================================================
