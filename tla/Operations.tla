----------------------------- MODULE Operations -----------------------------
(***************************************************************************)
(* The verdicts an operations report shows beside the release gate: the    *)
(* Verification Center with its score, the native truth monitor, and how   *)
(* failing receipts compare with later ones.  They rest on Reports and on  *)
(* the self-checks of the desktop host (apps/desktop/src-tauri/src/main.rs) *)
(* which writes their results into a table of the same database.           *)
(*                                                                         *)
(* Left out: freshness badges, details and advice of a gate, and the older *)
(* rows of the native history, which are only listed.                      *)
(***************************************************************************)
EXTENDS Reports

CONSTANTS
    Gateway,      \* "npm run verify:gateway"
    Desktop,      \* "npm run verify:desktop-native"
    OnMac         \* does the desktop host run on macOS?

ASSUME OperationsConstants ==
    /\ Gateway # Desktop /\ Gateway \in Command
    /\ OnMac \in BOOLEAN

VARIABLES
    native        \* the newest row of journal_native_runner_history, or None

opsVars == <<now, rows, present, listed, summary, snapshots, jobs, rolledBack, faults,
             dryRun, verified, native>>

GateStatus  == {"passed", "unknown", "warning", "blocked"}
CheckStatus == {"ok", "unknown", "degraded", "failed"}

CheckId == {"api_liveness", "gateway_readiness", "launch_agent",
            "sqlite_integrity", "secret_store"}

NativeRow == [at : Time, checks : [CheckId -> CheckStatus], status : GateStatus]

OpsTypeOK == ReportTypeOK /\ native \in NativeRow \cup {None}

OpsInit == ReportInit /\ native = None

-----------------------------------------------------------------------------
(* The desktop self-check.                                                 *)

\* probe_api_health: without the API nothing is known of the gateway.
ProbedHealth == {[api |-> "ok", gateway |-> "ok"], [api |-> "ok", gateway |-> "degraded"],
                 [api |-> "failed", gateway |-> "unknown"]}

ProbedLaunchAgent == IF OnMac THEN {"ok", "degraded"} ELSE {"unknown"}

ProbedSqlite == {"ok", "unknown"}

ProbedSecretStore == IF OnMac THEN "ok" ELSE "failed"

overall_status(checks) ==
    LET found == {checks[c] : c \in CheckId}
    IN  IF "failed" \in found THEN "blocked"
        ELSE IF "degraded" \in found THEN "warning"
        ELSE IF found = {"ok"} THEN "passed" ELSE "unknown"

\* A self-check of the schedule or of the desktop window, begun at `at` and stored later,
\* perhaps after one that began later: the history is read newest first.  If sqlite3 cannot
\* store it, only its caller hears of that, and the schedule does not listen.
SelfCheck ==
    /\ \/ \E at \in 1 .. now, health \in ProbedHealth,
             agent \in ProbedLaunchAgent, sqlite \in ProbedSqlite :
            LET checks == [c \in CheckId |->
                             CASE c = "api_liveness"      -> health.api
                               [] c = "gateway_readiness" -> health.gateway
                               [] c = "launch_agent"      -> agent
                               [] c = "sqlite_integrity"  -> sqlite
                               [] c = "secret_store"      -> ProbedSecretStore]
            IN  /\ IF native # None /\ native.at > at
                   THEN UNCHANGED native
                   ELSE native' = [at |-> at, checks |-> checks,
                                   status |-> overall_status(checks)]
                /\ UNCHANGED faults
       \/ Fault /\ UNCHANGED native
    /\ UNCHANGED <<now, entryVars, summary, jobs, rolledBack, dryRun, verified>>

OpsNext ==
    \/ ReportNext /\ UNCHANGED native
    \/ SelfCheck

OpsSpec == OpsInit /\ [][OpsNext]_opsVars

-----------------------------------------------------------------------------
(* The Verification Center.                                                *)

\* How bad a status is: the order of worstStatus.
Severity == [passed |-> 0, unknown |-> 1, warning |-> 2, blocked |-> 3]

worstStatus(statuses) ==
    CHOOSE s \in statuses : \A t \in statuses : Severity[t] <= Severity[s]

\* The gate status of the latest receipt of a command.
ReceiptStatus(command) ==
    IF \E r \in ReceiptsOf(command) : IsLatest(r) /\ r.passed THEN "passed"
    ELSE IF ReceiptsOf(command) # {} THEN "blocked"
    ELSE "unknown"

\* buildDesktopSelfCheckGate
DesktopSelfCheck ==
    worstStatus({ReceiptStatus(Desktop), IF native = None THEN "unknown" ELSE native.status})

\* The gates of buildVerificationCenter for a report on day d; replayed says whether the
\* mission replay of the report's incident has steps.  A receipt of a dry run is never a
\* failed one, and getSloSnapshot measures no route, so no route is over its budget.
Gates(d, replayed) ==
    [summary_freshness |-> IF generatedSummaryFresh(d) THEN "passed" ELSE "blocked",
     delivery_dry_runs |-> IF dryRun THEN "passed" ELSE "warning",
     replay_integrity  |-> IF replayed THEN "passed" ELSE "warning",
     gateway_readiness |-> ReceiptStatus(Gateway),
     desktop_self_check |-> DesktopSelfCheck,
     route_budgets     |-> "passed"]

\* Mutant of GateScore: a blocked gate counts as an unknown one.
GateScoreOfBlocked(status) ==
    CASE status = "passed" -> 100 [] status = "warning" -> 60 [] OTHER -> 40

GateScore(status) ==
    CASE status = "passed" -> 100 [] status = "warning" -> 60
      [] status = "unknown" -> 40 [] OTHER -> 0

\* The average, rounded as Math.round does.
ReadinessScore(gates) ==
    LET scored == GateScore(gates.summary_freshness) + GateScore(gates.delivery_dry_runs)
                  + GateScore(gates.replay_integrity) + GateScore(gates.gateway_readiness)
                  + GateScore(gates.desktop_self_check) + GateScore(gates.route_budgets)
    IN  (2 * scored + 6) \div (2 * 6)

ReadinessLabel(gates) ==
    LET score == ReadinessScore(gates)
    IN  IF score >= 85 THEN "ready" ELSE IF score >= 50 THEN "warning" ELSE "blocked"

-----------------------------------------------------------------------------
(* The native truth monitor, and the history of receipts.                  *)

nativeRunnerCheckStatus(status) ==
    CASE status = "ok" -> "passed" [] status = "degraded" -> "warning"
      [] status = "failed" -> "blocked" [] OTHER -> "unknown"

\* The checks of buildNativeTruthMonitor beside those that always pass: what the host found of
\* the gateway is left out for the gateway's own gate.
MonitoredChecks ==
    {ReceiptStatus(Gateway), DesktopSelfCheck}
    \cup IF native = None THEN {"unknown"}
         ELSE {nativeRunnerCheckStatus(native.checks[c]) : c \in CheckId \ {"gateway_readiness"}}

\* hasBackend: without a fingerprint of the backend the monitor warns.
MonitorStatus(hasBackend) ==
    worstStatus(MonitoredChecks \cup {"passed", IF hasBackend THEN "passed" ELSE "warning"})

\* buildVerificationReceiptDiffs: a failed run that no run of the command passed after.
StillFailing(failed) ==
    /\ ~failed.passed
    /\ ~\E r \in ReceiptsOf(failed.command) : r.passed /\ r.at > failed.at

\* buildVerificationReceiptLineage: one group for each command, for the runner gives no
\* fingerprint.
LineageStatus(command) ==
    LET outcomes == {r.passed : r \in ReceiptsOf(command)}
    IN  IF outcomes = BOOLEAN THEN "recovered"
        ELSE IF outcomes = {FALSE} THEN "still-failing" ELSE "passing-only"

-----------------------------------------------------------------------------
(* Properties.                                                             *)

\* No verdict hides a bad part: a center whose label is "ready" has no blocked gate, for which
\* the average of six must not make up, and the monitor is no better than any check of the
\* newest self-check, also than the one of the gateway, which it does not list
\* (readinessScore of buildVerificationCenter; buildNativeTruthMonitor over overall_status).
VerdictsHideNothing ==
    /\ \A d \in Day, replayed \in BOOLEAN :
          LET gates == Gates(d, replayed)
          IN  ReadinessLabel(gates) = "ready" => \A g \in DOMAIN gates : gates[g] # "blocked"
    /\ native # None =>
          \A hasBackend \in BOOLEAN, c \in CheckId :
              Severity[nativeRunnerCheckStatus(native.checks[c])]
                  <= Severity[MonitorStatus(hasBackend)]

\* A green release claim is contradicted by nothing that is shown beside it: the gates that
\* stand for the same receipts have passed, the center as a whole is not blocked, and no run
\* of a required command is listed as failing still (buildReleaseReadinessGate).
GreenIsUncontested ==
    \A d \in Day, replayed \in BOOLEAN : ReleaseReady(d) =>
        LET gates == Gates(d, replayed)
        IN  /\ gates.delivery_dry_runs = "passed"
            /\ gates.gateway_readiness = "passed"
            /\ ReadinessLabel(gates) # "blocked"
            /\ \A r \in verified : ~StillFailing(r)
            /\ \A command \in Command : LineageStatus(command) # "still-failing"
=============================================================================
