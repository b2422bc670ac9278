------------------------------ MODULE Reports ------------------------------
(***************************************************************************)
(* What the operations report of packages/app/src/operations.ts concludes  *)
(* from the tables: whether recovered evidence has drifted, and whether a  *)
(* green release claim may be made.  Every request works it out anew from  *)
(* summaries, session imports, delivery receipts and verification receipts *)
(* that different actors write, some of them other processes.              *)
(*                                                                         *)
(* Left out: what hangs on incidents (checklist and closeout score), and   *)
(* the snapshot and drift rows a report stores, which no verdict reads.    *)
(* The verdicts beside the gate are in Operations.                         *)
(***************************************************************************)
EXTENDS SummaryJobs

CONSTANTS
    Command,      \* the commands a release needs receipts of
    StaleAfter,   \* the age at which a receipt is stale, sixty minutes
    MaxReceipts   \* bound: verification receipts kept

ASSUME ReportBounds == StaleAfter \in Nat /\ MaxReceipts \in Nat

VARIABLES
    dryRun,       \* has a dry run in journal_delivery_receipts been delivered?
    verified      \* journal_verification_receipts

reportVars == <<now, rows, present, listed, summary, snapshots, jobs, rolledBack, faults,
                dryRun, verified>>

\* A receipt of the verification runner.  Its id is made of the command and the time.
VerificationReceipt == [command : Command, at : Time, passed : BOOLEAN]

ReportTypeOK ==
    /\ SummaryTypeOK
    /\ dryRun \in BOOLEAN
    /\ verified \subseteq VerificationReceipt
    /\ \A r, q \in verified : r.command = q.command /\ r.at = q.at => r = q

ReportInit == SummaryInit /\ dryRun = FALSE /\ verified = {}

-----------------------------------------------------------------------------
(* Recovered evidence.                                                     *)

\* The entries of a day that the report itself counts as recovered: backfilled is true.
RecoveredIn(d) == {i \in EntriesOf(d) : rows[i].imported # None}

\* entryCount of buildRecoveredEvidenceSummaryFromRows, which also counts the messages that
\* were heard from the gateway, for their source is "openclaw" too.
Recovered == {i \in present : rows[i].imported # None \/ rows[i].live}

\* Mutant of DriftIssues: what the report says of totals and sessions only.
DriftIssuesOfTotals(d) ==
    (IF Cardinality(RecoveredIn(d)) \notin {0, Cardinality(Recovered)}
     THEN {"recovered_entry_total"} ELSE {})
    \cup (IF RecoveredIn(d) = {} THEN {"session_recovered_total"} ELSE {})

\* The issues of buildEvidenceDrift for a report on day d.  A recovered entry always has a
\* session, so a day without sessions is one without recovered entries.  RecoveredIn and
\* Recovered differ while any message of the gateway is in the journal.
DriftIssues(d) ==
    DriftIssuesOfTotals(d)
    \cup (IF Provisional \/ ~generatedSummaryFresh(d) THEN {"report_header_mismatch"} ELSE {})

Drifting(d) == Recovered # {} /\ DriftIssues(d) # {}

-----------------------------------------------------------------------------
(* The release gate.                                                       *)

\* Mutant of Stale: the age is taken the wrong way round.
StaleInReverse(receipt) == now - receipt.at <= StaleAfter

\* classifyFreshness of a receipt's age.
Stale(receipt) == now - receipt.at > StaleAfter

ReceiptsOf(command) == {r \in verified : r.command = command}

\* latestReceipt: by the time of the run, not by the order of recording.
IsLatest(receipt) == \A r \in ReceiptsOf(receipt.command) : r.at <= receipt.at

\* Mutant of Proven: a fresh pass counts also when a later run has failed.
ProvenOnce(command) == \E r \in ReceiptsOf(command) : r.passed /\ ~Stale(r)

\* A command whose evidence is neither missing, nor failing, nor stale.
Proven(command) ==
    \E r \in ReceiptsOf(command) : IsLatest(r) /\ r.passed /\ ~Stale(r)

\* buildReleaseReadinessGate for a report on day d, status "ready".
ReleaseReady(d) ==
    /\ dryRun
    /\ \A command \in Command : Proven(command)
    /\ ~Drifting(d)

-----------------------------------------------------------------------------
(* Steps.                                                                  *)

\* What saveVerificationReceipt leaves when it replaces the receipt with that id.
OtherReceipts(command, at) == {r \in verified : r.command # command \/ r.at # at}

\* A run of the verification runner that ended at some time is recorded, perhaps after
\* runs that ended later; it is a process of its own.
RecordVerification ==
    /\ \E command \in Command, at \in 1 .. now, passed \in BOOLEAN :
        LET others == OtherReceipts(command, at)
        IN  /\ Cardinality(others) < MaxReceipts
            /\ verified' = others \cup {[command |-> command, at |-> at, passed |-> passed]}
    /\ UNCHANGED <<summaryVars, dryRun>>

\* A delivery is tried without being sent, and its receipt says delivered; no verdict
\* reads one that says failed.
RecordDryRun ==
    /\ dryRun' = TRUE
    /\ UNCHANGED <<summaryVars, verified>>

ReportNext ==
    \/ SummaryNext /\ UNCHANGED <<dryRun, verified>>
    \/ RecordVerification
    \/ RecordDryRun

ReportSpec == ReportInit /\ [][ReportNext]_reportVars

-----------------------------------------------------------------------------
(* Properties.                                                             *)

\* The release gate is green only if every recovered entry of every day is in the summary
\* of its day.  Times alone cannot tell an entry that came too late for a summary made in
\* the same millisecond, nor one that a rollback put back, with its old time of import, under
\* a summary that was made without it (buildReleaseReadinessGate over buildEvidenceDrift and
\* buildRecoveredEvidenceSummaryFromRows).
GreenCountsEvidence ==
    \A d \in Day : ReleaseReady(d) =>
        \A i \in Recovered :
            LET s == summary[rows[i].day]
            IN  /\ s # None
                /\ \/ i \in s.counted
                   \/ s.at = rows[i].imported
                   \/ rows[i].day \in rolledBack

\* Evidence is withdrawn: a retention removes a recovered entry, or a rollback sets the time
\* of its import back.
Withdrawn ==
    \E i \in Recovered :
        \/ i \notin Recovered'
        \/ rows[i].imported # None /\ rows'[i].imported < rows[i].imported

\* The gate turns green only on good news: a run that passed, a dry run that was
\* delivered, a summary that was written, or evidence that was withdrawn; never by the passing
\* of time, a failed run, new evidence or the start of the process alone.
GreenIsEarned ==
    [][\A d \in Day : ReleaseReady(d)' /\ ~ReleaseReady(d) =>
          \/ \E r \in verified' \ verified : r.passed
          \/ dryRun' /\ ~dryRun
          \/ \E e \in Day : summary'[e] # None /\ summary'[e] # summary[e]
          \/ Withdrawn]_reportVars

=============================================================================
