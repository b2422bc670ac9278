---------------------------- MODULE MCOperations ----------------------------
(* Operations for TLC.  The release gate reads no job, and a job writes its *)
(* summary as GenerateSummary does, so the behaviours with jobs are checked *)
(* without receipts and those with receipts without jobs; no verdict on     *)
(* recovered evidence reads a self-check, so self-checks come with the      *)
(* sample entry alone.  Entries and the other records are bounded together, *)
(* and at most one entry was heard live.  With a retention there are fewer  *)
(* entries, and the gate waits for them alone: its receipts have passed and *)
(* are of the last moment.                                                  *)
EXTENDS Operations

MCSeparate ==
    /\ Len(rows) <= 2 \/ (verified = {} /\ ~dryRun /\ jobs = <<>>)
    /\ jobs = <<>> \/ (verified = {} /\ ~dryRun)
    /\ native = None \/ (jobs = <<>> /\ snapshots = {} /\ Len(rows) = 1 /\ Cardinality(verified) <= 1)
    /\ Len(rows) + Len(jobs) + Cardinality(verified) <= 4
    /\ \A i \in DOMAIN rows : rows[i].live => jobs = <<>> /\ Len(rows) <= 2
    /\ snapshots # {} =>
          /\ Len(rows) + Len(jobs) <= 2
          /\ dryRun \/ jobs # <<>>
          /\ \A r \in verified : r.passed /\ r.at = MaxTime

\* OpsNext, action by action.
MCSummaries == UNCHANGED <<dryRun, verified, native>> /\ MCSeparate'
MCNext ==
    \/ Tick /\ MCSummaries
    \/ Start /\ MCSummaries
    \/ Record /\ MCSummaries
    \/ Backfill /\ MCSummaries
    \/ GenerateSummary /\ MCSummaries
    \/ CreateSummaryJob /\ MCSummaries
    \/ (\E j \in DOMAIN jobs : Poll(j)) /\ MCSummaries
    \/ ApplyRetention /\ MCSummaries
    \/ RollbackRetention /\ MCSummaries
    \/ RecordVerification /\ UNCHANGED native /\ MCSeparate'
    \/ RecordDryRun /\ UNCHANGED native /\ MCSeparate'
    \/ SelfCheck /\ MCSeparate'

MCSpec == OpsInit /\ [][MCNext]_opsVars
=============================================================================
