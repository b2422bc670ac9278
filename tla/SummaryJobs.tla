---------------------------- MODULE SummaryJobs ----------------------------
(***************************************************************************)
(* Generated summaries of days and the jobs that make them, as             *)
(* apps/api/src/repository.ts keeps them: journal_daily_summaries and      *)
(* journal_summary_jobs beside journal_entries.                            *)
(*                                                                         *)
(* A summary counts the entries of its day and is judged fresh or stale by *)
(* times alone: the time it was made against the times of the entries, and *)
(* of their import if they were recovered from session files.  A job is    *)
(* queued by one request and carried out by the read that polls it.  A     *)
(* retention removes old days with their summaries, and its rollback puts  *)
(* back what its snapshot kept, over what has come since.                  *)
(*                                                                         *)
(* A handler runs to its end in one macrotask; only the death of the       *)
(* process or a failing statement can part the entries of a day from its   *)
(* summary, or a summary from its job.  Left out: texts, labels, ids and   *)
(* entries that are recorded twice (JournalStore has those).               *)
(***************************************************************************)
EXTENDS Naturals, Sequences, FiniteSetsExt

CONSTANTS
    Day,          \* day keys, in their order
    SampleDay,    \* the day of the sample entries, which each start writes
    MaxTime,      \* bound: the last millisecond of the model
    MaxRows,      \* bound: entries recorded, the sample among them
    MaxJobs,      \* bound: jobs queued
    MaxSnapshots, \* bound: snapshots kept
    MaxFaults,    \* bound: statements that fail, and deaths of the process
    None

ASSUME SummaryBounds ==
    /\ MaxTime \in Nat \ {0} /\ MaxRows \in Nat \ {0}
    /\ MaxJobs \in Nat /\ MaxSnapshots \in Nat /\ MaxFaults \in Nat
    /\ Day \subseteq Nat /\ IsFiniteSet(Day) /\ SampleDay \in Day
    /\ None \notin Nat

VARIABLES
    now,          \* the clock
    rows,         \* the entries of journal_entries, in the order they were first recorded
    present,      \* those of them that are in the table
    listed,       \* the days journal_days has a row for
    summary,      \* journal_daily_summaries
    snapshots,    \* journal_retention_snapshots
    jobs,         \* journal_summary_jobs, in the order they were queued
    rolledBack,   \* history: the days a rollback has written to since they were summarised
    faults        \* faults left in the budget

entryVars   == <<rows, present, listed, snapshots>>
summaryVars == <<now, rows, present, listed, summary, snapshots, jobs, rolledBack, faults>>

Time   == 1 .. MaxTime
Import == Time \cup {None}
Status == {"queued", "completed", "failed"}

\* at is the timestamp of the entry, its event's; imported is when a backfill last wrote
\* it, or None for one that no backfill wrote; live marks those of source "openclaw",
\* the messages of an assistant that came over the gateway.
Row == [day : Day, at : Time, imported : Import, live : BOOLEAN]

\* counted is what the text counts: the entries of the day when it was made.
Summary == [at : Time, counted : SUBSET (1 .. MaxRows)]

\* imported tells which entries were kept, and with which times of import.
Snapshot == [days : SUBSET Day, removed : SUBSET Day,
             imported : UNION {[kept -> Import] : kept \in SUBSET (1 .. MaxRows)},
             summary : [Day -> Summary \cup {None}]]

Job == [day : Day, at : Time, status : Status]

ASSUME NoSummaryAssumption == None \notin Summary

SummaryTypeOK ==
    /\ now \in Time
    /\ rows \in Seq(Row) /\ Len(rows) <= MaxRows
    /\ present \subseteq DOMAIN rows
    /\ listed \subseteq Day /\ rolledBack \subseteq Day
    /\ summary \in [Day -> Summary \cup {None}]
    /\ snapshots \subseteq Snapshot
    /\ jobs \in Seq(Job) /\ Len(jobs) <= MaxJobs
    /\ faults \in 0 .. MaxFaults

\* createSqliteRepository ends with the sample day, entered without a summary.
SummaryInit ==
    /\ now = 1
    /\ rows = <<[day |-> SampleDay, at |-> 1, imported |-> None, live |-> FALSE]>>
    /\ present = {1} /\ listed = {SampleDay}
    /\ jobs = <<>> /\ snapshots = {} /\ rolledBack = {}
    /\ summary = [d \in Day |-> None]
    /\ faults = MaxFaults

-----------------------------------------------------------------------------
(* What the tables say of a day.                                           *)

EntriesOf(d) == {i \in present : rows[i].day = d}

\* latestTimestampForEntries, MAX(timestamp): before every time if there is none.
LatestAt(entries) == Max({0} \cup {rows[i].at : i \in entries})

Active(job) == job.status = "queued"

\* getGeneratedSummary reads the row and computes the rest from the entries of today, not
\* from those that were summarised.
GeneratedSummary(d) ==
    LET entries == EntriesOf(d)
        made    == summary[d].at
    IN  [createdAt             |-> made,
         lastEntryIncludedAt   |-> LatestAt({i \in entries : rows[i].at <= made}),
         latestEntryObservedAt |-> LatestAt(entries),
         stale                 |-> LatestAt(entries) > made]

\* Who reads a summary through getDay does not see that of a day without a row.
Summarised(d) == d \in listed /\ summary[d] # None

\* generatedSummaryFresh, the verdict of the operations report.
generatedSummaryFresh(d) ==
    /\ Summarised(d)
    /\ LET s == GeneratedSummary(d)
           included == IF s.lastEntryIncludedAt = 0 THEN s.createdAt
                                                    ELSE s.lastEntryIncludedAt
       IN  included >= s.latestEntryObservedAt /\ ~s.stale

\* The days of listStaleSummaryDayKeys, which the report offers for refreshing.
listStaleSummaryDayKeys ==
    {d \in listed : summary[d] = None \/ LatestAt(EntriesOf(d)) > summary[d].at}

\* Mutant of closeoutSummaryFresh: an entry of the millisecond of its summary counts as newer.
closeoutBefore(d) == Summarised(d) /\ LatestAt(EntriesOf(d)) < summary[d].at

\* The verdict of buildCloseoutPlan and buildCloseoutCompletion.
closeoutSummaryFresh(d) == Summarised(d) /\ LatestAt(EntriesOf(d)) <= summary[d].at

\* The summaries that the alert rule stale_summary counts as stale.
alertedSummary(d) == Summarised(d) /\ LatestAt(EntriesOf(d)) > summary[d].at

\* Mutant of Provisional: the time of the event is compared, not that of its import.
ProvisionalByEvent ==
    \E d \in Day : \E i \in EntriesOf(d) :
        /\ rows[i].imported # None
        /\ summary[d] = None \/ summary[d].at < rows[i].at

\* provisionalMetrics of buildRecoveredEvidenceSummaryFromRows: some day was summarised
\* before the latest import of one of its entries, or never.
Provisional ==
    \E d \in Day : \E i \in EntriesOf(d) :
        /\ rows[i].imported # None
        /\ summary[d] = None \/ summary[d].at < rows[i].imported

-----------------------------------------------------------------------------
(* Steps.                                                                  *)

Tick ==
    /\ now < MaxTime
    /\ now' = now + 1
    /\ UNCHANGED <<entryVars, summary, jobs, rolledBack, faults>>

\* A statement fails, or the process dies.
Fault == faults > 0 /\ faults' = faults - 1

\* generateSummary of some days, each as it stands after this step.
Summarise(days) ==
    /\ summary' = [d \in Day |-> IF d \in days THEN [at |-> now, counted |-> EntriesOf(d)']
                                 ELSE summary[d]]
    /\ rolledBack' = rolledBack \ days

\* The process starts: the sample day is written again.  That a start may die in the
\* middle of this is left out, for nothing is read before another one has succeeded.
Start ==
    /\ present' = present \cup {1} /\ listed' = listed \cup {SampleDay}
    /\ UNCHANGED <<now, rows, summary, snapshots, jobs, rolledBack, faults>>

\* addEntry: the row of the day is written, then the entry, then the summary, unless a
\* fault comes between.  The time of an entry is the one its event carries, if it does,
\* and nothing holds that to the clock of this process.
Record ==
    /\ Len(rows) < MaxRows
    /\ \E d \in Day :
        /\ listed' = listed \cup {d}
        /\ \/ /\ \E at \in Time, live \in BOOLEAN :
                   rows' = Append(rows, [day |-> d, at |-> at, imported |-> None, live |-> live])
              /\ present' = present \cup {Len(rows) + 1}
              /\ \/ Summarise({d}) /\ UNCHANGED faults
                 \/ Fault /\ UNCHANGED <<summary, rolledBack>>
           \/ Fault /\ UNCHANGED <<rows, present, summary, rolledBack>>
    /\ UNCHANGED <<now, snapshots, jobs>>

\* Rows with other times of import.
Imported(imports) ==
    [i \in DOMAIN rows |-> IF i \in DOMAIN imports THEN [rows[i] EXCEPT !.imported = imports[i]]
                           ELSE rows[i]]

\* backfillOpenClawSessions, a second after a start: of the messages that an earlier one
\* brought, those that the files still give within its caps, and (bound) at most one that is
\* new.  addEntries goes through their days, writing each and then its summary, until it is
\* through or meets a fault at some day.
Backfill ==
    /\ \E again \in SUBSET {i \in DOMAIN rows : rows[i].imported # None},
          fresh \in {<<>>} \cup
                   {<<r>> : r \in [day : Day, at : 1 .. now, imported : {now}, live : {FALSE}]} :
        LET days == {rows[i].day : i \in again} \cup {fresh[i].day : i \in DOMAIN fresh}
        IN  /\ Len(rows) + Len(fresh) <= MaxRows
            /\ rows' = Imported([i \in again |-> now]) \o fresh
            /\ present' = present \cup again \cup (DOMAIN rows' \ DOMAIN rows)
            /\ \/ /\ days # {}
                  /\ listed' = listed \cup days
                  /\ Summarise(days)
                  /\ UNCHANGED faults
               \/ \E d \in Day : /\ listed' = listed \cup days \cup {d}
                                  /\ Summarise(days \ {d})
                                  /\ Fault
    /\ UNCHANGED <<now, snapshots, jobs>>

\* POST /api/days/:dayKey/generate-summary.
GenerateSummary ==
    /\ UNCHANGED <<now, entryVars, jobs, faults>>
    /\ \E d \in Day : Summarise({d})

\* Mutant of Waiting: the queue is not looked at.
WaitingUnseen(d) == {}

\* The job that createSummaryJob hands out instead of queueing another.
Waiting(d) == {j \in DOMAIN jobs : jobs[j].day = d /\ Active(jobs[j])}

\* POST /api/days/:dayKey/summary-jobs.
CreateSummaryJob ==
    /\ Len(jobs) < MaxJobs
    /\ \E d \in Day :
        /\ Waiting(d) = {}
        /\ jobs' = Append(jobs, [day |-> d, at |-> now, status |-> "queued"])
    /\ UNCHANGED <<now, entryVars, summary, rolledBack, faults>>

Settle(j, status) == jobs' = [jobs EXCEPT ![j].status = status]

\* Mutant of Complete: the job is reported before its summary is written.
CompleteFirst(j) ==
    /\ Summarise({jobs[j].day}) \/ UNCHANGED <<summary, rolledBack>>
    /\ Settle(j, "completed")

\* getSummaryJob carries out a job that waits.
Complete(j) == Summarise({jobs[j].day}) /\ Settle(j, "completed")

\* A statement fails: before the summary is written, or when the job is, and then the job
\* is marked as failed all the same.  The process may also die in between, or the second
\* write fail too, and the job goes on waiting.
PollFails(j) ==
    /\ Fault
    /\ Summarise({jobs[j].day}) \/ UNCHANGED <<summary, rolledBack>>
    /\ Settle(j, "failed") \/ UNCHANGED jobs

\* GET /api/summary-jobs/:id.
Poll(j) ==
    /\ Active(jobs[j])
    /\ UNCHANGED <<now, entryVars>>
    /\ \/ Complete(j) /\ UNCHANGED faults
       \/ PollFails(j)

-----------------------------------------------------------------------------
(* Retention.                                                              *)

\* How far a loop over some days may have come: they are visited newest first.
Visited(days) == {seen \in SUBSET days : \A x \in seen, y \in days \ seen : x > y}

\* previewRetention: the listed days beyond the newest ones that are kept.
Removed(keep) == {d \in listed : Cardinality({x \in listed : x > d}) >= keep}

\* applyRetention saves every listed day and then deletes the removed ones: of each its
\* entries, its row and its summary, unless a fault comes between.
ApplyRetention ==
    /\ \E keep \in 0 .. Cardinality(Day) :
        LET removed  == Removed(keep)
            snapshot == [days |-> listed, removed |-> removed,
                         imported |-> [i \in present |-> rows[i].imported],
                         summary |-> [d \in Day |-> IF d \in listed THEN summary[d] ELSE None]]
        IN  /\ Cardinality(snapshots \cup {snapshot}) <= MaxSnapshots
            /\ snapshots' = snapshots \cup {snapshot}
            /\ \E done \in Visited(removed) : \E unlisted \in {u \in Visited(removed) : done \subseteq u} :
                \E empty \in {e \in Visited(removed) : unlisted \subseteq e} :
                    /\ Cardinality(empty \ done) <= 1
                    /\ IF done = removed THEN UNCHANGED faults ELSE Fault
                    /\ present' = {i \in present : rows[i].day \notin empty}
                    /\ listed' = listed \ unlisted
                    /\ summary' = [d \in Day |-> IF d \in done THEN None ELSE summary[d]]
    /\ UNCHANGED <<now, rows, jobs, rolledBack>>

\* rollbackRetention writes the days of a snapshot as it kept them: of each its row, its
\* entries and then its summary if it had one, unless a fault comes between.
RollbackRetention ==
    /\ \E snapshot \in snapshots : \E begun \in Visited(snapshot.days) :
        \E done \in {e \in Visited(snapshot.days) : e \subseteq begun},
           back \in SUBSET {i \in DOMAIN snapshot.imported : rows[i].day \in begun} :
            /\ Cardinality(begun \ done) <= 1
            /\ {i \in DOMAIN snapshot.imported : rows[i].day \in done} \subseteq back
            /\ IF done = snapshot.days THEN UNCHANGED faults ELSE Fault
            /\ rows' = Imported([i \in back |-> snapshot.imported[i]])
            /\ present' = present \cup back
            /\ listed' = listed \cup begun
            /\ summary' = [d \in Day |-> IF d \in done /\ snapshot.summary[d] # None
                                         THEN snapshot.summary[d] ELSE summary[d]]
            /\ rolledBack' = rolledBack \cup begun
    /\ UNCHANGED <<now, snapshots, jobs>>

SummaryNext ==
    \/ Tick \/ Start \/ Record \/ Backfill
    \/ GenerateSummary \/ CreateSummaryJob
    \/ \E j \in DOMAIN jobs : Poll(j)
    \/ ApplyRetention \/ RollbackRetention

-----------------------------------------------------------------------------
(* Properties of the server.                                               *)

\* reporting.md:65: refreshes of one day never wait twice, whatever polls, failures and
\* deaths of the process lie between the requests (createSummaryJob).
OneActiveJobPerDay ==
    \A i, j \in DOMAIN jobs :
        Active(jobs[i]) /\ Active(jobs[j]) /\ jobs[i].day = jobs[j].day => i = j

\* A completed job stands for a summary: the row of its day is there and was made no
\* earlier than the job was queued, and only a retention that removed the day takes it, only
\* a rollback replaces it by an older one, the one of its snapshot (getSummaryJob,
\* deleteDays, restoreRetentionSnapshot).
CompletedJobHasSummary ==
    \A j \in DOMAIN jobs : jobs[j].status = "completed" =>
        LET d == jobs[j].day
        IN  \/ summary[d] # None /\ summary[d].at >= jobs[j].at
            \/ summary[d] = None /\ \E s \in snapshots : d \in s.removed
            \/ summary[d] # None /\ \E s \in snapshots : s.summary[d] = summary[d]

\* Whatever reads the freshness of a day comes to the same verdict, though each computes
\* it in its own way: the report, the list of stale days, the closeout, and the alert,
\* which knows of no day without a summary.
OneVerdict ==
    \A d \in Day :
        /\ generatedSummaryFresh(d) <=> closeoutSummaryFresh(d)
        /\ d \in listed => (generatedSummaryFresh(d) <=> d \notin listStaleSummaryDayKeys)
        /\ Summarised(d) => (generatedSummaryFresh(d) <=> ~alertedSummary(d))
=============================================================================
