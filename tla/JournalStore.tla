---------------------------- MODULE JournalStore ----------------------------
(***************************************************************************)
(* The journal tables of the API's SQLite store and the operations that    *)
(* write them: apps/api/src/repository.ts, with the retention of           *)
(* packages/app/src/retention.ts on top of it.                             *)
(*                                                                         *)
(* The process is single-threaded and node:sqlite is synchronous, so one   *)
(* operation runs at a time; but no operation opens a transaction.  Each   *)
(* statement commits by itself, a step here is one statement, and between  *)
(* two of them the process may die or a statement may fail.                *)
(*                                                                         *)
(* Left out: the wording of titles and summaries, timestamps within a day, *)
(* the redacted columns, the lineage and the audit log.                    *)
(***************************************************************************)
EXTENDS Naturals, FiniteSets, Sequences

CONSTANTS
    Event,        \* what can be journalled: gateway events, notes, sample entries
    Id,           \* primary keys of journal_entries
    IdOf,         \* normalizedEventId: the key of an event's entry
    Day,          \* day keys, in their order
    DayOf,        \* the day key of an event's entry
    Counted,      \* events whose entry one of the metrics counts
    SampleDay,    \* the day of sampleJournalDay
    Sample,       \* its entries
    Backfill,     \* session messages, which the start-up backfill imports in one batch
    SnapshotId,   \* ids of retention snapshots
    Edited,       \* bound: the days whose summary or pinned context is written from the UI
    MaxKeep,      \* bound: the largest keepDays asked for
    MaxFaults,    \* bound: how often a statement fails or the process dies
    None

ASSUME EventAssumption  == IsFiniteSet(Event) /\ IdOf \in [Event -> Id] /\ DayOf \in [Event -> Day]
ASSUME DayAssumption    == Day \subseteq Nat /\ IsFiniteSet(Day) /\ SampleDay \in Day
ASSUME SampleAssumption == /\ Sample \subseteq Event /\ Counted \subseteq Event \ Sample
                           /\ Backfill \subseteq Event \ Sample
                           /\ \A e \in Sample : DayOf[e] = SampleDay
ASSUME BoundAssumption  == Edited \subseteq Day /\ MaxKeep \in Nat /\ MaxFaults \in Nat

VARIABLES
    rows,         \* journal_entries: the day_key column and the entry_json of each row
    days,         \* journal_days: the metrics of each day that has a row
    summaries,    \* the days journal_daily_summaries has a row for
    pins,         \* the days journal_pinned_context has a row for
    snapshots,    \* journal_retention_snapshots
    job,          \* the operation under way
    recorded,     \* history: the events whose entry has been stored at some time
    faults        \* faults left in the budget

vars == <<rows, days, summaries, pins, snapshots, job, recorded, faults>>

Row == [day : Day, entry : Event]

\* A day as getDay returns it and a snapshot keeps it.
DayRecord == [metrics : Nat, entries : SUBSET Event, summary : BOOLEAN, pin : BOOLEAN]

Snapshot == [keep : 0 .. MaxKeep, removed : SUBSET Day, days : [Day -> DayRecord \cup {None}]]

\* A missing row, day, snapshot or id is told apart from every present one.
ASSUME NoneAssumption ==
    None \notin SnapshotId /\ None \notin Nat /\ None \notin Row
    /\ None \notin DayRecord /\ None \notin Snapshot

Op == {"none", "boot", "add", "apply", "rollback"}

\* Mutant of Order: applying a retention deletes a day's row before its entries.
RowFirst == [none     |-> <<>>,
             boot     |-> <<"days", "entries">>,
             add      |-> <<"days", "entries", "summaries">>,
             apply    |-> <<"days", "entries", "summaries", "pins">>,
             rollback |-> <<"days", "entries", "summaries", "pins">>]

\* The tables an operation writes for each of its days, in this order.
Order == [none     |-> <<>>,
          boot     |-> <<"days", "entries">>,
          add      |-> <<"days", "entries", "summaries">>,
          apply    |-> <<"entries", "days", "summaries", "pins">>,
          rollback |-> <<"days", "entries", "summaries", "pins">>]

\* An operation: the day it is at and the step it has reached there, the entries it
\* still has to write for this day, the days it has left, and what it works from.
Job == [op : Op, at : Day \cup {None}, step : 1 .. 4, todo : SUBSET Event,
        left : SUBSET Day, batch : SUBSET Event, from : SnapshotId \cup {None}]

NoJob == [op |-> "none", at |-> None, step |-> 1, todo |-> {}, left |-> {},
          batch |-> {}, from |-> None]

BootJob == [op |-> "boot", at |-> SampleDay, step |-> 1, todo |-> Sample, left |-> {},
            batch |-> {}, from |-> None]

TypeOK ==
    /\ rows \in [Id -> Row \cup {None}]
    /\ days \in [Day -> Nat \cup {None}]
    /\ summaries \subseteq Day /\ pins \subseteq Day
    /\ snapshots \in [SnapshotId -> Snapshot \cup {None}]
    /\ job \in Job
    /\ recorded \subseteq Event
    /\ faults \in 0 .. MaxFaults

\* A new database file: the tables are empty, the sample day is about to be written.
Init ==
    /\ rows = [i \in Id |-> None]
    /\ days = [d \in Day |-> None]
    /\ summaries = {} /\ pins = {}
    /\ snapshots = [i \in SnapshotId |-> None]
    /\ job = BootJob
    /\ recorded = {}
    /\ faults = MaxFaults

-----------------------------------------------------------------------------
(* Reading.                                                                *)

Listed == {d \in Day : days[d] # None}

\* The entries whose row has this day_key.
EntriesOf(d) == {rows[i].entry : i \in {j \in Id : rows[j] # None /\ rows[j].day = d}}

\* The entries getDay returns, none where journal_days has no row.
Page(d) == IF days[d] = None THEN {} ELSE EntriesOf(d)

Metrics(entries) == Cardinality(entries \cap Counted)

\* Mutant of MergedMetrics: the metrics are counted up instead of counted again.
CountedUp(d, new) == (IF days[d] = None THEN 0 ELSE days[d]) + Metrics(new)

\* The metrics of a day with new entries: one with the same id is replaced.
MergedMetrics(d, new) ==
    LET kept == {e \in Page(d) : \A n \in new : IdOf[e] # IdOf[n]}
    IN  Metrics(kept) + Metrics(new)

\* Mutant of Removed: the other end of the list is cut off.
RemovedNewest(keep) == {d \in Listed : Cardinality({x \in Listed : x < d}) >= keep}

\* previewRetention: the listed days, newest first, beyond the first keepDays.
Removed(keep) == {d \in Listed : Cardinality({x \in Listed : x > d}) >= keep}

DayRecordOf(d) == [metrics |-> days[d], entries |-> EntriesOf(d),
                   summary |-> d \in summaries, pin |-> d \in pins]

\* Mutant of SnapshotOf: only the days that stay are captured.
SnapshotOfKept(keep) ==
    [keep |-> keep, removed |-> Removed(keep),
     days |-> [d \in Day |-> IF d \in Listed \ Removed(keep) THEN DayRecordOf(d) ELSE None]]

\* What applyRetention saves before it deletes anything.
SnapshotOf(keep) ==
    [keep |-> keep, removed |-> Removed(keep),
     days |-> [d \in Day |-> IF d \in Listed THEN DayRecordOf(d) ELSE None]]

\* Mutant of Restored: only the days the retention removed are written back.
RestoredRemoved(id) == snapshots[id].removed

\* The days restoreRetentionSnapshot writes.
Restored(id) == {d \in Day : snapshots[id].days[d] # None}

-----------------------------------------------------------------------------
(* The loop over an operation's days.                                      *)

\* The loop reaches the day d; days are visited newest first, except by addEntries.
Visit(op, S, batch, id, d) ==
    /\ d \in S
    /\ op # "add" => \A x \in S : x <= d
    /\ job' = [op |-> op, at |-> d, step |-> 1, left |-> S \ {d}, batch |-> batch, from |-> id,
               todo |-> CASE op = "add"      -> {e \in batch : DayOf[e] = d}
                          [] op = "rollback" -> snapshots[id].days[d].entries
                          [] OTHER           -> {}]

Loop(op, S, batch, id) ==
    \/ S = {} /\ job' = NoJob
    \/ \E d \in S : Visit(op, S, batch, id, d)

\* The statement at hand writes this table.
At(op, table) == job.op = op /\ Order[op][job.step] = table

\* On to the next table of this day, or to the next day.
Proceed ==
    IF job.step < Len(Order[job.op])
    THEN job' = [job EXCEPT !.step = job.step + 1]
    ELSE Loop(job.op, job.left, job.batch, job.from)

Idle == job.op = "none"

-----------------------------------------------------------------------------
(* Recording: addEntry, addNote, addEntries and the boot of the store.     *)

\* addEntry with one event, addEntries with several.
Record(batch) ==
    /\ Idle
    /\ Loop("add", {DayOf[e] : e \in batch}, batch, None)
    /\ UNCHANGED <<rows, days, summaries, pins, snapshots, recorded, faults>>

\* upsertDay writes the day's row, with the metrics of the entries it is to have.
MergeDay ==
    /\ At("add", "days")
    /\ days' = [days EXCEPT ![job.at] = MergedMetrics(job.at, job.todo)]
    /\ Proceed
    /\ UNCHANGED <<rows, summaries, pins, snapshots, recorded, faults>>

\* sampleJournalDay brings its own metrics, which are all zero.
BootDay ==
    /\ At("boot", "days")
    /\ days' = [days EXCEPT ![job.at] = 0]
    /\ Proceed
    /\ UNCHANGED <<rows, summaries, pins, snapshots, recorded, faults>>

\* upsertEntry: a row that is already there keeps its day_key.
WriteEntry(e) ==
    /\ At("add", "entries") \/ At("boot", "entries") \/ At("rollback", "entries")
    /\ e \in job.todo
    /\ rows' = [rows EXCEPT ![IdOf[e]] =
                  [day |-> IF rows[IdOf[e]] = None THEN DayOf[e] ELSE rows[IdOf[e]].day,
                   entry |-> e]]
    /\ recorded' = recorded \cup {e}
    /\ job' = [job EXCEPT !.todo = job.todo \ {e}]
    /\ UNCHANGED <<days, summaries, pins, snapshots, faults>>

EntriesWritten ==
    /\ At("add", "entries") \/ At("boot", "entries") \/ At("rollback", "entries")
    /\ job.todo = {}
    /\ Proceed
    /\ UNCHANGED <<rows, days, summaries, pins, snapshots, recorded, faults>>

\* addEntry ends with generateSummary.
Summarise ==
    /\ At("add", "summaries")
    /\ summaries' = summaries \cup {job.at}
    /\ Proceed
    /\ UNCHANGED <<rows, days, pins, snapshots, recorded, faults>>

-----------------------------------------------------------------------------
(* Routes that take one statement.                                         *)

GenerateSummary(d) ==
    /\ Idle
    /\ summaries' = summaries \cup {d}
    /\ UNCHANGED <<rows, days, pins, snapshots, job, recorded, faults>>

SetPinnedDayContext(d) ==
    /\ Idle
    /\ pins' = pins \cup {d}
    /\ UNCHANGED <<rows, days, summaries, snapshots, job, recorded, faults>>

-----------------------------------------------------------------------------
(* Retention.                                                              *)

\* applyRetention up to saveRetentionSnapshot; its id is the time of day.
ApplyRetention(keep, id) ==
    /\ Idle
    /\ snapshots[id] = None
    /\ snapshots' = [snapshots EXCEPT ![id] = SnapshotOf(keep)]
    /\ Loop("apply", Removed(keep), {}, id)
    /\ UNCHANGED <<rows, days, summaries, pins, recorded, faults>>

\* deleteDays.
DeleteEntries ==
    /\ At("apply", "entries")
    /\ rows' = [i \in Id |-> IF rows[i] # None /\ rows[i].day = job.at THEN None ELSE rows[i]]
    /\ Proceed
    /\ UNCHANGED <<days, summaries, pins, snapshots, recorded, faults>>

DeleteDay ==
    /\ At("apply", "days")
    /\ days' = [days EXCEPT ![job.at] = None]
    /\ Proceed
    /\ UNCHANGED <<rows, summaries, pins, snapshots, recorded, faults>>

DeleteSummary ==
    /\ At("apply", "summaries")
    /\ summaries' = summaries \ {job.at}
    /\ Proceed
    /\ UNCHANGED <<rows, days, pins, snapshots, recorded, faults>>

DeletePin ==
    /\ At("apply", "pins")
    /\ pins' = pins \ {job.at}
    /\ Proceed
    /\ UNCHANGED <<rows, days, summaries, snapshots, recorded, faults>>

\* rollbackRetention of any snapshot, as often as the operator likes.
RollbackRetention(id) ==
    /\ Idle
    /\ snapshots[id] # None
    /\ Loop("rollback", Restored(id), {}, id)
    /\ UNCHANGED <<rows, days, summaries, pins, snapshots, recorded, faults>>

RestoreDay ==
    /\ At("rollback", "days")
    /\ days' = [days EXCEPT ![job.at] = snapshots[job.from].days[job.at].metrics]
    /\ Proceed
    /\ UNCHANGED <<rows, summaries, pins, snapshots, recorded, faults>>

\* A summary or a pinned context is written back only if the snapshot has one.
RestoreSummary ==
    /\ At("rollback", "summaries")
    /\ summaries' = summaries \cup {d \in {job.at} : snapshots[job.from].days[d].summary}
    /\ Proceed
    /\ UNCHANGED <<rows, days, pins, snapshots, recorded, faults>>

RestorePin ==
    /\ At("rollback", "pins")
    /\ pins' = pins \cup {d \in {job.at} : snapshots[job.from].days[d].pin}
    /\ Proceed
    /\ UNCHANGED <<rows, days, summaries, snapshots, recorded, faults>>

-----------------------------------------------------------------------------
(* Failures.                                                               *)

SpendFault == faults > 0 /\ faults' = faults - 1

\* A statement throws: the route answers 500, what was written stays.
StatementFails ==
    /\ job.op \in {"add", "apply", "rollback"}
    /\ SpendFault
    /\ job' = NoJob
    /\ UNCHANGED <<rows, days, summaries, pins, snapshots, recorded>>

\* The process ends between two statements and launchd starts it again.
ProcessDies ==
    /\ SpendFault
    /\ job' = BootJob
    /\ UNCHANGED <<rows, days, summaries, pins, snapshots, recorded>>

-----------------------------------------------------------------------------
Recording ==
    \/ \E e \in Event \ Sample : Record({e})
    \/ \E batch \in SUBSET Backfill : batch # {} /\ Record(batch)
    \/ MergeDay \/ BootDay \/ EntriesWritten \/ Summarise
    \/ \E e \in Event : WriteEntry(e)

Editing == \E d \in Edited : GenerateSummary(d) \/ SetPinnedDayContext(d)

Retaining ==
    \/ \E id \in SnapshotId : \/ RollbackRetention(id)
                              \/ \E keep \in 0 .. MaxKeep : ApplyRetention(keep, id)
    \/ DeleteEntries \/ DeleteDay \/ DeleteSummary \/ DeletePin
    \/ RestoreDay \/ RestoreSummary \/ RestorePin

Next == Recording \/ Editing \/ Retaining \/ StatementFails \/ ProcessDies

Spec == Init /\ [][Next]_vars

-----------------------------------------------------------------------------
(* Safety.                                                                 *)

Stored(e) == \E i \in Id : rows[i] # None /\ rows[i].entry = e

Snapshotted(e) ==
    \E id \in SnapshotId : /\ snapshots[id] # None
                           /\ \E d \in Restored(id) : e \in snapshots[id].days[d].entries

\* Whatever fails and whenever the process dies, an entry that was once stored is in
\* the journal or in a snapshot that rollbackRetention can restore.
NothingLost == \A e \in recorded : Stored(e) \/ Snapshotted(e)

\* getDay answers null for a day without a row: an entry under such a day would be
\* stored and yet on no page, in no export and in no snapshot.
NoInvisibleEntry == \A i \in Id : rows[i] # None => rows[i].day \in Listed

\* Retention deletes a day's entries only if the snapshot it is applied with holds them
\* all, and only of a day older than the days that were to be kept.
DeletesOnlyOldDays ==
    [][\A d \in Day : ~(EntriesOf(d) \subseteq EntriesOf(d)') =>
         /\ EntriesOf(d) \subseteq snapshots[job.from].days[d].entries
         /\ Cardinality({x \in Listed : x > d}) >= snapshots[job.from].keep]_vars

\* However a crash, a failed statement or a rollback left a day, recording an entry on
\* it sets it right: when the summary is about to be written, the metrics count exactly
\* what the page shows, and the new entries are on it.
AddHeals ==
    At("add", "summaries") =>
        /\ days[job.at] = Metrics(Page(job.at))
        /\ {e \in job.batch : DayOf[e] = job.at} \subseteq Page(job.at)

\* A rollback that gets to its last statement has brought back every day of the
\* snapshot, also those that a later retention or a crash has removed.
RollbackRestores ==
    (At("rollback", "pins") /\ job.left = {}) =>
        \A d \in Day : snapshots[job.from].days[d] # None =>
            /\ days[d] = snapshots[job.from].days[d].metrics
            /\ snapshots[job.from].days[d].entries \subseteq Page(d)
=============================================================================
