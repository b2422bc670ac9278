------------------------- MODULE JournalStoreProofs -------------------------
(***************************************************************************)
(* Theorems about JournalStore, for any events, days, snapshots, faults    *)
(* and numbers of days to keep.                                            *)
(***************************************************************************)
EXTENDS JournalStore, FiniteSetTheorems, TLAPS

USE EventAssumption, DayAssumption, SampleAssumption, BoundAssumption, NoneAssumption

-----------------------------------------------------------------------------
(* The inductive invariant.                                                *)

\* An operation under way has a day and a place in its order of tables; one that works
\* from a snapshot has it, and a rollback visits only days the snapshot holds.
JobInv ==
    /\ job.op = "none" <=> job.at = None
    /\ job.op = "boot" => job.step <= 2 /\ job.at = SampleDay /\ job.left = {}
    /\ job.op = "add" => job.step <= 3
    /\ job.op \in {"apply", "rollback"} => job.from \in SnapshotId /\ snapshots[job.from] # None
    /\ job.op = "rollback" => \A d \in job.left \cup {job.at} : snapshots[job.from].days[d] # None

\* A row is found under the key of its entry and under the day of its entry.
RowInv == \A i \in Id : rows[i] # None => /\ IdOf[rows[i].entry] = i
                                          /\ DayOf[rows[i].entry] = rows[i].day

\* So are the entries of a snapshot, and those still to be written.
SnapshotInv ==
    \A id \in SnapshotId : snapshots[id] # None =>
        \A d \in Day : snapshots[id].days[d] # None =>
            \A e \in snapshots[id].days[d].entries : DayOf[e] = d

TodoInv == \A e \in job.todo : DayOf[e] = job.at

\* The tables an operation has passed: a day's row stands before its entries are
\* written, and goes only when they are gone.
StageInv ==
    /\ (job.op \in {"boot", "add", "rollback"} /\ job.step >= 2) => days[job.at] # None
    /\ (job.op = "apply" /\ job.step >= 2) =>
           \A i \in Id : rows[i] # None => rows[i].day # job.at

\* What a retention has yet to delete is in the snapshot it saved.
ApplyInv ==
    job.op = "apply" => \A d \in job.left \cup {job.at} :
        /\ snapshots[job.from].days[d] # None
        /\ EntriesOf(d) \subseteq snapshots[job.from].days[d].entries

\* While entries are added, the metrics count those written and those to be written.
Counts(d) ==
    /\ days[d] = Metrics(EntriesOf(d) \cup job.todo)
    /\ {e \in job.batch : DayOf[e] = d} \subseteq EntriesOf(d) \cup job.todo

AddInv ==
    job.op = "add" =>
        /\ job.step = 1 => job.todo = {e \in job.batch : DayOf[e] = job.at}
        /\ job.step >= 2 => \A d \in {job.at} : Counts(d)
        /\ job.step >= 3 => job.todo = {}

\* The day d is as the snapshot the job works from has it, but for the entries in "but".
Back(d, but) ==
    /\ days[d] = snapshots[job.from].days[d].metrics
    /\ snapshots[job.from].days[d].entries \subseteq EntriesOf(d) \cup but

RollbackInv ==
    job.op = "rollback" =>
        /\ \A d \in Day \ (job.left \cup {job.at}) : snapshots[job.from].days[d] # None => Back(d, {})
        /\ job.step = 1 => job.todo = snapshots[job.from].days[job.at].entries
        /\ job.step >= 2 => \A d \in {job.at} : Back(d, job.todo)
        /\ job.step >= 3 => job.todo = {}

-----------------------------------------------------------------------------
(* Lemmas about the operators the actions are built from.                  *)

\* The tables of an operation, one by one.
LEMMA Tables ==
    /\ Order["boot"] = <<"days", "entries">>
    /\ Order["add"] = <<"days", "entries", "summaries">>
    /\ Order["apply"] = <<"entries", "days", "summaries", "pins">>
    /\ Order["rollback"] = <<"days", "entries", "summaries", "pins">>
    /\ Len(Order["boot"]) = 2 /\ Len(Order["add"]) = 3
    /\ Len(Order["apply"]) = 4 /\ Len(Order["rollback"]) = 4
  BY DEF Order

\* The step at which each table is written.
LEMMA Steps ==
    ASSUME TypeOK, JobInv
    PROVE  /\ At("boot", "days") => job.op = "boot" /\ job.step = 1
           /\ At("boot", "entries") => job.op = "boot" /\ job.step = 2
           /\ At("add", "days") => job.op = "add" /\ job.step = 1
           /\ At("add", "entries") => job.op = "add" /\ job.step = 2
           /\ At("add", "summaries") => job.op = "add" /\ job.step = 3
           /\ At("apply", "entries") => job.op = "apply" /\ job.step = 1
           /\ At("apply", "days") => job.op = "apply" /\ job.step = 2
           /\ At("apply", "summaries") => job.op = "apply" /\ job.step = 3
           /\ At("apply", "pins") => job.op = "apply" /\ job.step = 4
           /\ At("rollback", "days") => job.op = "rollback" /\ job.step = 1
           /\ At("rollback", "entries") => job.op = "rollback" /\ job.step = 2
           /\ At("rollback", "summaries") => job.op = "rollback" /\ job.step = 3
           /\ At("rollback", "pins") => job.op = "rollback" /\ job.step = 4
  <1>1. job.step \in 1 .. 4
    BY DEF TypeOK, Job
  <1>2. CASE job.op = "boot"
    BY <1>1, <1>2, Tables DEF At, JobInv
  <1>3. CASE job.op = "add"
    BY <1>1, <1>3, Tables DEF At, JobInv
  <1>4. CASE job.op = "apply"
    BY <1>1, <1>4, Tables DEF At
  <1>5. CASE job.op = "rollback"
    BY <1>1, <1>5, Tables DEF At
  <1> QED BY <1>2, <1>3, <1>4, <1>5 DEF At

\* Proceed goes one table on, or from the last table to the next day or to rest.
LEMMA ProceedCases ==
    ASSUME TypeOK, JobInv, job.op # "none", Proceed
    PROVE  \/ /\ job' = [job EXCEPT !.step = job.step + 1]
              /\ job.step + 1 \in 1 .. 4
              /\ job.op = "boot" => job.step = 1
              /\ job.op = "add" => job.step <= 2
           \/ /\ job.op = "boot" => job.step = 2
              /\ job.op = "add" => job.step = 3
              /\ job.op \in {"apply", "rollback"} => job.step = 4
              /\ \/ job.left = {} /\ job' = NoJob
                 \/ \E d \in job.left : Visit(job.op, job.left, job.batch, job.from, d)
  <1>1. job.step \in 1 .. 4 /\ job.op \in {"boot", "add", "apply", "rollback"}
    BY DEF TypeOK, Job, Op
  <1> DEFINE last == Len(Order[job.op])
  <1>2. /\ job.op = "boot" => last = 2
        /\ job.op = "add" => last = 3
        /\ job.op \in {"apply", "rollback"} => last = 4
    BY Tables
  <1>3. /\ job.op = "boot" => job.step <= 2
        /\ job.op = "add" => job.step <= 3
    BY DEF JobInv
  <1>4. \/ job.step < last /\ job' = [job EXCEPT !.step = job.step + 1]
        \/ ~(job.step < last) /\ Loop(job.op, job.left, job.batch, job.from)
    BY DEF Proceed
  <1> HIDE DEF last
  <1>5. CASE job.step < last /\ job' = [job EXCEPT !.step = job.step + 1]
    BY <1>1, <1>2, <1>5
  <1>6. CASE ~(job.step < last) /\ Loop(job.op, job.left, job.batch, job.from)
    BY <1>1, <1>2, <1>3, <1>6 DEF Loop
  <1> QED BY <1>4, <1>5, <1>6

\* A rollback has a snapshot and visits days it holds.
Restorable(op, S, id) ==
    op = "rollback" => /\ id \in SnapshotId /\ snapshots[id] # None
                       /\ \A x \in S : snapshots[id].days[x] # None

\* What the loop makes of an operation at a new day.
LEMMA VisitFields ==
    ASSUME NEW op, NEW S, NEW batch, NEW id, NEW d, Visit(op, S, batch, id, d)
    PROVE  /\ job' = [op |-> op, at |-> d, step |-> 1, left |-> S \ {d}, batch |-> batch,
                      from |-> id, todo |-> job'.todo]
           /\ job'.op = op /\ job'.at = d /\ job'.step = 1 /\ job'.left = S \ {d}
           /\ job'.batch = batch /\ job'.from = id /\ d \in S
           /\ op = "add" => job'.todo = {e \in batch : DayOf[e] = d}
           /\ op = "rollback" => job'.todo = snapshots[id].days[d].entries
           /\ op \notin {"add", "rollback"} => job'.todo = {}
  BY DEF Visit

\* An operation stays of the right type when the loop takes it to a new day.
LEMMA VisitType ==
    ASSUME TypeOK, NEW op \in Op, NEW S \in SUBSET Day, NEW batch \in SUBSET Event,
           NEW id \in SnapshotId \cup {None}, NEW d \in Day, Visit(op, S, batch, id, d),
           Restorable(op, S, id)
    PROVE  job' \in Job
  <1>1. ASSUME op = "rollback" PROVE snapshots[id].days[d].entries \in SUBSET Event
    <2>1. /\ id \in SnapshotId /\ snapshots[id] # None /\ d \in S /\ snapshots[id].days[d] # None
      BY <1>1, VisitFields DEF Restorable
    <2>2. snapshots[id] \in Snapshot
      BY <2>1 DEF TypeOK
    <2>3. snapshots[id].days[d] \in DayRecord
      BY <2>1, <2>2 DEF Snapshot
    <2> QED BY <2>3 DEF DayRecord
  <1>2. job'.todo \in SUBSET Event
    BY <1>1, VisitFields
  <1>3. job' = [op |-> op, at |-> d, step |-> 1, left |-> S \ {d}, batch |-> batch,
                from |-> id, todo |-> job'.todo]
    BY VisitFields
  <1> QED BY <1>2, <1>3 DEF Job

\* The operation at rest and the boot are operations.
LEMMA RestType == NoJob \in Job /\ BootJob \in Job
  BY DEF NoJob, BootJob, Job, Op

\* The count of a day's entries is a number.
LEMMA MetricsType ==
    ASSUME NEW S \in SUBSET Event PROVE Metrics(S) \in Nat
  <1>1. IsFiniteSet(S \cap Counted)
    BY FS_Subset, S \cap Counted \subseteq Event
  <1> QED BY <1>1, FS_CardinalityType DEF Metrics

\* A day's entries are events.
LEMMA EntriesType ==
    ASSUME TypeOK, NEW d PROVE EntriesOf(d) \in SUBSET Event
  BY DEF EntriesOf, TypeOK, Row

\* What EntriesOf collects.
LEMMA EntriesMember ==
    ASSUME NEW d, NEW e
    PROVE  e \in EntriesOf(d) <=> \E i \in Id : rows[i] # None /\ rows[i].day = d /\ rows[i].entry = e
  BY DEF EntriesOf

\* What a snapshot keeps of a day.
LEMMA RecordFields ==
    ASSUME NEW d
    PROVE  DayRecordOf(d).metrics = days[d] /\ DayRecordOf(d).entries = EntriesOf(d)
  BY DEF DayRecordOf

\* The snapshot a retention saves is one, and it holds exactly the listed days.
LEMMA SnapshotOfType ==
    ASSUME TypeOK, NEW keep \in 0 .. MaxKeep
    PROVE  /\ SnapshotOf(keep) \in Snapshot
           /\ \A d \in Day : SnapshotOf(keep).days[d] # None <=> d \in Listed
           /\ \A d \in Listed : SnapshotOf(keep).days[d] = DayRecordOf(d)
           /\ Removed(keep) \subseteq Listed
           /\ Listed \subseteq Day
  <1>1. ASSUME NEW d \in Listed PROVE DayRecordOf(d) \in DayRecord
    <2>1. days[d] \in Nat
      BY DEF Listed, TypeOK
    <2> QED BY <2>1, EntriesType DEF DayRecordOf, DayRecord
  <1>2. Removed(keep) \subseteq Listed /\ Listed \subseteq Day
    BY DEF Removed, Listed
  <1>3. [d \in Day |-> IF d \in Listed THEN DayRecordOf(d) ELSE None] \in [Day -> DayRecord \cup {None}]
    BY <1>1
  <1>4. SnapshotOf(keep) \in Snapshot
    BY <1>2, <1>3 DEF SnapshotOf, Snapshot
  <1> QED BY <1>1, <1>2, <1>4 DEF SnapshotOf

-----------------------------------------------------------------------------
(* Type correctness.                                                       *)

TypeInv == TypeOK /\ JobInv

\* Going on to the next table or day keeps the operation well formed.
LEMMA ProceedType ==
    ASSUME TypeInv, job.op # "none", Proceed, snapshots' = snapshots
    PROVE  job' \in Job /\ JobInv'
  <1> USE DEF TypeInv
  <1>0. job \in Job /\ job.op \in Op /\ job.left \in SUBSET Day /\ job.batch \in SUBSET Event
        /\ job.from \in SnapshotId \cup {None} /\ job.step \in 1 .. 4 /\ None \notin Day
    BY DEF TypeOK, Job
  <1>1. CASE /\ job' = [job EXCEPT !.step = job.step + 1]
             /\ job.step + 1 \in 1 .. 4
             /\ job.op = "boot" => job.step = 1
             /\ job.op = "add" => job.step <= 2
    <2>1. job' \in Job
      BY <1>0, <1>1 DEF Job
    <2>2. /\ job'.op = job.op /\ job'.at = job.at /\ job'.left = job.left /\ job'.from = job.from
          /\ job'.step = job.step + 1
      BY <1>0, <1>1 DEF Job
    <2> QED BY <1>0, <1>1, <2>1, <2>2 DEF JobInv
  <1>2. CASE job' = NoJob
    <2>1. job'.op = "none" /\ job'.at = None
      BY <1>2 DEF NoJob
    <2> QED BY <1>2, <2>1, RestType DEF JobInv
  <1>3. ASSUME NEW d \in job.left, Visit(job.op, job.left, job.batch, job.from, d)
        PROVE  job' \in Job /\ JobInv'
    <2>1. Restorable(job.op, job.left, job.from)
      BY DEF JobInv, Restorable
    <2>2. /\ job'.op = job.op /\ job'.at = d /\ job'.step = 1 /\ job'.left = job.left \ {d}
          /\ job'.from = job.from
      BY <1>3, VisitFields
    <2>4. job' \in Job
      BY <1>0, <1>3, <2>1, VisitType
    <2>3. job.op # "boot"
      BY <1>3 DEF JobInv
    <2> QED BY <1>0, <1>3, <2>2, <2>3, <2>4 DEF JobInv
  <1> QED BY <1>1, <1>2, <1>3, ProceedCases

\* So does beginning one.
LEMMA LoopType ==
    ASSUME TypeInv, NEW op \in Op \ {"none", "boot"}, NEW S \in SUBSET Day,
           NEW batch \in SUBSET Event, NEW id \in SnapshotId \cup {None}, Loop(op, S, batch, id),
           Restorable(op, S, id),
           op \in {"apply", "rollback"} => id \in SnapshotId /\ snapshots'[id] # None,
           op = "rollback" => snapshots' = snapshots
    PROVE  job' \in Job /\ JobInv'
  <1> USE DEF TypeInv
  <1>1. CASE job' = NoJob
    <2>1. job'.op = "none" /\ job'.at = None
      BY <1>1 DEF NoJob
    <2> QED BY <1>1, <2>1, RestType DEF JobInv
  <1>2. ASSUME NEW d \in S, Visit(op, S, batch, id, d) PROVE job' \in Job /\ JobInv'
    <2>1. job'.op = op /\ job'.at = d /\ job'.step = 1 /\ job'.left = S \ {d} /\ job'.from = id
      BY <1>2, VisitFields
    <2>2. job' \in Job
      BY <1>2, VisitType
    <2>3. d # None /\ op # "none" /\ op # "boot" /\ {d} \cup (S \ {d}) = S
      BY <1>2
    <2>4. op \in {"apply", "rollback"} => job'.from \in SnapshotId /\ snapshots'[job'.from] # None
      BY <2>1
    <2>5. op = "rollback" => \A x \in job'.left \cup {job'.at} : snapshots'[job'.from].days[x] # None
      BY <2>1, <2>3 DEF Restorable
    <2> QED BY <2>1, <2>2, <2>3, <2>4, <2>5 DEF JobInv
  <1> QED BY <1>1, <1>2 DEF Loop

\* An action that goes on changes the job only by going on.
LEMMA OnlyProceeds ==
    ASSUME TypeInv
    PROVE  /\ MergeDay \/ BootDay \/ EntriesWritten \/ Summarise \/ DeleteEntries \/ DeleteDay
              \/ DeleteSummary \/ DeletePin \/ RestoreDay \/ RestoreSummary \/ RestorePin
              => job.op # "none" /\ Proceed /\ UNCHANGED <<snapshots, recorded, faults>>
           /\ MergeDay \/ Summarise => job.op = "add"
           /\ BootDay => job.op = "boot"
           /\ EntriesWritten => job.op \in {"boot", "add", "rollback"}
           /\ DeleteEntries \/ DeleteDay \/ DeleteSummary \/ DeletePin => job.op = "apply"
           /\ RestoreDay \/ RestoreSummary \/ RestorePin => job.op = "rollback"
  BY DEF TypeInv, MergeDay, BootDay, EntriesWritten, Summarise, DeleteEntries, DeleteDay,
         DeleteSummary, DeletePin, RestoreDay, RestoreSummary, RestorePin, At

\* Merged metrics are a number.
LEMMA MergedType ==
    ASSUME TypeOK, NEW d, NEW new \in SUBSET Event
    PROVE  MergedMetrics(d, new) \in Nat
  <1> DEFINE kept == {e \in Page(d) : \A n \in new : IdOf[e] # IdOf[n]}
  <1>1. kept \in SUBSET Event
    BY EntriesType DEF Page
  <1>2. Metrics(kept) \in Nat /\ Metrics(new) \in Nat
    BY <1>1, MetricsType
  <1> QED BY <1>2 DEF MergedMetrics

\* Every reachable state is of the declared type, whatever the constants are.
THEOREM TypeInvHolds == Spec => []TypeInv
<1>1. Init => TypeInv
  <2> SUFFICES ASSUME Init PROVE TypeInv
    OBVIOUS
  <2>1. job \in Job
    BY RestType DEF Init
  <2> QED BY <2>1 DEF Init, TypeInv, TypeOK, JobInv, BootJob
<1>2. TypeInv /\ [Next]_vars => TypeInv'
  <2> SUFFICES ASSUME TypeInv, [Next]_vars PROVE TypeInv'
    OBVIOUS
  <2> USE DEF TypeInv
  <2>0. /\ job \in Job /\ job.op \in Op /\ job.todo \in SUBSET Event /\ job.left \in SUBSET Day
        /\ job.batch \in SUBSET Event /\ job.from \in SnapshotId \cup {None}
        /\ job.at \in Day \cup {None} /\ job.step \in 1 .. 4
        /\ job.op # "none" => job.at \in Day
    BY DEF TypeOK, Job, JobInv
  <2>1. ASSUME NEW batch \in SUBSET Event, Record(batch) PROVE TypeInv'
    <3>1. {DayOf[e] : e \in batch} \in SUBSET Day
      OBVIOUS
    <3>2. job' \in Job /\ JobInv'
      BY <2>1, <3>1, LoopType DEF Record, Restorable, Op
    <3> QED BY <2>1, <3>2 DEF Record, TypeOK
  <2>2. CASE MergeDay
    <3>1. job' \in Job /\ JobInv'
      BY <2>2, OnlyProceeds, ProceedType
    <3>2. MergedMetrics(job.at, job.todo) \in Nat
      BY <2>0, MergedType
    <3> QED BY <2>2, <3>1, <3>2 DEF MergeDay, TypeOK
  <2>3. CASE BootDay
    <3>1. job' \in Job /\ JobInv'
      BY <2>3, OnlyProceeds, ProceedType
    <3> QED BY <2>3, <3>1 DEF BootDay, TypeOK
  <2>4. ASSUME NEW e \in Event, WriteEntry(e) PROVE TypeInv'
    <3>1. job.op \in {"add", "boot", "rollback"} /\ job' = [job EXCEPT !.todo = job.todo \ {e}]
      BY <2>4 DEF WriteEntry, At
    <3>2. /\ job' \in Job /\ job'.op = job.op /\ job'.at = job.at /\ job'.left = job.left
          /\ job'.from = job.from /\ job'.step = job.step
      BY <2>0, <3>1 DEF Job
    <3>3. [day |-> IF rows[IdOf[e]] = None THEN DayOf[e] ELSE rows[IdOf[e]].day, entry |-> e] \in Row
      BY DEF TypeOK, Row
    <3>4. rows' \in [Id -> Row \cup {None}]
      BY <2>4, <3>3 DEF WriteEntry, TypeOK
    <3> QED BY <2>4, <3>2, <3>4 DEF WriteEntry, TypeOK, JobInv
  <2>5. CASE EntriesWritten
    <3>1. job' \in Job /\ JobInv'
      BY <2>5, OnlyProceeds, ProceedType
    <3> QED BY <2>5, <3>1 DEF EntriesWritten, TypeOK
  <2>6. CASE Summarise
    <3>1. job' \in Job /\ JobInv'
      BY <2>6, OnlyProceeds, ProceedType
    <3>2. job.at \in Day
      BY <2>0, <2>6, OnlyProceeds
    <3> QED BY <2>6, <3>1, <3>2 DEF Summarise, TypeOK
  <2>7. CASE Editing
    BY <2>7 DEF Editing, GenerateSummary, SetPinnedDayContext, TypeOK, JobInv
  <2>8. ASSUME NEW keep \in 0 .. MaxKeep, NEW id \in SnapshotId, ApplyRetention(keep, id)
        PROVE  TypeInv'
    <3>1. /\ SnapshotOf(keep) \in Snapshot /\ Removed(keep) \in SUBSET Day
      BY SnapshotOfType
    <3>2. snapshots' \in [SnapshotId -> Snapshot \cup {None}] /\ snapshots'[id] # None
      BY <2>8, <3>1 DEF ApplyRetention, TypeOK
    <3>3. job' \in Job /\ JobInv'
      BY <2>8, <3>1, <3>2, LoopType DEF ApplyRetention, Restorable, Op
    <3> QED BY <2>8, <3>2, <3>3 DEF ApplyRetention, TypeOK
  <2>9. CASE DeleteEntries
    <3>1. job' \in Job /\ JobInv'
      BY <2>9, OnlyProceeds, ProceedType
    <3>2. rows' \in [Id -> Row \cup {None}]
      BY <2>9 DEF DeleteEntries, TypeOK
    <3> QED BY <2>9, <3>1, <3>2 DEF DeleteEntries, TypeOK
  <2>10. CASE DeleteDay \/ DeleteSummary \/ DeletePin
    <3>1. job' \in Job /\ JobInv'
      BY <2>10, OnlyProceeds, ProceedType
    <3> QED BY <2>10, <3>1 DEF DeleteDay, DeleteSummary, DeletePin, TypeOK
  <2>11. ASSUME NEW id \in SnapshotId, RollbackRetention(id) PROVE TypeInv'
    <3>1. Restored(id) \in SUBSET Day /\ Restorable("rollback", Restored(id), id)
      BY <2>11 DEF Restored, Restorable, RollbackRetention
    <3>2. job' \in Job /\ JobInv'
      BY <2>11, <3>1, LoopType DEF RollbackRetention, Op
    <3> QED BY <2>11, <3>2 DEF RollbackRetention, TypeOK
  <2>12. CASE RestoreDay \/ RestoreSummary \/ RestorePin
    <3>1. job' \in Job /\ JobInv'
      BY <2>12, OnlyProceeds, ProceedType
    <3>2. job.op = "rollback" /\ job.at \in Day
      BY <2>0, <2>12, OnlyProceeds
    <3>3. snapshots[job.from].days[job.at] \in DayRecord
      <4>1. snapshots[job.from] \in Snapshot /\ snapshots[job.from].days[job.at] # None
        BY <3>2 DEF JobInv, TypeOK
      <4> QED BY <3>2, <4>1 DEF Snapshot
    <3>4. snapshots[job.from].days[job.at].metrics \in Nat
      BY <3>3 DEF DayRecord
    <3>5. CASE RestoreDay
      BY <3>1, <3>2, <3>4, <3>5 DEF RestoreDay, TypeOK
    <3>6. CASE RestoreSummary \/ RestorePin
      BY <3>1, <3>2, <3>6 DEF RestoreSummary, RestorePin, TypeOK
    <3> QED BY <2>12, <3>5, <3>6
  <2>13. CASE StatementFails \/ ProcessDies
    <3>1. job' = NoJob \/ job' = BootJob
      BY <2>13 DEF StatementFails, ProcessDies
    <3>2. job' \in Job /\ JobInv'
      BY <3>1, RestType DEF NoJob, BootJob, JobInv
    <3>3. faults' \in 0 .. MaxFaults
      BY <2>13 DEF StatementFails, ProcessDies, SpendFault, TypeOK
    <3> QED BY <2>13, <3>2, <3>3 DEF StatementFails, ProcessDies, TypeOK
  <2>14. CASE UNCHANGED vars
    BY <2>14 DEF vars, TypeOK, JobInv
  <2> QED BY <2>1, <2>2, <2>3, <2>4, <2>5, <2>6, <2>7, <2>8, <2>9, <2>10, <2>11, <2>12, <2>13, <2>14
          DEF Next, Recording, Retaining
<1> QED BY <1>1, <1>2, PTL DEF Spec

\* In particular the tables hold rows of the declared form, and an operation under way
\* has a day, a step and a snapshot where it needs one.
COROLLARY TypeCorrect == Spec => []TypeOK
  BY TypeInvHolds, PTL DEF TypeInv

-----------------------------------------------------------------------------
(* Nothing is lost and nothing is out of sight, as long as no two events   *)
(* share a key.                                                            *)

KeysDiffer == \A e, f \in Event : IdOf[e] = IdOf[f] => e = f

StoreInv == /\ TypeInv /\ RowInv /\ SnapshotInv /\ TodoInv /\ StageInv
            /\ NoInvisibleEntry /\ ApplyInv /\ NothingLost

\* The entries of the days depend on the rows alone.
LEMMA SameEntries ==
    ASSUME rows' = rows PROVE \A d : EntriesOf(d)' = EntriesOf(d)
  BY DEF EntriesOf

\* Deleting rows takes entries away.
LEMMA FewerEntries ==
    ASSUME DeleteEntries PROVE \A d : EntriesOf(d)' \subseteq EntriesOf(d)
  BY DEF EntriesOf, DeleteEntries

\* Writing an entry adds it to the day the operation is at, and changes nothing else:
\* a row that is already there is the entry's own.
LEMMA WrittenEntries ==
    ASSUME KeysDiffer, TypeInv, RowInv, TodoInv, NEW e \in Event, WriteEntry(e)
    PROVE  /\ rows' = [rows EXCEPT ![IdOf[e]] = [day |-> job.at, entry |-> e]]
           /\ RowInv'
           /\ \A d : EntriesOf(d)' = IF d = job.at THEN EntriesOf(d) \cup {e} ELSE EntriesOf(d)
  <1>1. IdOf[e] \in Id /\ DayOf[e] = job.at
    BY DEF WriteEntry, TodoInv
  <1>2. rows[IdOf[e]] # None => rows[IdOf[e]].entry = e /\ rows[IdOf[e]].day = job.at
    <2>1. rows[IdOf[e]] # None => rows[IdOf[e]].entry \in Event
      BY <1>1 DEF TypeInv, TypeOK, Row
    <2> QED BY <1>1, <2>1 DEF RowInv, KeysDiffer
  <1>3. rows' = [rows EXCEPT ![IdOf[e]] = [day |-> job.at, entry |-> e]]
    BY <1>1, <1>2 DEF WriteEntry
  <1>4. rows'[IdOf[e]] = [day |-> job.at, entry |-> e] /\ \A i \in Id \ {IdOf[e]} : rows'[i] = rows[i]
    BY <1>1, <1>3 DEF TypeInv, TypeOK
  <1>5. [day |-> job.at, entry |-> e] \in Row
    BY <1>1 DEF Row
  <1>6. rows'[IdOf[e]] # None
    BY <1>4, <1>5
  <1>7. RowInv'
    BY <1>1, <1>4 DEF RowInv
  <1>8. ASSUME NEW d PROVE EntriesOf(d)' = IF d = job.at THEN EntriesOf(d) \cup {e} ELSE EntriesOf(d)
    <2>1. ASSUME NEW f, f \in EntriesOf(d)
          PROVE  f \in EntriesOf(d)'
      <3>1. PICK i \in Id : rows[i] # None /\ rows[i].day = d /\ rows[i].entry = f
        BY <2>1, EntriesMember
      <3>2. rows'[i] # None /\ rows'[i].day = d /\ rows'[i].entry = f
        BY <1>2, <1>4, <1>6, <3>1
      <3> QED BY <3>2 DEF EntriesOf
    <2>2. d = job.at => e \in EntriesOf(d)'
      BY <1>1, <1>4, <1>6 DEF EntriesOf
    <2>3. ASSUME NEW f, f \in EntriesOf(d)'
          PROVE  f \in EntriesOf(d) \/ (f = e /\ d = job.at)
      <3>1. PICK i \in Id : rows'[i] # None /\ rows'[i].day = d /\ rows'[i].entry = f
        BY <2>3 DEF EntriesOf
      <3>2. CASE i = IdOf[e]
        BY <1>4, <3>1, <3>2
      <3>3. CASE i # IdOf[e]
        BY <1>4, <3>1, <3>3, EntriesMember
      <3> QED BY <3>2, <3>3
    <2> QED BY <2>1, <2>2, <2>3
  <1> QED BY <1>3, <1>7, <1>8

\* What the loop makes of the stage, the entries to write and those to delete.
LEMMA ProceedSafe ==
    ASSUME TypeInv, SnapshotInv, TodoInv, ApplyInv, job.op # "none", Proceed,
           snapshots' = snapshots,
           job.op \in {"boot", "add", "rollback"} => days'[job.at] # None,
           job.op = "apply" =>
               /\ \A i \in Id : rows'[i] # None => rows'[i].day # job.at
               /\ \A d : EntriesOf(d)' \subseteq EntriesOf(d)
    PROVE  StageInv' /\ TodoInv' /\ ApplyInv'
  <1>0. job \in Job
    BY DEF TypeInv, TypeOK
  <1>1. CASE job' = [job EXCEPT !.step = job.step + 1]
    <2>1. /\ job'.op = job.op /\ job'.at = job.at /\ job'.left = job.left /\ job'.from = job.from
          /\ job'.todo = job.todo
      BY <1>0, <1>1 DEF Job
    <2>2. StageInv'
      BY <2>1 DEF StageInv
    <2>3. TodoInv'
      BY <2>1 DEF TodoInv
    <2>4. ApplyInv'
      BY <2>1 DEF ApplyInv
    <2> QED BY <2>2, <2>3, <2>4
  <1>2. CASE job' = NoJob
    <2>1. job'.op = "none" /\ job'.todo = {}
      BY <1>2 DEF NoJob
    <2> QED BY <2>1 DEF StageInv, TodoInv, ApplyInv
  <1>3. ASSUME NEW d \in job.left, Visit(job.op, job.left, job.batch, job.from, d)
        PROVE  StageInv' /\ TodoInv' /\ ApplyInv'
    <2>1. /\ job'.op = job.op /\ job'.at = d /\ job'.step = 1 /\ job'.left = job.left \ {d}
          /\ job'.from = job.from
          /\ job.op = "add" => job'.todo = {e \in job.batch : DayOf[e] = d}
          /\ job.op = "rollback" => job'.todo = snapshots[job.from].days[d].entries
          /\ job.op \notin {"add", "rollback"} => job'.todo = {}
      BY <1>3, VisitFields
    <2>2. StageInv'
      BY <2>1 DEF StageInv
    <2>3. TodoInv'
      <3>1. job.op = "rollback" => \A e \in snapshots[job.from].days[d].entries : DayOf[e] = d
        BY <1>0 DEF SnapshotInv, TypeInv, JobInv, Job
      <3> QED BY <2>1, <3>1 DEF TodoInv
    <2>4. ApplyInv'
      BY <2>1 DEF ApplyInv
    <2> QED BY <2>2, <2>3, <2>4
  <1>4. TypeOK /\ JobInv
    BY DEF TypeInv
  <1> QED BY <1>1, <1>2, <1>3, <1>4, ProceedCases

\* What is stored or snapshotted stays so while the rows and the snapshots stay.
LEMMA NothingLostStays ==
    ASSUME NothingLost, recorded' = recorded, UNCHANGED <<rows, snapshots>>
    PROVE  NothingLost'
  BY DEF NothingLost, Stored, Snapshotted, Restored

\* A statement that writes or deletes no entry keeps the journal together, provided the
\* day's row stays, or goes at the second step of a retention.
LEMMA RowsStay ==
    ASSUME StoreInv, TypeInv', job.op # "none", Proceed, UNCHANGED <<rows, snapshots, recorded>>,
           job.op = "apply" => job.step >= 2,
           \A d \in Day : days[d] # None /\ d # job.at => days'[d] # None,
           job.op # "apply" => days'[job.at] # None,
           job.op = "apply" => job.step = 2 \/ days' = days
    PROVE  StoreInv'
  <1> USE DEF StoreInv
  <1>1. \A d : EntriesOf(d)' = EntriesOf(d)
    BY SameEntries
  <1>2. StageInv' /\ TodoInv' /\ ApplyInv'
    <2>1. job.op = "apply" => \A i \in Id : rows'[i] # None => rows'[i].day # job.at
      BY DEF StageInv
    <2> QED BY <1>1, <2>1, ProceedSafe
  <1>3. RowInv' /\ SnapshotInv'
    BY DEF RowInv, SnapshotInv
  <1>4. NoInvisibleEntry'
    <2> SUFFICES ASSUME NEW i \in Id, rows[i] # None PROVE rows[i].day \in Day /\ days'[rows[i].day] # None
      BY DEF NoInvisibleEntry, Listed
    <2>1. rows[i].day \in Day /\ days[rows[i].day] # None
      BY DEF NoInvisibleEntry, Listed
    <2>2. job.op = "apply" => rows[i].day # job.at
      BY DEF StageInv
    <2> QED BY <2>1, <2>2
  <1>5. NothingLost'
    BY NothingLostStays
  <1> QED BY <1>2, <1>3, <1>4, <1>5

\* Beginning an operation, or ending one early, keeps it together too.
LEMMA JobChanges ==
    ASSUME StoreInv, TypeInv', UNCHANGED <<rows, days, snapshots, recorded>>,
           StageInv', TodoInv', ApplyInv'
    PROVE  StoreInv'
  BY NothingLostStays DEF StoreInv, RowInv, SnapshotInv, NoInvisibleEntry, Listed

\* The loop's first day: nothing is behind the operation yet.
LEMMA LoopSafe ==
    ASSUME SnapshotInv, NEW op, NEW S, NEW batch, NEW id, Loop(op, S, batch, id),
           op = "rollback" => Restorable(op, S, id) /\ S \subseteq Day
    PROVE  StageInv' /\ TodoInv' /\ (op # "apply" => ApplyInv')
  <1>1. CASE job' = NoJob
    <2>1. job'.op = "none" /\ job'.todo = {}
      BY <1>1 DEF NoJob
    <2> QED BY <2>1 DEF StageInv, TodoInv, ApplyInv
  <1>2. ASSUME NEW d \in S, Visit(op, S, batch, id, d)
        PROVE  StageInv' /\ TodoInv' /\ (op # "apply" => ApplyInv')
    <2>1. /\ job'.op = op /\ job'.at = d /\ job'.step = 1
          /\ op = "add" => job'.todo = {e \in batch : DayOf[e] = d}
          /\ op = "rollback" => job'.todo = snapshots[id].days[d].entries
          /\ op \notin {"add", "rollback"} => job'.todo = {}
      BY <1>2, VisitFields
    <2>2. op = "rollback" => \A e \in snapshots[id].days[d].entries : DayOf[e] = d
      BY DEF SnapshotInv, Restorable
    <2>3. TodoInv'
      BY <2>1, <2>2 DEF TodoInv
    <2> QED BY <2>1, <2>3 DEF StageInv, ApplyInv
  <1> QED BY <1>1, <1>2 DEF Loop

\* As long as no two events share a key, whatever fails and whenever the process dies:
\* no entry is lost, and none stands under a day that has no page.
THEOREM StoreInvHolds == ASSUME KeysDiffer PROVE Spec => []StoreInv
<1>1. Init => StoreInv
  <2> SUFFICES ASSUME Init PROVE StoreInv
    OBVIOUS
  <2>1. TypeInv
    BY RestType DEF Init, TypeInv, TypeOK, JobInv, BootJob
  <2>2. job.op = "boot" /\ job.step = 1 /\ job.todo = Sample /\ job.at = SampleDay
    BY DEF Init, BootJob
  <2> QED BY <2>1, <2>2 DEF Init, StoreInv, RowInv, SnapshotInv, TodoInv, StageInv,
          NoInvisibleEntry, ApplyInv, NothingLost
<1>2. StoreInv /\ TypeInv' /\ [Next]_vars => StoreInv'
  <2> SUFFICES ASSUME StoreInv, TypeInv', [Next]_vars PROVE StoreInv'
    OBVIOUS
  <2> USE DEF StoreInv
  <2>0. /\ TypeOK /\ JobInv
        /\ job \in Job /\ job.op \in Op /\ job.todo \in SUBSET Event /\ job.left \in SUBSET Day
        /\ job.from \in SnapshotId \cup {None} /\ job.step \in 1 .. 4
        /\ job.op # "none" => job.at \in Day
    BY DEF TypeInv, TypeOK, Job, JobInv
  <2>1. ASSUME NEW batch \in SUBSET Event, Record(batch) PROVE StoreInv'
    <3>1. StageInv' /\ TodoInv' /\ ApplyInv'
      BY <2>1, LoopSafe DEF Record
    <3> QED BY <2>1, <3>1, JobChanges DEF Record
  <2>2. CASE MergeDay
    <3>1. MergedMetrics(job.at, job.todo) # None
      BY <2>0, MergedType
    <3>2. job.op = "add" /\ job.at \in Day
      BY <2>0, <2>2, OnlyProceeds
    <3>3. days'[job.at] # None /\ \A d \in Day \ {job.at} : days'[d] = days[d]
      BY <2>0, <2>2, <3>1, <3>2 DEF MergeDay, TypeOK
    <3> QED BY <2>2, <3>2, <3>3, RowsStay DEF MergeDay
  <2>3. CASE BootDay
    <3>1. job.op = "boot" /\ job.at \in Day
      BY <2>0, <2>3, OnlyProceeds
    <3>2. days'[job.at] # None /\ \A d \in Day \ {job.at} : days'[d] = days[d]
      BY <2>0, <2>3, <3>1 DEF BootDay, TypeOK
    <3> QED BY <2>3, <3>1, <3>2, RowsStay DEF BootDay
  <2>4. ASSUME NEW e \in Event, WriteEntry(e) PROVE StoreInv'
    <3>1. /\ RowInv'
          /\ rows' = [rows EXCEPT ![IdOf[e]] = [day |-> job.at, entry |-> e]]
      BY <2>4, WrittenEntries
    <3>2. /\ job.op \in {"boot", "add", "rollback"} /\ job.step = 2
          /\ job' = [job EXCEPT !.todo = job.todo \ {e}]
          /\ UNCHANGED <<days, snapshots>> /\ recorded' = recorded \cup {e}
      BY <2>0, <2>4, Steps DEF WriteEntry
    <3>3. /\ job'.op = job.op /\ job'.at = job.at /\ job'.step = job.step
          /\ job'.todo \subseteq job.todo
      BY <2>0, <3>2 DEF Job
    <3>4. StageInv' /\ TodoInv' /\ ApplyInv'
      BY <3>2, <3>3 DEF StageInv, TodoInv, ApplyInv
    <3>5. job.at \in Day /\ days[job.at] # None
      BY <2>0, <3>2 DEF StageInv
    <3>6. IdOf[e] \in Id /\ [day |-> job.at, entry |-> e] \in Row
      BY <3>5 DEF Row
    <3>7. /\ rows'[IdOf[e]] = [day |-> job.at, entry |-> e]
          /\ rows'[IdOf[e]] # None
          /\ \A i \in Id \ {IdOf[e]} : rows'[i] = rows[i]
      BY <2>0, <3>1, <3>6 DEF TypeOK
    <3>8. NoInvisibleEntry'
      BY <3>2, <3>5, <3>7 DEF NoInvisibleEntry, Listed
    <3>9. NothingLost'
      <4> SUFFICES ASSUME NEW f \in recorded \cup {e} PROVE Stored(f)' \/ Snapshotted(f)'
        BY <3>2 DEF NothingLost
      <4>1. CASE f = e
        BY <3>6, <3>7, <4>1 DEF Stored
      <4>2. CASE f # e /\ Stored(f)
        <5>1. PICK i \in Id : rows[i] # None /\ rows[i].entry = f
          BY <4>2 DEF Stored
        <5>2. IdOf[f] = i /\ f \in Event
          BY <2>0, <5>1 DEF RowInv, TypeOK, Row
        <5>3. i # IdOf[e]
          BY <4>2, <5>2 DEF KeysDiffer
        <5> QED BY <3>7, <5>1, <5>3 DEF Stored
      <4>3. CASE Snapshotted(f)
        BY <3>2, <4>3 DEF Snapshotted, Restored
      <4> QED BY <4>1, <4>2, <4>3 DEF NothingLost
    <3>10. SnapshotInv'
      BY <3>2 DEF SnapshotInv
    <3> QED BY <3>1, <3>4, <3>8, <3>9, <3>10
  <2>5. CASE EntriesWritten
    <3>1. job.op \in {"boot", "add", "rollback"} /\ job.step = 2
      BY <2>0, <2>5, Steps DEF EntriesWritten
    <3>2. days[job.at] # None
      BY <3>1 DEF StageInv
    <3> QED BY <2>5, <3>1, <3>2, RowsStay DEF EntriesWritten
  <2>6. CASE Summarise
    <3>1. job.op = "add" /\ job.step = 3
      BY <2>0, <2>6, Steps DEF Summarise
    <3>2. days[job.at] # None
      BY <3>1 DEF StageInv
    <3> QED BY <2>6, <3>1, <3>2, RowsStay DEF Summarise
  <2>7. CASE Editing
    <3>1. UNCHANGED <<rows, days, snapshots, recorded, job>>
      BY <2>7 DEF Editing, GenerateSummary, SetPinnedDayContext
    <3>2. StageInv' /\ TodoInv' /\ ApplyInv'
      BY <3>1, SameEntries DEF StageInv, TodoInv, ApplyInv
    <3> QED BY <3>1, <3>2, JobChanges
  <2>8. ASSUME NEW keep \in 0 .. MaxKeep, NEW id \in SnapshotId, ApplyRetention(keep, id)
        PROVE  StoreInv'
    <3>1. /\ \A d \in Day : SnapshotOf(keep).days[d] # None <=> d \in Listed
          /\ \A d \in Listed : SnapshotOf(keep).days[d] = DayRecordOf(d)
          /\ Removed(keep) \subseteq Listed /\ Listed \subseteq Day
      BY <2>0, SnapshotOfType
    <3>2. /\ snapshots[id] = None /\ snapshots'[id] = SnapshotOf(keep)
          /\ \A x \in SnapshotId \ {id} : snapshots'[x] = snapshots[x]
          /\ UNCHANGED <<rows, days, recorded>>
      BY <2>0, <2>8 DEF ApplyRetention, TypeOK
    <3>3. /\ \A x \in Listed : /\ snapshots'[id].days[x] # None
                               /\ snapshots'[id].days[x].entries = EntriesOf(x)
          /\ \A x \in Day : snapshots'[id].days[x] # None => x \in Listed
      <4>1. \A x \in Listed : SnapshotOf(keep).days[x].entries = EntriesOf(x)
        BY <3>1, RecordFields
      <4> QED BY <3>1, <3>2, <4>1
    <3>4. StageInv' /\ TodoInv'
      BY <2>8, LoopSafe DEF ApplyRetention
    <3>5. ApplyInv'
      <4>1. CASE job' = NoJob
        BY <4>1 DEF ApplyInv, NoJob
      <4>2. ASSUME NEW d \in Removed(keep), Visit("apply", Removed(keep), {}, id, d)
            PROVE  ApplyInv'
        <5>1. job'.from = id /\ job'.left \cup {job'.at} \subseteq Listed
          BY <3>1, <4>2, VisitFields
        <5>2. \A x : EntriesOf(x)' = EntriesOf(x)
          BY <3>2, SameEntries
        <5>3. ASSUME NEW x \in job'.left \cup {job'.at}
              PROVE  /\ snapshots'[id].days[x] # None
                     /\ EntriesOf(x)' \subseteq snapshots'[id].days[x].entries
          BY <3>3, <5>1, <5>2
        <5> QED BY <5>1, <5>3 DEF ApplyInv
      <4> QED BY <2>8, <4>1, <4>2 DEF ApplyRetention, Loop
    <3>6. SnapshotInv'
      <4> SUFFICES ASSUME NEW x \in SnapshotId, NEW d \in Day, snapshots'[x] # None,
                          snapshots'[x].days[d] # None, NEW e \in snapshots'[x].days[d].entries
                   PROVE  DayOf[e] = d
        BY DEF SnapshotInv
      <4>1. CASE x # id
        BY <3>2, <4>1 DEF SnapshotInv
      <4>2. CASE x = id
        <5>1. e \in EntriesOf(d)
          BY <3>3, <4>2
        <5> QED BY <5>1, EntriesMember DEF RowInv
      <4> QED BY <4>1, <4>2
    <3>7. NothingLost'
      <4> SUFFICES ASSUME NEW f \in recorded PROVE Stored(f)' \/ Snapshotted(f)'
        BY <3>2 DEF NothingLost
      <4>1. CASE Stored(f)
        BY <3>2, <4>1 DEF Stored
      <4>2. CASE Snapshotted(f)
        <5>1. PICK x \in SnapshotId : /\ snapshots[x] # None
                                      /\ \E d \in Restored(x) : f \in snapshots[x].days[d].entries
          BY <4>2 DEF Snapshotted
        <5>2. snapshots'[x] = snapshots[x]
          BY <3>2, <5>1
        <5> QED BY <5>1, <5>2 DEF Snapshotted, Restored
      <4> QED BY <4>1, <4>2 DEF NothingLost
    <3>8. RowInv' /\ NoInvisibleEntry'
      BY <3>2 DEF RowInv, NoInvisibleEntry, Listed
    <3> QED BY <3>4, <3>5, <3>6, <3>7, <3>8
  <2>9. CASE DeleteEntries
    <3>1. job.op = "apply" /\ job.step = 1 /\ job.at \in Day /\ job.from \in SnapshotId
          /\ snapshots[job.from] # None
      BY <2>0, <2>9, Steps DEF DeleteEntries, JobInv
    <3>2. /\ rows' = [i \in Id |-> IF rows[i] # None /\ rows[i].day = job.at THEN None ELSE rows[i]]
          /\ UNCHANGED <<days, snapshots, recorded>> /\ Proceed
      BY <2>9 DEF DeleteEntries
    <3>3. \A i \in Id : rows'[i] # None => rows'[i] = rows[i] /\ rows'[i].day # job.at
      BY <3>2
    <3>4. StageInv' /\ TodoInv' /\ ApplyInv'
      BY <2>9, <3>1, <3>2, <3>3, FewerEntries, ProceedSafe
    <3>5. RowInv' /\ NoInvisibleEntry' /\ SnapshotInv'
      BY <3>2, <3>3 DEF RowInv, NoInvisibleEntry, Listed, SnapshotInv
    <3>6. NothingLost'
      <4> SUFFICES ASSUME NEW f \in recorded PROVE Stored(f)' \/ Snapshotted(f)'
        BY <3>2 DEF NothingLost
      <4>1. ASSUME NEW i \in Id, rows[i] # None, rows[i].entry = f, rows[i].day # job.at
            PROVE  Stored(f)'
        BY <3>2, <4>1 DEF Stored
      <4>2. ASSUME NEW i \in Id, rows[i] # None, rows[i].entry = f, rows[i].day = job.at
            PROVE  Snapshotted(f)'
        <5>1. f \in EntriesOf(job.at)
          BY <4>2, EntriesMember
        <5>2. /\ snapshots[job.from].days[job.at] # None
              /\ f \in snapshots[job.from].days[job.at].entries
          BY <3>1, <5>1 DEF ApplyInv
        <5> QED BY <3>1, <3>2, <5>2 DEF Snapshotted, Restored
      <4>3. CASE Snapshotted(f)
        BY <3>2, <4>3 DEF Snapshotted, Restored
      <4> QED BY <4>1, <4>2, <4>3 DEF NothingLost, Stored
    <3> QED BY <3>4, <3>5, <3>6
  <2>10. CASE DeleteDay
    <3>1. job.op = "apply" /\ job.step = 2
      BY <2>0, <2>10, Steps DEF DeleteDay
    <3>2. \A d \in Day \ {job.at} : days'[d] = days[d]
      BY <2>0, <2>10 DEF DeleteDay, TypeOK
    <3> QED BY <2>10, <3>1, <3>2, RowsStay DEF DeleteDay
  <2>11. CASE DeleteSummary \/ DeletePin
    <3>1. job.op = "apply" /\ job.step >= 2
      BY <2>0, <2>11, Steps DEF DeleteSummary, DeletePin
    <3> QED BY <2>11, <3>1, RowsStay DEF DeleteSummary, DeletePin
  <2>12. ASSUME NEW id \in SnapshotId, RollbackRetention(id) PROVE StoreInv'
    <3>1. Restored(id) \subseteq Day /\ Restorable("rollback", Restored(id), id)
      BY <2>12 DEF Restored, Restorable, RollbackRetention
    <3>2. StageInv' /\ TodoInv' /\ ApplyInv'
      BY <2>12, <3>1, LoopSafe DEF RollbackRetention
    <3> QED BY <2>12, <3>2, JobChanges DEF RollbackRetention
  <2>13. CASE RestoreDay
    <3>1. job.op = "rollback" /\ job.at \in Day /\ job.from \in SnapshotId
      BY <2>0, <2>13, OnlyProceeds DEF JobInv
    <3>2. snapshots[job.from].days[job.at] \in DayRecord
      <4>1. snapshots[job.from] \in Snapshot /\ snapshots[job.from].days[job.at] # None
        BY <2>0, <3>1 DEF JobInv, TypeOK
      <4> QED BY <3>1, <4>1 DEF Snapshot
    <3>3. snapshots[job.from].days[job.at].metrics # None
      BY <3>2 DEF DayRecord
    <3>4. days'[job.at] # None /\ \A d \in Day \ {job.at} : days'[d] = days[d]
      BY <2>0, <2>13, <3>1, <3>3 DEF RestoreDay, TypeOK
    <3> QED BY <2>13, <3>1, <3>4, RowsStay DEF RestoreDay
  <2>14. CASE RestoreSummary \/ RestorePin
    <3>1. job.op = "rollback" /\ job.step >= 2
      BY <2>0, <2>14, Steps DEF RestoreSummary, RestorePin
    <3>2. days[job.at] # None
      BY <3>1 DEF StageInv
    <3> QED BY <2>14, <3>1, <3>2, RowsStay DEF RestoreSummary, RestorePin
  <2>15. CASE StatementFails \/ ProcessDies
    <3>1. job' = NoJob \/ job' = BootJob
      BY <2>15 DEF StatementFails, ProcessDies
    <3>2. StageInv' /\ TodoInv' /\ ApplyInv'
      BY <3>1 DEF NoJob, BootJob, StageInv, TodoInv, ApplyInv
    <3> QED BY <2>15, <3>2, JobChanges DEF StatementFails, ProcessDies
  <2>16. CASE UNCHANGED vars
    <3>1. StageInv' /\ TodoInv' /\ ApplyInv'
      BY <2>16, SameEntries DEF vars, StageInv, TodoInv, ApplyInv
    <3> QED BY <2>16, <3>1, JobChanges DEF vars
  <2> QED BY <2>1, <2>2, <2>3, <2>4, <2>5, <2>6, <2>7, <2>8, <2>9, <2>10, <2>11, <2>12, <2>13,
             <2>14, <2>15, <2>16 DEF Next, Recording, Retaining
<1> QED BY <1>1, <1>2, TypeInvHolds, PTL DEF Spec

\* An entry that was once stored is in the journal or in a snapshot, across failing
\* statements, crashes, retentions and rollbacks.
COROLLARY NothingLostHolds == ASSUME KeysDiffer PROVE Spec => []NothingLost
  BY StoreInvHolds, PTL DEF StoreInv

\* Every stored entry stands under a day the journal lists, at any statement.
COROLLARY NoInvisibleEntryHolds == ASSUME KeysDiffer PROVE Spec => []NoInvisibleEntry
  BY StoreInvHolds, PTL DEF StoreInv

-----------------------------------------------------------------------------
(* Recording sets a day right, and a rollback brings its days back.        *)

\* The metrics upsertDay writes are those of the day with its new entries.
LEMMA MergedCounts ==
    ASSUME KeysDiffer, StoreInv, NEW d \in Day, NEW new \in SUBSET Event
    PROVE  MergedMetrics(d, new) = Metrics(EntriesOf(d) \cup new)
  <1> DEFINE kept == {e \in Page(d) : \A n \in new : IdOf[e] # IdOf[n]}
  <1>1. EntriesOf(d) \in SUBSET Event
    BY EntriesType DEF StoreInv, TypeInv
  <1>2. Page(d) = EntriesOf(d)
    <2>1. CASE days[d] # None
      BY <2>1 DEF Page
    <2>2. CASE days[d] = None
      <3>1. EntriesOf(d) = {}
        BY <2>2, EntriesMember DEF StoreInv, NoInvisibleEntry, Listed
      <3> QED BY <2>2, <3>1 DEF Page
    <2> QED BY <2>1, <2>2
  <1>3. kept = EntriesOf(d) \ new
    BY <1>1, <1>2 DEF KeysDiffer
  <1> DEFINE A == kept \cap Counted
             B == new \cap Counted
  <1>4. IsFiniteSet(A) /\ IsFiniteSet(B)
    BY FS_Subset, <1>1, <1>3, A \subseteq Event, B \subseteq Event
  <1>5. A \cup B = (EntriesOf(d) \cup new) \cap Counted /\ A \cap B = {}
    BY <1>3
  <1>6. Cardinality(A \cup B) = Cardinality(A) + Cardinality(B)
    <2>1. Cardinality(A \cup B) = Cardinality(A) + Cardinality(B) - Cardinality(A \cap B)
      BY <1>4, FS_Union
    <2>2. Cardinality(A) \in Nat /\ Cardinality(B) \in Nat /\ Cardinality(A \cap B) = 0
      BY <1>4, <1>5, FS_CardinalityType, FS_EmptySet
    <2> QED BY <2>1, <2>2
  <1> QED BY <1>5, <1>6 DEF MergedMetrics, Metrics

HealInv == AddInv /\ RollbackInv

\* An operation at rest, or at its first statement, has promised nothing yet.
LEMMA RestHeals ==
    ASSUME job' \in {NoJob, BootJob} PROVE HealInv'
  BY DEF HealInv, AddInv, RollbackInv, NoJob, BootJob

\* Going on from a day whose metrics and entries are in step.
LEMMA AddProceeds ==
    ASSUME TypeInv, job.op = "add", Proceed, rows' = rows,
           job.step >= 2 => job.todo = {},
           days'[job.at] = Metrics(EntriesOf(job.at) \cup job.todo),
           {e \in job.batch : DayOf[e] = job.at} \subseteq EntriesOf(job.at) \cup job.todo
    PROVE  HealInv'
  <1>0. job \in Job /\ TypeOK /\ JobInv /\ job.step \in 1 .. 4
    BY DEF TypeInv, TypeOK, Job
  <1>1. CASE job' = [job EXCEPT !.step = job.step + 1]
    <2>1. /\ job'.op = job.op /\ job'.at = job.at /\ job'.todo = job.todo
          /\ job'.batch = job.batch /\ job'.step = job.step + 1
      BY <1>0, <1>1 DEF Job
    <2>2. \A d : EntriesOf(d)' = EntriesOf(d)
      BY SameEntries
    <2>3. ASSUME NEW d, d = job.at PROVE Counts(d)'
      BY <2>1, <2>2, <2>3 DEF Counts
    <2>4. job'.step # 1 /\ (job'.step >= 3 => job'.todo = {})
      BY <1>0, <2>1
    <2> QED BY <2>1, <2>3, <2>4 DEF HealInv, AddInv, RollbackInv
  <1>2. CASE job' = NoJob
    BY <1>2, RestHeals
  <1>3. ASSUME NEW d, Visit(job.op, job.left, job.batch, job.from, d) PROVE HealInv'
    BY <1>3, VisitFields DEF HealInv, AddInv, RollbackInv
  <1> QED BY <1>0, <1>1, <1>2, <1>3, ProceedCases

\* Going on from a day that is back as the snapshot has it.
LEMMA RollbackProceeds ==
    ASSUME TypeInv, job.op = "rollback", Proceed, rows' = rows, snapshots' = snapshots,
           RollbackInv, job.step >= 2 => job.todo = {},
           \A d \in Day \ {job.at} : days'[d] = days[d],
           days'[job.at] = snapshots[job.from].days[job.at].metrics,
           snapshots[job.from].days[job.at].entries \subseteq EntriesOf(job.at) \cup job.todo
    PROVE  HealInv'
  <1>0. job \in Job /\ TypeOK /\ JobInv /\ job.step \in 1 .. 4
    BY DEF TypeInv, TypeOK, Job
  <1>2. \A d : EntriesOf(d)' = EntriesOf(d)
    BY SameEntries
  <1>3. CASE job' = [job EXCEPT !.step = job.step + 1]
    <2>1. /\ job'.op = job.op /\ job'.at = job.at /\ job'.todo = job.todo
          /\ job'.left = job.left /\ job'.from = job.from /\ job'.step = job.step + 1
      BY <1>0, <1>3 DEF Job
    <2>2. ASSUME NEW d \in Day \ (job.left \cup {job.at}), snapshots[job.from].days[d] # None
          PROVE  Back(d, {})'
      <3>1. Back(d, {})
        BY <2>2 DEF RollbackInv
      <3> QED BY <1>2, <2>1, <3>1 DEF Back
    <2>3. ASSUME NEW d, d = job.at PROVE Back(d, job.todo)'
      BY <1>2, <2>1, <2>3 DEF Back
    <2>4. job'.step # 1 /\ (job'.step >= 3 => job'.todo = {})
      BY <1>0, <2>1
    <2> QED BY <2>1, <2>2, <2>3, <2>4 DEF HealInv, AddInv, RollbackInv
  <1>4. CASE job' = NoJob
    BY <1>4, RestHeals
  <1>5. ASSUME NEW x \in job.left, Visit(job.op, job.left, job.batch, job.from, x),
               job.step = 4
        PROVE  HealInv'
    <2>1. /\ job'.op = "rollback" /\ job'.at = x /\ job'.step = 1 /\ job'.left = job.left \ {x}
          /\ job'.from = job.from /\ job'.todo = snapshots[job.from].days[x].entries
      BY <1>5, VisitFields
    <2>2. ASSUME NEW d \in Day \ (job'.left \cup {job'.at}), snapshots[job.from].days[d] # None
          PROVE  Back(d, {})'
      <3>1. d \notin job.left
        BY <2>1, <2>2
      <3>2. CASE d = job.at
        <4>1. job.todo = {}
          BY <1>5
        <4> QED BY <1>2, <2>1, <3>2, <4>1 DEF Back
      <3>3. CASE d # job.at
        <4>1. Back(d, {})
          BY <2>2, <3>1, <3>3 DEF RollbackInv
        <4> QED BY <1>2, <2>1, <3>3, <4>1 DEF Back
      <3> QED BY <3>2, <3>3
    <2> QED BY <2>1, <2>2 DEF HealInv, AddInv, RollbackInv
  <1> QED BY <1>0, <1>3, <1>4, <1>5, ProceedCases

\* As long as no two events share a key: recording an entry leaves the day with metrics
\* that count its page and the entry on it, and a rollback brings every day of its
\* snapshot back, whatever crashed, failed or was rolled back before.
THEOREM HealInvHolds == ASSUME KeysDiffer PROVE Spec => []HealInv
<1>1. Init => HealInv
  BY DEF Init, BootJob, HealInv, AddInv, RollbackInv
<1>2. StoreInv /\ HealInv /\ [Next]_vars => HealInv'
  <2> SUFFICES ASSUME StoreInv, HealInv, [Next]_vars PROVE HealInv'
    OBVIOUS
  <2> USE DEF HealInv
  <2>0. /\ TypeInv /\ TypeOK /\ JobInv
        /\ job \in Job /\ job.op \in Op /\ job.todo \in SUBSET Event
        /\ job.step \in 1 .. 4 /\ (job.op # "none" => job.at \in Day)
    BY DEF StoreInv, TypeInv, TypeOK, Job, JobInv
  <2>1. ASSUME NEW batch \in SUBSET Event, Record(batch) PROVE HealInv'
    <3> DEFINE S == {DayOf[e] : e \in batch}
    <3>1. CASE job' = NoJob
      BY <3>1, RestHeals
    <3>2. ASSUME NEW d \in S, Visit("add", S, batch, None, d) PROVE HealInv'
      <4>1. job'.op = "add" /\ job'.step = 1 /\ job'.todo = {e \in job'.batch : DayOf[e] = job'.at}
        BY <3>2, VisitFields
      <4> QED BY <4>1 DEF AddInv, RollbackInv
    <3> QED BY <2>1, <3>1, <3>2 DEF Record, Loop
  <2>2. CASE MergeDay
    <3>1. job.op = "add" /\ job.step = 1 /\ job.at \in Day
      BY <2>0, <2>2, Steps DEF MergeDay
    <3>2. days'[job.at] = Metrics(EntriesOf(job.at) \cup job.todo)
      BY <2>0, <2>2, <3>1, MergedCounts DEF MergeDay, TypeOK
    <3>3. job.todo = {e \in job.batch : DayOf[e] = job.at}
      BY <3>1 DEF AddInv
    <3> QED BY <2>0, <2>2, <3>1, <3>2, <3>3, AddProceeds DEF MergeDay
  <2>3. CASE BootDay
    <3>1. job.op = "boot" /\ Proceed
      BY <2>0, <2>3, OnlyProceeds
    <3>2. job'.op = "boot" \/ job' = NoJob
      BY <2>0, <3>1, ProceedCases, VisitFields DEF Job
    <3> QED BY <3>2, RestHeals DEF AddInv, RollbackInv
  <2>4. ASSUME NEW e \in Event, WriteEntry(e) PROVE HealInv'
    <3>1. /\ job.op \in {"boot", "add", "rollback"} /\ job.step = 2 /\ e \in job.todo
          /\ job' = [job EXCEPT !.todo = job.todo \ {e}] /\ UNCHANGED <<days, snapshots>>
      BY <2>0, <2>4, Steps DEF WriteEntry
    <3>2. /\ job'.op = job.op /\ job'.at = job.at /\ job'.step = job.step /\ job'.left = job.left
          /\ job'.batch = job.batch /\ job'.from = job.from /\ job'.todo = job.todo \ {e}
      BY <2>0, <3>1 DEF Job
    <3>3. \A d : EntriesOf(d)' = IF d = job.at THEN EntriesOf(d) \cup {e} ELSE EntriesOf(d)
      BY <2>0, <2>4, WrittenEntries DEF StoreInv
    <3>4. AddInv'
      <4> SUFFICES ASSUME job.op = "add" PROVE \A d \in {job.at} : Counts(d)'
        BY <3>1, <3>2 DEF AddInv
      <4>1. Counts(job.at)
        BY <3>1 DEF AddInv
      <4>2. EntriesOf(job.at) \cup {e} \cup (job.todo \ {e}) = EntriesOf(job.at) \cup job.todo
        BY <3>1
      <4>3. ASSUME NEW d, d = job.at PROVE Counts(d)'
        BY <3>1, <3>2, <3>3, <4>1, <4>2, <4>3 DEF Counts
      <4> QED BY <4>3
    <3>5. RollbackInv'
      <4> SUFFICES ASSUME job.op = "rollback"
                   PROVE  /\ \A d \in Day \ (job.left \cup {job.at}) :
                                snapshots[job.from].days[d] # None => Back(d, {})'
                          /\ \A d \in {job.at} : Back(d, job.todo)'
        BY <3>1, <3>2 DEF RollbackInv
      <4>1. ASSUME NEW d \in Day \ (job.left \cup {job.at}), snapshots[job.from].days[d] # None
            PROVE  Back(d, {})'
        <5>1. Back(d, {})
          BY <4>1 DEF RollbackInv
        <5> QED BY <3>1, <3>2, <3>3, <4>1, <5>1 DEF Back
      <4>2. ASSUME NEW d, d = job.at PROVE Back(d, job.todo)'
        <5>1. Back(d, job.todo)
          BY <3>1, <4>2 DEF RollbackInv
        <5> QED BY <3>1, <3>2, <3>3, <4>2, <5>1 DEF Back
      <4> QED BY <4>1, <4>2
    <3> QED BY <3>4, <3>5
  <2>5. CASE EntriesWritten
    <3>1. job.op \in {"boot", "add", "rollback"} /\ job.step = 2 /\ job.todo = {} /\ Proceed
          /\ UNCHANGED <<rows, days, snapshots>>
      BY <2>0, <2>5, Steps DEF EntriesWritten
    <3>2. CASE job.op = "boot"
      <4>1. job'.op = "boot" \/ job' = NoJob
        BY <2>0, <3>1, <3>2, ProceedCases, VisitFields DEF Job
      <4> QED BY <4>1, RestHeals DEF AddInv, RollbackInv
    <3>3. CASE job.op = "add"
      <4>1. Counts(job.at)
        BY <3>1, <3>3 DEF AddInv
      <4> QED BY <2>0, <3>1, <3>3, <4>1, AddProceeds DEF Counts
    <3>4. CASE job.op = "rollback"
      <4>1. Back(job.at, job.todo)
        BY <3>1, <3>4 DEF RollbackInv
      <4> QED BY <2>0, <3>1, <3>4, <4>1, RollbackProceeds DEF Back
    <3> QED BY <3>1, <3>2, <3>3, <3>4
  <2>6. CASE Summarise
    <3>1. job.op = "add" /\ job.step = 3 /\ Proceed /\ UNCHANGED <<rows, days>>
      BY <2>0, <2>6, Steps DEF Summarise
    <3>2. Counts(job.at) /\ job.todo = {}
      BY <3>1 DEF AddInv
    <3> QED BY <2>0, <3>1, <3>2, AddProceeds DEF Counts
  <2>7. CASE Editing
    <3>1. UNCHANGED <<rows, days, snapshots, job>>
      BY <2>7 DEF Editing, GenerateSummary, SetPinnedDayContext
    <3>2. \A d : EntriesOf(d)' = EntriesOf(d)
      BY <3>1, SameEntries
    <3>3. \A d : (Counts(d) => Counts(d)') /\ (Back(d, {}) => Back(d, {})')
                /\ (Back(d, job.todo) => Back(d, job.todo)')
      BY <3>1, <3>2 DEF Counts, Back
    <3> QED BY <3>1, <3>3 DEF AddInv, RollbackInv
  <2>8. ASSUME NEW keep \in 0 .. MaxKeep, NEW id \in SnapshotId, ApplyRetention(keep, id)
        PROVE  HealInv'
    BY <2>8, RestHeals, VisitFields DEF ApplyRetention, Loop, AddInv, RollbackInv
  <2>9. CASE DeleteEntries \/ DeleteDay \/ DeleteSummary \/ DeletePin
    <3>1. job.op = "apply" /\ Proceed
      BY <2>0, <2>9, OnlyProceeds
    <3>2. job'.op = "apply" \/ job' = NoJob
      BY <2>0, <3>1, ProceedCases, VisitFields DEF Job
    <3> QED BY <3>2, RestHeals DEF AddInv, RollbackInv
  <2>10. ASSUME NEW id \in SnapshotId, RollbackRetention(id) PROVE HealInv'
    <3>1. CASE job' = NoJob
      BY <3>1, RestHeals
    <3>2. ASSUME NEW d \in Restored(id), Visit("rollback", Restored(id), {}, id, d)
          PROVE  HealInv'
      <4>1. /\ job'.op = "rollback" /\ job'.step = 1 /\ job'.from = id
            /\ job'.left \cup {job'.at} = Restored(id)
            /\ job'.todo = snapshots[id].days[job'.at].entries
        BY <3>2, VisitFields
      <4>2. snapshots' = snapshots
        BY <2>10 DEF RollbackRetention
      <4>3. \A x \in Day \ Restored(id) : snapshots[id].days[x] = None
        BY DEF Restored
      <4> QED BY <4>1, <4>2, <4>3 DEF AddInv, RollbackInv
    <3> QED BY <2>10, <3>1, <3>2 DEF RollbackRetention, Loop
  <2>11. CASE RestoreDay
    <3>1. job.op = "rollback" /\ job.step = 1 /\ job.at \in Day /\ Proceed
          /\ UNCHANGED <<rows, snapshots>>
      BY <2>0, <2>11, Steps DEF RestoreDay
    <3>2. /\ days'[job.at] = snapshots[job.from].days[job.at].metrics
          /\ \A d \in Day \ {job.at} : days'[d] = days[d]
      BY <2>0, <2>11, <3>1 DEF RestoreDay, TypeOK
    <3>3. job.todo = snapshots[job.from].days[job.at].entries
      BY <3>1 DEF RollbackInv
    <3> QED BY <2>0, <3>1, <3>2, <3>3, RollbackProceeds
  <2>12. CASE RestoreSummary \/ RestorePin
    <3>1. job.op = "rollback" /\ job.step >= 3 /\ Proceed /\ UNCHANGED <<rows, days, snapshots>>
      BY <2>0, <2>12, Steps DEF RestoreSummary, RestorePin
    <3>2. Back(job.at, job.todo) /\ job.todo = {}
      BY <2>0, <3>1 DEF RollbackInv
    <3> QED BY <2>0, <3>1, <3>2, RollbackProceeds DEF Back
  <2>13. CASE StatementFails \/ ProcessDies
    BY <2>13, RestHeals DEF StatementFails, ProcessDies
  <2>14. CASE UNCHANGED vars
    <3>1. UNCHANGED <<rows, days, snapshots, job>>
      BY <2>14 DEF vars
    <3>2. \A d : EntriesOf(d)' = EntriesOf(d)
      BY <3>1, SameEntries
    <3>3. \A d : (Counts(d) => Counts(d)') /\ (Back(d, {}) => Back(d, {})')
                /\ (Back(d, job.todo) => Back(d, job.todo)')
      BY <3>1, <3>2 DEF Counts, Back
    <3> QED BY <3>1, <3>3 DEF AddInv, RollbackInv
  <2> QED BY <2>1, <2>2, <2>3, <2>4, <2>5, <2>6, <2>7, <2>8, <2>9, <2>10, <2>11, <2>12, <2>13,
             <2>14 DEF Next, Recording, Retaining
<1> QED BY <1>1, <1>2, StoreInvHolds, PTL DEF Spec

\* When addEntry comes to the summary, the metrics count what the page shows and the new
\* entries are on it, however the day was left before.
COROLLARY AddHealsHolds == ASSUME KeysDiffer PROVE Spec => []AddHeals
<1>1. StoreInv /\ HealInv => AddHeals
  <2> SUFFICES ASSUME StoreInv, HealInv, At("add", "summaries")
               PROVE  /\ days[job.at] = Metrics(Page(job.at))
                      /\ {e \in job.batch : DayOf[e] = job.at} \subseteq Page(job.at)
    BY DEF AddHeals
  <2>1. job.op = "add" /\ job.step = 3
    BY Steps DEF StoreInv, TypeInv
  <2>2. Counts(job.at) /\ job.todo = {}
    BY <2>1 DEF HealInv, AddInv
  <2>3. Page(job.at) = EntriesOf(job.at)
    BY <2>1 DEF Page, StoreInv, StageInv
  <2> QED BY <2>2, <2>3 DEF Counts
<1> QED BY <1>1, StoreInvHolds, HealInvHolds, PTL

\* A rollback that gets to its last statement has brought back every day of the snapshot
\* it restores, entries and metrics.
COROLLARY RollbackRestoresHolds == ASSUME KeysDiffer PROVE Spec => []RollbackRestores
<1>1. StoreInv /\ HealInv => RollbackRestores
  <2> SUFFICES ASSUME StoreInv, HealInv, At("rollback", "pins"), job.left = {},
                      NEW d \in Day, snapshots[job.from].days[d] # None
               PROVE  /\ days[d] = snapshots[job.from].days[d].metrics
                      /\ snapshots[job.from].days[d].entries \subseteq Page(d)
    BY DEF RollbackRestores
  <2>1. job.op = "rollback" /\ job.step = 4 /\ job.from \in SnapshotId
    BY Steps DEF StoreInv, TypeInv, JobInv
  <2>2. Back(d, {})
    <3>1. CASE d = job.at
      <4>1. Back(job.at, job.todo) /\ job.todo = {}
        BY <2>1 DEF HealInv, RollbackInv
      <4> QED BY <3>1, <4>1
    <3>2. CASE d # job.at
      BY <2>1, <3>2 DEF HealInv, RollbackInv
    <3> QED BY <3>1, <3>2
  <2>3. days[d] # None
    <3>1. snapshots[job.from] \in Snapshot
      <4>1. snapshots[job.from] # None
        BY <2>1 DEF StoreInv, TypeInv, JobInv
      <4> QED BY <2>1, <4>1 DEF StoreInv, TypeInv, TypeOK
    <3>2. snapshots[job.from].days[d] \in DayRecord
      BY <3>1 DEF Snapshot
    <3>3. snapshots[job.from].days[d].metrics \in Nat
      BY <3>2 DEF DayRecord
    <3> QED BY <2>2, <3>3 DEF Back
  <2> QED BY <2>2, <2>3 DEF Back, Page
<1> QED BY <1>1, StoreInvHolds, HealInvHolds, PTL

-----------------------------------------------------------------------------
(* A retention deletes old days only.                                      *)

\* The listed days newer than d that the snapshot does not remove.
Kept(id, d) == {x \in Listed \ snapshots[id].removed : x > d}

\* What a retention has yet to delete it removes, and the days that were to be kept are
\* all newer and still listed.
KeepInv ==
    job.op = "apply" => \A d \in job.left \cup {job.at} :
        /\ d \in snapshots[job.from].removed
        /\ Cardinality(Kept(job.from, d)) >= snapshots[job.from].keep

\* The listed days are numbers, and finitely many.
LEMMA ListedFinite == Listed \subseteq Day /\ IsFiniteSet(Listed)
  <1>1. Listed \subseteq Day
    BY DEF Listed
  <1> QED BY <1>1, FS_Subset

\* A retention goes on with what it has yet to delete.
LEMMA KeepProceeds ==
    ASSUME TypeInv, KeepInv, job.op # "none", Proceed, snapshots' = snapshots,
           job.op = "apply" =>
               Listed' \ snapshots[job.from].removed = Listed \ snapshots[job.from].removed
    PROVE  KeepInv'
  <1>0. job \in Job /\ TypeOK /\ JobInv
    BY DEF TypeInv, TypeOK
  <1>1. job.op = "apply" => \A d : Kept(job.from, d)' = {x \in Listed' \ snapshots'[job'.from].removed : x > d}
    BY DEF Kept
  <1>2. ASSUME job'.op = job.op, job'.from = job.from,
               job'.left \cup {job'.at} \subseteq job.left \cup {job.at}
        PROVE  KeepInv'
    <2> SUFFICES ASSUME job'.op = "apply", NEW d \in job'.left \cup {job'.at}
                 PROVE  /\ d \in snapshots'[job'.from].removed
                        /\ Cardinality(Kept(job.from, d)') >= snapshots'[job'.from].keep
      BY DEF KeepInv
    <2>1. Kept(job.from, d)' = Kept(job.from, d)
      BY <1>2 DEF Kept
    <2> QED BY <1>2, <2>1 DEF KeepInv
  <1>3. CASE job' = [job EXCEPT !.step = job.step + 1]
    <2>1. job'.op = job.op /\ job'.at = job.at /\ job'.left = job.left /\ job'.from = job.from
      BY <1>0, <1>3 DEF Job
    <2> QED BY <1>2, <2>1
  <1>4. CASE job' = NoJob
    BY <1>4 DEF KeepInv, NoJob
  <1>5. ASSUME NEW d \in job.left, Visit(job.op, job.left, job.batch, job.from, d)
        PROVE  KeepInv'
    <2>1. job'.op = job.op /\ job'.at = d /\ job'.left = job.left \ {d} /\ job'.from = job.from
      BY <1>5, VisitFields
    <2> QED BY <1>2, <2>1
  <1> QED BY <1>0, <1>3, <1>4, <1>5, ProceedCases

\* The days a retention keeps are newer than all it removes: they are newer than the newest
\* of those, which it visits first, and the days newer than that one are kept.
LEMMA KeepBegins ==
    ASSUME TypeInv, NEW keep \in 0 .. MaxKeep, NEW id \in SnapshotId, ApplyRetention(keep, id)
    PROVE  KeepInv'
  <1>1. /\ snapshots'[id] = SnapshotOf(keep) /\ days' = days
        /\ Loop("apply", Removed(keep), {}, id)
    BY DEF ApplyRetention, TypeInv, TypeOK
  <1>2. snapshots'[id].removed = Removed(keep) /\ snapshots'[id].keep = keep
    BY <1>1 DEF SnapshotOf
  <1>3. Listed' = Listed /\ Removed(keep) \subseteq Listed
    BY <1>1 DEF Listed, Removed
  <1>4. CASE job' = NoJob
    BY <1>4 DEF KeepInv, NoJob
  <1>5. ASSUME NEW d \in Removed(keep), Visit("apply", Removed(keep), {}, id, d)
        PROVE  KeepInv'
    <2>1. /\ job'.op = "apply" /\ job'.at = d /\ job'.left = Removed(keep) \ {d}
          /\ job'.from = id
      BY <1>5, VisitFields
    <2>2. \A x \in Removed(keep) : x <= d
      BY <1>5 DEF Visit
    <2>3. {x \in Listed : x > d} \subseteq Listed \ Removed(keep)
      <3>1. \A x \in Listed : x \in Nat
        BY ListedFinite
      <3>2. ASSUME NEW x \in Listed, x > d PROVE x \notin Removed(keep)
        <4>1. x \in Nat /\ d \in Nat
          BY <1>3, <3>1
        <4>2. ~(x <= d)
          BY ONLY <3>2, <4>1
        <4> QED BY <2>2, <4>2
      <3> QED BY <3>2
    <2>4. Cardinality({x \in Listed : x > d}) >= keep
      BY DEF Removed
    <2>5. ASSUME NEW e \in Removed(keep)
          PROVE  /\ e \in snapshots'[id].removed
                 /\ Cardinality(Kept(id, e)') >= keep
      <3>1. Kept(id, e)' = {x \in Listed \ Removed(keep) : x > e}
        BY <1>2, <1>3 DEF Kept
      <3>2. e <= d /\ e \in Nat /\ d \in Nat /\ \A x \in Listed : x \in Nat
        BY <1>3, <2>2, ListedFinite
      <3>3. {x \in Listed : x > d} \subseteq Kept(id, e)'
        BY <2>3, <3>1, <3>2
      <3>4. IsFiniteSet(Kept(id, e)')
        BY <3>1, ListedFinite, FS_Subset
      <3>5. /\ Cardinality({x \in Listed : x > d}) <= Cardinality(Kept(id, e)')
            /\ Cardinality({x \in Listed : x > d}) \in Nat /\ Cardinality(Kept(id, e)') \in Nat
        BY <3>3, <3>4, FS_Subset, FS_CardinalityType
      <3> QED BY <1>2, <2>4, <3>5
    <2> QED BY <1>2, <2>1, <2>5 DEF KeepInv
  <1> QED BY <1>1, <1>4, <1>5 DEF Loop

\* Every step keeps the days that a retention is to keep.
LEMMA KeepNext == TypeInv /\ KeepInv /\ [Next]_vars => KeepInv'
  <1> SUFFICES ASSUME TypeInv, KeepInv, [Next]_vars PROVE KeepInv'
    OBVIOUS
  <1>0. job \in Job /\ TypeOK /\ JobInv
    BY DEF TypeInv, TypeOK
  <1>1. ASSUME job'.op # "apply" PROVE KeepInv'
    BY <1>1 DEF KeepInv
  <1>2. ASSUME NEW op, NEW S, NEW batch, NEW id, Loop(op, S, batch, id), op # "apply"
        PROVE  KeepInv'
    <2>1. job' = NoJob \/ job'.op = op
      BY <1>2, VisitFields DEF Loop
    <2> QED BY <1>1, <1>2, <2>1 DEF NoJob
  <1>3. ASSUME UNCHANGED <<days, snapshots>>,
               job'.op = job.op /\ job'.at = job.at /\ job'.left = job.left /\ job'.from = job.from
        PROVE  KeepInv'
    BY <1>3 DEF KeepInv, Kept, Listed
  <1>4. CASE \E batch \in SUBSET Event : Record(batch)
    BY <1>2, <1>4 DEF Record
  <1>5. CASE \E id \in SnapshotId : RollbackRetention(id)
    BY <1>2, <1>5 DEF RollbackRetention
  <1>6. CASE \E id \in SnapshotId, keep \in 0 .. MaxKeep : ApplyRetention(keep, id)
    BY <1>6, KeepBegins
  <1>7. CASE MergeDay \/ BootDay \/ EntriesWritten \/ Summarise
             \/ RestoreDay \/ RestoreSummary \/ RestorePin
    <2>1. job.op \notin {"none", "apply"} /\ Proceed /\ snapshots' = snapshots
      BY <1>7, OnlyProceeds
    <2> QED BY <2>1, KeepProceeds
  <1>8. CASE DeleteEntries \/ DeleteSummary \/ DeletePin
    <2>1. job.op # "none" /\ Proceed /\ snapshots' = snapshots
      BY <1>8, OnlyProceeds
    <2>2. Listed' = Listed
      BY <1>8 DEF Listed, DeleteEntries, DeleteSummary, DeletePin
    <2> QED BY <2>1, <2>2, KeepProceeds
  <1>9. CASE DeleteDay
    <2>1. job.op = "apply" /\ Proceed /\ snapshots' = snapshots
      BY <1>9, OnlyProceeds
    <2>2. job.at \in snapshots[job.from].removed
      BY <2>1 DEF KeepInv
    <2>3. \A d \in Day \ {job.at} : days'[d] = days[d]
      BY <1>0, <1>9 DEF DeleteDay, TypeOK
    <2>4. Listed' \ snapshots[job.from].removed = Listed \ snapshots[job.from].removed
      BY <2>2, <2>3 DEF Listed
    <2> QED BY <2>1, <2>4, KeepProceeds
  <1>10. CASE \E e \in Event : WriteEntry(e)
    <2>1. PICK e \in Event : WriteEntry(e)
      BY <1>10
    <2>2. job' = [job EXCEPT !.todo = job.todo \ {e}] /\ UNCHANGED <<days, snapshots>>
      BY <2>1 DEF WriteEntry
    <2>3. job'.op = job.op /\ job'.at = job.at /\ job'.left = job.left /\ job'.from = job.from
      BY <1>0, <2>2 DEF Job
    <2> QED BY <1>3, <2>2, <2>3
  <1>11. CASE Editing
    BY <1>3, <1>11 DEF Editing, GenerateSummary, SetPinnedDayContext
  <1>12. CASE StatementFails \/ ProcessDies
    <2>1. job'.op \in {"none", "boot"}
      BY <1>12 DEF StatementFails, ProcessDies, NoJob, BootJob
    <2> QED BY <1>1, <2>1
  <1>13. CASE UNCHANGED vars
    BY <1>3, <1>13 DEF vars
  <1>14. (\E e \in Event \ Sample : Record({e})) \/ (\E batch \in SUBSET Backfill : Record(batch))
         => \E batch \in SUBSET Event : Record(batch)
    OBVIOUS
  <1> QED BY <1>4, <1>5, <1>6, <1>7, <1>8, <1>9, <1>10, <1>11, <1>12, <1>13, <1>14
          DEF Next, Recording, Retaining

\* What a step may take off a day.
DeletesOld ==
    \A d \in Day : ~(EntriesOf(d) \subseteq EntriesOf(d)') =>
        /\ EntriesOf(d) \subseteq snapshots[job.from].days[d].entries
        /\ Cardinality({x \in Listed : x > d}) >= snapshots[job.from].keep

\* Entries go by one statement only, and it is at a day that is being removed.
LEMMA OnlyRetentionDeletes ==
    ASSUME KeysDiffer, StoreInv, KeepInv, Next
    PROVE  DeletesOld
  <1> SUFFICES ASSUME NEW d \in Day, ~(EntriesOf(d) \subseteq EntriesOf(d)')
               PROVE  /\ EntriesOf(d) \subseteq snapshots[job.from].days[d].entries
                      /\ Cardinality({x \in Listed : x > d}) >= snapshots[job.from].keep
    BY DEF DeletesOld
  <1>1. rows' # rows
    BY SameEntries
  <1>2. ~ \E e \in Event : WriteEntry(e)
    BY WrittenEntries DEF StoreInv
  <1>3. DeleteEntries
    BY <1>1, <1>2 DEF Next, Recording, Editing, Retaining, Record, MergeDay, BootDay,
        EntriesWritten, Summarise, GenerateSummary, SetPinnedDayContext, RollbackRetention,
        ApplyRetention, DeleteDay, DeleteSummary, DeletePin, RestoreDay, RestoreSummary,
        RestorePin, StatementFails, ProcessDies
  <1>4. job.op = "apply"
    BY <1>3, OnlyProceeds DEF StoreInv
  <1>5. d = job.at
    <2> SUFFICES ASSUME d # job.at, NEW e \in EntriesOf(d) PROVE e \in EntriesOf(d)'
      OBVIOUS
    <2>1. PICK i \in Id : rows[i] # None /\ rows[i].day = d /\ rows[i].entry = e
      BY EntriesMember
    <2>2. rows'[i] = rows[i]
      BY <1>3, <2>1 DEF DeleteEntries
    <2> QED BY <2>1, <2>2 DEF EntriesOf
  <1>6. /\ EntriesOf(d) \subseteq snapshots[job.from].days[d].entries
        /\ Cardinality(Kept(job.from, d)) >= snapshots[job.from].keep
    BY <1>4, <1>5 DEF StoreInv, ApplyInv, KeepInv
  <1>7. Kept(job.from, d) \subseteq {x \in Listed : x > d} /\ IsFiniteSet({x \in Listed : x > d})
    BY ListedFinite, FS_Subset DEF Kept
  <1>8. /\ Cardinality(Kept(job.from, d)) <= Cardinality({x \in Listed : x > d})
        /\ Cardinality(Kept(job.from, d)) \in Nat /\ Cardinality({x \in Listed : x > d}) \in Nat
    BY <1>7, FS_Subset, FS_CardinalityType
  <1>9. snapshots[job.from].keep \in Nat
    BY <1>4 DEF StoreInv, TypeInv, TypeOK, JobInv, Snapshot
  <1> QED BY <1>6, <1>8, <1>9

\* A retention deletes a day's entries only if its snapshot holds them all, and only of a
\* day that has keepDays newer ones, wherever an earlier one was cut short (applyRetention).
THEOREM DeletesOnlyOldDaysHolds == ASSUME KeysDiffer PROVE Spec => DeletesOnlyOldDays
  <1>1. Init => KeepInv
    BY DEF Init, KeepInv, BootJob
  <1>2. StoreInv => TypeInv
    BY DEF StoreInv
  <1>3. Spec => [](StoreInv /\ KeepInv)
    BY <1>1, <1>2, KeepNext, StoreInvHolds, PTL DEF Spec
  <1>4. StoreInv /\ KeepInv /\ [Next]_vars => [DeletesOld]_vars
    BY OnlyRetentionDeletes
  <1> QED BY <1>3, <1>4, PTL DEF Spec, DeletesOnlyOldDays, DeletesOld
=============================================================================
