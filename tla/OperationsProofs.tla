-------------------------- MODULE OperationsProofs --------------------------
(***************************************************************************)
(* Theorems about Operations, and so about Reports and SummaryJobs, for    *)
(* any days, commands, entries, jobs, receipts and faults.                 *)
(***************************************************************************)
EXTENDS Operations, SequenceTheorems, FiniteSetTheorems, TLAPS

-----------------------------------------------------------------------------
(* The inductive invariant.                                                *)

\* A job was queued before now.
JobInv == \A j \in DOMAIN jobs : jobs[j].at <= now

\* An import is not later than now, and an entry in the table is counted by every summary of
\* its day that was made after its import, unless a rollback came after the summary.
ImportInv ==
    \A i \in DOMAIN rows : rows[i].imported # None =>
        /\ rows[i].imported <= now
        /\ i \in present /\ rows[i].day \notin rolledBack =>
              LET s == summary[rows[i].day]
              IN  s # None /\ s.at > rows[i].imported => i \in s.counted

\* Nothing was summarised later than now.
SummaryInv == \A d \in Day : summary[d] # None => summary[d].at <= now

\* A snapshot kept entries that were recorded, of the kind they still are, and times that
\* have passed.
SnapshotInv ==
    \A s \in snapshots :
        /\ \A i \in DOMAIN s.imported :
              /\ i \in DOMAIN rows
              /\ s.imported[i] = None <=> rows[i].imported = None
              /\ s.imported[i] # None => s.imported[i] <= now
        /\ \A d \in Day : s.summary[d] # None => s.summary[d].at <= now

\* An entry in the table has a day that is listed, and the first entry is the sample.
EntriesInv ==
    /\ \A i \in present : rows[i].day \in listed
    /\ 1 \in DOMAIN rows /\ rows[1].day = SampleDay /\ rows[1].imported = None

\* The status of a self-check is what its checks amount to.
NativeInv == native # None => native.status = overall_status(native.checks)

IInv ==
    /\ OpsTypeOK /\ OneActiveJobPerDay /\ CompletedJobHasSummary
    /\ JobInv /\ ImportInv /\ SummaryInv /\ SnapshotInv /\ EntriesInv /\ NativeInv

\* What no step does to the entries that were recorded: forget one, or change its day, its
\* time or its kind.
RowsGrow ==
    /\ DOMAIN rows \subseteq DOMAIN rows'
    /\ \A i \in DOMAIN rows :
          /\ rows'[i].day = rows[i].day /\ rows'[i].at = rows[i].at
          /\ rows'[i].live = rows[i].live
          /\ rows'[i].imported = None <=> rows[i].imported = None

\* A step takes all the entries of a day from the table, or none.
DaysWhole ==
    \A d \in Day : EntriesOf(d) \subseteq present' \/ EntriesOf(d) \cap present' = {}

-----------------------------------------------------------------------------
(* Lemmas about times.                                                     *)

\* A set of numbers that is bounded has a greatest one: of the sets of those greater than
\* one of them, a smallest is empty.
LEMMA MaxIsGreatest ==
    ASSUME NEW n \in Nat, NEW S \in SUBSET (0 .. n), S # {}
    PROVE  Max(S) \in S /\ \A x \in S : x <= Max(S)
  <1> DEFINE Above(x) == {y \in S : y > x}
             T == {Above(x) : x \in S}
  <1>1. IsFiniteSet(S)
    <2>1. IsFiniteSet(0 .. n)
      BY FS_Interval
    <2> QED BY <2>1, FS_Subset
  <1>2. T \subseteq FiniteSubsetsOf(S) /\ T # {}
    <2>1. \A x \in S : Above(x) \in SUBSET S
      OBVIOUS
    <2>2. \A X \in T : X \in SUBSET S
      BY <2>1
    <2>3. T # {}
      OBVIOUS
    <2>4. FiniteSubsetsOf(S) = SUBSET S
      BY <1>1, FS_FiniteSubsetsOfFinite
    <2> QED BY <2>2, <2>3, <2>4
  <1>3. PICK X \in T : \A Y \in T : <<Y, X>> \notin StrictSubsetOrdering(S)
    BY <1>2, FS_StrictSubsetOrderingWellFounded, WFMin
  <1>4. PICK x \in S : X = Above(x)
    BY <1>3
  <1>5. ASSUME NEW y \in S, y > x
        PROVE  FALSE
    <2>1. x \in Nat /\ y \in Nat /\ \A z \in S : z \in Nat
      OBVIOUS
    <2>2. Above(y) \in T /\ y \in X /\ y \notin Above(y)
      BY <1>4, <1>5, <2>1
    <2>3. Above(y) \subseteq X /\ X \in SUBSET S
      <3>1. \A z \in S : z > y => z > x
        BY <1>5, <2>1
      <3>2. Above(y) \subseteq Above(x) /\ Above(x) \in SUBSET S
        BY <3>1
      <3> QED BY <1>4, <3>2
    <2>4. <<Above(y), X>> \in StrictSubsetOrdering(S)
      BY <2>2, <2>3 DEF StrictSubsetOrdering
    <2> HIDE DEF Above, T
    <2> QED BY <1>3, <2>2, <2>4
  <1>6. \A y \in S : x >= y
    BY <1>5
  <1>7. \E z \in S : \A y \in S : z >= y
    BY <1>6
  <1>8. Max(S) \in S /\ \A y \in S : Max(S) >= y
    BY ONLY <1>7, Zenon DEF Max
  <1> QED BY <1>8

\* The fields of an entry.
LEMMA RowType ==
    ASSUME NEW s \in Seq(Row), NEW i \in DOMAIN s
    PROVE  /\ i \in 1 .. Len(s) /\ s[i] \in Row
           /\ s[i].day \in Day /\ s[i].at \in Time
           /\ s[i].imported \in Import
  <1>1. i \in 1 .. Len(s) /\ s[i] \in Row
    BY ElementOfSeq, LenProperties
  <1> QED BY <1>1 DEF Row

\* The latest time of some entries is that of one of them, or before every time.
LEMMA LatestIsLatest ==
    rows \in Seq(Row) =>
        \A S \in SUBSET DOMAIN rows :
            /\ LatestAt(S) \in 0 .. MaxTime
            /\ \A i \in S : rows[i].at <= LatestAt(S)
            /\ LatestAt(S) = 0 \/ \E i \in S : rows[i].at = LatestAt(S)
  <1> SUFFICES ASSUME rows \in Seq(Row), NEW S \in SUBSET DOMAIN rows
               PROVE  /\ LatestAt(S) \in 0 .. MaxTime
                      /\ \A i \in S : rows[i].at <= LatestAt(S)
                      /\ LatestAt(S) = 0 \/ \E i \in S : rows[i].at = LatestAt(S)
    OBVIOUS
  <1> DEFINE times == {0} \cup {rows[i].at : i \in S}
  <1>1. MaxTime \in Nat /\ times \in SUBSET (0 .. MaxTime) /\ times # {}
    BY SummaryBounds, RowType DEF Time
  <1>2. LatestAt(S) = Max(times) /\ \A i \in S : rows[i].at \in times
    BY DEF times, LatestAt
  <1>3. \A x \in times : x = 0 \/ \E i \in S : rows[i].at = x
    BY DEF times
  <1> HIDE DEF times
  <1>4. Max(times) \in times /\ \A x \in times : x <= Max(times)
    BY <1>1, MaxIsGreatest
  <1> QED BY <1>1, <1>2, <1>3, <1>4

\* The report's verdict is the closeout's: the latest entry that the summary includes is
\* the latest of all exactly if none is later than the summary.
LEMMA FreshIsFresh ==
    ASSUME SummaryTypeOK, NEW d \in Day
    PROVE  generatedSummaryFresh(d) <=> closeoutSummaryFresh(d)
  <1> SUFFICES ASSUME Summarised(d)
               PROVE  generatedSummaryFresh(d) <=> closeoutSummaryFresh(d)
    BY DEF generatedSummaryFresh, closeoutSummaryFresh
  <1> DEFINE E == EntriesOf(d)
             made == summary[d].at
             I == {i \in E : rows[i].at <= made}
             included == IF LatestAt(I) = 0 THEN made ELSE LatestAt(I)
  <1>1. /\ E \in SUBSET DOMAIN rows /\ I \in SUBSET DOMAIN rows /\ rows \in Seq(Row)
        /\ made \in Nat
    BY DEF EntriesOf, Summarised, SummaryTypeOK, Summary, Time
  <1>2. /\ LatestAt(E) \in Nat /\ \A i \in E : rows[i].at <= LatestAt(E)
        /\ \A i \in E : rows[i].at \in Nat
    BY <1>1, SummaryBounds, LatestIsLatest, RowType DEF Time
  <1>3. generatedSummaryFresh(d) <=> included >= LatestAt(E) /\ ~(LatestAt(E) > made)
    BY DEF generatedSummaryFresh, GeneratedSummary
  <1>4. closeoutSummaryFresh(d) <=> LatestAt(E) <= made
    BY DEF closeoutSummaryFresh
  <1>5. LatestAt(E) <= made => I = E
    BY <1>1, <1>2
  <1>6. ASSUME LatestAt(E) <= made
        PROVE  included >= LatestAt(E)
    <2>1. LatestAt(I) = LatestAt(E)
      BY <1>5, <1>6
    <2> QED BY <1>1, <1>2, <1>6, <2>1
  <1> QED BY <1>1, <1>2, <1>3, <1>4, <1>6

\* All the verdicts on the freshness of a day agree.
LEMMA VerdictsAgree == SummaryTypeOK => OneVerdict
  <1> SUFFICES ASSUME SummaryTypeOK, NEW d \in Day
               PROVE  /\ generatedSummaryFresh(d) <=> closeoutSummaryFresh(d)
                      /\ d \in listed =>
                            (generatedSummaryFresh(d) <=> d \notin listStaleSummaryDayKeys)
                      /\ Summarised(d) => (generatedSummaryFresh(d) <=> ~alertedSummary(d))
    BY DEF OneVerdict
  <1>1. generatedSummaryFresh(d) <=> closeoutSummaryFresh(d)
    BY FreshIsFresh
  <1>2. LatestAt(EntriesOf(d)) \in Nat
    BY SummaryBounds, LatestIsLatest DEF SummaryTypeOK, EntriesOf
  <1>3. summary[d] # None => summary[d].at \in Nat
    BY DEF SummaryTypeOK, Summary, Time
  <1> QED BY <1>1, <1>2, <1>3
          DEF closeoutSummaryFresh, listStaleSummaryDayKeys, alertedSummary, Summarised

-----------------------------------------------------------------------------
(* Lemmas about the steps of the tables.                                   *)

\* What is known of the tables in every state.
LEMMA TableTypes ==
    ASSUME SummaryTypeOK
    PROVE  /\ now \in Nat /\ now \in Time /\ rows \in Seq(Row) /\ Len(rows) \in Nat
           /\ DOMAIN rows = 1 .. Len(rows) /\ DOMAIN rows \subseteq 1 .. MaxRows
           /\ \A d \in Day : summary[d] # None =>
                 summary[d] \in Summary /\ summary[d].at \in Nat
           /\ \A j \in DOMAIN jobs : jobs[j] \in Job /\ jobs[j].day \in Day /\ jobs[j].at \in Nat
           /\ \A i \in DOMAIN rows : rows[i].imported # None => rows[i].imported \in Nat
  <1>1. now \in Nat /\ now \in Time /\ rows \in Seq(Row) /\ Len(rows) \in Nat
        /\ DOMAIN rows = 1 .. Len(rows) /\ DOMAIN rows \subseteq 1 .. MaxRows
    BY LenProperties, SummaryBounds DEF SummaryTypeOK, Time
  <1>2. \A d \in Day : summary[d] # None =>
            summary[d] \in Summary /\ summary[d].at \in Nat
    BY DEF SummaryTypeOK, Summary, Time
  <1>3. \A j \in DOMAIN jobs : jobs[j] \in Job
    BY ElementOfSeq, LenProperties DEF SummaryTypeOK
  <1>4. \A j \in DOMAIN jobs : jobs[j].day \in Day /\ jobs[j].at \in Nat
    BY <1>3 DEF Job, Time
  <1>5. \A i \in DOMAIN rows : rows[i].imported # None => rows[i].imported \in Nat
    BY <1>1, RowType DEF Import, Time
  <1> QED BY <1>1, <1>2, <1>3, <1>4, <1>5

\* The fields of a snapshot.
LEMMA SnapshotTypes ==
    ASSUME SummaryTypeOK, NEW s \in snapshots
    PROVE  /\ s.days \subseteq Day /\ s.removed \subseteq Day
           /\ s.summary \in [Day -> Summary \cup {None}]
           /\ \A i \in DOMAIN s.imported : s.imported[i] \in Import
  <1>1. s \in Snapshot
    BY DEF SummaryTypeOK
  <1>2. PICK kept \in SUBSET (1 .. MaxRows) : s.imported \in [kept -> Import]
    BY <1>1 DEF Snapshot
  <1> QED BY <1>1, <1>2 DEF Snapshot

\* Each summary of a day is left as it is, or made now.
Written == \A d \in Day : \/ summary'[d] = summary[d]
                          \/ summary'[d] # None /\ summary'[d].at = now

\* To summarise no day is to leave the summaries as they are.
LEMMA SummariseNone ==
    ASSUME SummaryTypeOK, UNCHANGED <<summary, rolledBack>>
    PROVE  Summarise({})
  BY DEF SummaryTypeOK, Summarise

\* A step that summarises days as it leaves them keeps the invariant of the tables, if what
\* it brings into the table was imported now, or not at all.
LEMMA SummariseKeeps ==
    ASSUME SummaryTypeOK, ImportInv, SummaryInv,
           now' = now, rows' \in Seq(Row), Len(rows') <= MaxRows, present' \subseteq DOMAIN rows',
           NEW days, Summarise(days),
           \A i \in DOMAIN rows' : rows'[i].imported # None =>
               \/ rows'[i].imported = now
               \/ i \in DOMAIN rows /\ rows[i] = rows'[i],
           \A i \in present' : i \in present \/ rows'[i].imported \in {None, now}
    PROVE  /\ summary' \in [Day -> Summary \cup {None}] /\ rolledBack' \subseteq Day
           /\ ImportInv' /\ SummaryInv' /\ Written
           /\ \A d \in days \cap Day : summary'[d] # None /\ summary'[d].at = now
  <1> DEFINE made(d) == [at |-> now, counted |-> {i \in present' : rows'[i].day = d}]
  <1>1. /\ \A d \in Day : summary'[d] = IF d \in days THEN made(d) ELSE summary[d]
        /\ DOMAIN summary' = Day /\ rolledBack' = rolledBack \ days
    BY DEF Summarise, EntriesOf
  <1>2. \A d \in Day : /\ made(d) \in Summary /\ made(d) # None /\ made(d).at = now
                       /\ made(d).counted = {i \in present' : rows'[i].day = d}
    <2>1. DOMAIN rows' \subseteq 1 .. MaxRows
      BY SummaryBounds, LenProperties
    <2>2. \A d \in Day : made(d) \in Summary
      BY <2>1 DEF SummaryTypeOK, Summary
    <2>3. \A d \in Day : made(d) # None
      BY <2>2, NoSummaryAssumption
    <2> QED BY <2>2, <2>3
  <1> HIDE DEF made
  <1>3. summary' \in [Day -> Summary \cup {None}] /\ rolledBack' \subseteq Day
    <2>1. summary' = [d \in Day |-> IF d \in days THEN made(d) ELSE summary[d]]
      BY DEF Summarise, EntriesOf, made
    <2>2. summary' \in [Day -> Summary \cup {None}]
      BY <1>2, <2>1 DEF SummaryTypeOK
    <2> QED BY <1>1, <2>2 DEF SummaryTypeOK
  <1>4. now \in Nat /\ \A d \in Day : summary[d] # None => summary[d].at \in Nat
    BY TableTypes
  <1>5. Written /\ \A d \in days \cap Day : summary'[d] # None /\ summary'[d].at = now
    BY <1>1, <1>2 DEF Written
  <1>6. SummaryInv'
    BY <1>4, <1>5 DEF SummaryInv, Written
  <1>7. ASSUME NEW i \in DOMAIN rows', rows'[i].imported # None
        PROVE  /\ rows'[i].imported <= now
               /\ i \in present' /\ rows'[i].day \notin rolledBack' =>
                     (summary'[rows'[i].day] # None
                      /\ summary'[rows'[i].day].at > rows'[i].imported
                         => i \in summary'[rows'[i].day].counted)
    <2>1. rows'[i].day \in Day
      BY RowType
    <2>2. rows'[i].imported <= now
      BY <1>4, <1>7 DEF ImportInv
    <2>3. CASE rows'[i].day \in days
      BY <1>1, <1>2, <2>1, <2>2, <2>3
    <2>4. CASE rows'[i].day \notin days /\ rows'[i].imported = now
      BY <1>4, <1>1, <2>1, <2>4 DEF SummaryInv
    <2>5. CASE /\ rows'[i].day \notin days /\ rows'[i].imported # now
               /\ i \in DOMAIN rows /\ rows[i] = rows'[i]
      BY <1>1, <1>7, <2>1, <2>5 DEF ImportInv
    <2> QED BY <1>7, <2>2, <2>3, <2>4, <2>5
  <1>8. ImportInv'
    BY <1>7 DEF ImportInv
  <1> QED BY <1>3, <1>5, <1>6, <1>8

\* A snapshot stays what it was while entries are only recorded.
LEMMA SnapshotsKept ==
    ASSUME SummaryTypeOK, SnapshotInv, RowsGrow, now' \in Nat, now' >= now, snapshots' = snapshots
    PROVE  SnapshotInv'
  <1>1. now \in Nat
    BY TableTypes
  <1> SUFFICES ASSUME NEW s \in snapshots
               PROVE  /\ \A i \in DOMAIN s.imported :
                            /\ i \in DOMAIN rows'
                            /\ s.imported[i] = None <=> rows'[i].imported = None
                            /\ s.imported[i] # None => s.imported[i] <= now'
                      /\ \A d \in Day : s.summary[d] # None => s.summary[d].at <= now'
    BY DEF SnapshotInv
  <1>2. ASSUME NEW i \in DOMAIN s.imported
        PROVE  /\ i \in DOMAIN rows'
               /\ s.imported[i] = None <=> rows'[i].imported = None
               /\ s.imported[i] # None => s.imported[i] <= now'
    <2>1. /\ i \in DOMAIN rows /\ (s.imported[i] = None <=> rows[i].imported = None)
          /\ s.imported[i] # None => s.imported[i] <= now
      BY DEF SnapshotInv
    <2>2. s.imported[i] # None => s.imported[i] \in Nat
      BY SnapshotTypes DEF Import, Time
    <2> QED BY <1>1, <2>1, <2>2 DEF RowsGrow
  <1>3. ASSUME NEW d \in Day, s.summary[d] # None
        PROVE  s.summary[d].at <= now'
    <2>1. s.summary[d].at \in Nat /\ s.summary[d].at <= now
      BY <1>3, SnapshotTypes DEF SnapshotInv, Summary, Time
    <2> QED BY <1>1, <2>1
  <1> QED BY <1>2, <1>3

\* How a step may treat the summary of a day without breaking what completed jobs stand for.
Excused ==
    \A d \in Day :
        \/ summary'[d] = summary[d]
        \/ summary'[d] # None /\ summary'[d].at = now
        \/ summary'[d] = None /\ \E s \in snapshots' : d \in s.removed
        \/ summary'[d] # None /\ \E s \in snapshots' : s.summary[d] = summary'[d]

\* A completed job stays excused.
LEMMA CompletedKept ==
    ASSUME SummaryTypeOK, CompletedJobHasSummary, JobInv, Excused, snapshots \subseteq snapshots',
           NEW j \in DOMAIN jobs, jobs[j].status = "completed"
    PROVE  LET d == jobs[j].day
           IN  \/ summary'[d] # None /\ summary'[d].at >= jobs[j].at
               \/ summary'[d] = None /\ \E s \in snapshots' : d \in s.removed
               \/ summary'[d] # None /\ \E s \in snapshots' : s.summary[d] = summary'[d]
  <1> DEFINE d == jobs[j].day
  <1>1. d \in Day /\ jobs[j].at \in Nat /\ now \in Nat /\ jobs[j].at <= now
    BY TableTypes DEF JobInv
  <1>2. \/ summary[d] # None /\ summary[d].at >= jobs[j].at
        \/ summary[d] = None /\ \E s \in snapshots : d \in s.removed
        \/ summary[d] # None /\ \E s \in snapshots : s.summary[d] = summary[d]
    BY DEF CompletedJobHasSummary
  <1>3. \/ summary'[d] = summary[d]
        \/ summary'[d] # None /\ summary'[d].at = now
        \/ summary'[d] = None /\ \E s \in snapshots' : d \in s.removed
        \/ summary'[d] # None /\ \E s \in snapshots' : s.summary[d] = summary'[d]
    BY <1>1 DEF Excused
  <1> HIDE DEF d
  <1>4. \/ summary'[d] # None /\ summary'[d].at >= jobs[j].at
        \/ summary'[d] = None /\ \E s \in snapshots' : d \in s.removed
        \/ summary'[d] # None /\ \E s \in snapshots' : s.summary[d] = summary'[d]
    <2>1. CASE summary'[d] = summary[d]
      BY <1>2, <2>1
    <2>2. CASE summary'[d] # None /\ summary'[d].at = now
      BY <1>1, <2>2
    <2> QED BY <1>3, <2>1, <2>2
  <1> QED BY <1>4 DEF d

-----------------------------------------------------------------------------
(* The invariant.                                                          *)

LEMMA InitInv == OpsInit => IInv
  <1> SUFFICES ASSUME OpsInit PROVE IInv
    OBVIOUS
  <1> USE DEF OpsInit, ReportInit, SummaryInit
  <1> DEFINE sample == [day |-> SampleDay, at |-> 1, imported |-> None, live |-> FALSE]
  <1>1. sample \in Row /\ now \in Time
    BY SummaryBounds DEF Row, Import, Time
  <1>2. /\ rows \in Seq(Row) /\ Len(rows) <= MaxRows /\ DOMAIN rows = {1}
        /\ rows[1].imported = None /\ rows[1].day = SampleDay
    BY <1>1, SummaryBounds
  <1>3. jobs \in Seq(Job) /\ Len(jobs) <= MaxJobs /\ DOMAIN jobs = {}
    BY SummaryBounds
  <1>4. SummaryTypeOK
    BY <1>1, <1>2, <1>3, SummaryBounds DEF SummaryTypeOK
  <1>5. OpsTypeOK
    BY <1>4 DEF OpsTypeOK, ReportTypeOK
  <1>6. OneActiveJobPerDay /\ CompletedJobHasSummary /\ JobInv
    BY <1>3 DEF OneActiveJobPerDay, CompletedJobHasSummary, JobInv
  <1>7. ImportInv /\ SummaryInv /\ NativeInv
    BY <1>2 DEF ImportInv, SummaryInv, NativeInv
  <1>8. SnapshotInv /\ EntriesInv
    BY <1>2 DEF SnapshotInv, EntriesInv
  <1> QED BY <1>5, <1>6, <1>7, <1>8 DEF IInv

\* A step of the tables leaves the receipts and the self-check as they are.
LEMMA TablesOnly ==
    ASSUME IInv, SummaryTypeOK', UNCHANGED <<dryRun, verified, native>>
    PROVE  OpsTypeOK' /\ NativeInv'
  BY DEF IInv, OpsTypeOK, ReportTypeOK, NativeInv

\* What a step of the tables has to show that leaves the jobs as they are.
LEMMA TablesInv ==
    ASSUME IInv, UNCHANGED <<jobs, dryRun, verified, native>>, now' \in Nat, now' >= now,
           SummaryTypeOK', ImportInv', SummaryInv', SnapshotInv', EntriesInv',
           Excused, snapshots \subseteq snapshots'
    PROVE  IInv'
  <1>1. OpsTypeOK' /\ NativeInv'
    BY TablesOnly
  <1>2. SummaryTypeOK /\ CompletedJobHasSummary /\ JobInv
    BY DEF IInv, OpsTypeOK, ReportTypeOK
  <1>3. CompletedJobHasSummary'
    BY <1>2, CompletedKept DEF CompletedJobHasSummary
  <1>4. JobInv'
    BY <1>2, TableTypes DEF JobInv
  <1>5. OneActiveJobPerDay'
    BY DEF IInv, OneActiveJobPerDay
  <1> QED BY <1>1, <1>3, <1>4, <1>5 DEF IInv

\* What a step has to show that records and summarises.
LEMMA WritesInv ==
    ASSUME IInv, UNCHANGED <<now, jobs, snapshots, dryRun, verified, native>>,
           faults' \in 0 .. MaxFaults,
           rows' \in Seq(Row), Len(rows') <= MaxRows, present' \subseteq DOMAIN rows',
           listed' \subseteq Day, RowsGrow, NEW days, Summarise(days),
           \A i \in DOMAIN rows' : rows'[i].imported # None =>
               \/ rows'[i].imported = now
               \/ i \in DOMAIN rows /\ rows[i] = rows'[i],
           \A i \in present' : i \in present \/ rows'[i].imported \in {None, now},
           listed \subseteq listed',
           \A i \in present' \ present : rows'[i].day \in listed'
    PROVE  IInv'
  <1>1. SummaryTypeOK /\ ImportInv /\ SummaryInv /\ SnapshotInv /\ EntriesInv
    BY DEF IInv, OpsTypeOK, ReportTypeOK
  <1>2. now \in Nat /\ now' \in Nat /\ now' >= now
    BY <1>1, TableTypes
  <1>3. /\ summary' \in [Day -> Summary \cup {None}] /\ rolledBack' \subseteq Day
        /\ ImportInv' /\ SummaryInv' /\ Written
    BY <1>1, SummariseKeeps
  <1>4. SummaryTypeOK'
    BY <1>1, <1>3 DEF SummaryTypeOK
  <1>5. SnapshotInv'
    BY <1>1, <1>2, SnapshotsKept
  <1>6. EntriesInv'
    <2>1. \A i \in present' : rows'[i].day \in listed'
      BY <1>1 DEF EntriesInv, RowsGrow, SummaryTypeOK
    <2>2. 1 \in DOMAIN rows' /\ rows'[1].day = SampleDay /\ rows'[1].imported = None
      BY <1>1 DEF EntriesInv, RowsGrow
    <2> QED BY <2>1, <2>2 DEF EntriesInv
  <1>7. Excused
    BY <1>3 DEF Written, Excused
  <1> QED BY <1>2, <1>3, <1>4, <1>5, <1>6, <1>7, TablesInv

\* A step that leaves the entries as they are.
LEMMA SameRows ==
    ASSUME rows' = rows
    PROVE  RowsGrow
  BY DEF RowsGrow

\* A step that takes no entry from the table.
LEMMA NoneTaken ==
    ASSUME present \subseteq present'
    PROVE  DaysWhole
  BY DEF DaysWhole, EntriesOf

LEMMA TickInv ==
    ASSUME IInv, Tick, UNCHANGED <<dryRun, verified, native>>
    PROVE  IInv' /\ RowsGrow /\ DaysWhole
  <1>1. SummaryTypeOK /\ SnapshotInv
    BY DEF IInv, OpsTypeOK, ReportTypeOK
  <1>2. UNCHANGED <<rows, present, listed, snapshots, summary, jobs, rolledBack, faults>>
    BY DEF Tick, entryVars
  <1>3. SummaryTypeOK' /\ now \in Nat /\ now' = now + 1
    BY <1>1, <1>2, SummaryBounds DEF SummaryTypeOK, Tick, Time
  <1>4. RowsGrow /\ DaysWhole
    BY <1>2, SameRows, NoneTaken
  <1>5. ImportInv' /\ SummaryInv' /\ EntriesInv'
    BY <1>1, <1>2, <1>3, TableTypes DEF IInv, ImportInv, SummaryInv, EntriesInv
  <1>6. SnapshotInv'
    BY <1>1, <1>2, <1>3, <1>4, SnapshotsKept
  <1>7. Excused /\ snapshots \subseteq snapshots'
    BY <1>2 DEF Excused
  <1> QED BY <1>2, <1>3, <1>4, <1>5, <1>6, <1>7, TablesInv

LEMMA StartInv ==
    ASSUME IInv, Start, UNCHANGED <<dryRun, verified, native>>
    PROVE  IInv' /\ RowsGrow /\ DaysWhole
  <1>1. SummaryTypeOK /\ EntriesInv
    BY DEF IInv, OpsTypeOK, ReportTypeOK
  <1>2. /\ UNCHANGED <<now, rows, summary, snapshots, jobs, rolledBack, faults>>
        /\ present' = present \cup {1} /\ listed' = listed \cup {SampleDay}
    BY DEF Start
  <1>3. RowsGrow /\ DaysWhole
    BY <1>2, SameRows, NoneTaken
  <1>4. Summarise({})
    BY <1>1, <1>2, SummariseNone
  <1>5. /\ present' \subseteq DOMAIN rows' /\ listed' \subseteq Day
        /\ rows' \in Seq(Row) /\ Len(rows') <= MaxRows /\ faults' \in 0 .. MaxFaults
    BY <1>1, <1>2, SummaryBounds DEF SummaryTypeOK, EntriesInv
  <1>6. \A i \in present' \ present : rows'[i].imported = None /\ rows'[i].day \in listed'
    BY <1>1, <1>2 DEF EntriesInv
  <1> QED BY <1>2, <1>3, <1>4, <1>5, <1>6, WritesInv

LEMMA RecordInv ==
    ASSUME IInv, Record, UNCHANGED <<dryRun, verified, native>>
    PROVE  IInv' /\ RowsGrow /\ DaysWhole
  <1>1. SummaryTypeOK
    BY DEF IInv, OpsTypeOK, ReportTypeOK
  <1>2. /\ rows \in Seq(Row) /\ Len(rows) \in Nat /\ DOMAIN rows = 1 .. Len(rows)
        /\ Len(rows) < MaxRows /\ present \subseteq DOMAIN rows /\ UNCHANGED <<now, snapshots, jobs>>
    BY <1>1, TableTypes DEF SummaryTypeOK, Record
  <1>3. PICK d \in Day :
        /\ listed' = listed \cup {d}
        /\ \/ /\ \E at \in Time, live \in BOOLEAN :
                   rows' = Append(rows, [day |-> d, at |-> at, imported |-> None, live |-> live])
              /\ present' = present \cup {Len(rows) + 1}
              /\ \/ Summarise({d}) /\ UNCHANGED faults
                 \/ Fault /\ UNCHANGED <<summary, rolledBack>>
           \/ Fault /\ UNCHANGED <<rows, present, summary, rolledBack>>
    BY DEF Record
  <1>4. faults' \in 0 .. MaxFaults /\ listed' \subseteq Day /\ listed \subseteq listed'
    BY <1>1, <1>3, SummaryBounds DEF Fault, SummaryTypeOK
  <1>5. \E days : Summarise(days)
    <2>1. UNCHANGED <<summary, rolledBack>> => Summarise({})
      BY <1>1, SummariseNone
    <2> QED BY <1>3, <2>1
  <1>6. CASE UNCHANGED <<rows, present>>
    <2>1. RowsGrow /\ DaysWhole
      BY <1>6, SameRows, NoneTaken
    <2>2. /\ rows' \in Seq(Row) /\ Len(rows') <= MaxRows /\ present' \subseteq DOMAIN rows'
          /\ present' \ present = {}
      BY <1>1, <1>2, <1>6 DEF SummaryTypeOK
    <2> QED BY <1>2, <1>4, <1>5, <1>6, <2>1, <2>2, WritesInv
  <1>7. ASSUME NEW at \in Time, NEW live \in BOOLEAN,
               rows' = Append(rows, [day |-> d, at |-> at, imported |-> None, live |-> live]),
               present' = present \cup {Len(rows) + 1}
        PROVE  IInv' /\ RowsGrow /\ DaysWhole
    <2> DEFINE new == [day |-> d, at |-> at, imported |-> None, live |-> live]
    <2>1. new \in Row /\ new.imported = None /\ new.day = d
      BY DEF Row, Import
    <2> HIDE DEF new
    <2>2. rows' = Append(rows, new)
      BY <1>7 DEF new
    <2>3. /\ rows' \in Seq(Row) /\ Len(rows') = Len(rows) + 1
          /\ \A i \in 1 .. Len(rows) : rows'[i] = rows[i]
          /\ rows'[Len(rows) + 1] = new
      BY ONLY <1>2, <2>1, <2>2, AppendProperties
    <2>4. Len(rows') <= MaxRows /\ DOMAIN rows' = 1 .. Len(rows) + 1
      BY <1>2, <2>3, SummaryBounds, LenProperties
    <2>5. RowsGrow /\ DaysWhole
      <3>1. RowsGrow
        BY <1>2, <2>3, <2>4 DEF RowsGrow
      <3> QED BY <1>7, <3>1, NoneTaken
    <2>6. \A i \in DOMAIN rows' : rows'[i].imported # None =>
              i \in DOMAIN rows /\ rows[i] = rows'[i]
      BY <1>2, <2>1, <2>3, <2>4
    <2>7. present' \subseteq DOMAIN rows'
      BY <1>2, <1>7, <2>4
    <2>8. \A i \in present' \ present : rows'[i].day \in listed' /\ rows'[i].imported = None
      BY <1>3, <1>7, <2>1, <2>3
    <2> QED BY <1>2, <1>4, <1>5, <2>3, <2>4, <2>5, <2>6, <2>7, <2>8, WritesInv
  <1> QED BY <1>3, <1>6, <1>7

\* Entries with other times of import are the same entries.
LEMMA ImportedRows ==
    ASSUME SummaryTypeOK, NEW imports,
           \A i \in DOMAIN imports : i \in DOMAIN rows /\ imports[i] \in Import
    PROVE  /\ Imported(imports) \in Seq(Row) /\ Len(Imported(imports)) = Len(rows)
           /\ DOMAIN Imported(imports) = DOMAIN rows
           /\ \A i \in DOMAIN rows :
                 /\ Imported(imports)[i].day = rows[i].day /\ Imported(imports)[i].at = rows[i].at
                 /\ Imported(imports)[i].live = rows[i].live
                 /\ i \in DOMAIN imports => Imported(imports)[i].imported = imports[i]
                 /\ i \notin DOMAIN imports => Imported(imports)[i] = rows[i]
  <1> DEFINE new == Imported(imports)
  <1>1. rows \in Seq(Row) /\ Len(rows) \in Nat /\ DOMAIN rows = 1 .. Len(rows)
    BY TableTypes
  <1>2. new = [i \in DOMAIN rows |-> IF i \in DOMAIN imports
                                     THEN [rows[i] EXCEPT !.imported = imports[i]] ELSE rows[i]]
    BY DEF Imported
  <1>3. ASSUME NEW i \in DOMAIN rows
        PROVE  /\ new[i] \in Row
               /\ new[i].day = rows[i].day /\ new[i].at = rows[i].at
               /\ new[i].live = rows[i].live
               /\ i \in DOMAIN imports => new[i].imported = imports[i]
               /\ i \notin DOMAIN imports => new[i] = rows[i]
    <2>1. rows[i] \in Row
      BY <1>1, RowType
    <2>2. new[i] = IF i \in DOMAIN imports THEN [rows[i] EXCEPT !.imported = imports[i]]
                   ELSE rows[i]
      BY <1>2
    <2> HIDE DEF new
    <2> QED BY <2>1, <2>2 DEF Row
  <1>4. new \in Seq(Row) /\ Len(new) = Len(rows) /\ DOMAIN new = DOMAIN rows
    <2>1. new \in [1 .. Len(rows) -> Row] /\ DOMAIN new = DOMAIN rows
      BY <1>1, <1>2, <1>3
    <2>2. new \in Seq(Row)
      BY <1>1, <2>1, IsASeq
    <2> QED BY <1>1, <2>1, <2>2, LenProperties
  <1> QED BY <1>3, <1>4

LEMMA BackfillInv ==
    ASSUME IInv, Backfill, UNCHANGED <<dryRun, verified, native>>
    PROVE  IInv' /\ RowsGrow /\ DaysWhole
  <1> DEFINE Fresh == [day : Day, at : 1 .. now, imported : {now}, live : {FALSE}]
  <1>1. SummaryTypeOK
    BY DEF IInv, OpsTypeOK, ReportTypeOK
  <1>2. /\ now \in Time /\ now \in Nat /\ rows \in Seq(Row) /\ Len(rows) \in Nat
        /\ DOMAIN rows = 1 .. Len(rows) /\ present \subseteq DOMAIN rows
        /\ UNCHANGED <<now, snapshots, jobs>>
    BY <1>1, TableTypes DEF SummaryTypeOK, Backfill
  <1>3. PICK again \in SUBSET {i \in DOMAIN rows : rows[i].imported # None},
             fresh \in {<<>>} \cup {<<r>> : r \in Fresh} :
        LET days == {rows[i].day : i \in again} \cup {fresh[i].day : i \in DOMAIN fresh}
        IN  /\ Len(rows) + Len(fresh) <= MaxRows
            /\ rows' = Imported([i \in again |-> now]) \o fresh
            /\ present' = present \cup again \cup (DOMAIN rows' \ DOMAIN rows)
            /\ \/ /\ days # {}
                  /\ listed' = listed \cup days
                  /\ Summarise(days)
                  /\ UNCHANGED faults
               \/ \E d \in Day : /\ listed' = listed \cup days \cup {d}
                                  /\ Summarise(days \ {d})
                                  /\ Fault
    BY DEF Backfill
  <1> DEFINE old  == Imported([i \in again |-> now])
             days == {rows[i].day : i \in again} \cup {fresh[i].day : i \in DOMAIN fresh}
  <1>4. /\ fresh \in Seq(Row) /\ Len(fresh) \in Nat /\ DOMAIN fresh = 1 .. Len(fresh)
        /\ \A i \in DOMAIN fresh : fresh[i].imported = now /\ fresh[i].day \in Day
    <2>1. Fresh \subseteq Row
      <3>1. 1 .. now \subseteq Time /\ now \in Import
        BY <1>2, SummaryBounds DEF Import, Time
      <3> QED BY <3>1 DEF Row
    <2>2. CASE fresh = <<>>
      BY <2>2
    <2>3. CASE \E r \in Fresh : fresh = <<r>>
      <3>1. PICK r \in Fresh : fresh = <<r>>
        BY <2>3
      <3>2. r \in Row /\ r.imported = now /\ r.day \in Day
        BY <2>1
      <3> QED BY <3>1, <3>2
    <2> QED BY <1>3, <2>2, <2>3
  <1>5. /\ old \in Seq(Row) /\ Len(old) = Len(rows) /\ DOMAIN old = DOMAIN rows
        /\ \A i \in DOMAIN rows :
              /\ old[i].day = rows[i].day /\ old[i].at = rows[i].at /\ old[i].live = rows[i].live
              /\ i \in again => old[i].imported = now
              /\ i \notin again => old[i] = rows[i]
    <2>1. \A i \in DOMAIN [k \in again |-> now] :
              i \in DOMAIN rows /\ [k \in again |-> now][i] \in Import
      BY <1>2, <1>3 DEF Import
    <2> QED BY <1>1, <2>1, ImportedRows
  <1>6. /\ days \subseteq Day
        /\ \A i \in again : rows[i].day \in days /\ i \in DOMAIN rows /\ rows[i].imported # None
        /\ \A i \in 1 .. Len(fresh) : fresh[i].day \in days
    <2>1. \A i \in again : i \in DOMAIN rows /\ rows[i].imported # None /\ rows[i].day \in Day
      BY <1>2, <1>3, RowType
    <2>2. \A i \in DOMAIN fresh : fresh[i].day \in Day
      BY <1>4
    <2> QED BY <1>4, <2>1, <2>2
  <1>7. /\ Len(rows) + Len(fresh) <= MaxRows /\ rows' = old \o fresh
        /\ present' = present \cup again \cup (DOMAIN rows' \ DOMAIN rows)
        /\ days \subseteq listed' /\ listed' \subseteq Day /\ listed \subseteq listed'
        /\ faults' \in 0 .. MaxFaults /\ \E done : Summarise(done)
    <2>1. listed \subseteq Day /\ faults \in 0 .. MaxFaults
      BY <1>1 DEF SummaryTypeOK
    <2> HIDE DEF days, old, Fresh
    <2>2. /\ Len(rows) + Len(fresh) <= MaxRows /\ rows' = old \o fresh
          /\ present' = present \cup again \cup (DOMAIN rows' \ DOMAIN rows)
          /\ \/ listed' = listed \cup days /\ Summarise(days) /\ UNCHANGED faults
             \/ \E d \in Day : /\ listed' = listed \cup days \cup {d}
                                /\ Summarise(days \ {d})
                                /\ Fault
      BY <1>3 DEF days, old
    <2>3. days \subseteq listed' /\ listed' \subseteq Day /\ listed \subseteq listed'
      BY <1>6, <2>1, <2>2
    <2>4. faults' \in 0 .. MaxFaults
      <3>1. faults' = faults \/ Fault
        BY <2>2
      <3> QED BY <2>1, <3>1, SummaryBounds DEF Fault
    <2>5. \E done : Summarise(done)
      BY <2>2
    <2> QED BY <2>2, <2>3, <2>4, <2>5
  <1> HIDE DEF old, days, Fresh
  <1>8. /\ rows' \in Seq(Row) /\ Len(rows') = Len(rows) + Len(fresh)
        /\ \A i \in 1 .. Len(rows') :
              rows'[i] = IF i <= Len(rows) THEN old[i] ELSE fresh[i - Len(rows)]
    <2>1. \A s, t \in Seq(Row) :
              /\ s \o t \in Seq(Row) /\ Len(s \o t) = Len(s) + Len(t)
              /\ \A i \in 1 .. Len(s) + Len(t) : (s \o t)[i] =
                     IF i <= Len(s) THEN s[i] ELSE t[i - Len(s)]
      BY ConcatProperties, Zenon
    <2> QED BY ONLY <1>4, <1>5, <1>7, <2>1
  <1>9. Len(rows') <= MaxRows /\ DOMAIN rows' = 1 .. Len(rows') /\ DOMAIN rows \subseteq DOMAIN rows'
    BY <1>2, <1>4, <1>7, <1>8, SummaryBounds, LenProperties
  <1>10. \A i \in DOMAIN rows : rows'[i] = old[i]
    BY <1>2, <1>8, <1>9
  <1>11. \A i \in DOMAIN rows' \ DOMAIN rows : rows'[i].imported = now /\ rows'[i].day \in days
    <2> SUFFICES ASSUME NEW i \in DOMAIN rows' \ DOMAIN rows
                 PROVE  rows'[i].imported = now /\ rows'[i].day \in days
      OBVIOUS
    <2>1. rows'[i] = fresh[i - Len(rows)] /\ i - Len(rows) \in 1 .. Len(fresh)
      BY <1>2, <1>4, <1>8, <1>9
    <2> QED BY <1>4, <1>6, <2>1
  <1>12. RowsGrow
    <2>1. None # now
      BY <1>2, SummaryBounds
    <2> QED BY <1>5, <1>6, <1>9, <1>10, <2>1 DEF RowsGrow
  <1>13. present' \subseteq DOMAIN rows' /\ DaysWhole
    <2>1. present' \subseteq DOMAIN rows'
      BY <1>2, <1>6, <1>7, <1>9
    <2> QED BY <1>7, <2>1, NoneTaken
  <1>14. \A i \in DOMAIN rows' : rows'[i].imported # None =>
             \/ rows'[i].imported = now
             \/ i \in DOMAIN rows /\ rows[i] = rows'[i]
    BY <1>5, <1>10, <1>11
  <1>15. \A i \in present' \ present : rows'[i].imported = now /\ rows'[i].day \in listed'
    BY <1>5, <1>6, <1>7, <1>10, <1>11
  <1> QED BY <1>2, <1>7, <1>8, <1>9, <1>12, <1>13, <1>14, <1>15, WritesInv

LEMMA GenerateSummaryInv ==
    ASSUME IInv, GenerateSummary, UNCHANGED <<dryRun, verified, native>>
    PROVE  IInv' /\ RowsGrow /\ DaysWhole
  <1>1. SummaryTypeOK
    BY DEF IInv, OpsTypeOK, ReportTypeOK
  <1>2. PICK d \in Day : Summarise({d})
    BY DEF GenerateSummary
  <1>3. UNCHANGED <<now, rows, present, listed, snapshots, jobs, faults>>
    BY DEF GenerateSummary, entryVars
  <1>4. RowsGrow /\ DaysWhole
    BY <1>3, SameRows, NoneTaken
  <1>5. /\ rows' \in Seq(Row) /\ Len(rows') <= MaxRows /\ faults' \in 0 .. MaxFaults
        /\ present' \subseteq DOMAIN rows' /\ listed' \subseteq Day /\ present' \ present = {}
    BY <1>1, <1>3 DEF SummaryTypeOK
  <1> QED BY <1>2, <1>3, <1>4, <1>5, WritesInv

LEMMA CreateSummaryJobInv ==
    ASSUME IInv, CreateSummaryJob, UNCHANGED <<dryRun, verified, native>>
    PROVE  IInv' /\ RowsGrow /\ DaysWhole
  <1>1. SummaryTypeOK /\ SnapshotInv
    BY DEF IInv, OpsTypeOK, ReportTypeOK
  <1>2. PICK d \in Day :
            /\ Waiting(d) = {}
            /\ jobs' = Append(jobs, [day |-> d, at |-> now, status |-> "queued"])
    BY DEF CreateSummaryJob
  <1> DEFINE job == [day |-> d, at |-> now, status |-> "queued"]
  <1>3. /\ job \in Job /\ job.day = d /\ job.at = now /\ job.status = "queued"
        /\ now \in Nat
    BY <1>1, TableTypes DEF Job, Status
  <1> HIDE DEF job
  <1>4. /\ jobs \in Seq(Job) /\ Len(jobs) \in Nat /\ Len(jobs) < MaxJobs
        /\ DOMAIN jobs = 1 .. Len(jobs)
    BY <1>1, LenProperties DEF SummaryTypeOK, CreateSummaryJob
  <1>5. jobs' = Append(jobs, job)
    BY <1>2 DEF job
  <1>6. /\ jobs' \in Seq(Job) /\ Len(jobs') = Len(jobs) + 1
        /\ \A i \in 1 .. Len(jobs) : jobs'[i] = jobs[i]
        /\ jobs'[Len(jobs) + 1] = job
    BY ONLY <1>3, <1>4, <1>5, AppendProperties
  <1>7. Len(jobs') <= MaxJobs /\ DOMAIN jobs' = 1 .. Len(jobs) + 1
    BY <1>4, <1>6, SummaryBounds, LenProperties
  <1>8. \A j \in DOMAIN jobs' : \/ j \in DOMAIN jobs /\ jobs'[j] = jobs[j]
                                \/ j = Len(jobs) + 1 /\ jobs'[j] = job
    <2>1. \A j \in DOMAIN jobs' : j \in DOMAIN jobs \/ j = Len(jobs) + 1
      BY ONLY <1>4, <1>7
    <2> QED BY <1>4, <1>6, <2>1
  <1>9. UNCHANGED <<now, rows, present, listed, snapshots, summary, rolledBack, faults>>
    BY DEF CreateSummaryJob, entryVars
  <1>10. RowsGrow /\ DaysWhole
    BY <1>9, SameRows, NoneTaken
  <1>11. OpsTypeOK' /\ NativeInv'
    <2>1. SummaryTypeOK'
      BY <1>1, <1>6, <1>7, <1>9 DEF SummaryTypeOK
    <2> QED BY <2>1, TablesOnly
  <1>12. \A j \in DOMAIN jobs : jobs[j].day = d => ~Active(jobs[j])
    BY <1>2 DEF Waiting
  <1>13. OneActiveJobPerDay'
    <2> SUFFICES ASSUME NEW i \in DOMAIN jobs', NEW j \in DOMAIN jobs',
                        Active(jobs'[i]), Active(jobs'[j]), jobs'[i].day = jobs'[j].day
                 PROVE  i = j
      BY DEF OneActiveJobPerDay, Active
    <2>1. CASE jobs'[i] = job \/ jobs'[j] = job
      BY <1>3, <1>8, <1>12, <2>1
    <2> QED BY <1>8, <2>1 DEF IInv, OneActiveJobPerDay
  <1>14. CompletedJobHasSummary'
    BY <1>3, <1>8, <1>9 DEF IInv, CompletedJobHasSummary
  <1>15. JobInv'
    BY <1>3, <1>8, <1>9 DEF IInv, JobInv
  <1>16. ImportInv' /\ SummaryInv' /\ SnapshotInv' /\ EntriesInv'
    BY <1>9 DEF IInv, ImportInv, SummaryInv, SnapshotInv, EntriesInv
  <1> QED BY <1>10, <1>11, <1>13, <1>14, <1>15, <1>16 DEF IInv

\* A job is settled once its summary is written, and only a job that waits is settled.
LEMMA PollInv ==
    ASSUME IInv, NEW j \in DOMAIN jobs, Poll(j), UNCHANGED <<dryRun, verified, native>>
    PROVE  IInv' /\ RowsGrow /\ DaysWhole
  <1>1. SummaryTypeOK /\ ImportInv /\ SummaryInv /\ JobInv /\ CompletedJobHasSummary
    BY DEF IInv, OpsTypeOK, ReportTypeOK
  <1>2. /\ now \in Nat /\ jobs[j].day \in Day /\ jobs[j].at \in Nat /\ jobs[j] \in Job
        /\ UNCHANGED <<now, rows, present, listed, snapshots>>
    BY <1>1, TableTypes DEF Poll, entryVars
  <1>3. RowsGrow /\ DaysWhole
    BY <1>2, SameRows, NoneTaken
  <1>4. PICK days : /\ Summarise(days)
                    /\ \/ jobs' = jobs
                       \/ jobs' = [jobs EXCEPT ![j].status = "failed"]
                       \/ /\ jobs' = [jobs EXCEPT ![j].status = "completed"]
                          /\ jobs[j].day \in days
    <2>1. UNCHANGED <<summary, rolledBack>> => Summarise({})
      BY <1>1, SummariseNone
    <2> QED BY <2>1 DEF Poll, Complete, PollFails, Settle
  <1>5. /\ summary' \in [Day -> Summary \cup {None}] /\ rolledBack' \subseteq Day
        /\ ImportInv' /\ SummaryInv' /\ Written
        /\ \A d \in days \cap Day : summary'[d] # None /\ summary'[d].at = now
    <2>1. /\ rows' \in Seq(Row) /\ Len(rows') <= MaxRows /\ present' \subseteq DOMAIN rows'
          /\ \A i \in DOMAIN rows' : i \in DOMAIN rows /\ rows[i] = rows'[i]
          /\ \A i \in present' : i \in present
      BY <1>1, <1>2 DEF SummaryTypeOK
    <2> QED BY <1>1, <1>2, <1>4, <2>1, SummariseKeeps
  <1>6. jobs \in [1 .. Len(jobs) -> Job] /\ Len(jobs) \in Nat /\ DOMAIN jobs = 1 .. Len(jobs)
        /\ Len(jobs) <= MaxJobs
    BY <1>1, LenProperties DEF SummaryTypeOK
  <1>7. /\ jobs' \in [1 .. Len(jobs) -> Job]
        /\ \A i \in DOMAIN jobs : i # j => jobs'[i] = jobs[i]
        /\ jobs'[j].day = jobs[j].day /\ jobs'[j].at = jobs[j].at
        /\ \/ jobs'[j] = jobs[j]
           \/ jobs'[j].status = "failed"
           \/ jobs'[j].status = "completed" /\ jobs[j].day \in days
    BY <1>4, <1>6 DEF Job, Status
  <1>8. jobs' \in Seq(Job) /\ Len(jobs') <= MaxJobs /\ DOMAIN jobs' = DOMAIN jobs
    <2>1. jobs' \in Seq(Job)
      BY <1>6, <1>7, IsASeq
    <2> QED BY <1>6, <1>7, <2>1, LenProperties
  <1>9. faults' \in 0 .. MaxFaults
    BY <1>1, SummaryBounds DEF Poll, PollFails, Fault, SummaryTypeOK
  <1>10. OpsTypeOK' /\ NativeInv'
    <2>1. SummaryTypeOK'
      BY <1>1, <1>2, <1>5, <1>8, <1>9 DEF SummaryTypeOK
    <2> QED BY <2>1, TablesOnly
  <1>11. OneActiveJobPerDay'
    <2>1. \A i \in DOMAIN jobs : Active(jobs'[i]) => Active(jobs[i])
      BY <1>7 DEF Active, Poll
    <2>2. \A i \in DOMAIN jobs : jobs'[i].day = jobs[i].day
      BY <1>7
    <2> QED BY <1>8, <2>1, <2>2 DEF IInv, OneActiveJobPerDay, Active
  <1>12. JobInv'
    BY <1>1, <1>2, <1>7, <1>8 DEF JobInv
  <1>13. CompletedJobHasSummary'
    <2> SUFFICES ASSUME NEW i \in DOMAIN jobs', jobs'[i].status = "completed"
                 PROVE  LET d == jobs'[i].day
                        IN  \/ summary'[d] # None /\ summary'[d].at >= jobs'[i].at
                            \/ summary'[d] = None /\ \E s \in snapshots' : d \in s.removed
                            \/ summary'[d] # None /\ \E s \in snapshots' : s.summary[d] = summary'[d]
      BY DEF CompletedJobHasSummary
    <2>1. i \in DOMAIN jobs
      BY <1>8
    <2>2. CASE i = j /\ jobs'[j] # jobs[j]
      <3>1. summary'[jobs[j].day] # None /\ summary'[jobs[j].day].at = now
        BY <1>2, <1>5, <1>7, <2>2
      <3> QED BY <1>1, <1>2, <1>7, <2>2, <3>1 DEF JobInv
    <2>3. CASE jobs'[i] = jobs[i]
      <3>1. Excused
        BY <1>2, <1>5 DEF Written, Excused
      <3> QED BY <1>1, <1>2, <2>1, <2>3, <3>1, CompletedKept
    <2> QED BY <1>7, <2>1, <2>2, <2>3
  <1>14. SnapshotInv' /\ EntriesInv'
    BY <1>2 DEF IInv, SnapshotInv, EntriesInv
  <1> QED BY <1>3, <1>5, <1>10, <1>11, <1>12, <1>13, <1>14 DEF IInv

\* A retention takes whole days, and their summaries only with them.
LEMMA ApplyRetentionInv ==
    ASSUME IInv, ApplyRetention, UNCHANGED <<dryRun, verified, native>>
    PROVE  IInv' /\ RowsGrow /\ DaysWhole
  <1>1. /\ SummaryTypeOK /\ ImportInv /\ SummaryInv /\ SnapshotInv /\ EntriesInv
        /\ UNCHANGED <<now, rows, jobs, rolledBack>>
    BY DEF IInv, OpsTypeOK, ReportTypeOK, ApplyRetention
  <1>2. PICK keep \in 0 .. Cardinality(Day) :
        LET removed  == Removed(keep)
            snapshot == [days |-> listed, removed |-> removed,
                         imported |-> [i \in present |-> rows[i].imported],
                         summary |-> [d \in Day |-> IF d \in listed THEN summary[d] ELSE None]]
        IN  /\ snapshots' = snapshots \cup {snapshot}
            /\ \E done \in Visited(removed) : \E unlisted \in {u \in Visited(removed) : done \subseteq u} :
                \E empty \in {e \in Visited(removed) : unlisted \subseteq e} :
                    /\ IF done = removed THEN UNCHANGED faults ELSE Fault
                    /\ present' = {i \in present : rows[i].day \notin empty}
                    /\ listed' = listed \ unlisted
                    /\ summary' = [d \in Day |-> IF d \in done THEN None ELSE summary[d]]
    BY DEF ApplyRetention
  <1> DEFINE removed == Removed(keep)
             snapshot == [days |-> listed, removed |-> removed,
                          imported |-> [i \in present |-> rows[i].imported],
                          summary |-> [d \in Day |-> IF d \in listed THEN summary[d] ELSE None]]
  <1>3. snapshots' = snapshots \cup {snapshot}
    BY <1>2
  <1>4. PICK done \in SUBSET removed, unlisted \in SUBSET removed, empty \in SUBSET removed :
            /\ unlisted \subseteq empty
            /\ faults' = faults \/ Fault
            /\ present' = {i \in present : rows[i].day \notin empty}
            /\ listed' = listed \ unlisted
            /\ summary' = [d \in Day |-> IF d \in done THEN None ELSE summary[d]]
    BY <1>2 DEF Visited
  <1>5. /\ snapshot.days = listed /\ snapshot.removed = removed
        /\ snapshot.imported = [i \in present |-> rows[i].imported]
        /\ snapshot.summary = [d \in Day |-> IF d \in listed THEN summary[d] ELSE None]
    OBVIOUS
  <1>6. /\ listed \subseteq Day /\ present \subseteq DOMAIN rows /\ faults \in 0 .. MaxFaults
        /\ removed \subseteq listed /\ DOMAIN rows \subseteq 1 .. MaxRows
        /\ \A i \in present : rows[i].imported \in Import
        /\ summary \in [Day -> Summary \cup {None}]
    <2>1. removed \subseteq listed
      BY DEF Removed
    <2> QED BY <1>1, <2>1, TableTypes, RowType DEF SummaryTypeOK
  <1>7. snapshot \in Snapshot
    <2>1. [i \in present |-> rows[i].imported]
              \in UNION {[kept -> Import] : kept \in SUBSET (1 .. MaxRows)}
      <3>1. present \in SUBSET (1 .. MaxRows)
        BY <1>6
      <3>2. [i \in present |-> rows[i].imported] \in [present -> Import]
        BY <1>6
      <3> QED BY <3>1, <3>2
    <2>2. [d \in Day |-> IF d \in listed THEN summary[d] ELSE None] \in [Day -> Summary \cup {None}]
      BY <1>6
    <2> QED BY <1>6, <2>1, <2>2 DEF Snapshot
  <1> HIDE DEF snapshot, removed
  <1>8. SummaryTypeOK'
    <2>1. /\ summary' \in [Day -> Summary \cup {None}] /\ faults' \in 0 .. MaxFaults
          /\ present' \subseteq DOMAIN rows' /\ listed' \subseteq Day
      BY <1>1, <1>4, <1>6, SummaryBounds DEF Fault
    <2> QED BY <1>1, <1>3, <1>7, <2>1 DEF SummaryTypeOK
  <1>9. RowsGrow
    BY <1>1, SameRows
  <1>10. DaysWhole
    BY <1>4 DEF DaysWhole, EntriesOf
  <1>11. \A d \in Day : summary'[d] = IF d \in done THEN None ELSE summary[d]
    BY <1>4
  <1>12. ImportInv'
    <2>1. \A i \in DOMAIN rows : rows[i].day \in Day
      BY <1>1, RowType DEF SummaryTypeOK
    <2> QED BY <1>1, <1>4, <1>11, <2>1 DEF ImportInv
  <1>13. SummaryInv'
    BY <1>1, <1>11 DEF SummaryInv
  <1>14. SnapshotInv'
    <2>1. \A i \in DOMAIN snapshot.imported :
              /\ i \in DOMAIN rows
              /\ snapshot.imported[i] = None <=> rows[i].imported = None
              /\ snapshot.imported[i] # None => snapshot.imported[i] <= now
      BY <1>1, <1>5, <1>6 DEF ImportInv
    <2>2. \A d \in Day : snapshot.summary[d] # None => snapshot.summary[d].at <= now
      BY <1>1, <1>5 DEF SummaryInv
    <2> QED BY <1>1, <1>3, <2>1, <2>2 DEF SnapshotInv
  <1>15. EntriesInv'
    BY <1>1, <1>4 DEF EntriesInv
  <1>16. Excused
    BY <1>3, <1>4, <1>5, <1>11 DEF Excused
  <1>17. now' \in Nat /\ now' >= now
    BY <1>1, TableTypes
  <1> QED BY <1>1, <1>3, <1>8, <1>9, <1>10, <1>12, <1>13, <1>14, <1>15, <1>16, <1>17, TablesInv

\* A rollback brings back what a snapshot kept, and no later time than now.
LEMMA RollbackRetentionInv ==
    ASSUME IInv, RollbackRetention, UNCHANGED <<dryRun, verified, native>>
    PROVE  IInv' /\ RowsGrow /\ DaysWhole
  <1>1. /\ SummaryTypeOK /\ ImportInv /\ SummaryInv /\ SnapshotInv /\ EntriesInv
        /\ UNCHANGED <<now, snapshots, jobs>>
    BY DEF IInv, OpsTypeOK, ReportTypeOK, RollbackRetention
  <1>2. PICK snapshot \in snapshots : \E begun \in Visited(snapshot.days) :
        \E done \in {e \in Visited(snapshot.days) : e \subseteq begun},
           back \in SUBSET {i \in DOMAIN snapshot.imported : rows[i].day \in begun} :
            /\ IF done = snapshot.days THEN UNCHANGED faults ELSE Fault
            /\ rows' = Imported([i \in back |-> snapshot.imported[i]])
            /\ present' = present \cup back
            /\ listed' = listed \cup begun
            /\ summary' = [d \in Day |-> IF d \in done /\ snapshot.summary[d] # None
                                         THEN snapshot.summary[d] ELSE summary[d]]
            /\ rolledBack' = rolledBack \cup begun
    BY DEF RollbackRetention
  <1>3. PICK begun, done, back :
            /\ begun \subseteq snapshot.days /\ done \subseteq begun
            /\ back \subseteq {i \in DOMAIN snapshot.imported : rows[i].day \in begun}
            /\ faults' = faults \/ Fault
            /\ rows' = Imported([i \in back |-> snapshot.imported[i]])
            /\ present' = present \cup back
            /\ listed' = listed \cup begun
            /\ summary' = [d \in Day |-> IF d \in done /\ snapshot.summary[d] # None
                                         THEN snapshot.summary[d] ELSE summary[d]]
            /\ rolledBack' = rolledBack \cup begun
    BY <1>2 DEF Visited
  <1> DEFINE imports == [i \in back |-> snapshot.imported[i]]
  <1>4. /\ snapshot.days \subseteq Day /\ snapshot.summary \in [Day -> Summary \cup {None}]
        /\ \A i \in back : /\ i \in DOMAIN rows /\ rows[i].day \in begun
                           /\ snapshot.imported[i] \in Import
                           /\ snapshot.imported[i] = None <=> rows[i].imported = None
                           /\ snapshot.imported[i] # None => snapshot.imported[i] <= now
        /\ \A d \in Day : snapshot.summary[d] # None => snapshot.summary[d].at <= now
    <2>1. /\ \A i \in DOMAIN snapshot.imported :
                /\ i \in DOMAIN rows
                /\ snapshot.imported[i] = None <=> rows[i].imported = None
                /\ snapshot.imported[i] # None => snapshot.imported[i] <= now
          /\ \A d \in Day : snapshot.summary[d] # None => snapshot.summary[d].at <= now
      BY <1>1 DEF SnapshotInv
    <2> QED BY <1>1, <1>3, <2>1, SnapshotTypes
  <1>5. /\ rows' \in Seq(Row) /\ Len(rows') = Len(rows) /\ DOMAIN rows' = DOMAIN rows
        /\ \A i \in DOMAIN rows :
              /\ rows'[i].day = rows[i].day /\ rows'[i].at = rows[i].at
              /\ rows'[i].live = rows[i].live
              /\ i \in back => rows'[i].imported = snapshot.imported[i]
              /\ i \notin back => rows'[i] = rows[i]
    <2>1. DOMAIN imports = back /\ \A i \in back : imports[i] = snapshot.imported[i]
      OBVIOUS
    <2>2. \A i \in DOMAIN imports : i \in DOMAIN rows /\ imports[i] \in Import
      BY <1>4, <2>1
    <2>3. rows' = Imported(imports)
      BY <1>3
    <2> HIDE DEF imports
    <2> QED BY <1>1, <2>1, <2>2, <2>3, ImportedRows
  <1>6. \A d \in Day : summary'[d] = IF d \in done /\ snapshot.summary[d] # None
                                     THEN snapshot.summary[d] ELSE summary[d]
    BY <1>3
  <1>7. SummaryTypeOK'
    <2>1. summary' \in [Day -> Summary \cup {None}]
      BY <1>1, <1>3, <1>4 DEF SummaryTypeOK
    <2>2. faults' \in 0 .. MaxFaults
      BY <1>1, <1>3, SummaryBounds DEF Fault, SummaryTypeOK
    <2>3. present' \subseteq DOMAIN rows' /\ listed' \subseteq Day /\ rolledBack' \subseteq Day
      BY <1>1, <1>3, <1>4, <1>5 DEF SummaryTypeOK
    <2> QED BY <1>1, <1>5, <2>1, <2>2, <2>3 DEF SummaryTypeOK
  <1>8. RowsGrow
    BY <1>4, <1>5 DEF RowsGrow
  <1>9. DaysWhole
    BY <1>3, NoneTaken
  <1>10. now' \in Nat /\ now' >= now
    BY <1>1, TableTypes
  <1>11. ImportInv'
    <2> SUFFICES ASSUME NEW i \in DOMAIN rows, rows'[i].imported # None
                 PROVE  /\ rows'[i].imported <= now
                        /\ i \in present' /\ rows'[i].day \notin rolledBack' =>
                              (summary'[rows'[i].day] # None
                               /\ summary'[rows'[i].day].at > rows'[i].imported
                                  => i \in summary'[rows'[i].day].counted)
      BY <1>1, <1>5 DEF ImportInv
    <2>1. rows'[i].day = rows[i].day /\ rows[i].day \in Day
      BY <1>1, <1>5, RowType DEF SummaryTypeOK
    <2>2. CASE i \in back
      BY <1>3, <1>4, <1>5, <2>1, <2>2
    <2>3. CASE i \notin back /\ rows[i].day \in begun
      BY <1>1, <1>3, <1>5, <2>1, <2>3 DEF ImportInv
    <2>4. CASE i \notin back /\ rows[i].day \notin begun
      BY <1>1, <1>3, <1>5, <1>6, <2>1, <2>4 DEF ImportInv
    <2> QED BY <2>2, <2>3, <2>4
  <1>12. SummaryInv'
    BY <1>1, <1>4, <1>6 DEF SummaryInv
  <1>13. SnapshotInv'
    BY <1>1, <1>8, <1>10, SnapshotsKept
  <1>14. EntriesInv'
    <2>1. \A i \in present' : rows'[i].day \in listed'
      BY <1>1, <1>3, <1>4, <1>5 DEF EntriesInv, SummaryTypeOK
    <2>2. 1 \in DOMAIN rows' /\ rows'[1].day = SampleDay /\ rows'[1].imported = None
      BY <1>1, <1>8 DEF EntriesInv, RowsGrow
    <2> QED BY <2>1, <2>2 DEF EntriesInv
  <1>15. Excused
    BY <1>1, <1>6 DEF Excused
  <1> QED BY <1>1, <1>7, <1>8, <1>9, <1>10, <1>11, <1>12, <1>13, <1>14, <1>15, TablesInv

\* A step that leaves the tables as they are.
LEMMA TablesKept ==
    ASSUME IInv, UNCHANGED <<now, rows, present, listed, snapshots, summary, jobs, rolledBack>>,
           faults' \in 0 .. MaxFaults
    PROVE  /\ SummaryTypeOK' /\ OneActiveJobPerDay' /\ CompletedJobHasSummary' /\ JobInv'
           /\ ImportInv' /\ SummaryInv' /\ SnapshotInv' /\ EntriesInv'
           /\ RowsGrow /\ DaysWhole
  <1>1. RowsGrow /\ DaysWhole
    BY SameRows, NoneTaken
  <1>2. SummaryTypeOK' /\ OneActiveJobPerDay' /\ CompletedJobHasSummary' /\ JobInv'
    BY DEF IInv, OpsTypeOK, ReportTypeOK, SummaryTypeOK, OneActiveJobPerDay,
           CompletedJobHasSummary, JobInv
  <1>3. ImportInv' /\ SummaryInv' /\ SnapshotInv' /\ EntriesInv'
    BY DEF IInv, ImportInv, SummaryInv, SnapshotInv, EntriesInv
  <1> QED BY <1>1, <1>2, <1>3

LEMMA RecordVerificationInv ==
    ASSUME IInv, RecordVerification, UNCHANGED native
    PROVE  IInv' /\ RowsGrow /\ DaysWhole
  <1>1. PICK command \in Command, at \in 1 .. now, passed \in BOOLEAN :
            verified' = OtherReceipts(command, at)
                        \cup {[command |-> command, at |-> at, passed |-> passed]}
    BY DEF RecordVerification
  <1>2. SummaryTypeOK /\ faults \in 0 .. MaxFaults
    BY DEF IInv, OpsTypeOK, ReportTypeOK, SummaryTypeOK
  <1>3. verified \subseteq VerificationReceipt
        /\ \A r, q \in verified : r.command = q.command /\ r.at = q.at => r = q
    BY DEF IInv, OpsTypeOK, ReportTypeOK
  <1>4. at \in Time
    BY <1>2, SummaryBounds DEF SummaryTypeOK, Time
  <1>5. verified' \subseteq VerificationReceipt
    BY <1>1, <1>3, <1>4 DEF OtherReceipts, VerificationReceipt
  <1>6. \A r, q \in verified' : r.command = q.command /\ r.at = q.at => r = q
    BY <1>1, <1>3 DEF OtherReceipts
  <1>7. /\ SummaryTypeOK' /\ OneActiveJobPerDay' /\ CompletedJobHasSummary' /\ JobInv'
        /\ ImportInv' /\ SummaryInv' /\ SnapshotInv' /\ EntriesInv'
        /\ RowsGrow /\ DaysWhole
    BY <1>2, TablesKept DEF RecordVerification, summaryVars
  <1>8. OpsTypeOK' /\ NativeInv'
    BY <1>5, <1>6, <1>7
       DEF RecordVerification, IInv, OpsTypeOK, ReportTypeOK, NativeInv
  <1> QED BY <1>7, <1>8 DEF IInv

LEMMA RecordDryRunInv ==
    ASSUME IInv, RecordDryRun, UNCHANGED native
    PROVE  IInv' /\ RowsGrow /\ DaysWhole
  <1>1. faults \in 0 .. MaxFaults
    BY DEF IInv, OpsTypeOK, ReportTypeOK, SummaryTypeOK
  <1>2. /\ SummaryTypeOK' /\ OneActiveJobPerDay' /\ CompletedJobHasSummary' /\ JobInv'
        /\ ImportInv' /\ SummaryInv' /\ SnapshotInv' /\ EntriesInv'
        /\ RowsGrow /\ DaysWhole
    BY <1>1, TablesKept DEF RecordDryRun, summaryVars
  <1>3. OpsTypeOK' /\ NativeInv'
    BY <1>2 DEF RecordDryRun, IInv, OpsTypeOK, ReportTypeOK, NativeInv
  <1> QED BY <1>2, <1>3 DEF IInv

LEMMA SelfCheckInv ==
    ASSUME IInv, SelfCheck
    PROVE  IInv' /\ RowsGrow /\ DaysWhole
  <1>1. SummaryTypeOK /\ faults' \in 0 .. MaxFaults
    <2>1. SummaryTypeOK /\ faults \in 0 .. MaxFaults
      BY DEF IInv, OpsTypeOK, ReportTypeOK, SummaryTypeOK
    <2>2. faults' = faults \/ Fault
      BY Zenon DEF SelfCheck
    <2> QED BY <2>1, <2>2, SummaryBounds DEF Fault
  <1>2. /\ SummaryTypeOK' /\ OneActiveJobPerDay' /\ CompletedJobHasSummary' /\ JobInv'
        /\ ImportInv' /\ SummaryInv' /\ SnapshotInv' /\ EntriesInv'
        /\ RowsGrow /\ DaysWhole
    BY <1>1, TablesKept DEF SelfCheck, entryVars
  <1>3. ReportTypeOK'
    BY <1>2 DEF IInv, OpsTypeOK, ReportTypeOK, SelfCheck
  <1>4. CASE UNCHANGED native
    BY <1>2, <1>3, <1>4 DEF IInv, OpsTypeOK, NativeInv
  <1>5. ASSUME NEW at \in 1 .. now, NEW health \in ProbedHealth,
               NEW agent \in ProbedLaunchAgent, NEW sqlite \in ProbedSqlite,
               NEW checks,
               checks = [c \in CheckId |->
                             CASE c = "api_liveness"      -> health.api
                               [] c = "gateway_readiness" -> health.gateway
                               [] c = "launch_agent"      -> agent
                               [] c = "sqlite_integrity"  -> sqlite
                               [] c = "secret_store"      -> ProbedSecretStore],
               native' = [at |-> at, checks |-> checks, status |-> overall_status(checks)]
        PROVE  IInv' /\ RowsGrow /\ DaysWhole
    <2>1. at \in Time
      BY <1>1, SummaryBounds DEF SummaryTypeOK, Time
    <2>2. checks \in [CheckId -> CheckStatus]
      BY <1>5 DEF CheckId, CheckStatus, ProbedHealth, ProbedLaunchAgent, ProbedSqlite,
                  ProbedSecretStore
    <2>3. overall_status(checks) \in GateStatus
      BY DEF overall_status, GateStatus
    <2>4. native' \in NativeRow /\ native'.status = overall_status(native'.checks)
      BY <1>5, <2>1, <2>2, <2>3 DEF NativeRow
    <2> QED BY <1>2, <1>3, <2>4 DEF IInv, OpsTypeOK, NativeInv
  <1> QED BY <1>4, <1>5 DEF SelfCheck

LEMMA NextInv == IInv /\ OpsNext => IInv' /\ RowsGrow /\ DaysWhole
  <1> SUFFICES ASSUME IInv, OpsNext PROVE IInv' /\ RowsGrow /\ DaysWhole
    OBVIOUS
  <1>1. ASSUME SummaryNext, UNCHANGED <<dryRun, verified, native>>
        PROVE  IInv' /\ RowsGrow /\ DaysWhole
    BY <1>1, TickInv, StartInv, RecordInv, BackfillInv, GenerateSummaryInv, CreateSummaryJobInv,
       PollInv, ApplyRetentionInv, RollbackRetentionInv DEF SummaryNext
  <1>2. CASE RecordVerification /\ UNCHANGED native
    BY <1>2, RecordVerificationInv
  <1>3. CASE RecordDryRun /\ UNCHANGED native
    BY <1>3, RecordDryRunInv
  <1>4. CASE SelfCheck
    BY <1>4, SelfCheckInv
  <1> QED BY <1>1, <1>2, <1>3, <1>4 DEF OpsNext, ReportNext

LEMMA StutterInv == IInv /\ UNCHANGED opsVars => IInv'
  <1> SUFFICES ASSUME IInv, UNCHANGED opsVars PROVE IInv'
    OBVIOUS
  <1>1. /\ SummaryTypeOK' /\ OneActiveJobPerDay' /\ CompletedJobHasSummary' /\ JobInv'
        /\ ImportInv' /\ SummaryInv' /\ SnapshotInv' /\ EntriesInv'
    BY TablesKept DEF opsVars, IInv, OpsTypeOK, ReportTypeOK, SummaryTypeOK
  <1> QED BY <1>1 DEF opsVars, IInv, OpsTypeOK, ReportTypeOK, NativeInv

-----------------------------------------------------------------------------
(* Theorems.                                                               *)

\* The tables have their types, an entry of the table has a listed day, a recovered entry is
\* counted by every later summary of its day that no rollback followed, and so on, in every
\* state.
THEOREM OperationsInvHolds == OpsSpec => []IInv
  BY InitInv, NextInv, StutterInv, PTL DEF OpsSpec

\* Whatever polls, faults, deaths and retentions lie between the requests, refreshes of one
\* day never wait twice.
THEOREM OneActiveJobPerDayHolds == OpsSpec => []OneActiveJobPerDay
  <1>1. IInv => OneActiveJobPerDay
    BY DEF IInv
  <1> QED BY <1>1, OperationsInvHolds, PTL

\* A completed job has a summary behind it that is no older than the job, unless a retention
\* took it or a rollback put an older one in its place.
THEOREM CompletedJobHasSummaryHolds == OpsSpec => []CompletedJobHasSummary
  <1>1. IInv => CompletedJobHasSummary
    BY DEF IInv
  <1> QED BY <1>1, OperationsInvHolds, PTL

\* Report, list of stale days, closeout and alert agree on what is fresh.
THEOREM OneVerdictHolds == OpsSpec => []OneVerdict
  <1>1. IInv => OneVerdict
    BY VerdictsAgree DEF IInv, OpsTypeOK, ReportTypeOK
  <1> QED BY <1>1, OperationsInvHolds, PTL

-----------------------------------------------------------------------------
(* The release gate.                                                       *)

\* What drift comes to, whatever the report counts: some recovered entry is of another day,
\* or came over the gateway, or is not summarised, or the day is not.
Scattered(d) ==
    \/ \E i \in Recovered : rows[i].imported = None \/ rows[i].day # d
    \/ Provisional
    \/ ~closeoutSummaryFresh(d)

LEMMA DriftMeans ==
    SummaryTypeOK => \A d \in Day : Drifting(d) <=> Recovered # {} /\ Scattered(d)
  <1> SUFFICES ASSUME SummaryTypeOK, NEW d \in Day, Recovered # {}
               PROVE  DriftIssues(d) # {} <=> Scattered(d)
    BY DEF Drifting
  <1>1. /\ RecoveredIn(d) \subseteq Recovered
        /\ \A i \in Recovered : i \in RecoveredIn(d) <=> rows[i].imported # None /\ rows[i].day = d
    BY DEF Recovered, RecoveredIn, EntriesOf
  <1>2. IsFiniteSet(Recovered)
    <2>1. Recovered \subseteq 1 .. Len(rows) /\ Len(rows) \in Nat
      BY TableTypes DEF SummaryTypeOK, Recovered
    <2>2. IsFiniteSet(1 .. Len(rows))
      BY <2>1, FS_Interval
    <2> QED BY <2>1, <2>2, FS_Subset
  <1>3. /\ IsFiniteSet(RecoveredIn(d))
        /\ Cardinality(Recovered) = Cardinality(RecoveredIn(d)) => Recovered = RecoveredIn(d)
    BY <1>1, <1>2, FS_Subset
  <1>4. Cardinality(RecoveredIn(d)) = 0 <=> RecoveredIn(d) = {}
    BY <1>3, FS_EmptySet
  <1>5. DriftIssuesOfTotals(d) # {} <=> RecoveredIn(d) # Recovered
    BY <1>3, <1>4 DEF DriftIssuesOfTotals
  <1>6. RecoveredIn(d) # Recovered
            <=> \E i \in Recovered : rows[i].imported = None \/ rows[i].day # d
    BY <1>1
  <1>7. DriftIssues(d) # {}
            <=> DriftIssuesOfTotals(d) # {} \/ Provisional \/ ~generatedSummaryFresh(d)
    BY DEF DriftIssues
  <1>8. generatedSummaryFresh(d) <=> closeoutSummaryFresh(d)
    BY FreshIsFresh
  <1> QED BY <1>5, <1>6, <1>7, <1>8 DEF Scattered

\* A green claim counts every recovered entry, but for the one millisecond that times
\* cannot tell apart and what a rollback has put back.
THEOREM GreenCountsEvidenceHolds == OpsSpec => []GreenCountsEvidence
  <1>1. ASSUME IInv PROVE GreenCountsEvidence
    <2> SUFFICES ASSUME NEW d \in Day, ~Drifting(d), NEW i \in Recovered
                 PROVE  LET s == summary[rows[i].day]
                        IN  /\ s # None
                            /\ \/ i \in s.counted
                               \/ s.at = rows[i].imported
                               \/ rows[i].day \in rolledBack
      BY DEF GreenCountsEvidence, ReleaseReady
    <2>1. SummaryTypeOK
      BY <1>1 DEF IInv, OpsTypeOK, ReportTypeOK
    <2>2. ~Provisional /\ rows[i].imported # None
      BY <2>1, DriftMeans DEF Scattered
    <2>3. i \in present /\ i \in DOMAIN rows /\ i \in EntriesOf(rows[i].day) /\ rows[i].day \in Day
      BY <2>1, RowType DEF SummaryTypeOK, Recovered, EntriesOf
    <2>4. /\ summary[rows[i].day] # None
          /\ ~(summary[rows[i].day].at < rows[i].imported)
      BY <2>2, <2>3 DEF Provisional
    <2>5. summary[rows[i].day].at \in Nat /\ rows[i].imported \in Nat
      BY <2>1, <2>2, <2>3, <2>4, TableTypes
    <2>6. summary[rows[i].day].at > rows[i].imported /\ rows[i].day \notin rolledBack
              => i \in summary[rows[i].day].counted
      BY <1>1, <2>2, <2>3, <2>4 DEF IInv, ImportInv
    <2> QED BY <2>4, <2>5, <2>6
  <1> QED BY <1>1, OperationsInvHolds, PTL

\* The facts about times and drift hold after a step as before it.
LEMMA LatestNext ==
    (rows \in Seq(Row))' =>
        (\A S \in SUBSET DOMAIN rows :
            /\ LatestAt(S) \in 0 .. MaxTime
            /\ \A i \in S : rows[i].at <= LatestAt(S)
            /\ LatestAt(S) = 0 \/ \E i \in S : rows[i].at = LatestAt(S))'
  BY LatestIsLatest, PTL

LEMMA DriftMeansNext ==
    SummaryTypeOK' => (\A d \in Day : Drifting(d) <=> Recovered # {} /\ Scattered(d))'
  BY DriftMeans, PTL

\* A drift of the evidence ends only when a summary is written or evidence is withdrawn: a
\* day that loses its entries has no recovered one, so there is one of another day.
LEMMA DriftStays ==
    ASSUME SummaryTypeOK, SummaryTypeOK', EntriesInv, RowsGrow, DaysWhole, ~Withdrawn,
           \A e \in Day : summary'[e] = None \/ summary'[e] = summary[e],
           NEW d \in Day, Drifting(d)
    PROVE  Drifting(d)'
  <1>1. (\A e \in Day : Drifting(e) <=> Recovered # {} /\ Scattered(e))'
    BY DriftMeansNext
  <1>2. Recovered # {} /\ Scattered(d)
    BY DriftMeans
  <1>3. \A i \in Recovered :
            /\ i \in Recovered' /\ i \in present /\ i \in present' /\ i \in DOMAIN rows
            /\ rows[i].imported # None => ~(rows'[i].imported < rows[i].imported)
    BY DEF Withdrawn, Recovered, SummaryTypeOK
  <1>4. /\ \A i \in DOMAIN rows :
              /\ rows[i].at \in Nat /\ rows'[i].at = rows[i].at
              /\ rows[i].day \in Day /\ rows'[i].day = rows[i].day
              /\ rows'[i].imported = None <=> rows[i].imported = None
              /\ rows[i].imported # None =>
                    rows[i].imported \in Nat /\ rows'[i].imported \in Nat
    BY SummaryBounds, RowType DEF SummaryTypeOK, RowsGrow, Import, Time
  <1>5. Recovered' # {}
    BY <1>2, <1>3
  <1>6. ASSUME NEW i \in Recovered, rows[i].imported = None \/ rows[i].day # d
        PROVE  Scattered(d)'
    BY <1>3, <1>4, <1>6 DEF Scattered
  <1>7. ASSUME EntriesOf(d) \cap Recovered = {}
        PROVE  Scattered(d)'
    <2>1. PICK i \in Recovered : TRUE
      BY <1>2
    <2>2. rows[i].day # d
      BY <1>3, <1>7, <2>1 DEF EntriesOf
    <2> QED BY <1>6, <2>2
  <1>8. Scattered(d)'
    <2>1. CASE Provisional
      <3>1. PICK e \in Day : \E i \in EntriesOf(e) :
                /\ rows[i].imported # None
                /\ summary[e] = None \/ summary[e].at < rows[i].imported
        BY <2>1 DEF Provisional
      <3>2. PICK i \in EntriesOf(e) :
                /\ rows[i].imported # None
                /\ summary[e] = None \/ summary[e].at < rows[i].imported
        BY <3>1
      <3>3. i \in Recovered /\ i \in DOMAIN rows /\ rows[i].day = e
        BY <3>2 DEF Recovered, EntriesOf, SummaryTypeOK
      <3>4. /\ i \in EntriesOf(e)' /\ rows'[i].imported # None
            /\ rows[i].imported \in Nat /\ rows'[i].imported \in Nat
            /\ rows'[i].imported >= rows[i].imported
        BY <1>3, <1>4, <3>2, <3>3 DEF EntriesOf
      <3>5. summary'[e] = None \/ summary'[e].at < rows'[i].imported
        BY <3>2, <3>4, TableTypes
      <3>6. Provisional'
        BY <3>4, <3>5 DEF Provisional
      <3> QED BY <3>6 DEF Scattered
    <2>2. CASE ~closeoutSummaryFresh(d)
      <3>1. CASE summary'[d] = None
        BY <3>1 DEF closeoutSummaryFresh, Summarised, Scattered
      <3>2. CASE d \notin listed
        <4>1. EntriesOf(d) = {}
          BY <3>2 DEF EntriesInv, EntriesOf
        <4> QED BY <1>7, <4>1
      <3>3. CASE ~(EntriesOf(d) \subseteq present')
        <4>1. EntriesOf(d) \cap present' = {}
          BY <3>3 DEF DaysWhole
        <4> QED BY <1>3, <1>7, <4>1
      <3>4. CASE summary'[d] # None /\ d \in listed /\ EntriesOf(d) \subseteq present'
        <4>1. summary'[d] = summary[d] /\ summary[d] # None
          BY <3>4
        <4>2. ~(LatestAt(EntriesOf(d)) <= summary[d].at)
          BY <2>2, <3>4, <4>1 DEF closeoutSummaryFresh, Summarised
        <4>3. EntriesOf(d) \in SUBSET DOMAIN rows /\ EntriesOf(d)' \in SUBSET DOMAIN rows'
          BY DEF EntriesOf, SummaryTypeOK
        <4>4. /\ LatestAt(EntriesOf(d)) \in Nat /\ summary[d].at \in Nat
              /\ \/ LatestAt(EntriesOf(d)) = 0
                 \/ \E i \in EntriesOf(d) : rows[i].at = LatestAt(EntriesOf(d))
          BY <4>1, <4>3, SummaryBounds, LatestIsLatest, TableTypes DEF SummaryTypeOK
        <4>5. PICK i \in EntriesOf(d) : rows[i].at > summary[d].at
          BY <4>2, <4>4
        <4>6. (\A S \in SUBSET DOMAIN rows :
                  /\ LatestAt(S) \in 0 .. MaxTime
                  /\ \A k \in S : rows[k].at <= LatestAt(S)
                  /\ LatestAt(S) = 0 \/ \E k \in S : rows[k].at = LatestAt(S))'
          BY LatestNext DEF SummaryTypeOK
        <4>7. LatestAt(EntriesOf(d))' \in Nat
              /\ \A k \in EntriesOf(d)' : rows'[k].at <= LatestAt(EntriesOf(d))'
          BY <4>3, <4>6, SummaryBounds
        <4>8. i \in EntriesOf(d)' /\ rows'[i].at = rows[i].at /\ rows[i].at \in Nat
          BY <1>4, <3>4, <4>3, <4>5 DEF EntriesOf
        <4>9. ~(LatestAt(EntriesOf(d))' <= summary'[d].at)
          BY <4>1, <4>4, <4>5, <4>7, <4>8
        <4> QED BY <4>9 DEF closeoutSummaryFresh, Scattered
      <3> QED BY <3>1, <3>2, <3>3, <3>4
    <2> QED BY <1>2, <1>6, <2>1, <2>2 DEF Scattered
  <1> QED BY <1>1, <1>5, <1>8

\* The time of a receipt is a number.
LEMMA ReceiptTimes ==
    ASSUME IInv
    PROVE  /\ \A r \in verified : r \in VerificationReceipt /\ r.at \in Nat /\ r.command \in Command
           /\ \A r, q \in verified : r.command = q.command /\ r.at = q.at => r = q
  <1>1. /\ verified \subseteq VerificationReceipt
        /\ \A r, q \in verified : r.command = q.command /\ r.at = q.at => r = q
    BY DEF IInv, OpsTypeOK, ReportTypeOK
  <1>2. \A r \in VerificationReceipt : r.at \in Nat /\ r.command \in Command
    BY SummaryBounds DEF VerificationReceipt, Time
  <1> QED BY <1>1, <1>2

\* A command is proven only by a run that passed.
LEMMA ProvenByPass ==
    ASSUME IInv, IInv', OpsNext, \A r \in verified' \ verified : ~r.passed,
           NEW command, Proven(command)'
    PROVE  Proven(command)
  <1>1. /\ \A r \in verified : r.at \in Nat
        /\ now \in Nat /\ (now' = now \/ now' = now + 1)
    BY ReceiptTimes, TableTypes
       DEF IInv, OpsTypeOK, ReportTypeOK, OpsNext, ReportNext, SummaryNext, summaryVars, Tick,
           Start, Record, Backfill, GenerateSummary, CreateSummaryJob, Poll, ApplyRetention,
           RollbackRetention, RecordVerification, RecordDryRun, SelfCheck
  <1>2. PICK r \in verified' : /\ r.command = command /\ r.passed
                               /\ \A q \in verified' : q.command = r.command => q.at <= r.at
                               /\ ~(now' - r.at > StaleAfter)
    BY DEF Proven, ReceiptsOf, IsLatest, Stale
  <1>3. r \in verified
    BY <1>2
  <1>4. ~Stale(r)
    BY <1>1, <1>2, <1>3, ReportBounds DEF Stale
  <1>5. ASSUME NEW q \in verified, q.command = r.command
        PROVE  q.at <= r.at
    <2>1. CASE q \in verified'
      BY <1>2, <1>5, <2>1
    <2>2. CASE q \notin verified'
      <3>1. PICK c \in Command, at \in 1 .. now, passed \in BOOLEAN :
                verified' = OtherReceipts(c, at)
                            \cup {[command |-> c, at |-> at, passed |-> passed]}
        BY <2>2 DEF OpsNext, ReportNext, RecordVerification, RecordDryRun, SelfCheck
      <3>2. q.command = c /\ q.at = at
        BY <2>2, <3>1 DEF OtherReceipts
      <3>3. at <= r.at
        <4>1. [command |-> c, at |-> at, passed |-> passed] \in verified'
          BY <3>1
        <4>2. [command |-> c, at |-> at, passed |-> passed].command = r.command
          BY <1>5, <3>2
        <4> QED BY <1>2, <4>1, <4>2
      <3> QED BY <3>2, <3>3
    <2> QED BY <2>1, <2>2
  <1>6. IsLatest(r)
    BY <1>5 DEF IsLatest, ReceiptsOf
  <1> QED BY <1>2, <1>3, <1>4, <1>6 DEF Proven, ReceiptsOf

\* The gate turns green only on a pass, a delivered dry run, a summary or evidence withdrawn.
THEOREM GreenIsEarnedHolds == OpsSpec => GreenIsEarned
  <1> DEFINE Earned == \A d \in Day : ReleaseReady(d)' /\ ~ReleaseReady(d) =>
                          \/ \E r \in verified' \ verified : r.passed
                          \/ dryRun' /\ ~dryRun
                          \/ \E e \in Day : summary'[e] # None /\ summary'[e] # summary[e]
                          \/ Withdrawn
  <1>1. ASSUME IInv, IInv', OpsNext
        PROVE  Earned
    <2> SUFFICES ASSUME NEW d \in Day, ReleaseReady(d)',
                        \A r \in verified' \ verified : ~r.passed,
                        dryRun' => dryRun, ~Withdrawn,
                        \A e \in Day : summary'[e] = None \/ summary'[e] = summary[e]
                 PROVE  ReleaseReady(d)
      OBVIOUS
    <2>1. dryRun /\ ~Drifting(d)' /\ \A command \in Command : Proven(command)'
      BY DEF ReleaseReady
    <2>2. ~Drifting(d)
      <3>1. SummaryTypeOK /\ SummaryTypeOK' /\ EntriesInv /\ RowsGrow /\ DaysWhole
        BY <1>1, NextInv DEF IInv, OpsTypeOK, ReportTypeOK
      <3> QED BY <2>1, <3>1, DriftStays
    <2>3. \A command \in Command : Proven(command)
      BY <1>1, <2>1, ProvenByPass
    <2> QED BY <2>1, <2>2, <2>3 DEF ReleaseReady
  <1>2. IInv /\ IInv' /\ [OpsNext]_opsVars => [Earned]_reportVars
    BY <1>1 DEF opsVars, reportVars
  <1>3. OpsSpec => [][Earned]_reportVars
    BY <1>2, OperationsInvHolds, PTL DEF OpsSpec
  <1> QED BY <1>3 DEF GreenIsEarned

-----------------------------------------------------------------------------
(* The verdicts beside the gate.                                           *)

\* The worst of some statuses is one of them and no better than any.
LEMMA WorstIsWorst ==
    ASSUME NEW statuses \in SUBSET GateStatus, statuses # {}
    PROVE  /\ worstStatus(statuses) \in statuses
           /\ \A t \in statuses : Severity[t] <= Severity[worstStatus(statuses)]
  <1>1. \E s \in statuses : \A t \in statuses : Severity[t] <= Severity[s]
    <2>1. \A t \in statuses : t \in {"passed", "unknown", "warning", "blocked"}
      BY DEF GateStatus
    <2>2. /\ Severity["passed"] = 0 /\ Severity["unknown"] = 1
          /\ Severity["warning"] = 2 /\ Severity["blocked"] = 3
      BY DEF Severity
    <2>3. CASE "blocked" \in statuses
      BY <2>1, <2>2, <2>3
    <2>4. CASE "blocked" \notin statuses /\ "warning" \in statuses
      BY <2>1, <2>2, <2>4
    <2>5. CASE "blocked" \notin statuses /\ "warning" \notin statuses /\ "unknown" \in statuses
      BY <2>1, <2>2, <2>5
    <2>6. CASE statuses = {"passed"}
      BY <2>2, <2>6
    <2> QED BY <2>1, <2>3, <2>4, <2>5, <2>6
  <1> QED BY <1>1, Zenon DEF worstStatus

\* A gate scores between nothing and a hundred, and nothing only if it is blocked.
LEMMA Scores ==
    ASSUME NEW g
    PROVE  /\ GateScore(g) \in 0 .. 100
           /\ g = "blocked" => GateScore(g) = 0
           /\ g = "passed" => GateScore(g) = 100
           /\ g = "warning" => GateScore(g) = 60
  BY DEF GateScore

\* The rounded average of a sum of six scores.
LEMMA Rounded ==
    ASSUME NEW n \in Nat
    PROVE  /\ n <= 500 => (2 * n + 6) \div (2 * 6) < 85
           /\ n >= 360 => (2 * n + 6) \div (2 * 6) >= 50
  OBVIOUS

\* One blocked gate keeps the center from "ready": the other five cannot make up for it.
LEMMA ReadyHasNoBlockedGate ==
    ASSUME NEW d, NEW replayed, ReadinessLabel(Gates(d, replayed)) = "ready",
           NEW g \in DOMAIN Gates(d, replayed)
    PROVE  Gates(d, replayed)[g] # "blocked"
  <1> DEFINE gates == Gates(d, replayed)
             s1 == GateScore(gates.summary_freshness)
             s2 == GateScore(gates.delivery_dry_runs)
             s3 == GateScore(gates.replay_integrity)
             s4 == GateScore(gates.gateway_readiness)
             s5 == GateScore(gates.desktop_self_check)
             s6 == GateScore(gates.route_budgets)
  <1>1. g \in {"summary_freshness", "delivery_dry_runs", "replay_integrity",
               "gateway_readiness", "desktop_self_check", "route_budgets"}
    BY DEF Gates
  <1>2. /\ s1 \in 0 .. 100 /\ s2 \in 0 .. 100 /\ s3 \in 0 .. 100
        /\ s4 \in 0 .. 100 /\ s5 \in 0 .. 100 /\ s6 \in 0 .. 100
    BY Scores
  <1>3. gates[g] = "blocked" => s1 = 0 \/ s2 = 0 \/ s3 = 0 \/ s4 = 0 \/ s5 = 0 \/ s6 = 0
    BY <1>1, Scores
  <1>4. ReadinessScore(gates) = (2 * (s1 + s2 + s3 + s4 + s5 + s6) + 6) \div (2 * 6)
    BY DEF ReadinessScore
  <1>5. ReadinessScore(gates) >= 85
    BY DEF ReadinessLabel
  <1> HIDE DEF gates, s1, s2, s3, s4, s5, s6
  <1>6. s1 + s2 + s3 + s4 + s5 + s6 \in Nat
    BY <1>2
  <1>7. ~(s1 + s2 + s3 + s4 + s5 + s6 <= 500)
    <2>1. s1 + s2 + s3 + s4 + s5 + s6 <= 500 => ReadinessScore(gates) < 85
      BY <1>4, <1>6, Rounded
    <2>2. ReadinessScore(gates) \in Int
      BY <1>4, <1>6
    <2> QED BY <1>5, <2>1, <2>2
  <1>8. ~(s1 = 0 \/ s2 = 0 \/ s3 = 0 \/ s4 = 0 \/ s5 = 0 \/ s6 = 0)
    BY ONLY <1>2, <1>7
  <1>9. gates[g] # "blocked"
    BY ONLY <1>3, <1>8
  <1> QED BY <1>9 DEF gates

\* The status of a command's receipts, of a self-check and of both together is a gate's.
LEMMA Statuses ==
    ASSUME IInv
    PROVE  /\ \A command : ReceiptStatus(command) \in GateStatus
           /\ DesktopSelfCheck \in GateStatus
           /\ native # None => /\ native.status \in GateStatus
                               /\ native.status = overall_status(native.checks)
                               /\ native.checks \in [CheckId -> CheckStatus]
                               /\ Severity[native.status] <= Severity[DesktopSelfCheck]
  <1>1. \A command : ReceiptStatus(command) \in GateStatus
    BY DEF ReceiptStatus, GateStatus
  <1>2. native # None => /\ native.status \in GateStatus
                         /\ native.status = overall_status(native.checks)
                         /\ native.checks \in [CheckId -> CheckStatus]
    BY DEF IInv, OpsTypeOK, NativeRow, NativeInv
  <1> DEFINE both == {ReceiptStatus(Desktop), IF native = None THEN "unknown" ELSE native.status}
  <1>3. both \in SUBSET GateStatus /\ both # {}
    BY <1>1, <1>2 DEF GateStatus
  <1>4. native # None => native.status \in both
    OBVIOUS
  <1>5. DesktopSelfCheck = worstStatus(both)
    BY DEF DesktopSelfCheck
  <1> HIDE DEF both
  <1>6. /\ worstStatus(both) \in both
        /\ \A t \in both : Severity[t] <= Severity[worstStatus(both)]
    BY <1>3, WorstIsWorst
  <1> QED BY <1>1, <1>2, <1>3, <1>4, <1>5, <1>6

\* The status of a self-check is no better than what one of its checks comes to.
LEMMA OverallIsWorst ==
    ASSUME NEW checks \in [CheckId -> CheckStatus], NEW c \in CheckId
    PROVE  /\ nativeRunnerCheckStatus(checks[c]) \in GateStatus
           /\ Severity[nativeRunnerCheckStatus(checks[c])] <= Severity[overall_status(checks)]
  <1> DEFINE found == {checks[x] : x \in CheckId}
  <1>1. checks[c] \in found /\ checks[c] \in {"ok", "unknown", "degraded", "failed"}
    BY DEF CheckStatus
  <1>2. overall_status(checks) = IF "failed" \in found THEN "blocked"
                                 ELSE IF "degraded" \in found THEN "warning"
                                 ELSE IF found = {"ok"} THEN "passed" ELSE "unknown"
    BY DEF overall_status
  <1>3. /\ Severity["passed"] = 0 /\ Severity["unknown"] = 1
        /\ Severity["warning"] = 2 /\ Severity["blocked"] = 3
    BY DEF Severity
  <1> HIDE DEF found
  <1>4. CASE checks[c] = "ok"
    BY <1>2, <1>3, <1>4 DEF nativeRunnerCheckStatus, GateStatus
  <1>5. CASE checks[c] = "unknown"
    BY <1>1, <1>2, <1>3, <1>5 DEF nativeRunnerCheckStatus, GateStatus
  <1>6. CASE checks[c] = "degraded"
    BY <1>1, <1>2, <1>3, <1>6 DEF nativeRunnerCheckStatus, GateStatus
  <1>7. CASE checks[c] = "failed"
    BY <1>1, <1>2, <1>3, <1>7 DEF nativeRunnerCheckStatus, GateStatus
  <1> QED BY <1>1, <1>4, <1>5, <1>6, <1>7

\* A "ready" center has no blocked gate, and the monitor is no better than any check of the
\* newest self-check: it lists all but one, and that one is in the gate of the desktop.
THEOREM VerdictsHideNothingHolds == OpsSpec => []VerdictsHideNothing
  <1>1. ASSUME IInv PROVE VerdictsHideNothing
    <2>1. ASSUME NEW d \in Day, NEW replayed \in BOOLEAN,
                 ReadinessLabel(Gates(d, replayed)) = "ready",
                 NEW g \in DOMAIN Gates(d, replayed)
          PROVE  Gates(d, replayed)[g] # "blocked"
      BY <2>1, ReadyHasNoBlockedGate
    <2>2. ASSUME native # None, NEW hasBackend \in BOOLEAN, NEW c \in CheckId
          PROVE  Severity[nativeRunnerCheckStatus(native.checks[c])]
                     <= Severity[MonitorStatus(hasBackend)]
      <3> DEFINE monitored == MonitoredChecks
                           \cup {"passed", IF hasBackend THEN "passed" ELSE "warning"}
      <3>1. /\ native.checks \in [CheckId -> CheckStatus]
            /\ native.status = overall_status(native.checks)
            /\ native.status \in GateStatus /\ DesktopSelfCheck \in GateStatus
            /\ ReceiptStatus(Gateway) \in GateStatus
            /\ Severity[native.status] <= Severity[DesktopSelfCheck]
        BY <1>1, <2>2, Statuses
      <3>2. \A x \in CheckId :
                /\ nativeRunnerCheckStatus(native.checks[x]) \in GateStatus
                /\ Severity[nativeRunnerCheckStatus(native.checks[x])] <= Severity[native.status]
        BY <3>1, OverallIsWorst
      <3>3. monitored \in SUBSET GateStatus
        BY <2>2, <3>1, <3>2 DEF MonitoredChecks, GateStatus
      <3>4. /\ DesktopSelfCheck \in monitored
            /\ \A x \in CheckId \ {"gateway_readiness"} :
                  nativeRunnerCheckStatus(native.checks[x]) \in monitored
        BY <2>2 DEF MonitoredChecks
      <3>5. MonitorStatus(hasBackend) = worstStatus(monitored)
        BY DEF MonitorStatus
      <3> HIDE DEF monitored
      <3>6. /\ worstStatus(monitored) \in monitored
            /\ \A t \in monitored : Severity[t] <= Severity[worstStatus(monitored)]
        BY <3>3, <3>4, WorstIsWorst
      <3>7. \A t \in GateStatus : Severity[t] \in Nat
        BY DEF GateStatus, Severity
      <3>8. Severity[DesktopSelfCheck] <= Severity[MonitorStatus(hasBackend)]
        BY <3>4, <3>5, <3>6
      <3>9. Severity[MonitorStatus(hasBackend)] \in Nat
        BY <3>3, <3>5, <3>6, <3>7
      <3> QED BY <3>1, <3>2, <3>7, <3>8, <3>9
    <2> QED BY <2>1, <2>2 DEF VerdictsHideNothing
  <1> QED BY <1>1, OperationsInvHolds, PTL

\* A green claim stands beside a center that is not blocked, gates that have passed and no
\* command that fails still.
THEOREM GreenIsUncontestedHolds == OpsSpec => []GreenIsUncontested
  <1>1. ASSUME IInv, NEW d \in Day, NEW replayed \in BOOLEAN, ReleaseReady(d)
        PROVE  LET gates == Gates(d, replayed)
               IN  /\ gates.delivery_dry_runs = "passed"
                   /\ gates.gateway_readiness = "passed"
                   /\ ReadinessLabel(gates) # "blocked"
                   /\ \A r \in verified : ~StillFailing(r)
                   /\ \A command \in Command : LineageStatus(command) # "still-failing"
    <2> DEFINE gates == Gates(d, replayed)
               s1 == GateScore(gates.summary_freshness)
               s2 == GateScore(gates.delivery_dry_runs)
               s3 == GateScore(gates.replay_integrity)
               s4 == GateScore(gates.gateway_readiness)
               s5 == GateScore(gates.desktop_self_check)
               s6 == GateScore(gates.route_budgets)
    <2>1. dryRun /\ \A command \in Command : Proven(command)
      BY <1>1 DEF ReleaseReady
    <2>2. gates.delivery_dry_runs = "passed"
      BY <2>1 DEF Gates
    <2>3. gates.gateway_readiness = "passed"
      <3>1. Proven(Gateway)
        BY <2>1, OperationsConstants
      <3>2. ReceiptStatus(Gateway) = "passed"
        BY <3>1 DEF Proven, ReceiptStatus
      <3> QED BY <3>2 DEF Gates
    <2>4. ReadinessLabel(gates) # "blocked"
      <3>1. gates.route_budgets = "passed" /\ gates.replay_integrity \in {"passed", "warning"}
        BY DEF Gates
      <3>2. /\ s1 \in 0 .. 100 /\ s2 = 100 /\ s3 \in {60, 100}
            /\ s4 = 100 /\ s5 \in 0 .. 100 /\ s6 = 100
        BY <2>2, <2>3, <3>1, Scores
      <3>3. ReadinessScore(gates) = (2 * (s1 + s2 + s3 + s4 + s5 + s6) + 6) \div (2 * 6)
        BY DEF ReadinessScore
      <3> HIDE DEF gates, s1, s2, s3, s4, s5, s6
      <3>4. s1 + s2 + s3 + s4 + s5 + s6 \in Nat /\ s1 + s2 + s3 + s4 + s5 + s6 >= 360
        BY <3>2
      <3>5. ReadinessScore(gates) >= 50
        BY <3>3, <3>4, Rounded
      <3> QED BY <3>5 DEF ReadinessLabel
    <2>5. ASSUME NEW r \in verified PROVE ~StillFailing(r)
      <3>1. r.command \in Command
        BY <1>1, ReceiptTimes
      <3>2. PICK q \in ReceiptsOf(r.command) : IsLatest(q) /\ q.passed
        BY <2>1, <3>1 DEF Proven
      <3>3. q \in verified /\ q.command = r.command /\ r.at <= q.at
        BY <3>2 DEF ReceiptsOf, IsLatest
      <3>4. ~r.passed => r.at # q.at
        BY <1>1, <3>2, <3>3, ReceiptTimes
      <3>5. ~r.passed => q.at > r.at
        BY <1>1, <3>3, <3>4, ReceiptTimes
      <3> QED BY <3>2, <3>5 DEF StillFailing
    <2>6. ASSUME NEW command \in Command PROVE LineageStatus(command) # "still-failing"
      <3>1. PICK q \in ReceiptsOf(command) : q.passed
        BY <2>1 DEF Proven
      <3>2. q.passed \in {r.passed : r \in ReceiptsOf(command)}
        BY <3>1
      <3>3. {r.passed : r \in ReceiptsOf(command)} # {FALSE}
        BY <3>1, <3>2
      <3> QED BY <3>3 DEF LineageStatus
    <2> QED BY <2>2, <2>3, <2>4, <2>5, <2>6
  <1>2. IInv => GreenIsUncontested
    BY <1>1 DEF GreenIsUncontested
  <1> QED BY <1>2, OperationsInvHolds, PTL
=============================================================================
