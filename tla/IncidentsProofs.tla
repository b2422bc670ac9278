-------------------------- MODULE IncidentsProofs --------------------------
(***************************************************************************)
(* Theorems about Incidents, for every set of days, entries, decisions and *)
(* monitoring files, and every bound.                                      *)
(***************************************************************************)
EXTENDS Incidents, SequenceTheorems, TLAPS

-----------------------------------------------------------------------------
(* The inductive invariant.                                                *)

\* What the request under way relies on: an import has a decision left and what it was
\* asked for; what it saves next goes with rows that are there.
JobInv ==
    job # None =>
        /\ job.step \in {"decide", "packet", "list", "note"} =>
              job.file # <<>> /\ job.at \in Moment /\ job.day \in Day
        /\ job.step \in {"packet", "list", "record"} => job.incident \in DOMAIN incidents
        /\ job.step = "list" =>
              [incident |-> job.incident, decision |-> Head(job.file)] \in packets
        /\ job.step = "record" /\ job.note # 0 =>
              job.note \in DOMAIN notes /\ notes[job.note].incident = job.incident

\* A snapshot bears the day it is named after, and an import that was given the id of a
\* snapshot was given one that is there.
CaptureInv ==
    /\ \A i \in DOMAIN incidents : i[1] = "snapshot" => incidents[i].days = {i[2]}
    /\ job # None /\ job.given # None =>
          (job.given[1] = "snapshot" => job.given \in DOMAIN incidents)

\* Until a request is cut off, an entry that an incident lists is named in the lineage or
\* will be when the request under way is through.
LineageInv ==
    /\ faults <= MaxFaults
    /\ faults = MaxFaults =>
          \A i \in DOMAIN incidents : \A e \in incidents[i].entries \ Sample :
              i \in lineage[e] \/ (job # None /\ e \in job.entries)

IInv == TypeOK /\ JobInv /\ NothingDangles /\ CaptureInv /\ LineageInv

-----------------------------------------------------------------------------
(* Lemmas.                                                                 *)

\* What is left of a request has the type of a job.
LEMMA RestType ==
    ASSUME NEW E \in SUBSET Entry, NEW s \in Step, NEW i \in Id \cup {None}, NEW n \in Nat
    PROVE  Rest(E, s, i, n) \in Job
  <1>1. <<>> \in Seq(Decision)
    OBVIOUS
  <1> QED BY <1>1 DEF Rest, Job

\* The ids of incidents.
LEMMA IdTypes ==
    /\ \A d \in Day, E \in SUBSET Entry : <<"snapshot", d, E>> \in Id
    /\ \A x \in Decision, t \in Moment : <<"import", x, t>> \in Id
    /\ Derived \in Id
  BY DEF Id, Derived

\* A file that still has a decision.
LEMMA FileType ==
    ASSUME NEW f \in Seq(Decision), f # <<>>
    PROVE  Head(f) \in Decision /\ Tail(f) \in Seq(Decision)
  OBVIOUS

\* The state of incidents after one of them is saved.
LEMMA SavedIncident ==
    ASSUME TypeOK, NEW i \in Id, NEW x \in Incident, SaveIncident(i, x)
    PROVE  /\ DOMAIN incidents' = DOMAIN incidents \cup {i}
           /\ DOMAIN incidents' \subseteq Id
           /\ incidents'[i] = x
           /\ \A j \in DOMAIN incidents \ {i} : incidents'[j] = incidents[j]
           /\ \A j \in DOMAIN incidents' : incidents'[j] \in Incident
  BY DEF SaveIncident, TypeOK

\* The state of notes after one more is saved.
LEMMA SavedNote ==
    ASSUME notes \in Seq(Note), NEW d \in Day, NEW i \in Id \cup {None}, SaveNote(d, i)
    PROVE  /\ notes' \in Seq(Note)
           /\ Len(notes) + 1 \in Nat \ {0}
           /\ Len(notes) + 1 \in DOMAIN notes'
           /\ DOMAIN notes \subseteq DOMAIN notes'
           /\ notes'[Len(notes) + 1] = [day |-> d, incident |-> i]
           /\ \A n \in DOMAIN notes : notes'[n] = notes[n]
  <1>1. [day |-> d, incident |-> i] \in Note
    BY DEF Note
  <1> QED BY <1>1 DEF SaveNote

-----------------------------------------------------------------------------
(* The steps.                                                              *)

\* An entry is recorded.
LEMMA AddEntryStep ==
    ASSUME IInv, NEW e \in Entry, AddEntry(e)
    PROVE  IInv'
  <1>1. TypeOK'
    BY RestType DEF IInv, TypeOK, AddEntry, Start, Idle, Step
  <1>2. JobInv'
    BY DEF IInv, JobInv, AddEntry, Start, Idle, Rest
  <1>3. NothingDangles'
    BY DEF IInv, NothingDangles, AddEntry, Start, Idle
  <1>4. CaptureInv'
    BY DEF IInv, CaptureInv, AddEntry, Start, Idle, Rest
  <1>5. LineageInv'
    BY DEF IInv, LineageInv, TypeOK, AddEntry, Start, Idle, Rest
  <1> QED BY <1>1, <1>2, <1>3, <1>4, <1>5 DEF IInv

\* A day is deleted.
LEMMA DeleteDayStep ==
    ASSUME IInv, NEW d \in Day, DeleteDay(d)
    PROVE  IInv'
  <1>1. TypeOK'
    BY DEF IInv, TypeOK, DeleteDay, Idle
  <1>2. JobInv'
    BY DEF IInv, JobInv, DeleteDay, Idle
  <1>3. NothingDangles'
    BY DEF IInv, NothingDangles, DeleteDay, Idle
  <1>4. CaptureInv'
    BY DEF IInv, CaptureInv, DeleteDay, Idle
  <1>5. LineageInv'
    BY DEF IInv, LineageInv, DeleteDay, Idle
  <1> QED BY <1>1, <1>2, <1>3, <1>4, <1>5 DEF IInv

\* A day is brought back.
LEMMA RestoreDayStep ==
    ASSUME IInv, NEW d \in Day, RestoreDay(d)
    PROVE  IInv'
  <1>1. TypeOK'
    BY DEF IInv, TypeOK, RestoreDay, Idle
  <1>2. JobInv'
    BY DEF IInv, JobInv, RestoreDay, Idle
  <1>3. NothingDangles'
    BY DEF IInv, NothingDangles, RestoreDay, Idle
  <1>4. CaptureInv'
    BY DEF IInv, CaptureInv, RestoreDay, Idle
  <1>5. LineageInv'
    BY DEF IInv, LineageInv, RestoreDay, Idle
  <1> QED BY <1>1, <1>2, <1>3, <1>4, <1>5 DEF IInv

\* An incident is captured, perhaps again.
LEMMA CreateIncidentStep ==
    ASSUME IInv, NEW d \in Day, NEW asked \in SUBSET Entry, CreateIncident(d, asked)
    PROVE  IInv'
  <1> DEFINE i == <<"snapshot", d, asked>>
  <1>c. PICK entries \in Selections(d, asked) :
            /\ SaveIncident(i, [days |-> {d}, entries |-> entries, packets |-> {}])
            /\ Start(entries \cap present, "done", i, 0)
    BY DEF CreateIncident
  <1>d. entries \in SUBSET Entry /\ entries \subseteq present \cup Sample
    BY IncidentAssumption DEF IInv, TypeOK, Selections, EntriesOf
  <1> DEFINE x == [days |-> {d}, entries |-> entries, packets |-> {}]
  <1>i. i \in Id /\ i[1] = "snapshot" /\ i[2] = d
    BY IdTypes
  <1>x. /\ x \in Incident
        /\ x.days = {d} /\ x.entries = entries /\ x.packets = {}
    BY <1>d DEF Incident
  <1>s. /\ DOMAIN incidents' = DOMAIN incidents \cup {i}
        /\ DOMAIN incidents' \subseteq Id
        /\ incidents'[i] = x
        /\ \A j \in DOMAIN incidents \ {i} : incidents'[j] = incidents[j]
        /\ \A j \in DOMAIN incidents' : incidents'[j] \in Incident
    BY <1>c, <1>i, <1>x, SavedIncident DEF IInv
  <1>a. /\ job = None
        /\ UNCHANGED <<present, packets, notes, records, lineage, faults>>
    BY DEF CreateIncident, Idle
  <1>r. \/ job' = None /\ x.entries \cap present = {}
        \/ /\ job' \in Job /\ job'.step = "done" /\ job'.given = None
           /\ job'.entries = x.entries \cap present
    <2>1. x.entries \cap present \in SUBSET Entry
      BY DEF IInv, TypeOK
    <2>2. job' = IF x.entries \cap present = {} THEN None
                 ELSE Rest(x.entries \cap present, "done", i, 0)
      BY <1>c, <1>x DEF Start
    <2> QED BY <1>i, <2>1, <2>2, RestType DEF Step, Rest
  <1>e. x.entries \subseteq present \cup Sample
    BY <1>d, <1>x
  <1> HIDE DEF i, x
  <1>1. TypeOK'
    BY <1>i, <1>s, <1>a, <1>r DEF IInv, TypeOK
  <1>2. JobInv'
    BY <1>i, <1>s, <1>a, <1>r DEF IInv, JobInv
  <1>3. NothingDangles'
    BY <1>i, <1>x, <1>s, <1>a DEF IInv, NothingDangles
  <1>4. CaptureInv'
    BY <1>i, <1>x, <1>s, <1>a, <1>r DEF IInv, CaptureInv
  <1>5. LineageInv'
    <2> SUFFICES ASSUME faults = MaxFaults,
                        NEW j \in DOMAIN incidents', NEW e \in incidents'[j].entries \ Sample
                 PROVE  j \in lineage[e] \/ (job' # None /\ e \in job'.entries)
      BY <1>a DEF LineageInv, IInv
    <2>1. CASE j = i
      BY <1>x, <1>s, <1>r, <1>e, <2>1, NoJob
    <2>2. CASE j # i
      BY <1>s, <1>a, <2>2 DEF IInv, LineageInv
    <2> QED BY <2>1, <2>2
  <1> QED BY <1>1, <1>2, <1>3, <1>4, <1>5 DEF IInv

\* A note is saved.
LEMMA AddNoteStep ==
    ASSUME IInv, NEW d \in Day, NEW i \in DOMAIN incidents \cup {Derived, None}, AddNote(d, i)
    PROVE  IInv'
  <1>n. /\ notes' \in Seq(Note)
        /\ DOMAIN notes \subseteq DOMAIN notes'
        /\ \A n \in DOMAIN notes : notes'[n] = notes[n]
    BY IdTypes, SavedNote DEF IInv, TypeOK, AddNote
  <1>1. TypeOK'
    BY <1>n DEF IInv, TypeOK, AddNote, Idle
  <1>2. JobInv'
    BY <1>n DEF IInv, JobInv, AddNote, Idle
  <1>3. NothingDangles'
    BY <1>n DEF IInv, NothingDangles, AddNote, Idle
  <1>4. CaptureInv'
    BY <1>n DEF IInv, CaptureInv, AddNote, Idle
  <1>5. LineageInv'
    BY <1>n DEF IInv, LineageInv, AddNote, Idle
  <1> QED BY <1>1, <1>2, <1>3, <1>4, <1>5 DEF IInv

\* A handoff is delivered.
LEMMA DeliverStep ==
    ASSUME IInv, NEW i \in DOMAIN incidents, Deliver(i)
    PROVE  IInv'
  <1>1. TypeOK'
    BY RestType DEF IInv, TypeOK, Deliver, Idle, Start, Step, EntriesIn, Incident
  <1>2. JobInv'
    BY DEF IInv, JobInv, Deliver, Idle, Start, Rest
  <1>3. NothingDangles'
    BY DEF IInv, NothingDangles, Deliver, Idle, Start
  <1>4. CaptureInv'
    BY DEF IInv, CaptureInv, Deliver, Idle, Start, Rest
  <1>5. LineageInv'
    BY DEF IInv, LineageInv, Deliver, Idle, Start, Rest
  <1> QED BY <1>1, <1>2, <1>3, <1>4, <1>5 DEF IInv

\* An action records itself.
LEMMA LocalActionStep ==
    ASSUME IInv, NEW i \in DOMAIN incidents, LocalAction(i)
    PROVE  IInv'
  <1>1. TypeOK'
    BY RestType DEF IInv, TypeOK, LocalAction, Idle, Start, Step, EntriesIn, Incident
  <1>2. JobInv'
    BY DEF IInv, JobInv, LocalAction, Idle, Start, Rest
  <1>3. NothingDangles'
    BY DEF IInv, NothingDangles, LocalAction, Idle, Start
  <1>4. CaptureInv'
    BY DEF IInv, CaptureInv, LocalAction, Idle, Start, Rest
  <1>5. LineageInv'
    BY DEF IInv, LineageInv, LocalAction, Idle, Start, Rest
  <1> QED BY <1>1, <1>2, <1>3, <1>4, <1>5 DEF IInv

\* An action delivers.
LEMMA DeliverActionStep ==
    ASSUME IInv, NEW i \in DOMAIN incidents, DeliverAction(i)
    PROVE  IInv'
  <1>p. PICK entries \in {EntriesIn(i), {}} : Start(entries, "record", i, 0)
    BY DEF DeliverAction
  <1>r. job' = Rest(entries, "record", i, 0) /\ job' \in Job
    <2>1. entries \in SUBSET Entry /\ i \in Id
      BY DEF IInv, TypeOK, EntriesIn
    <2> QED BY <1>p, <2>1, RestType DEF Start, Step
  <1>a. /\ job = None
        /\ UNCHANGED <<present, incidents, packets, notes, records, lineage, faults>>
    BY DEF DeliverAction, Idle
  <1>1. TypeOK'
    BY <1>r, <1>a DEF IInv, TypeOK
  <1>2. JobInv'
    BY <1>r, <1>a DEF IInv, JobInv, Rest
  <1>3. NothingDangles'
    BY <1>a DEF IInv, NothingDangles
  <1>4. CaptureInv'
    BY <1>r, <1>a DEF IInv, CaptureInv, Rest
  <1>5. LineageInv'
    BY <1>r, <1>a DEF IInv, LineageInv, Rest
  <1> QED BY <1>1, <1>2, <1>3, <1>4, <1>5 DEF IInv

\* A note is saved for an action.
LEMMA NoteActionStep ==
    ASSUME IInv, NEW i \in DOMAIN incidents, NoteAction(i)
    PROVE  IInv'
  <1>n. /\ notes' \in Seq(Note)
        /\ Len(notes) + 1 \in Nat \ {0}
        /\ DOMAIN notes \subseteq DOMAIN notes'
        /\ Len(notes) + 1 \in DOMAIN notes'
        /\ notes'[Len(notes) + 1].incident = i
        /\ \A n \in DOMAIN notes : notes'[n] = notes[n]
    <2>1. PICK d \in incidents[i].days : SaveNote(d, i)
      BY DEF NoteAction
    <2>2. d \in Day /\ i \in Id
      BY DEF IInv, TypeOK, Incident
    <2>3. notes \in Seq(Note)
      BY DEF IInv, TypeOK
    <2>4. [day |-> d, incident |-> i].incident = i /\ i \in Id \cup {None}
      BY <2>2
    <2> QED BY <2>1, <2>2, <2>3, <2>4, SavedNote
  <1>1. TypeOK'
    BY <1>n, RestType DEF IInv, TypeOK, NoteAction, Idle, Start, Step
  <1>2. JobInv'
    BY <1>n DEF IInv, JobInv, NoteAction, Idle, Start, Rest
  <1>3. NothingDangles'
    BY <1>n DEF IInv, NothingDangles, NoteAction, Idle, Start
  <1>4. CaptureInv'
    BY <1>n DEF IInv, CaptureInv, NoteAction, Idle, Start, Rest
  <1>5. LineageInv'
    BY <1>n DEF IInv, LineageInv, NoteAction, Idle, Start, Rest
  <1> QED BY <1>1, <1>2, <1>3, <1>4, <1>5 DEF IInv

\* An import begins.
LEMMA ImportStep ==
    ASSUME IInv, NEW file \in File, NEW d \in Day, NEW at \in Moment,
           NEW given \in DOMAIN incidents \cup {Derived, None},
           ImportMonitoringDecisions(file, d, at, given)
    PROVE  IInv'
  <1>f. file \in Seq(Decision) /\ file # <<>>
    BY IncidentAssumption
  <1>1. TypeOK'
    BY <1>f, IdTypes DEF IInv, TypeOK, ImportMonitoringDecisions, Idle, Step, Job, Rest
  <1>2. JobInv'
    BY <1>f DEF IInv, JobInv, ImportMonitoringDecisions, Idle, Rest
  <1>3. NothingDangles'
    BY DEF IInv, NothingDangles, ImportMonitoringDecisions, Idle
  <1>4. CaptureInv'
    BY DEF IInv, CaptureInv, ImportMonitoringDecisions, Idle, Rest, Derived
  <1>5. LineageInv'
    BY DEF IInv, LineageInv, ImportMonitoringDecisions, Idle, Rest
  <1> QED BY <1>1, <1>2, <1>3, <1>4, <1>5 DEF IInv

\* The lineage of an entry is written.
LEMMA SyncLineageStep ==
    ASSUME IInv, SyncLineage
    PROVE  IInv'
  <1>j. job \in Job /\ job # None
    BY DEF IInv, TypeOK, SyncLineage, Idle
  <1>e. PICK e \in job.entries :
           /\ lineage' = [lineage EXCEPT ![e] = Synced(e)]
           /\ IF job.entries = {e} THEN Continue(job.step)
              ELSE job' = [job EXCEPT !.entries = @ \ {e}]
           /\ UNCHANGED <<present, incidents, packets, notes, records, faults>>
    BY DEF SyncLineage
  <1>l. /\ e \in Entry /\ Synced(e) \in SUBSET Id
        /\ \A i \in DOMAIN incidents : e \in incidents[i].entries => i \in Synced(e)
    BY <1>j, <1>e, IdTypes DEF IInv, TypeOK, Job, Synced, IncidentsOf
  <1>n. \/ job' = None /\ job.entries = {e}
        \/ /\ job' \in Job /\ job'.entries = job.entries \ {e}
           /\ job'.step = job.step /\ job'.incident = job.incident /\ job'.note = job.note
           /\ job'.file = job.file /\ job'.given = job.given /\ job'.at = job.at
           /\ job'.day = job.day
    BY <1>j, <1>e DEF Continue, Job
  <1>1. TypeOK'
    BY <1>e, <1>l, <1>n DEF IInv, TypeOK, Step, Job
  <1>2. JobInv'
    BY <1>j, <1>e, <1>n DEF IInv, JobInv
  <1>3. NothingDangles'
    BY DEF IInv, NothingDangles, SyncLineage, Idle, Continue
  <1>4. CaptureInv'
    BY <1>j, <1>e, <1>n DEF IInv, CaptureInv
  <1>5. LineageInv'
    BY <1>j, <1>e, <1>l, <1>n, NoJob DEF IInv, LineageInv, TypeOK
  <1> QED BY <1>1, <1>2, <1>3, <1>4, <1>5 DEF IInv

\* An action is recorded.
LEMMA SaveRecordStep ==
    ASSUME IInv, SaveIncidentActionRecord
    PROVE  IInv'
  <1>1. TypeOK'
    BY DEF IInv, TypeOK, SaveIncidentActionRecord, Doing, Idle, Continue, JobInv, Record, Job
  <1>2. JobInv'
    BY DEF IInv, JobInv, SaveIncidentActionRecord, Doing, Idle, Continue
  <1>3. NothingDangles'
    BY DEF IInv, NothingDangles, SaveIncidentActionRecord, Doing, Idle, Continue, JobInv
  <1>4. CaptureInv'
    BY DEF IInv, CaptureInv, SaveIncidentActionRecord, Doing, Idle, Continue
  <1>5. LineageInv'
    BY DEF IInv, LineageInv, TypeOK, SaveIncidentActionRecord, Doing, Idle, Continue
  <1> QED BY <1>1, <1>2, <1>3, <1>4, <1>5 DEF IInv

\* The incident of a decision is persisted.
LEMMA PersistIncidentStep ==
    ASSUME IInv, PersistIncident
    PROVE  IInv'
  <1>j. /\ job \in Job /\ job.step = "decide" /\ job.entries = {}
        /\ job.at \in Moment /\ job.day \in Day
        /\ job.file \in Seq(Decision) /\ job.file # <<>>
    BY DEF IInv, TypeOK, JobInv, Job, PersistIncident, Doing, Idle
  <1> DEFINE i == IncidentFor(Head(job.file))
             x == [days |-> {job.day}, entries |-> {}, packets |-> {}]
  <1>i. i \in Id
    BY <1>j, FileType, IdTypes DEF IncidentFor, Job
  <1>x. x \in Incident /\ x.entries = {} /\ x.packets = {}
    BY <1>j DEF Incident
  <1>k. Kept(i) => i \in DOMAIN incidents /\ incidents' = incidents
    BY DEF Kept, PersistIncident
  <1>n. ~Kept(i) =>
        /\ DOMAIN incidents' = DOMAIN incidents \cup {i}
        /\ DOMAIN incidents' \subseteq Id
        /\ incidents'[i] = x
        /\ \A j \in DOMAIN incidents \ {i} : incidents'[j] = incidents[j]
        /\ \A j \in DOMAIN incidents' : incidents'[j] \in Incident
    BY <1>i, <1>x, SavedIncident DEF IInv, PersistIncident
  <1>c. ~Kept(i) => i[1] # "snapshot"
    BY DEF Kept, IncidentFor, IInv, CaptureInv, PersistIncident, Doing, Idle
  <1>a. /\ job' \in Job /\ job'.step = "packet" /\ job'.incident = i
        /\ job'.file = job.file /\ job'.at = job.at /\ job'.day = job.day
        /\ job'.given = job.given /\ job'.entries = {} /\ job # None
        /\ UNCHANGED <<present, packets, notes, records, lineage, faults>>
    BY <1>i, <1>j DEF PersistIncident, Job, Step, Doing, Idle
  <1> HIDE DEF i, x
  <1>1. TypeOK'
    BY <1>i, <1>k, <1>n, <1>a DEF IInv, TypeOK
  <1>2. JobInv'
    BY <1>j, <1>k, <1>n, <1>a DEF IInv, JobInv
  <1>3. NothingDangles'
    BY <1>x, <1>k, <1>n, <1>a DEF IInv, NothingDangles
  <1>4. CaptureInv'
    BY <1>x, <1>k, <1>n, <1>c, <1>a DEF IInv, CaptureInv
  <1>5. LineageInv'
    BY <1>j, <1>x, <1>k, <1>n, <1>a DEF IInv, LineageInv
  <1> QED BY <1>1, <1>2, <1>3, <1>4, <1>5 DEF IInv

\* A decision is only noted.
LEMMA NoteDecisionStep ==
    ASSUME IInv, NoteDecision
    PROVE  IInv'
  <1>1. TypeOK'
    BY DEF IInv, TypeOK, NoteDecision, Doing, Idle, Job, Step
  <1>2. JobInv'
    BY DEF IInv, JobInv, TypeOK, NoteDecision, Doing, Idle, Job
  <1>3. NothingDangles'
    BY DEF IInv, NothingDangles, NoteDecision, Doing, Idle
  <1>4. CaptureInv'
    BY DEF IInv, CaptureInv, TypeOK, NoteDecision, Doing, Idle, Job
  <1>5. LineageInv'
    BY DEF IInv, LineageInv, TypeOK, NoteDecision, Doing, Idle, Job
  <1> QED BY <1>1, <1>2, <1>3, <1>4, <1>5 DEF IInv

\* A packet is written.
LEMMA SavePacketStep ==
    ASSUME IInv, SavePacket
    PROVE  IInv'
  <1>j. /\ job \in Job /\ job.step = "packet" /\ job.incident \in DOMAIN incidents
        /\ job.file \in Seq(Decision) /\ job.file # <<>>
    BY DEF IInv, TypeOK, JobInv, Job, SavePacket, Doing, Idle
  <1>p. [incident |-> job.incident, decision |-> Head(job.file)] \in Packet
    BY <1>j, FileType DEF Packet, IInv, TypeOK
  <1>1. TypeOK'
    BY <1>j, <1>p DEF IInv, TypeOK, SavePacket, Doing, Idle, Job, Step
  <1>2. JobInv'
    BY <1>j DEF IInv, JobInv, TypeOK, SavePacket, Doing, Idle, Job
  <1>3. NothingDangles'
    BY <1>j DEF IInv, NothingDangles, SavePacket, Doing, Idle
  <1>4. CaptureInv'
    BY <1>j DEF IInv, CaptureInv, TypeOK, SavePacket, Doing, Idle, Job
  <1>5. LineageInv'
    BY <1>j DEF IInv, LineageInv, TypeOK, SavePacket, Doing, Idle, Job
  <1> QED BY <1>1, <1>2, <1>3, <1>4, <1>5 DEF IInv

\* The packet is listed.
LEMMA ListPacketStep ==
    ASSUME IInv, ListPacket
    PROVE  IInv'
  <1> DEFINE i == job.incident
             x == [incidents[i] EXCEPT !.packets = @ \cup {Head(job.file)}]
  <1>j. /\ job \in Job /\ job.step = "list" /\ i \in DOMAIN incidents /\ i \in Id
        /\ job.file \in Seq(Decision) /\ job.file # <<>> /\ Head(job.file) \in Decision
        /\ [incident |-> i, decision |-> Head(job.file)] \in packets
    BY FileType DEF IInv, TypeOK, JobInv, Job, ListPacket, Doing, Idle
  <1>x. /\ x \in Incident /\ x.days = incidents[i].days /\ x.entries = incidents[i].entries
        /\ x.packets = incidents[i].packets \cup {Head(job.file)}
    BY <1>j DEF Incident, IInv, TypeOK
  <1>s. /\ DOMAIN incidents' = DOMAIN incidents
        /\ incidents'[i] = x
        /\ \A j \in DOMAIN incidents \ {i} : incidents'[j] = incidents[j]
        /\ \A j \in DOMAIN incidents' : incidents'[j] \in Incident
    BY <1>j, <1>x, SavedIncident DEF IInv, ListPacket
  <1> HIDE DEF x
  <1>1. TypeOK'
    BY <1>j, <1>x, <1>s DEF IInv, TypeOK, ListPacket, Doing, Idle, Job, Step, Incident, EntriesIn
  <1>2. JobInv'
    BY <1>j, <1>x, <1>s DEF IInv, JobInv, TypeOK, ListPacket, Doing, Idle, Job
  <1>3. NothingDangles'
    BY <1>j, <1>x, <1>s DEF IInv, NothingDangles, ListPacket, Doing, Idle
  <1>4. CaptureInv'
    BY <1>j, <1>x, <1>s DEF IInv, CaptureInv, TypeOK, ListPacket, Doing, Idle, Job
  <1>5. LineageInv'
    BY <1>j, <1>x, <1>s DEF IInv, LineageInv, TypeOK, ListPacket, Doing, Idle, Job
  <1> QED BY <1>1, <1>2, <1>3, <1>4, <1>5 DEF IInv

\* The note of a decision is saved.
LEMMA SaveDecisionNoteStep ==
    ASSUME IInv, SaveDecisionNote
    PROVE  IInv'
  <1>j. /\ job \in Job /\ job.step = "note" /\ job.entries = {} /\ job.day \in Day
        /\ job.at \in Moment /\ job.file \in Seq(Decision) /\ job.file # <<>>
        /\ job.incident \in Id \cup {None}
    BY DEF IInv, TypeOK, JobInv, Job, SaveDecisionNote, Doing, Idle
  <1>n. /\ notes' \in Seq(Note)
        /\ DOMAIN notes \subseteq DOMAIN notes'
        /\ \A n \in DOMAIN notes : notes'[n] = notes[n]
    BY <1>j, SavedNote DEF IInv, TypeOK, SaveDecisionNote
  <1>1. TypeOK'
    BY <1>j, <1>n, FileType DEF IInv, TypeOK, SaveDecisionNote, Doing, Idle, Job, Step
  <1>2. JobInv'
    BY <1>j, <1>n DEF IInv, JobInv, TypeOK, SaveDecisionNote, Doing, Idle, Job
  <1>3. NothingDangles'
    BY <1>n DEF IInv, NothingDangles, SaveDecisionNote, Doing, Idle
  <1>4. CaptureInv'
    BY <1>j, <1>n DEF IInv, CaptureInv, TypeOK, SaveDecisionNote, Doing, Idle, Job
  <1>5. LineageInv'
    BY <1>j, <1>n DEF IInv, LineageInv, TypeOK, SaveDecisionNote, Doing, Idle, Job
  <1> QED BY <1>1, <1>2, <1>3, <1>4, <1>5 DEF IInv

\* A statement fails.
LEMMA StatementFailsStep ==
    ASSUME IInv, StatementFails
    PROVE  IInv'
  <1>1. TypeOK'
    BY DEF IInv, TypeOK, StatementFails, Idle
  <1>2. JobInv'
    BY DEF IInv, JobInv, StatementFails, Idle
  <1>3. NothingDangles'
    BY DEF IInv, NothingDangles, StatementFails, Idle
  <1>4. CaptureInv'
    BY DEF IInv, CaptureInv, StatementFails, Idle
  <1>5. LineageInv'
    BY IncidentAssumption DEF IInv, LineageInv, TypeOK, StatementFails, Idle
  <1> QED BY <1>1, <1>2, <1>3, <1>4, <1>5 DEF IInv

\* The process starts anew.
LEMMA RestartStep ==
    ASSUME IInv, Restart
    PROVE  IInv'
  <1>1. TypeOK'
    BY IncidentAssumption DEF IInv, TypeOK, Restart, Idle
  <1>2. JobInv'
    BY DEF IInv, JobInv, Restart, Idle
  <1>3. NothingDangles'
    BY DEF IInv, NothingDangles, Restart, Idle
  <1>4. CaptureInv'
    BY DEF IInv, CaptureInv, Restart, Idle
  <1>5. LineageInv'
    BY IncidentAssumption DEF IInv, LineageInv, TypeOK, Restart, Idle
  <1> QED BY <1>1, <1>2, <1>3, <1>4, <1>5 DEF IInv

\* The invariant holds at first ...
LEMMA InitInv == Init => IInv
  <1> SUFFICES ASSUME Init PROVE IInv
    OBVIOUS
  <1>1. TypeOK
    <2>1. <<>> \in Seq(Note) /\ present \subseteq Entry /\ MaxFaults \in Nat
      BY IncidentAssumption DEF Init
    <2> QED BY <2>1 DEF Init, TypeOK
  <1>2. JobInv /\ NothingDangles /\ CaptureInv
    BY DEF Init, JobInv, NothingDangles, CaptureInv
  <1>3. LineageInv
    BY IncidentAssumption DEF Init, LineageInv
  <1> QED BY <1>1, <1>2, <1>3 DEF IInv

\* ... and every step keeps it.
LEMMA NextInv == IInv /\ [Next]_vars => IInv'
  <1> SUFFICES ASSUME IInv, [Next]_vars PROVE IInv'
    OBVIOUS
  <1>1. CASE \E e \in Entry : AddEntry(e)
    BY <1>1, AddEntryStep
  <1>2. CASE \E d \in Day : DeleteDay(d) \/ RestoreDay(d)
    BY <1>2, DeleteDayStep, RestoreDayStep
  <1>3. CASE \E d \in Day, asked \in SUBSET Entry : CreateIncident(d, asked)
    BY <1>3, CreateIncidentStep
  <1>4. CASE \E d \in Day, i \in DOMAIN incidents \cup {Derived, None} : AddNote(d, i)
    BY <1>4, AddNoteStep
  <1>5. CASE \E i \in DOMAIN incidents :
                 Deliver(i) \/ LocalAction(i) \/ DeliverAction(i) \/ NoteAction(i)
    BY <1>5, DeliverStep, LocalActionStep, DeliverActionStep, NoteActionStep
  <1>6. CASE \E file \in File, d \in Day, at \in Moment,
                given \in DOMAIN incidents \cup {Derived, None} :
                    ImportMonitoringDecisions(file, d, at, given)
    BY <1>6, ImportStep
  <1>7. CASE SyncLineage \/ SaveIncidentActionRecord
    BY <1>7, SyncLineageStep, SaveRecordStep
  <1>8. CASE PersistIncident \/ NoteDecision \/ SavePacket \/ ListPacket \/ SaveDecisionNote
    BY <1>8, PersistIncidentStep, NoteDecisionStep, SavePacketStep, ListPacketStep,
       SaveDecisionNoteStep
  <1>9. CASE StatementFails \/ Restart
    BY <1>9, StatementFailsStep, RestartStep
  <1>10. CASE UNCHANGED vars
    BY <1>10 DEF vars, IInv, TypeOK, JobInv, NothingDangles, CaptureInv, LineageInv
  <1> QED BY <1>1, <1>2, <1>3, <1>4, <1>5, <1>6, <1>7, <1>8, <1>9, <1>10 DEF Next

\* No step removes an incident.
LEMMA IncidentsStay == [Next]_vars => DOMAIN incidents \subseteq DOMAIN incidents'
  <1> SUFFICES ASSUME [Next]_vars PROVE DOMAIN incidents \subseteq DOMAIN incidents'
    OBVIOUS
  <1>1. ASSUME NEW i, NEW x, SaveIncident(i, x)
        PROVE  DOMAIN incidents \subseteq DOMAIN incidents'
    BY <1>1 DEF SaveIncident
  <1>2. CASE \E d \in Day, asked \in SUBSET Entry : CreateIncident(d, asked)
    BY <1>1, <1>2 DEF CreateIncident
  <1>3. CASE PersistIncident
    BY <1>1, <1>3 DEF PersistIncident
  <1>4. CASE ListPacket
    BY <1>1, <1>4 DEF ListPacket
  <1>5. CASE UNCHANGED incidents
    BY <1>5
  <1> QED BY <1>2, <1>3, <1>4, <1>5
          DEF Next, vars, AddEntry, DeleteDay, RestoreDay, AddNote, Deliver, LocalAction,
              DeliverAction, NoteAction, ImportMonitoringDecisions, SyncLineage,
              SaveIncidentActionRecord, NoteDecision, SavePacket, SaveDecisionNote,
              StatementFails, Restart

-----------------------------------------------------------------------------
(* Theorems.                                                               *)

\* The inductive invariant about rows, the request under way and lineage.
THEOREM IncidentInvHolds == Spec => []IInv
  BY InitInv, NextInv, PTL DEF Spec

\* All tables keep their types.
THEOREM TypeCorrect == Spec => []TypeOK
  <1>1. IInv => TypeOK
    BY DEF IInv
  <1> QED BY IncidentInvHolds, <1>1, PTL

\* No packet, listed packet or action record ever points to a row that is not there,
\* between whichever statements a request is cut off (executeIncidentAction,
\* saveIncidentHandoffPacket).
THEOREM NothingDanglesHolds == Spec => []NothingDangles
  <1>1. IInv => NothingDangles
    BY DEF IInv
  <1> QED BY IncidentInvHolds, <1>1, PTL

\* As long as no request was cut off, the lineage of an entry names every incident that
\* lists it, though perhaps also one that no longer does (syncLineageForIncident,
\* syncLineageForEntry).
THEOREM LineageNamesIncidentsHolds == Spec => []LineageNamesIncidents
  <1>1. IInv => LineageNamesIncidents
    BY DEF IInv, LineageInv, LineageNamesIncidents, Idle
  <1> QED BY IncidentInvHolds, <1>1, PTL

\* The row of an incident captured by an operator is never removed and never moved to another
\* day; its entries and packets are those of the last capture (persistIncident).
THEOREM CapturedDayStaysHolds == Spec => CapturedDayStays
  <1> DEFINE A == \A i \in DOMAIN incidents : i[1] = "snapshot" =>
                      i \in DOMAIN incidents' /\ incidents'[i].days = incidents[i].days
  <1>1. IInv /\ IInv' /\ [Next]_vars => [A]_vars
    BY IncidentsStay DEF IInv, CaptureInv
  <1> QED BY IncidentInvHolds, <1>1, PTL DEF Spec, CapturedDayStays
=============================================================================
