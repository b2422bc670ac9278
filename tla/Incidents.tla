----------------------------- MODULE Incidents -----------------------------
(***************************************************************************)
(* Incidents, their notes, handoff packets and action records, and the     *)
(* lineage rows that tell which incidents an entry belongs to: incident    *)
(* mode, incident actions, investigation notes, the import of monitoring   *)
(* decisions and recorded entries, as apps/api/src/repository.ts keeps     *)
(* them for packages/app/src/incident-loop.ts and monitoring-import.ts.    *)
(*                                                                         *)
(* Every table is written by itself, and nothing but the order of the      *)
(* statements holds them together.  A handler runs to its end in one       *)
(* macrotask: `job` is what is left of it, and between two of its          *)
(* statements one may fail or the process die.                             *)
(*                                                                         *)
(* Left out: titles, bodies and the audit log; the receipt of a delivery   *)
(* (Delivery); the summary that refresh_summary writes and the pinned      *)
(* context an import ends with (SummaryJobs, JournalStore); plugin runs;   *)
(* and the capability gate, which only refuses requests.                   *)
(***************************************************************************)
EXTENDS Naturals, Sequences, FiniteSets

CONSTANTS
    Day,          \* day keys
    Entry,        \* entries of the journal
    EntryDay,     \* the day of an entry
    Important,    \* the entries that incidents are derived from
    Sample,       \* the entries of sampleJournalDay
    Decision,     \* decision lines of monitoring files
    Handoff,      \* the decisions whose disposition is incident_handoff
    File,         \* monitoring files: sequences of decisions
    Moment,       \* values of importedAt
    MaxIncidents, \* bound: incidents stored
    MaxNotes,     \* bound: notes saved
    MaxRecords,   \* bound: action records kept
    MaxFaults,    \* bound: statements that fail, and deaths of the process
    None

ASSUME IncidentAssumption ==
    /\ EntryDay \in [Entry -> Day] /\ Important \subseteq Entry /\ Sample \subseteq Entry
    /\ Handoff \subseteq Decision /\ File \subseteq Seq(Decision) \ {<<>>}
    /\ MaxIncidents \in Nat /\ MaxNotes \in Nat /\ MaxRecords \in Nat /\ MaxFaults \in Nat

VARIABLES
    present,      \* the entries in the journal
    incidents,    \* journal_incidents, by id
    packets,      \* journal_incident_handoff_packets
    notes,        \* journal_investigation_notes, in the order they were saved
    records,      \* journal_incident_action_records
    lineage,      \* journal_lineage: the incidents an entry is said to belong to
    job,          \* what is left of the request under way
    faults        \* faults left in the budget

vars == <<present, incidents, packets, notes, records, lineage, job, faults>>

Derived == <<"incident-derived-1">>

\* Derived stands for every id that a client may send though nothing is stored under it.
\* A snapshot is named after its day and the entries asked for, an imported incident after
\* its decision and the time of the import.
Id == ({"snapshot"} \X Day \X SUBSET Entry) \cup ({"import"} \X Decision \X Moment)
      \cup {Derived}

Incident == [days : SUBSET Day, entries : SUBSET Entry, packets : SUBSET Decision]

\* The id of a packet is made of its incident and its decision.
Packet == [incident : Id, decision : Decision]

Note == [day : Day, incident : Id \cup {None}]

\* note is the place of the note that a save_note or a record_closeout has saved.
Record == [incident : Id, note : Nat]

Step == {"decide", "packet", "list", "note", "record", "done"}

\* step comes once the lineage of `entries` is written; file is what is left of an import.
Job == [step : Step, entries : SUBSET Entry, incident : Id \cup {None}, note : Nat,
        file : Seq(Decision), given : Id \cup {None}, at : Moment \cup {None}, day : Day \cup {None}]

ASSUME NoJob == None \notin Job

TypeOK ==
    /\ present \subseteq Entry
    /\ DOMAIN incidents \subseteq Id
    /\ \A i \in DOMAIN incidents : incidents[i] \in Incident
    /\ packets \subseteq Packet
    /\ notes \in Seq(Note)
    /\ records \subseteq Record
    /\ lineage \in [Entry -> SUBSET Id]
    /\ job \in Job \cup {None}
    /\ faults \in Nat

\* createSqliteRepository writes the sample day, and no lineage.
Init ==
    /\ present = Sample /\ packets = {} /\ records = {}
    /\ incidents = [i \in {} |-> None]
    /\ notes = <<>>
    /\ lineage = [e \in Entry |-> {}]
    /\ job = None
    /\ faults = MaxFaults

-----------------------------------------------------------------------------
(* Helpers.                                                                *)

Idle == job = None

\* The job goes on with step s, if there is one.
Continue(s) == job' = IF s = "done" THEN None ELSE [job EXCEPT !.step = s, !.entries = {}]

\* A request that has only the lineage of `entries` and then step s left.
Rest(entries, s, i, n) ==
    [step |-> s, entries |-> entries, incident |-> i, note |-> n,
     file |-> <<>>, given |-> None, at |-> None, day |-> None]

Start(entries, s, i, n) ==
    job' = IF entries = {} /\ s = "done" THEN None ELSE Rest(entries, s, i, n)

EntriesOf(d) == {e \in present : EntryDay[e] = d}

\* The incidents of listIncidents that list entry e: one is derived from the entries only
\* as long as none is stored.
IncidentsOf(e) ==
    IF DOMAIN incidents # {} THEN {i \in DOMAIN incidents : e \in incidents[i].entries}
    ELSE IF e \in Important \cap present THEN {Derived} ELSE {}

\* The entries whose lineage syncLineageForIncident writes.
EntriesIn(i) == IF i \in DOMAIN incidents THEN incidents[i].entries \cap present ELSE {}

\* The row that saveIncident writes; what comes next is the lineage of its entries.
SaveIncident(i, incident) ==
    /\ Cardinality(DOMAIN incidents \cup {i}) <= MaxIncidents
    /\ incidents' = [j \in DOMAIN incidents \cup {i} |->
                        IF j = i THEN incident ELSE incidents[j]]

SaveNote(d, i) ==
    /\ Len(notes) < MaxNotes
    /\ notes' = Append(notes, [day |-> d, incident |-> i])

-----------------------------------------------------------------------------
(* Requests.                                                               *)

\* addEntry and addEntries; what they do to days is JournalStore.
AddEntry(e) ==
    /\ Idle
    /\ present' = present \cup {e}
    /\ Start({e}, "done", None, 0)
    /\ UNCHANGED <<incidents, packets, notes, records, lineage, faults>>

\* applyRetention deletes the entries of a day, but no incident and no lineage.
DeleteDay(d) ==
    /\ Idle
    /\ present' = present \ EntriesOf(d)
    /\ UNCHANGED <<incidents, packets, notes, records, lineage, job, faults>>

\* rollbackRetention brings entries of a day back without writing their lineage.
RestoreDay(d) ==
    /\ Idle
    /\ \E E \in SUBSET {e \in Entry : EntryDay[e] = d /\ (lineage[e] # {} \/ e \in Sample)} :
           present' = present \cup E
    /\ UNCHANGED <<incidents, packets, notes, records, lineage, job, faults>>

\* The entries that buildIncidentSnapshot may select: those of the day or, if it is not
\* there, of the sample day.  A day without entries may still be there (JournalStore).
Selections(d, asked) ==
    {asked \cap EntriesOf(d)} \cup {asked \cap S : S \in IF EntriesOf(d) = {} THEN {Sample} ELSE {}}

\* POST /api/incident-mode.
CreateIncident(d, asked) ==
    /\ Idle
    /\ \E entries \in Selections(d, asked) :
        LET i == <<"snapshot", d, asked>>
        IN  /\ SaveIncident(i, [days |-> {d}, entries |-> entries, packets |-> {}])
            /\ Start(entries \cap present, "done", i, 0)
    /\ UNCHANGED <<present, packets, notes, records, lineage, faults>>

\* POST /api/investigation-notes, for an incident that nobody looks up.
AddNote(d, i) ==
    /\ Idle
    /\ SaveNote(d, i)
    /\ UNCHANGED <<present, incidents, packets, records, lineage, job, faults>>

\* deliverIntegration or createGithubIssue of an incident, outside its actions.  One that is
\* answered with an earlier receipt, and a dry run, change nothing here.
Deliver(i) ==
    /\ Idle
    /\ Start(EntriesIn(i), "done", i, 0)
    /\ UNCHANGED <<present, incidents, packets, notes, records, lineage, faults>>

\* executeIncidentAction: the actions that do nothing but record themselves, ...
LocalAction(i) ==
    /\ Idle /\ i \in DOMAIN incidents
    /\ Start({}, "record", i, 0)
    /\ UNCHANGED <<present, incidents, packets, notes, records, lineage, faults>>

\* ... those that deliver, perhaps what was delivered before, ...
DeliverAction(i) ==
    /\ Idle /\ i \in DOMAIN incidents
    /\ \E entries \in {EntriesIn(i), {}} : Start(entries, "record", i, 0)
    /\ UNCHANGED <<present, incidents, packets, notes, records, lineage, faults>>

\* Mutant of NoteAction: the note is recorded before it is saved.
NoteRecorded(i) ==
    /\ Idle /\ i \in DOMAIN incidents
    /\ records' = records \cup {[incident |-> i, note |-> Len(notes) + 1]}
    /\ \E d \in incidents[i].days : SaveNote(d, i) \/ UNCHANGED notes
    /\ UNCHANGED <<present, incidents, packets, lineage, job, faults>>

\* ... and save_note and record_closeout.
NoteAction(i) ==
    /\ Idle /\ i \in DOMAIN incidents
    /\ \E d \in incidents[i].days : SaveNote(d, i)
    /\ Start({}, "record", i, Len(notes) + 1)
    /\ UNCHANGED <<present, incidents, packets, records, lineage, faults>>

\* POST /api/monitoring-imports, with or without an incident id and a time of its own.
ImportMonitoringDecisions(file, d, at, given) ==
    /\ Idle
    /\ job' = [Rest({}, "decide", None, 0)
                  EXCEPT !.file = file, !.given = given, !.at = at, !.day = d]
    /\ UNCHANGED <<present, incidents, packets, notes, records, lineage, faults>>

-----------------------------------------------------------------------------
(* The statements after the first.                                         *)

Doing(s) == ~Idle /\ job.step = s /\ job.entries = {}

\* Mutant of Synced: the entry is given the incident under way only.
SyncedAlone(e) == IF job.incident = None THEN {} ELSE {job.incident}

Synced(e) == IncidentsOf(e)

\* syncLineageForEntry, for the entries of an incident in an order that is left open.
SyncLineage ==
    /\ ~Idle
    /\ \E e \in job.entries :
        /\ lineage' = [lineage EXCEPT ![e] = Synced(e)]
        /\ IF job.entries = {e} THEN Continue(job.step)
           ELSE job' = [job EXCEPT !.entries = @ \ {e}]
    /\ UNCHANGED <<present, incidents, packets, notes, records, faults>>

SaveIncidentActionRecord ==
    /\ Doing("record")
    /\ Cardinality(records) < MaxRecords
    /\ records' = records \cup {[incident |-> job.incident, note |-> job.note]}
    /\ Continue("done")
    /\ UNCHANGED <<present, incidents, packets, notes, lineage, faults>>

\* The incident a decision is handed off to.
IncidentFor(x) == IF job.given # None THEN job.given ELSE <<"import", x, job.at>>

\* Mutant of Kept: the incident whose id was given is not looked up.
KeptNever(i) == FALSE

Kept(i) == job.given # None /\ i \in DOMAIN incidents

\* persistIncident.  A new incident has no entries, so there is no lineage to write.
PersistIncident ==
    /\ Doing("decide")
    /\ Head(job.file) \in Handoff
    /\ LET i == IncidentFor(Head(job.file))
       IN  /\ IF Kept(i) THEN UNCHANGED incidents
              ELSE SaveIncident(i, [days |-> {job.day}, entries |-> {}, packets |-> {}])
           /\ job' = [job EXCEPT !.step = "packet", !.incident = i]
    /\ UNCHANGED <<present, packets, notes, records, lineage, faults>>

\* A decision that is only noted, under the id that was given.
NoteDecision ==
    /\ Doing("decide")
    /\ Head(job.file) \notin Handoff
    /\ job' = [job EXCEPT !.step = "note", !.incident = job.given]
    /\ UNCHANGED <<present, incidents, packets, notes, records, lineage, faults>>

\* saveIncidentHandoffPacket writes the packet ...
SavePacket ==
    /\ Doing("packet")
    /\ packets' = packets \cup {[incident |-> job.incident, decision |-> Head(job.file)]}
    /\ job' = [job EXCEPT !.step = "list"]
    /\ UNCHANGED <<present, incidents, notes, records, lineage, faults>>

\* ... and then the incident once more, with the packet in its list.
ListPacket ==
    /\ Doing("list")
    /\ LET i == job.incident
       IN  /\ SaveIncident(i, [incidents[i] EXCEPT !.packets = @ \cup {Head(job.file)}])
           /\ job' = [job EXCEPT !.step = "note", !.entries = EntriesIn(i)]
    /\ UNCHANGED <<present, packets, notes, records, lineage, faults>>

\* The note of a decision, and on to the next one.
SaveDecisionNote ==
    /\ Doing("note")
    /\ SaveNote(job.day, job.incident)
    /\ job' = IF Tail(job.file) = <<>> THEN None
              ELSE [job EXCEPT !.step = "decide", !.file = Tail(@)]
    /\ UNCHANGED <<present, incidents, packets, records, lineage, faults>>

\* A statement fails, and what is left of the request is gone.
StatementFails ==
    /\ ~Idle /\ faults > 0
    /\ faults' = faults - 1
    /\ job' = None
    /\ UNCHANGED <<present, incidents, packets, notes, records, lineage>>

\* The process ends, with or without a request under way, and is started again.
Restart ==
    /\ faults > 0
    /\ faults' = IF Idle THEN faults ELSE faults - 1
    /\ job' = None
    /\ present' = present \cup Sample
    /\ UNCHANGED <<incidents, packets, notes, records, lineage>>

Next ==
    \/ \E e \in Entry : AddEntry(e)
    \/ \E d \in Day : DeleteDay(d) \/ RestoreDay(d)
    \/ \E d \in Day, asked \in SUBSET Entry : CreateIncident(d, asked)
    \/ \E d \in Day, i \in DOMAIN incidents \cup {Derived, None} : AddNote(d, i)
    \/ \E i \in DOMAIN incidents :
           Deliver(i) \/ LocalAction(i) \/ DeliverAction(i) \/ NoteAction(i)
    \/ \E file \in File, d \in Day, at \in Moment,
          given \in DOMAIN incidents \cup {Derived, None} :
              ImportMonitoringDecisions(file, d, at, given)
    \/ SyncLineage \/ SaveIncidentActionRecord
    \/ PersistIncident \/ NoteDecision \/ SavePacket \/ ListPacket \/ SaveDecisionNote
    \/ StatementFails \/ Restart

Spec == Init /\ [][Next]_vars

-----------------------------------------------------------------------------
(* Properties.                                                             *)

\* Whatever request is cut off between whichever statements, and whatever is imported or
\* captured again, no row points to one that is not there: a packet has its incident, a
\* listed packet its row, an action record its incident and, if it speaks of a note, the
\* note of that incident (executeIncidentAction, saveIncidentHandoffPacket).
NothingDangles ==
    /\ \A p \in packets : p.incident \in DOMAIN incidents
    /\ \A i \in DOMAIN incidents : \A x \in incidents[i].packets :
           [incident |-> i, decision |-> x] \in packets
    /\ \A r \in records :
           /\ r.incident \in DOMAIN incidents
           /\ r.note # 0 => r.note \in DOMAIN notes /\ notes[r.note].incident = r.incident

\* An incident captured by an operator stays one of its day, so that a closeout of that
\* day finds it, whatever is imported into it under whichever day (persistIncident).
CapturedDayStays ==
    [][\A i \in DOMAIN incidents : i[1] = "snapshot" =>
           i \in DOMAIN incidents' /\ incidents'[i].days = incidents[i].days]_vars

\* As long as no request was cut off, the lineage of an entry names every incident that
\* lists it, though entries are deleted, brought back and recorded again, and incidents
\* captured again with other entries (saveIncident, addEntry).  The entries of the sample
\* day are captured under any day that is not there, and not present themselves then.  It is
\* one direction only: a row may go on naming an incident that no longer lists its entry.
LineageNamesIncidents ==
    faults = MaxFaults /\ Idle =>
        \A i \in DOMAIN incidents : \A e \in (incidents[i].entries \cap present) \ Sample :
            i \in lineage[e]
=============================================================================
