----------------------------- MODULE Workspace -----------------------------
(***************************************************************************)
(* The journal in the browser (apps/web/src/App.tsx): the selected day, the *)
(* copy of a day on the screen, the editor of the pinned context, and the   *)
(* calls whose answers change them.  Every 1.5 s another refreshCore starts *)
(* whether or not the last has ended; the operator opens days, saves and    *)
(* reloads meanwhile; the stream pushes days.  Nothing orders the answers.  *)
(*                                                                          *)
(* A handler runs up to its next await in one step.  A call is sent, read   *)
(* by the server, and applied, in three steps that others come between.     *)
(*                                                                          *)
(* The screen has three layers.  An answer sets the state (selected, day,   *)
(* draft, dirty); React renders it in a later task (Commit), and its passive *)
(* effects run in a still later one (Effects).  What the operator clicks or *)
(* types is decided by what is rendered (shown), an answer by the refs, the *)
(* polls and the stream that the effects left (seen).  A click or key that  *)
(* sets state is rendered, effects included, before anything else runs.     *)
(*                                                                          *)
(* Left out: what else a refresh loads and only the screen shows (health,   *)
(* sessions, approvals, notices), and the offline bundle laid over the day. *)
(***************************************************************************)
EXTENDS Naturals, Sequences, FiniteSets, FiniteSetsExt

CONSTANTS
    NDays,        \* the days, 1 the oldest; 0 is the sample day shown before any other
    Slot,         \* bound: calls under way at a time
    MaxWrites,    \* bound: entries the server journals, days it drops or restores
    MaxClicks,    \* bound: what the operator does that starts a call
    MaxEdits,     \* bound: texts typed or imported
    MaxOutages,   \* bound: calls that fail, streams that break
    MaxEvents,    \* bound: all of these together

    Idle

ASSUME WorkspaceAssumption ==
    /\ {NDays, MaxWrites, MaxClicks, MaxEdits, MaxOutages, MaxEvents} \subseteq Nat
    /\ NDays > 0

Day  == 1 .. NDays
Shown == 0 .. NDays

VARIABLES
    version,   \* server: how often each day was written
    context,   \* server: the pinned context saved under each day
    listed,    \* server: the days listDays returns
    selected,  \* route.selectedDayKey; 0 is the empty string
    day,       \* the copy on the screen: its key and its version
    draft,     \* pinnedNote and pinnedSummary in the editor
    dirty,     \* pinnedContextDirty
    shown,     \* what the last render saw of the four
    seen,      \* what the last effects saw: dayRef, pinnedContextDirtyRef, the polls' day
    calls,     \* the calls under way
    stream,    \* days pushed and not delivered
    budget     \* what is left of each bound

server  == <<version, context, listed>>
screen  == <<selected, day, draft, dirty, shown, seen>>
vars    == <<version, context, listed, selected, day, draft, dirty, shown, seen,
             calls, stream, budget>>

\* A text remembers the days it was written on, whether an import wrote some of it, and
\* whether it was typed or kept by a handler that had an older day before it than the
\* one already on its way to the screen.
Text  == [of : SUBSET Day, n : 0 .. MaxEdits, imported : BOOLEAN, crossed : BOOLEAN]
Blank == [of |-> {}, n |-> 0, imported |-> FALSE, crossed |-> FALSE]
Written(text, d) == [text EXCEPT !.of = @ \cup {d}, !.n = budget.edits]
Crossing(text, d) == [text EXCEPT !.crossed = @ \/ d # day.key]
Copy == [key : Day, ver : 0 .. MaxWrites, ctx : Text]

\* from is the selection the handler closed over, want the day it would rather show.
Call ==
    [kind : {"poll", "index"}, phase : {"purge", "list"}, from : Shown, want : Shown]
    \cup [kind : {"poll", "index"}, phase : {"sent"}, from : Shown, key : Day]
    \cup [kind : {"poll", "index"}, phase : {"read"}, from : Shown, copy : Copy]
    \cup [kind : {"open", "reload", "send"}, phase : {"sent"}, key : Shown]
    \cup [kind : {"open", "reload", "send"}, phase : {"read"}, copy : Copy]
    \cup [kind : {"save"}, phase : {"sent"}, key : Day, text : Text]
    \cup [kind : {"save"}, phase : {"read"}]
    \cup [kind : {"import"}, phase : {"sent"}, key : Day, text : Text]
    \cup [kind : {"import"}, phase : {"read"}, text : Text]

Budget == [writes : 0 .. MaxWrites, clicks : 0 .. MaxClicks,
           edits : 0 .. MaxEdits, outages : 0 .. MaxOutages, events : 0 .. MaxEvents]

TypeOK ==
    /\ version \in [Day -> 0 .. MaxWrites]
    /\ context \in [Day -> Text]
    /\ listed \subseteq Day
    /\ selected \in Shown
    /\ day \in [key : Shown, ver : 0 .. MaxWrites]
    /\ draft \in Text
    /\ dirty \in BOOLEAN
    /\ shown \in [selected : Shown, key : Shown, draft : Text, dirty : BOOLEAN]
    /\ seen \in [selected : Shown, key : Shown, dirty : BOOLEAN]
    /\ calls \in [Slot -> Call \cup {Idle}]
    /\ stream \in Seq(Copy)
    /\ budget \in Budget

Shows == [selected |-> selected, key |-> day.key, draft |-> draft, dirty |-> dirty]
SeenOf(view) == [selected |-> view.selected, key |-> view.key, dirty |-> view.dirty]

Init ==
    /\ version = [d \in Day |-> 0]
    /\ context = [d \in Day |-> Blank]
    /\ listed \in SUBSET Day
    /\ selected \in Shown                      \* ?day= of the address, or none
    /\ day = [key |-> 0, ver |-> 0]
    /\ draft = Blank
    /\ dirty = FALSE
    /\ shown = Shows /\ seen = SeenOf(shown)
    /\ calls = [s \in Slot |-> Idle]
    /\ stream = <<>>
    /\ budget = [writes |-> MaxWrites, clicks |-> MaxClicks,
                 edits |-> MaxEdits, outages |-> MaxOutages, events |-> MaxEvents]

CopyOf(d, ver) == [key |-> d, ver |-> ver, ctx |-> context[d]]

Spend(what) ==
    /\ budget[what] > 0 /\ budget.events > 0
    /\ budget' = [budget EXCEPT ![what] = @ - 1, !.events = @ - 1]

---------------------------------------------------------------------------
(* What the handlers do to the screen.                                      *)

KeepsAnyDay(copy, forced) == ~forced /\ seen.dirty              \* mutant: whatever the day
KeepsNothing(copy, forced) == FALSE                             \* mutant

\* Preserving: the operator has typed, and the copy is of the day he typed on, as far as
\* the refs go.
Keeps(copy, forced) == ~forced /\ seen.dirty /\ copy.key = seen.key

\* The day is replaced whether the text is kept or not.
ApplyFetchedDay(copy, forced) ==
    /\ day' = [key |-> copy.key, ver |-> copy.ver]
    /\ IF Keeps(copy, forced) THEN draft' = Crossing(draft, seen.key) /\ UNCHANGED dirty
       ELSE draft' = copy.ctx /\ dirty' = FALSE

\* The effects hang on selectedDayKey: a new one ends the polls and opens the stream anew.
PollsOf(cs) == {s \in Slot : cs[s] # Idle /\ cs[s].kind = "poll"}
Rerun(d, cs) ==
    IF d = seen.selected THEN calls' = cs /\ UNCHANGED stream
    ELSE /\ calls' = [s \in Slot |-> IF s \in PollsOf(cs) THEN Idle ELSE cs[s]]
         /\ stream' = <<>>

\* React renders what the answers have set, and runs the effects of it after.
Commit ==
    /\ seen = SeenOf(shown) /\ shown # Shows
    /\ shown' = Shows
    /\ UNCHANGED <<server, selected, day, draft, dirty, seen, calls, stream, budget>>

Effects ==
    /\ seen # SeenOf(shown)
    /\ seen' = SeenOf(shown) /\ Rerun(shown.selected, calls)
    /\ UNCHANGED <<server, selected, day, draft, dirty, shown, budget>>

\* The end of a click or key: what was set before it is rendered with it.
Flush(cs) == shown' = Shows' /\ seen' = SeenOf(shown') /\ Rerun(selected', cs)

Put(s, call) == [calls EXCEPT ![s] = call]

---------------------------------------------------------------------------
(* The operator.                                                            *)

\* The rail: the day is selected at once, its copy comes when it comes.
OpenDay(s, d) ==
    /\ calls[s] = Idle /\ Spend("clicks")
    /\ selected' = d
    /\ UNCHANGED <<server, day, draft, dirty>>
    /\ Flush(Put(s, [kind |-> "open", phase |-> "sent", key |-> d]))

\* The rail's home and the calendar go through handleDaySelect, a toast and a saved view
\* select their day on their own account; each ends in the same open call.
Home(s)        == listed # {} /\ OpenDay(s, Max(listed))
Calendar(s, d) == d \in listed /\ OpenDay(s, d)
Toast(s, d)    == version[d] > 0 /\ OpenDay(s, d)
SavedView(s, d) ==
    \/ d # shown.selected /\ OpenDay(s, d)
    \/ /\ d = shown.selected /\ Spend("clicks")
       /\ UNCHANGED <<server, selected, day, draft, dirty>>
       /\ Flush(calls)

\* A search result selects its day and leaves the loading to the polls.
SelectOnly(d) ==
    /\ Spend("clicks")
    /\ selected' = d
    /\ UNCHANGED <<server, day, draft, dirty>>
    /\ Flush(calls)

\* A reload after a restart of the backend; a command, whose answer is the day of today.
Reload(s) ==
    /\ calls[s] = Idle /\ Spend("clicks")
    /\ calls' = Put(s, [kind |-> "reload", phase |-> "sent",
                        key |-> IF shown.selected # 0 THEN shown.selected ELSE shown.key])
    /\ UNCHANGED <<server, screen, stream>>

Send(s) ==
    /\ calls[s] = Idle /\ Spend("clicks")
    /\ calls' = Put(s, [kind |-> "send", phase |-> "sent", key |-> NDays])
    /\ UNCHANGED <<server, screen, stream>>

\* A key goes into the text that is rendered, and replaces one already on its way.
\* Nobody writes about the sample day: the editor is used once a day has been loaded.
Type ==
    /\ shown.key # 0 /\ Spend("edits")
    /\ draft' = Crossing(Written(shown.draft, shown.key), shown.key)
    /\ dirty' = TRUE
    /\ UNCHANGED <<server, selected, day>>
    /\ Flush(calls)

Save(s) ==
    /\ calls[s] = Idle /\ shown.key # 0 /\ Spend("clicks")
    /\ calls' = Put(s, [kind |-> "save", phase |-> "sent", key |-> shown.key, text |-> shown.draft])
    /\ UNCHANGED <<server, screen, stream>>

ImportMonitoring(s) ==
    /\ calls[s] = Idle /\ shown.key # 0 /\ Spend("edits")
    /\ calls' = Put(s, [kind |-> "import", phase |-> "sent", key |-> shown.key,
                        text |-> [Written(Blank, shown.key) EXCEPT !.imported = TRUE]])
    /\ UNCHANGED <<server, screen, stream>>

\* handleApplyRetention and handleRollbackRetention have the server drop or restore
\* days, then read the list back.
Retention(s) ==
    /\ calls[s] = Idle /\ Spend("clicks")
    /\ calls' = Put(s, [kind |-> "index", phase |-> "purge", from |-> shown.selected,
                        want |-> IF shown.selected # 0 THEN shown.selected ELSE shown.key])
    /\ UNCHANGED <<server, screen, stream>>

---------------------------------------------------------------------------
(* The clock, the server and the stream.                                    *)

Poll(s) ==
    /\ calls[s] = Idle
    /\ calls' = Put(s, [kind |-> "poll", phase |-> "list", from |-> seen.selected, want |-> seen.selected])
    /\ UNCHANGED <<server, screen, stream, budget>>

\* A removed day keeps its context here, for the rollback brings both back.
Purge(s) ==
    /\ calls[s] # Idle /\ calls[s].phase = "purge"
    /\ listed' \in SUBSET Day
    /\ calls' = [calls EXCEPT ![s].phase = "list"]
    /\ UNCHANGED <<version, context, screen, stream, budget>>

\* The days are read; with them the handler picks the day to ask for.
ReadList(s) ==
    /\ calls[s] # Idle /\ calls[s].phase = "list"
    /\ LET c == calls[s]
       IN  calls' = Put(s, IF listed = {} THEN Idle      \* the sample day: 404
                           ELSE [kind |-> c.kind, phase |-> "sent", from |-> c.from,
                                 key |-> IF c.want \in listed THEN c.want ELSE Max(listed)])
    /\ UNCHANGED <<server, screen, stream, budget>>

ReadDay(s) ==
    /\ calls[s] # Idle /\ calls[s].phase = "sent"
    /\ calls[s].kind \in {"poll", "index", "open", "reload"}
    /\ UNCHANGED <<server, screen, stream, budget>>
    /\ LET c == calls[s]
       IN  calls' = Put(s,
             IF c.key \notin listed THEN Idle             \* 404
             ELSE IF c.kind \in {"poll", "index"}
                  THEN [kind |-> c.kind, phase |-> "read", from |-> c.from, copy |-> CopyOf(c.key, version[c.key])]
                  ELSE [kind |-> c.kind, phase |-> "read", copy |-> CopyOf(c.key, version[c.key])])

Entered(d) ==
    /\ Spend("writes")
    /\ version' = [version EXCEPT ![d] = @ + 1]
    /\ listed' = listed \cup {d}
    /\ stream' = Append(stream, CopyOf(d, version'[d]))
    /\ UNCHANGED context

\* An event of the gateway is journaled and published; an answered command reads today.
JournalEvent(d) == Entered(d) /\ UNCHANGED <<screen, calls>>

ReadSend(s) ==
    /\ calls[s] # Idle /\ calls[s].phase = "sent" /\ calls[s].kind = "send"
    /\ calls' = Put(s, IF calls[s].key \notin listed THEN Idle
                       ELSE [kind |-> "send", phase |-> "read", copy |-> CopyOf(calls[s].key, version[calls[s].key])])
    /\ UNCHANGED <<server, screen, stream, budget>>

WriteContext(s) ==
    /\ calls[s] # Idle /\ calls[s].phase = "sent" /\ calls[s].kind = "save"
    /\ context' = [context EXCEPT ![calls[s].key] = calls[s].text]
    /\ calls' = Put(s, [kind |-> "save", phase |-> "read"])
    /\ UNCHANGED <<version, listed, screen, stream, budget>>

\* The import adds its decisions to the context of the day it was asked for.
WriteImport(s) ==
    /\ calls[s] # Idle /\ calls[s].phase = "sent" /\ calls[s].kind = "import"
    /\ LET c == calls[s]
       IN  /\ context' = [context EXCEPT ![c.key] = [c.text EXCEPT !.of = @ \cup context[c.key].of]]
           /\ calls' = Put(s, [kind |-> "import", phase |-> "read", text |-> context'[c.key]])
    /\ UNCHANGED <<version, listed, screen, stream, budget>>

Pushed ==
    /\ stream # <<>>
    /\ stream' = Tail(stream)
    /\ IF Head(stream).key = seen.selected THEN ApplyFetchedDay(Head(stream), FALSE)
       ELSE UNCHANGED <<day, draft, dirty>>
    /\ UNCHANGED <<server, selected, shown, seen, calls, budget>>

\* A call fails, or is answered too late for anyone; nothing on the screen changes.
Fails(s) ==
    /\ calls[s] # Idle /\ calls[s].phase # "purge" /\ Spend("outages")
    /\ calls' = Put(s, Idle)
    /\ UNCHANGED <<server, screen, stream>>

StreamBreaks ==
    /\ stream # <<>> /\ Spend("outages")
    /\ stream' = <<>>
    /\ UNCHANGED <<server, screen, calls>>

---------------------------------------------------------------------------
(* The answers.                                                             *)

Answered(s, kinds) == calls[s] # Idle /\ calls[s].phase = "read" /\ calls[s].kind \in kinds

\* mutant: leaves the selection where it was, on a day that is gone
ApplyListStays(s) ==
    /\ Answered(s, {"poll", "index"})
    /\ ApplyFetchedDay(calls[s].copy, FALSE)
    /\ calls' = Put(s, Idle)
    /\ UNCHANGED <<server, selected, shown, seen, stream, budget>>

\* refreshCore, which its effect has not ended, and refreshJournalDayIndex, which nothing ends.
ApplyList(s) ==
    /\ Answered(s, {"poll", "index"})
    /\ LET c == calls[s]
       IN  /\ ApplyFetchedDay(c.copy, FALSE)
           /\ selected' = IF c.copy.key # c.from THEN c.copy.key ELSE selected
    /\ calls' = Put(s, Idle)
    /\ UNCHANGED <<server, shown, seen, stream, budget>>

ApplyDay(s) ==
    /\ Answered(s, {"open", "reload", "send"})
    /\ ApplyFetchedDay(calls[s].copy, calls[s].kind = "open")
    /\ calls' = Put(s, Idle)
    /\ UNCHANGED <<server, selected, shown, seen, stream, budget>>

ApplySave(s) ==
    /\ Answered(s, {"save"})
    /\ dirty' = FALSE
    /\ calls' = Put(s, Idle)
    /\ UNCHANGED <<server, selected, day, draft, shown, seen, stream, budget>>

\* The imported context goes into the editor, whatever day is on the screen by now.
ApplyImport(s) ==
    /\ Answered(s, {"import"})
    /\ draft' = calls[s].text /\ dirty' = FALSE
    /\ calls' = Put(s, Idle)
    /\ UNCHANGED <<server, selected, day, shown, seen, stream, budget>>

Operator ==
    \/ Type
    \/ \E d \in Day : SelectOnly(d)
    \/ \E s \in Slot :
        \/ \E d \in Day : OpenDay(s, d) \/ Calendar(s, d) \/ Toast(s, d) \/ SavedView(s, d)
        \/ Home(s)
        \/ Reload(s) \/ Send(s) \/ Save(s) \/ ImportMonitoring(s) \/ Retention(s)

Answer(s) == Purge(s) \/ ReadList(s) \/ ReadDay(s) \/ ReadSend(s) \/ WriteContext(s) \/ WriteImport(s)
Apply(s)  == ApplyList(s) \/ ApplyDay(s) \/ ApplySave(s) \/ ApplyImport(s)

Environment ==
    \/ \E d \in Day : JournalEvent(d)
    \/ \E s \in Slot : Fails(s)
    \/ StreamBreaks

\* A slot can always take one of the three, and React one of the two until all is shown.
CallStep(s) == Poll(s) \/ Answer(s) \/ Apply(s)
Render == Commit \/ Effects

Next ==
    \/ Operator \/ Environment \/ Pushed \/ Render
    \/ \E s \in Slot : CallStep(s)

\* The timer fires, the server answers, the answer is handled and rendered; a click or
\* an event need never come.
Fairness ==
    /\ \A s \in Slot : WF_vars(CallStep(s))
    /\ WF_vars(Pushed) /\ WF_vars(Render)

Spec == Init /\ [][Next]_vars /\ Fairness

---------------------------------------------------------------------------
(* What holds.                                                              *)

\* The answer of s takes what is in the editor: a day opened, the end of a save, an import,
\* or a copy of another day than the one on the screen.
Takes(s) ==
    /\ calls[s] # Idle /\ calls[s].phase = "read"
    /\ \/ calls[s].kind \in {"open", "save", "import"}
       \/ calls[s].copy.key # day.key

\* No copy of the day on the screen, from a refresh, a reload, a push or a command, takes
\* from the operator what he has typed there, however long the refs lag.  A copy of
\* another day does: a command is answered with the day of today, and a refresh that
\* no longer finds the selected day falls back on the newest (applyFetchedDay, App.tsx).
DraftSurvivesRefresh ==
    [][dirty =>
          \/ dirty' /\ (draft' = draft \/ Type)
          \/ \E s \in Slot : Takes(s) /\ Apply(s)
          \/ stream # <<>> /\ Head(stream).key # day.key /\ Pushed]_vars

\* What is saved under a day was written on that day, however selections, saves and
\* late answers cross.  There are two ways round it: an import that comes back to another
\* day, and a text that an answer kept, or a key went into, while another day was on its
\* way to the screen and not yet in the refs, or not yet rendered.
ContextUnderItsDay ==
    \A d \in Day : context[d].imported \/ context[d].crossed \/ context[d].of \subseteq {d}

\* When nobody clicks, types or writes any more, the screen comes to show the selected
\* day as the server has it, for good: no answer still under way brings back an older
\* copy or another day, and the editor holds what is saved or what was typed since.
SelectionSettles ==
    <>[](listed # {} =>
            /\ selected \in listed
            /\ day = [key |-> selected, ver |-> version[selected]]
            /\ dirty \/ draft = context[selected])
===========================================================================
