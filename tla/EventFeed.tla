----------------------------- MODULE EventFeed -----------------------------
(***************************************************************************)
(* The way of an event from the gateway into the journal: numbered by the  *)
(* gateway, carried by the socket, checked for gaps by emitEvent of        *)
(* apps/api/src/live-gateway.ts, filtered by the listener of app.ts, given *)
(* an id by packages/core/src/normalizer.ts and stored; and the messages   *)
(* that openclaw-session-backfill.ts recovers from session files after a   *)
(* start.                                                                  *)
(*                                                                         *)
(* How links are opened, watched and lost is the module LiveGateway; here  *)
(* a link is down, subscribing (events may come, the reconnect plan is not *)
(* through) or up.  What a write does to the tables is JournalStore; here  *)
(* the journal is the set of its entries.  Left out: events without a      *)
(* number, and the texts of entries other than which message they hold.    *)
(***************************************************************************)
EXTENDS Naturals, Sequences, FiniteSets

CONSTANTS
    Message,      \* session messages, told apart by their texts
    Session,      \* sessions, each with a file
    SessionOf,    \* the session of a message
    Assistant,    \* the messages that are not the user's
    MaxFiles,     \* the backfill reads that many of the newest session files
    MaxMessages,  \* and stops after that many messages
    MaxEvents,    \* bound: events the gateway emits
    MaxLives,     \* bound: gateway processes, one after the other
    MaxRuns,      \* bound: API processes, one after the other
    MaxDrops,     \* bound: links lost while both processes live
    None

ASSUME FeedAssumption ==
    /\ SessionOf \in [Message -> Session] /\ Assistant \subseteq Message
    /\ MaxFiles \in Nat /\ MaxMessages \in Nat
    /\ MaxEvents \in Nat /\ MaxLives \in Nat /\ MaxRuns \in Nat /\ MaxDrops \in Nat
    /\ None \notin Message /\ None \notin Nat

VARIABLES
    life,         \* the gateway process
    sent,         \* the number of its latest event
    log,          \* history: all events emitted, by every gateway process
    written,      \* the messages in the session files, in the order they were written
    link,         \* the link of the API to the gateway
    wire,         \* frames on their way over it
    run,          \* the API process
    listening,    \* has createApiApp registered its listener?
    lastEventSeq, \* the number of the latest event this API process was sent
    told,         \* history: what notifyListeners was called with
    journal,      \* the entries of the journal
    backfilled,   \* has the backfill of this API process run?
    drops         \* links that may still be lost

vars == <<life, sent, log, written, link, wire, run, listening, lastEventSeq, told,
          journal, backfilled, drops>>

gatewayVars == <<life, sent, log, written>>
apiVars     == <<run, listening, lastEventSeq, told, journal, backfilled>>

LiveKind  == {"session.message", "chat"}
Kind      == LiveKind \cup {"sequence.gap", "gateway.reconnected"}

\* An event without a message stands for chat and all else that is numbered, but not
\* journalled.
Event  == [kind : LiveKind, life : Nat, seq : Nat, msg : Message \cup {None}]

\* A gap and a reconnect are notified like events; a gap has the number received.  run
\* and heard tell which process was notified and whether anybody listened.
Notice == [kind : Kind, life : Nat, seq : Nat, msg : Message \cup {None},
           run : Nat, heard : BOOLEAN]

Entry  == [id : Kind \X (Message \cup {None}) \X Nat, msg : Message \cup {None}]

FeedTypeOK ==
    /\ life \in Nat /\ sent \in Nat /\ run \in Nat /\ drops \in Nat
    /\ log \in Seq(Event) /\ wire \in Seq(Event) /\ written \in Seq(Message)
    /\ link \in {"down", "subscribing", "up"}
    /\ listening \in BOOLEAN /\ backfilled \in BOOLEAN
    /\ lastEventSeq \in Nat \cup {None}
    /\ told \in Seq(Notice)
    /\ journal \subseteq Entry

Init ==
    /\ life = 1 /\ sent = 0 /\ log = <<>> /\ written = <<>>
    /\ link = "down" /\ wire = <<>>
    /\ run = 1 /\ listening = FALSE /\ lastEventSeq = None /\ backfilled = FALSE
    /\ told = <<>> /\ journal = {}
    /\ drops = MaxDrops

-----------------------------------------------------------------------------
(* The gateway, as the code meets it.                                      *)

NextEvent(m) == [kind |-> IF m = None THEN "chat" ELSE "session.message",
                 life |-> life, seq |-> sent + 1, msg |-> m]

\* A message is written to the file of its session once, but may be emitted again.
Emit(m) ==
    LET e == NextEvent(m)
    IN  /\ Len(log) < MaxEvents
        /\ sent' = e.seq
        /\ log' = Append(log, e)
        /\ wire' = IF link = "down" THEN wire ELSE Append(wire, e)
        /\ written' = IF m = None \/ \E i \in DOMAIN written : written[i] = m
                      THEN written ELSE Append(written, m)
    /\ UNCHANGED <<life, link, apiVars, drops>>

\* The link is lost.  If start() was still waiting for it, it gives up and resolves, and
\* createApiApp goes on to register its listener.
Disconnect ==
    /\ link' = "down"
    /\ wire' = <<>>
    /\ listening' = (listening \/ link # "down")

GatewayRestarts ==
    /\ life < MaxLives
    /\ life' = life + 1
    /\ sent' = 0
    /\ Disconnect
    /\ UNCHANGED <<log, written, run, lastEventSeq, told, journal, backfilled, drops>>

\* Whatever ends a link; also a journal write that fails for gateway.reconnected, which
\* fails the attempt that emits it.
LinkLost ==
    /\ link # "down" /\ drops > 0
    /\ drops' = drops - 1
    /\ Disconnect
    /\ UNCHANGED <<gatewayVars, run, lastEventSeq, told, journal, backfilled>>

-----------------------------------------------------------------------------
(* From notifyListeners into the journal.                                  *)

\* Mutant of normalizedEventId: the text of a message is left out of the hash.
IdWithoutText(n) ==
    <<n.kind, None, IF n.kind \in LiveKind THEN n.seq ELSE 0>>

\* What tells ids apart: the event, its text and its number; a gap or a reconnect has
\* neither.
normalizedEventId(n) ==
    <<n.kind, n.msg, IF n.kind \in LiveKind THEN n.seq ELSE 0>>

shouldJournalGatewayEvent(n) == n.kind # "chat"

\* The journal once entries have been upserted, one after the other, all with ids of
\* their own.
Upserted(entries) ==
    {x \in journal : \A y \in entries : x.id # y.id} \cup entries

\* The listener of createApiApp: what is to be journalled is normalised and stored.
Listened(notices) ==
    Upserted({[id |-> normalizedEventId(notices[i]), msg |-> notices[i].msg] :
              i \in {j \in DOMAIN notices :
                        notices[j].heard /\ shouldJournalGatewayEvent(notices[j])}})

NoticeOf(kind, e) == [kind |-> kind, life |-> e.life, seq |-> e.seq, msg |-> e.msg,
                      run |-> run, heard |-> listening]

Notify(notices) ==
    /\ told' = told \o notices
    /\ journal' = Listened(notices)

\* Mutants of Jumps: the numbers are compared with the latest message journalled only.
JumpsOverChat(e) ==
    LET heard == {i \in DOMAIN told : told[i].run = run /\ told[i].kind = "session.message"}
    IN  heard # {} /\ e.seq # told[CHOOSE i \in heard : \A j \in heard : j <= i].seq + 1

\* A reconnect forgets the latest number.
JumpsInLink(e) ==
    /\ lastEventSeq # None /\ e.seq # lastEventSeq + 1
    /\ told[Len(told)].kind # "gateway.reconnected"

Jumps(e) == lastEventSeq # None /\ e.seq # lastEventSeq + 1

\* emitEvent: the notices it makes of an event.
Emitted(e) ==
    (IF Jumps(e) THEN <<NoticeOf("sequence.gap", [e EXCEPT !.msg = None])>> ELSE <<>>)
    \o <<NoticeOf(e.kind, e)>>

-----------------------------------------------------------------------------
(* The API.                                                                *)

\* The connection is granted and its subscriptions are made.
Subscribe ==
    /\ link = "down"
    /\ link' = "subscribing"
    /\ UNCHANGED <<gatewayVars, wire, apiVars, drops>>

\* The last answer of the reconnect plan.  The first one resolves start(), and only then
\* does anybody listen.
PlanDone ==
    /\ link = "subscribing"
    /\ link' = "up"
    /\ Notify(<<NoticeOf("gateway.reconnected", [life |-> life, seq |-> 0, msg |-> None])>>)
    /\ listening' = TRUE
    /\ UNCHANGED <<gatewayVars, wire, run, lastEventSeq, backfilled, drops>>

\* start() gives up on a gateway that does not answer.
StartFails ==
    /\ ~listening /\ link = "down"
    /\ listening' = TRUE
    /\ UNCHANGED <<gatewayVars, link, wire, run, lastEventSeq, told, journal, backfilled, drops>>

\* An event frame arrives.
Receive ==
    /\ wire # <<>>
    /\ wire' = Tail(wire)
    /\ Notify(Emitted(Head(wire)))
    /\ lastEventSeq' = Head(wire).seq
    /\ UNCHANGED <<gatewayVars, link, run, listening, backfilled, drops>>

\* Another process takes over: nothing but the journal is kept.
Restart ==
    /\ run < MaxRuns
    /\ run' = run + 1
    /\ link' = "down" /\ wire' = <<>>
    /\ listening' = FALSE /\ lastEventSeq' = None /\ backfilled' = FALSE
    /\ UNCHANGED <<gatewayVars, drops>>

ApiDies == Restart /\ UNCHANGED <<told, journal>>

\* The write of an entry throws, which ends the process; a gap before it may be stored.
ReceiveFails ==
    /\ wire # <<>> /\ listening
    /\ LET notices == Emitted(Head(wire))
       IN  \E n \in 0 .. Len(notices) - 1 : Notify(SubSeq(notices, 1, n))
    /\ Restart

-----------------------------------------------------------------------------
(* The backfill from session files.                                        *)

\* The file of session s was written to after that of session t.
Later(s, t) ==
    \E i \in DOMAIN written :
        /\ SessionOf[written[i]] = s
        /\ \A j \in DOMAIN written : SessionOf[written[j]] = t => j < i

\* recentSessionFiles, before they are put in order again, the oldest first.
RecentSessions ==
    LET sessions == {SessionOf[written[i]] : i \in DOMAIN written}
    IN  {s \in sessions : Cardinality({t \in sessions : Later(t, s)}) < MaxFiles}

\* The messages of these files that are the assistant's, by their place in `written`.
Recoverable == {i \in DOMAIN written : /\ SessionOf[written[i]] \in RecentSessions
                                       /\ written[i] \in Assistant}

ReadBefore(i, j) ==
    IF SessionOf[written[i]] = SessionOf[written[j]] THEN i < j
    ELSE Later(SessionOf[written[j]], SessionOf[written[i]])

\* The messages that are read until the limit is reached.
Imported ==
    {written[i] : i \in {j \in Recoverable :
        Cardinality({k \in Recoverable : ReadBefore(k, j)}) < MaxMessages}}

\* A recovered message has its id in the file in place of a number.
Backfill ==
    /\ listening /\ ~backfilled
    /\ backfilled' = TRUE
    /\ journal' = Upserted({[id |-> <<"session.message", m, 0>>, msg |-> m] : m \in Imported})
    /\ UNCHANGED <<gatewayVars, link, wire, run, listening, lastEventSeq, told, drops>>

Next ==
    \/ \E m \in Message \cup {None} : Emit(m)
    \/ GatewayRestarts \/ LinkLost
    \/ Subscribe \/ PlanDone \/ StartFails
    \/ Receive \/ ReceiveFails \/ ApiDies
    \/ Backfill

Spec == Init /\ [][Next]_vars

-----------------------------------------------------------------------------
(* Properties.                                                             *)

Live(n) == n.kind \in LiveKind

\* i is the latest live event that the process of notice j was told of before j.
Precedes(i, j) ==
    /\ i < j /\ Live(told[i]) /\ told[i].run = told[j].run
    /\ \A k \in i + 1 .. j - 1 : ~Live(told[k])

\* The gateway emitted something between these two numbers.
LostBetween(l, low, high) ==
    \E i \in DOMAIN log : log[i].life = l /\ low < log[i].seq /\ log[i].seq < high

\* Of two live events of one gateway process that follow each other, the second is never
\* passed on without a gap right before it if anything was lost between them, whatever
\* links were lost or replaced meanwhile (emitEvent).
LossIsTold ==
    \A j \in DOMAIN told : \A i \in 1 .. j - 1 :
        /\ Live(told[j]) /\ Precedes(i, j)
        /\ told[i].life = told[j].life
        /\ LostBetween(told[j].life, told[i].seq, told[j].seq)
        => /\ told[j - 1].kind = "sequence.gap"
           /\ told[j].heard => told[j - 1].heard

\* A gap is told only if the gateway emitted something that the API was not sent, or was
\* started anew (emitEvent).
GapsAreReal ==
    \A j \in DOMAIN told : told[j].kind = "sequence.gap" =>
        \E i \in 1 .. j - 1 :
            /\ Precedes(i, j)
            /\ \/ told[i].life # told[j].life
               \/ LostBetween(told[j].life, told[i].seq, told[j].seq)

\* A message that the listener was told of keeps its entry, though the numbers of events
\* begin anew with every gateway process and recovered copies are written later
\* (normalizedEventId, upsertEntry).
HeardMessageStays ==
    \A i \in DOMAIN told : told[i].heard /\ told[i].kind = "session.message" =>
        \E x \in journal : x.msg = told[i].msg /\ x.id[3] # 0
=============================================================================
