-------------------------- MODULE EventFeedProofs --------------------------
(***************************************************************************)
(* Theorems about EventFeed, for every set of messages and sessions, every *)
(* number of events, of processes and of lost links.                       *)
(***************************************************************************)
EXTENDS EventFeed, SequenceTheorems, TLAPS

-----------------------------------------------------------------------------
(* The inductive invariant.                                                *)

\* The log has every event of the gateway process that runs.
LogInv == \A n \in 1 .. sent : \E i \in DOMAIN log : log[i].life = life /\ log[i].seq = n

\* What is on its way comes from that process, in order, and after all it was told of.
WireInv ==
    \A k \in DOMAIN wire :
        /\ wire[k].life = life /\ wire[k].seq \in 1 .. sent
        /\ \A m \in DOMAIN wire : k < m => wire[k].seq < wire[m].seq
        /\ \A j \in DOMAIN told : Live(told[j]) /\ told[j].life = life => told[j].seq < wire[k].seq

\* Nothing is told of processes to come, or of numbers not given yet.
ToldInv ==
    \A j \in DOMAIN told :
        /\ told[j].run <= run
        /\ Live(told[j]) => /\ told[j].seq >= 1 /\ told[j].life <= life
                            /\ told[j].life = life => told[j].seq <= sent

\* Notice j is the latest live one, and the process that runs was told of it.
LatestLive(j) ==
    /\ j \in DOMAIN told /\ Live(told[j]) /\ told[j].run = run
    /\ \A k \in DOMAIN told : j < k => ~Live(told[k])

\* lastEventSeq is the number of that notice, and None if there is none of this process.
LastInv ==
    IF lastEventSeq = None THEN \A j \in DOMAIN told : Live(told[j]) => told[j].run < run
    ELSE \E j \in DOMAIN told : LatestLive(j) /\ told[j].seq = lastEventSeq

\* The id of an entry tells its message.
JournalInv == \A x \in journal : x.id[2] = x.msg

IInv == FeedTypeOK /\ LogInv /\ WireInv /\ ToldInv /\ LastInv /\ JournalInv
        /\ LossIsTold /\ GapsAreReal /\ HeardMessageStays
-----------------------------------------------------------------------------
(* Lemmas about notices.                                                   *)

\* What the type says of a notice.
LEMMA NoticeFields ==
    ASSUME NEW t \in Seq(Notice), NEW i \in DOMAIN t
    PROVE  /\ t[i] \in Notice /\ t[i].seq \in Nat /\ t[i].life \in Nat /\ t[i].run \in Nat
           /\ t[i].heard \in BOOLEAN /\ t[i].msg \in Message \cup {None} /\ t[i].kind \in Kind
  <1>1. t[i] \in Notice
    BY ElementOfSeq
  <1> QED BY <1>1 DEF Notice

\* What the type says of an event on its way.
LEMMA EventFields ==
    ASSUME NEW w \in Seq(Event), NEW k \in DOMAIN w
    PROVE  /\ w[k] \in Event /\ w[k].seq \in Nat /\ w[k].life \in Nat
           /\ w[k].msg \in Message \cup {None} /\ w[k].kind \in LiveKind
  <1>1. w[k] \in Event
    BY ElementOfSeq
  <1> QED BY <1>1 DEF Event

\* A notice of something numbered.
LEMMA NoticeType ==
    ASSUME FeedTypeOK, NEW kind \in Kind, NEW e,
           e.life \in Nat, e.seq \in Nat, e.msg \in Message \cup {None}
    PROVE  NoticeOf(kind, e) \in Notice
  BY DEF FeedTypeOK, NoticeOf, Notice

\* Two sequences of one element each.
LEMMA Pair ==
    ASSUME NEW S, NEW a \in S, NEW b \in S
    PROVE  <<a>> \o <<b>> = <<a, b>>
  <1>1. <<a>> \in Seq(S) /\ <<b>> \in Seq(S) /\ <<a, b>> \in Seq(S)
    OBVIOUS
  <1>2. Len(<<a>>) = 1 /\ Len(<<b>>) = 1 /\ Len(<<a, b>>) = 2
    OBVIOUS
  <1>3. /\ <<a>> \o <<b>> \in Seq(S) /\ Len(<<a>> \o <<b>>) = 2
        /\ \A i \in 1 .. 2 : (<<a>> \o <<b>>)[i] = IF i <= 1 THEN <<a>>[i] ELSE <<b>>[i - 1]
    BY <1>1, <1>2, ConcatProperties
  <1>4. \A i \in 1 .. 2 : (<<a>> \o <<b>>)[i] = <<a, b>>[i]
    <2> TAKE i \in 1 .. 2
    <2>1. CASE i = 1
      BY <1>3, <2>1
    <2>2. CASE i = 2
      BY <1>3, <2>2
    <2> QED BY <2>1, <2>2
  <1> QED BY <1>1, <1>2, <1>3, <1>4, SeqEqual

\* The notice of a gap.
GapOf(e) == NoticeOf("sequence.gap", [e EXCEPT !.msg = None])

\* What emitEvent makes of an event.
LEMMA EmittedIs ==
    ASSUME FeedTypeOK, NEW e \in Event
    PROVE  /\ GapOf(e) \in Notice /\ NoticeOf(e.kind, e) \in Notice
           /\ GapOf(e).kind = "sequence.gap" /\ ~Live(GapOf(e))
           /\ GapOf(e).seq = e.seq /\ GapOf(e).life = e.life
           /\ GapOf(e).run = run /\ GapOf(e).heard = listening
           /\ NoticeOf(e.kind, e).kind = e.kind /\ Live(NoticeOf(e.kind, e))
           /\ NoticeOf(e.kind, e).seq = e.seq /\ NoticeOf(e.kind, e).life = e.life
           /\ NoticeOf(e.kind, e).run = run /\ NoticeOf(e.kind, e).heard = listening
           /\ Jumps(e) => Emitted(e) = <<GapOf(e), NoticeOf(e.kind, e)>>
           /\ ~Jumps(e) => Emitted(e) = <<NoticeOf(e.kind, e)>>
           /\ Emitted(e) \in Seq(Notice)
  <1> DEFINE g == [e EXCEPT !.msg = None]
             n == NoticeOf(e.kind, e)
  <1>1. /\ e.life \in Nat /\ e.seq \in Nat /\ e.msg \in Message \cup {None} /\ e.kind \in LiveKind
        /\ g.life = e.life /\ g.seq = e.seq /\ g.msg = None
    BY DEF Event
  <1>2. GapOf(e) \in Notice /\ n \in Notice
    BY <1>1, NoticeType DEF GapOf, Kind
  <1>3. /\ GapOf(e).kind = "sequence.gap" /\ ~Live(GapOf(e))
        /\ GapOf(e).seq = e.seq /\ GapOf(e).life = e.life
        /\ GapOf(e).run = run /\ GapOf(e).heard = listening
    BY <1>1 DEF GapOf, NoticeOf, Live, LiveKind
  <1>4. /\ n.kind = e.kind /\ Live(n) /\ n.seq = e.seq /\ n.life = e.life
        /\ n.run = run /\ n.heard = listening
    BY <1>1 DEF NoticeOf, Live
  <1>5. Jumps(e) => Emitted(e) = <<GapOf(e), n>>
    <2>1. <<GapOf(e)>> \o <<n>> = <<GapOf(e), n>>
      BY <1>2, Pair
    <2> QED BY <2>1 DEF Emitted, GapOf
  <1>6. ~Jumps(e) => Emitted(e) = <<n>>
    <2>1. <<>> \o <<n>> = <<n>>
      BY <1>2
    <2> QED BY <2>1 DEF Emitted
  <1>7. <<GapOf(e), n>> \in Seq(Notice) /\ <<n>> \in Seq(Notice)
    BY <1>2
  <1> QED BY <1>2, <1>3, <1>4, <1>5, <1>6, <1>7

\* told after one more notice, and after two.
LEMMA OneMore ==
    ASSUME told \in Seq(Notice), NEW n \in Notice, told' = told \o <<n>>
    PROVE  /\ told' \in Seq(Notice)
           /\ Len(told) \in Nat /\ DOMAIN told = 1 .. Len(told)
           /\ DOMAIN told' = 1 .. Len(told) + 1
           /\ told'[Len(told) + 1] = n
           /\ \A k \in DOMAIN told : told'[k] = told[k]
  <1>1. told' = Append(told, n)
    BY AppendIsConcat
  <1> QED BY <1>1, AppendProperties

LEMMA TwoMore ==
    ASSUME told \in Seq(Notice), NEW g \in Notice, NEW n \in Notice, told' = told \o <<g, n>>
    PROVE  /\ told' \in Seq(Notice)
           /\ Len(told) \in Nat /\ DOMAIN told = 1 .. Len(told)
           /\ DOMAIN told' = 1 .. Len(told) + 2
           /\ told'[Len(told) + 1] = g /\ told'[Len(told) + 2] = n
           /\ \A k \in DOMAIN told : told'[k] = told[k]
  <1>1. <<g, n>> \in Seq(Notice) /\ Len(<<g, n>>) = 2
    OBVIOUS
  <1>2. /\ told' \in Seq(Notice) /\ Len(told') = Len(told) + 2
        /\ \A i \in 1 .. Len(told) + 2 : told'[i] = IF i <= Len(told) THEN told[i]
                                                      ELSE <<g, n>>[i - Len(told)]
    BY <1>1, ConcatProperties
  <1>3. Len(told) \in Nat /\ DOMAIN told = 1 .. Len(told) /\ DOMAIN told' = 1 .. Len(told')
    BY <1>2, LenProperties
  <1>4. Len(told) + 2 - Len(told) = 2 /\ Len(told) + 1 - Len(told) = 1
    BY <1>3
  <1>5. told'[Len(told) + 1] = <<g, n>>[1] /\ told'[Len(told) + 2] = <<g, n>>[2]
    BY <1>2, <1>3, <1>4
  <1> QED BY <1>2, <1>3, <1>5

\* Entries of notices take nothing away that was heard.
LEMMA Journalled ==
    ASSUME FeedTypeOK, JournalInv, HeardMessageStays,
           NEW ns \in Seq(Notice), \A k \in DOMAIN ns : Live(ns[k]) => ns[k].seq >= 1,
           told' = told \o ns, journal' = Listened(ns)
    PROVE  journal' \subseteq Entry /\ JournalInv' /\ HeardMessageStays'
  <1> DEFINE J == {j \in DOMAIN ns : ns[j].heard /\ shouldJournalGatewayEvent(ns[j])}
             E == {[id |-> normalizedEventId(ns[i]), msg |-> ns[i].msg] : i \in J}
  <1>1. journal' = {x \in journal : \A y \in E : x.id # y.id} \cup E
    BY DEF Listened, Upserted
  <1>2. \A y \in E : y \in Entry /\ y.id[2] = y.msg
    <2> SUFFICES ASSUME NEW i \in J
                 PROVE  /\ [id |-> normalizedEventId(ns[i]), msg |-> ns[i].msg] \in Entry
                        /\ normalizedEventId(ns[i])[2] = ns[i].msg
      OBVIOUS
    <2>1. ns[i].seq \in Nat /\ ns[i].msg \in Message \cup {None} /\ ns[i].kind \in Kind
      BY NoticeFields
    <2> QED BY <2>1 DEF normalizedEventId, Entry
  <1> HIDE DEF E
  <1>3. journal' \subseteq Entry /\ JournalInv'
    BY <1>1, <1>2 DEF FeedTypeOK, JournalInv
  <1>4. ASSUME NEW x \in journal, x.id[3] # 0
        PROVE  \E z \in journal' : z.msg = x.msg /\ z.id[3] # 0
    <2>1. CASE \A y \in E : x.id # y.id
      BY <1>1, <1>4, <2>1
    <2>2. CASE \E y \in E : x.id = y.id
      BY <1>1, <1>2, <1>4, <2>2 DEF JournalInv
    <2> QED BY <2>1, <2>2
  <1>5. HeardMessageStays'
    <2> SUFFICES ASSUME NEW i \in DOMAIN told', told'[i].heard, told'[i].kind = "session.message"
                 PROVE  \E x \in journal' : x.msg = told'[i].msg /\ x.id[3] # 0
      BY DEF HeardMessageStays
    <2>1. /\ told' \in Seq(Notice) /\ Len(told') = Len(told) + Len(ns)
          /\ \A k \in 1 .. Len(told) + Len(ns) :
                 told'[k] = IF k <= Len(told) THEN told[k] ELSE ns[k - Len(told)]
          /\ Len(told) \in Nat /\ Len(ns) \in Nat
          /\ DOMAIN told = 1 .. Len(told) /\ DOMAIN ns = 1 .. Len(ns)
          /\ DOMAIN told' = 1 .. Len(told) + Len(ns)
      BY ConcatProperties, LenProperties DEF FeedTypeOK
    <2>2. CASE i <= Len(told)
      <3>1. i \in DOMAIN told /\ told'[i] = told[i]
        BY <2>1, <2>2
      <3>2. PICK x \in journal : x.msg = told[i].msg /\ x.id[3] # 0
        BY <3>1 DEF HeardMessageStays
      <3> QED BY <1>4, <3>1, <3>2
    <2>3. CASE i > Len(told)
      <3> DEFINE k == i - Len(told)
      <3>1. k \in DOMAIN ns /\ told'[i] = ns[k]
        BY <2>1, <2>3
      <3>2. k \in J /\ Live(ns[k]) /\ ns[k].seq >= 1 /\ ns[k].seq \in Nat
        BY <3>1, NoticeFields DEF shouldJournalGatewayEvent, Live, LiveKind
      <3> DEFINE x == [id |-> normalizedEventId(ns[k]), msg |-> ns[k].msg]
      <3>3. x.msg = told'[i].msg /\ x.id[3] = ns[k].seq
        BY <3>1, <3>2 DEF normalizedEventId, Live
      <3>4. x \in E
        BY <3>2 DEF E
      <3> QED BY <1>1, <3>2, <3>3, <3>4
    <2> QED BY <2>1, <2>2, <2>3
  <1> QED BY <1>3, <1>5
-----------------------------------------------------------------------------
(* Lemmas about gaps.                                                      *)

\* LostBetween of any log.
LostIn(lg, l, low, high) ==
    \E i \in DOMAIN lg : lg[i].life = l /\ low < lg[i].seq /\ lg[i].seq < high

\* What LossIsTold and GapsAreReal say of notice j.
LossAt(j) ==
    \A i \in 1 .. j - 1 :
        /\ Live(told[j]) /\ Precedes(i, j)
        /\ told[i].life = told[j].life
        /\ LostIn(log, told[j].life, told[i].seq, told[j].seq)
        => /\ told[j - 1].kind = "sequence.gap"
           /\ told[j].heard => told[j - 1].heard

GapAt(j) ==
    told[j].kind = "sequence.gap" =>
        \E i \in 1 .. j - 1 :
            /\ Precedes(i, j)
            /\ \/ told[i].life # told[j].life
               \/ LostIn(log, told[j].life, told[i].seq, told[j].seq)

LEMMA AtEach ==
    /\ LossIsTold <=> \A j \in DOMAIN told : LossAt(j)
    /\ GapsAreReal <=> \A j \in DOMAIN told : GapAt(j)
    /\ LossIsTold' <=> \A j \in DOMAIN told' : LossAt(j)'
    /\ GapsAreReal' <=> \A j \in DOMAIN told' : GapAt(j)'
  BY DEF LossIsTold, GapsAreReal, LossAt, GapAt, LostBetween, LostIn

\* Notices stay right as long as told and log only grow, and the log not below what was
\* told of.
LEMMA OldNotices ==
    ASSUME told \in Seq(Notice), LossIsTold, GapsAreReal,
           \A k \in DOMAIN told : k \in DOMAIN told' /\ told'[k] = told[k],
           \A i, j \in DOMAIN told :
               /\ LostIn(log, told[j].life, told[i].seq, told[j].seq)
                      => LostIn(log', told[j].life, told[i].seq, told[j].seq)
               /\ Live(told[j]) /\ LostIn(log', told[j].life, told[i].seq, told[j].seq)
                      => LostIn(log, told[j].life, told[i].seq, told[j].seq)
    PROVE  \A j \in DOMAIN told : LossAt(j)' /\ GapAt(j)'
  <1> TAKE j \in DOMAIN told
  <1>1. LossAt(j) /\ GapAt(j)
    BY AtEach
  <1>2. DOMAIN told = 1 .. Len(told) /\ Len(told) \in Nat
    BY LenProperties
  <1>3. \A i \in 1 .. j : i \in DOMAIN told /\ told'[i] = told[i]
    BY <1>2
  <1>4. \A i \in 1 .. j - 1 : Precedes(i, j)' <=> Precedes(i, j)
    BY <1>2, <1>3 DEF Precedes, Live
  <1>5. \A i \in 1 .. j - 1 : i \in DOMAIN told /\ i \in 1 .. j
    BY <1>2
  <1>6. 1 <= j - 1 => told'[j - 1] = told[j - 1]
    BY <1>2, <1>3
  <1>7. LossAt(j)'
    BY <1>1, <1>3, <1>4, <1>5, <1>6 DEF LossAt, Live
  <1>8. GapAt(j)'
    BY <1>1, <1>3, <1>4, <1>5 DEF GapAt
  <1> QED BY <1>7, <1>8

\* The frame that arrives next.
LEMMA HeadOfWire ==
    ASSUME IInv, wire # <<>>
    PROVE  /\ Head(wire) \in Event /\ Head(wire) = wire[1] /\ 1 \in DOMAIN wire
           /\ Head(wire).life = life /\ Head(wire).seq \in 1 .. sent /\ Head(wire).seq \in Nat
           /\ Head(wire).kind \in LiveKind
           /\ \A j \in DOMAIN told : Live(told[j]) /\ told[j].life = life
                   => told[j].seq < Head(wire).seq
  <1>1. wire \in Seq(Event) /\ 1 \in DOMAIN wire /\ Head(wire) = wire[1]
    BY DEF IInv, FeedTypeOK
  <1> QED BY <1>1, EventFields DEF IInv, WireInv

\* A gap that is about to be told is one.
LEMMA GapIsReal ==
    ASSUME IInv, wire # <<>>, Jumps(Head(wire))
    PROVE  \E i \in DOMAIN told :
              /\ LatestLive(i)
              /\ told[i].life # life \/ LostIn(log, life, told[i].seq, Head(wire).seq)
  <1>1. PICK i \in DOMAIN told : LatestLive(i) /\ told[i].seq = lastEventSeq
    BY DEF IInv, LastInv, Jumps
  <1>2. told[i].seq \in Nat /\ told[i].seq >= 1
    BY <1>1, NoticeFields DEF IInv, FeedTypeOK, ToldInv, LatestLive
  <1>3. ASSUME told[i].life = life
        PROVE  LostIn(log, life, told[i].seq, Head(wire).seq)
    <2>1. told[i].seq < Head(wire).seq /\ Head(wire).seq # told[i].seq + 1
      BY <1>1, <1>3, HeadOfWire DEF LatestLive, Jumps
    <2>2. \A s, t, n \in Nat : s < t /\ t # s + 1 /\ t \in 1 .. n => s + 1 \in 1 .. n /\ s + 1 < t
      OBVIOUS
    <2>3. told[i].seq + 1 \in 1 .. sent /\ told[i].seq + 1 < Head(wire).seq
      <3>1. sent \in Nat /\ Head(wire).seq \in Nat /\ Head(wire).seq \in 1 .. sent
        BY HeadOfWire DEF IInv, FeedTypeOK
      <3> QED BY <1>2, <2>1, <2>2, <3>1
    <2>4. PICK k \in DOMAIN log : log[k].life = life /\ log[k].seq = told[i].seq + 1
      BY <2>3 DEF IInv, LogInv
    <2> QED BY <1>2, <2>3, <2>4 DEF LostIn
  <1> QED BY <1>1, <1>3

\* Where no gap is told, nothing was lost since the latest event of this gateway process.
LEMMA NoGapNoLoss ==
    ASSUME IInv, wire # <<>>, ~Jumps(Head(wire)),
           NEW i \in DOMAIN told, LatestLive(i), told[i].life = life
    PROVE  ~LostIn(log, life, told[i].seq, Head(wire).seq)
  <1>1. told[i].run = run /\ run \in Nat /\ Live(told[i])
    BY DEF LatestLive, IInv, FeedTypeOK
  <1>2. lastEventSeq # None
    BY <1>1 DEF IInv, LastInv
  <1>3. PICK j \in DOMAIN told : LatestLive(j) /\ told[j].seq = lastEventSeq
    BY <1>2 DEF IInv, LastInv
  <1>4. DOMAIN told = 1 .. Len(told)
    BY LenProperties DEF IInv, FeedTypeOK
  <1>5. i = j
    BY <1>3, <1>4 DEF LatestLive
  <1>6. Head(wire).seq = told[i].seq + 1 /\ told[i].seq \in Nat
    BY <1>2, <1>3, <1>5, NoticeFields DEF Jumps, IInv, FeedTypeOK
  <1>7. \A k \in DOMAIN log : log[k].seq \in Nat
    BY EventFields DEF IInv, FeedTypeOK
  <1> QED BY <1>6, <1>7 DEF LostIn
\* One more notice, neither live nor a gap, is right.
LEMMA PlainNotice ==
    ASSUME IInv, NEW n \in Notice, ~Live(n), n.kind # "sequence.gap",
           told' = told \o <<n>>, log' = log
    PROVE  LossIsTold' /\ GapsAreReal'
  <1>0. told \in Seq(Notice)
    BY DEF IInv, FeedTypeOK
  <1>1. \A j \in DOMAIN told : LossAt(j)' /\ GapAt(j)'
    BY <1>0, OneMore, OldNotices DEF IInv
  <1>2. PICK p \in Nat : p = Len(told) + 1
    BY <1>0
  <1>3. told'[p] = n
    BY <1>0, <1>2, OneMore
  <1>4. LossAt(p)' /\ GapAt(p)'
    BY <1>3 DEF LossAt, GapAt, Live
  <1>5. \A j \in DOMAIN told' : j \in DOMAIN told \/ j = p
    BY <1>0, <1>2, OneMore
  <1> QED BY <1>1, <1>4, <1>5, AtEach

\* A gap notice at the end is right.
LEMMA GapNotice ==
    ASSUME IInv, wire # <<>>, Jumps(Head(wire)), NEW p \in Nat, p = Len(told) + 1,
           \A k \in DOMAIN told : told'[k] = told[k],
           told'[p] = GapOf(Head(wire)), log' = log
    PROVE  LossAt(p)' /\ GapAt(p)'
  <1>1. /\ GapOf(Head(wire)).kind = "sequence.gap" /\ ~Live(GapOf(Head(wire)))
        /\ GapOf(Head(wire)).seq = Head(wire).seq /\ GapOf(Head(wire)).life = life
        /\ GapOf(Head(wire)).run = run
    BY EmittedIs, HeadOfWire DEF IInv
  <1>2. LossAt(p)'
    BY <1>1 DEF LossAt, Live
  <1>3. PICK i \in DOMAIN told :
            /\ LatestLive(i)
            /\ told[i].life # life \/ LostIn(log, life, told[i].seq, Head(wire).seq)
    BY GapIsReal
  <1>4. DOMAIN told = 1 .. Len(told) /\ Len(told) \in Nat
    BY LenProperties DEF IInv, FeedTypeOK
  <1>5. i \in 1 .. p - 1 /\ told'[i] = told[i]
    BY <1>3, <1>4
  <1>6. Precedes(i, p)'
    <2>1. \A k \in i + 1 .. p - 1 : k \in DOMAIN told /\ i < k /\ told'[k] = told[k]
      BY <1>4, <1>5
    <2> QED BY <1>1, <1>3, <1>5, <2>1 DEF Precedes, LatestLive, Live
  <1> QED BY <1>1, <1>2, <1>3, <1>5, <1>6 DEF GapAt

\* The notice of an event at the end is right if a gap is before it where one is due.
LEMMA LiveNotice ==
    ASSUME IInv, wire # <<>>, NEW p \in Nat,
           \A k \in DOMAIN told : told'[k] = told[k],
           \/ Jumps(Head(wire)) /\ p = Len(told) + 2 /\ told'[p - 1] = GapOf(Head(wire))
           \/ ~Jumps(Head(wire)) /\ p = Len(told) + 1,
           told'[p] = NoticeOf(Head(wire).kind, Head(wire)), log' = log
    PROVE  LossAt(p)' /\ GapAt(p)'
  <1> DEFINE n == NoticeOf(Head(wire).kind, Head(wire))
             g == GapOf(Head(wire))
  <1>1. /\ g.kind = "sequence.gap" /\ g.heard = listening /\ ~Live(g)
        /\ Live(n) /\ n.seq = Head(wire).seq /\ n.life = life
        /\ n.run = run /\ n.heard = listening
    BY EmittedIs, HeadOfWire DEF IInv
  <1>2. GapAt(p)'
    BY <1>1 DEF GapAt, Live, LiveKind
  <1>3. DOMAIN told = 1 .. Len(told) /\ Len(told) \in Nat
    BY LenProperties DEF IInv, FeedTypeOK
  <1>4. CASE Jumps(Head(wire))
    <2>1. told'[p - 1] = g /\ told'[p] = n
      BY <1>4
    <2>2. /\ told'[p - 1].kind = "sequence.gap"
          /\ told'[p].heard => told'[p - 1].heard
      BY <1>1, <2>1
    <2> QED BY <1>2, <2>2 DEF LossAt
  <1>5. CASE ~Jumps(Head(wire))
    <2> SUFFICES ASSUME NEW i \in 1 .. p - 1, Precedes(i, p)', told'[i].life = told'[p].life,
                        LostIn(log', told'[p].life, told'[i].seq, told'[p].seq)
                 PROVE  FALSE
      BY <1>2 DEF LossAt
    <2>1. /\ i \in DOMAIN told /\ told'[i] = told[i]
          /\ \A k \in DOMAIN told : i < k => k \in i + 1 .. p - 1 /\ told'[k] = told[k]
      BY <1>3, <1>5
    <2>2. LatestLive(i) /\ told[i].life = life
      BY <1>1, <2>1 DEF Precedes, LatestLive, Live
    <2> QED BY <1>1, <1>5, <2>1, <2>2, NoGapNoLoss
  <1> QED BY <1>2, <1>4, <1>5

\* The beginnings of what emitEvent makes of an event.
LEMMA Beginnings ==
    ASSUME FeedTypeOK, NEW e \in Event, NEW n \in 0 .. Len(Emitted(e)) - 1
    PROVE  \/ SubSeq(Emitted(e), 1, n) = <<>>
           \/ Jumps(e) /\ SubSeq(Emitted(e), 1, n) = <<GapOf(e)>>
  <1>1. CASE n = 0
    BY <1>1, SubSeqEmpty
  <1>2. CASE n # 0
    <2>1. CASE ~Jumps(e)
      <3>1. Len(Emitted(e)) = 1
        BY <2>1, EmittedIs
      <3> QED BY <1>2, <3>1
    <2>2. CASE Jumps(e)
      <3>1. Emitted(e) = <<GapOf(e), NoticeOf(e.kind, e)>>
        BY <2>2, EmittedIs
      <3>2. n = 1
        BY <1>2, <3>1
      <3>3. SubSeq(Emitted(e), 1, 1) = <<GapOf(e)>>
        <4> DEFINE s == Emitted(e)
        <4>1. /\ GapOf(e) \in Notice /\ 1 \in Int
              /\ \A i \in 1 .. 1 : s[i] \in Notice
              /\ s[1] = GapOf(e)
          BY <3>1, EmittedIs
        <4> HIDE DEF s
        <4>2. /\ SubSeq(s, 1, 1) \in Seq(Notice) /\ Len(SubSeq(s, 1, 1)) = 1
              /\ SubSeq(s, 1, 1)[1] = s[1]
          BY <4>1, SubSeqProperties
        <4>3. <<GapOf(e)>> \in Seq(Notice) /\ Len(<<GapOf(e)>>) = 1 /\ <<GapOf(e)>>[1] = GapOf(e)
          BY <4>1
        <4>4. \A i \in 1 .. 1 : SubSeq(s, 1, 1)[i] = <<GapOf(e)>>[i]
          BY <4>1, <4>2, <4>3
        <4> QED BY <4>2, <4>3, <4>4, SeqEqual DEF s
      <3> QED BY <2>2, <3>2, <3>3
    <2> QED BY <2>1, <2>2
  <1> QED BY <1>1, <1>2
-----------------------------------------------------------------------------
(* The steps.                                                              *)

\* An event is emitted.
LEMMA EmitStep ==
    ASSUME IInv, NEW m \in Message \cup {None}, Emit(m)
    PROVE  IInv'
  <1> DEFINE e == NextEvent(m)
  <1>1. /\ e \in Event /\ e.life = life /\ e.seq = sent + 1
        /\ sent \in Nat /\ life \in Nat
    BY DEF IInv, FeedTypeOK, NextEvent, Event, LiveKind
  <1>2. /\ sent' = sent + 1 /\ log' = Append(log, e)
        /\ wire' = wire \/ wire' = Append(wire, e)
        /\ UNCHANGED <<life, link, run, listening, lastEventSeq, told, journal, backfilled, drops>>
    BY <1>1 DEF Emit, apiVars
  <1>3. /\ log \in Seq(Event) /\ wire \in Seq(Event) /\ told \in Seq(Notice)
        /\ DOMAIN log = 1 .. Len(log) /\ Len(log) \in Nat
        /\ DOMAIN wire = 1 .. Len(wire) /\ Len(wire) \in Nat
    BY LenProperties DEF IInv, FeedTypeOK
  <1>4. /\ log' \in Seq(Event) /\ DOMAIN log' = 1 .. Len(log) + 1
        /\ \A i \in DOMAIN log : log'[i] = log[i]
        /\ log'[Len(log) + 1] = e
    BY <1>1, <1>2, <1>3, AppendProperties
  <1>5. written' \in Seq(Message)
    BY DEF IInv, FeedTypeOK, Emit
  <1>6. \/ wire' = wire
        \/ /\ wire' \in Seq(Event) /\ DOMAIN wire' = 1 .. Len(wire) + 1
           /\ \A k \in DOMAIN wire : wire'[k] = wire[k]
           /\ wire'[Len(wire) + 1] = e
    <2>1. wire' = wire \/ wire' = Append(wire, e)
      BY <1>2
    <2>2. CASE wire' = Append(wire, e)
      <3>1. /\ wire' \in Seq(Event) /\ Len(wire') = Len(wire) + 1
            /\ \A k \in 1 .. Len(wire) : wire'[k] = wire[k]
            /\ wire'[Len(wire) + 1] = e
        BY <1>1, <1>3, <2>2, AppendProperties
      <3>2. DOMAIN wire' = 1 .. Len(wire')
        BY <3>1, LenProperties
      <3> QED BY <1>3, <3>1, <3>2
    <2> QED BY <2>1, <2>2
  <1> HIDE DEF e
  <1>7. FeedTypeOK'
    BY <1>1, <1>2, <1>4, <1>5, <1>6 DEF IInv, FeedTypeOK
  <1>8. LogInv'
    <2> SUFFICES ASSUME NEW n \in 1 .. sent + 1
                 PROVE  \E i \in DOMAIN log' : log'[i].life = life /\ log'[i].seq = n
      BY <1>2 DEF LogInv
    <2>1. CASE n = sent + 1
      BY <1>1, <1>3, <1>4, <2>1
    <2>2. CASE n # sent + 1
      <3>1. n \in 1 .. sent
        BY <1>1, <2>2
      <3>2. PICK i \in DOMAIN log : log[i].life = life /\ log[i].seq = n
        BY <3>1 DEF IInv, LogInv
      <3> QED BY <1>3, <1>4, <3>2
    <2> QED BY <2>1, <2>2
  <1>9. ToldInv'
    <2>1. \A j \in DOMAIN told : told[j].seq \in Nat
      BY <1>3, NoticeFields
    <2> QED BY <1>1, <1>2, <2>1 DEF IInv, ToldInv, Live
  <1>10. WireInv'
    <2>1. \A j \in DOMAIN told : Live(told[j]) /\ told[j].life = life =>
              told[j].seq <= sent /\ told[j].seq \in Nat
      BY <1>3, NoticeFields DEF IInv, ToldInv
    <2>2. CASE wire' = wire
      BY <1>1, <1>2, <2>2 DEF IInv, WireInv, Live
    <2>3. CASE wire' # wire
      <3>1. \A k \in DOMAIN wire : wire[k].seq \in 1 .. sent
        BY DEF IInv, WireInv
      <3> SUFFICES ASSUME NEW k \in DOMAIN wire'
                   PROVE  /\ wire'[k].life = life /\ wire'[k].seq \in 1 .. sent + 1
                          /\ \A l \in DOMAIN wire' : k < l => wire'[k].seq < wire'[l].seq
                          /\ \A j \in DOMAIN told : Live(told[j]) /\ told[j].life = life
                                 => told[j].seq < wire'[k].seq
        BY <1>2 DEF WireInv, Live
      <3>2. CASE k \in DOMAIN wire
        <4>1. wire'[k] = wire[k] /\ wire[k].life = life /\ wire[k].seq \in 1 .. sent + 1
          BY <1>1, <1>6, <2>3, <3>1, <3>2 DEF IInv, WireInv
        <4>2. \A l \in DOMAIN wire' : k < l => wire'[k].seq < wire'[l].seq
          <5> SUFFICES ASSUME NEW l \in DOMAIN wire', k < l PROVE wire'[k].seq < wire'[l].seq
            OBVIOUS
          <5>1. CASE l \in DOMAIN wire
            BY <1>6, <2>3, <3>2, <5>1 DEF IInv, WireInv
          <5>2. CASE l \notin DOMAIN wire
            BY <1>1, <1>3, <1>6, <2>3, <3>1, <3>2, <4>1, <5>2
          <5> QED BY <5>1, <5>2
        <4> QED BY <3>2, <4>1, <4>2 DEF IInv, WireInv
      <3>3. CASE k \notin DOMAIN wire
        <4>1. k = Len(wire) + 1 /\ wire'[k] = e
          BY <1>3, <1>6, <2>3, <3>3
        <4>2. \A l \in DOMAIN wire' : ~(k < l)
          BY <1>3, <1>6, <2>3, <4>1
        <4> QED BY <1>1, <2>1, <4>1, <4>2
      <3> QED BY <3>2, <3>3
    <2> QED BY <2>2, <2>3
  <1>11. LastInv' /\ JournalInv' /\ HeardMessageStays'
    BY <1>2 DEF IInv, LastInv, LatestLive, Live, JournalInv, HeardMessageStays
  <1>12. LossIsTold' /\ GapsAreReal'
    <2>1. \A i, j \in DOMAIN told :
              /\ told[j].seq \in Nat /\ told[i].seq \in Nat
              /\ Live(told[j]) => told[j].life # life \/ told[j].seq <= sent
      BY <1>3, NoticeFields DEF IInv, ToldInv
    <2>2. \A i, j \in DOMAIN told :
               /\ LostIn(log, told[j].life, told[i].seq, told[j].seq)
                      => LostIn(log', told[j].life, told[i].seq, told[j].seq)
               /\ Live(told[j]) /\ LostIn(log', told[j].life, told[i].seq, told[j].seq)
                      => LostIn(log, told[j].life, told[i].seq, told[j].seq)
      <3> TAKE i, j \in DOMAIN told
      <3>1. LostIn(log, told[j].life, told[i].seq, told[j].seq)
                => LostIn(log', told[j].life, told[i].seq, told[j].seq)
        BY <1>3, <1>4 DEF LostIn
      <3>2. ASSUME Live(told[j]), LostIn(log', told[j].life, told[i].seq, told[j].seq)
            PROVE  LostIn(log, told[j].life, told[i].seq, told[j].seq)
        <4>1. PICK k \in DOMAIN log' : /\ log'[k].life = told[j].life
                                       /\ told[i].seq < log'[k].seq /\ log'[k].seq < told[j].seq
          BY <3>2 DEF LostIn
        <4>2. k # Len(log) + 1
          BY <1>1, <1>4, <2>1, <3>2, <4>1
        <4>3. k \in DOMAIN log /\ log'[k] = log[k]
          BY <1>3, <1>4, <4>2
        <4> QED BY <4>1, <4>3 DEF LostIn
      <3> QED BY <3>1, <3>2
    <2>3. \A j \in DOMAIN told : LossAt(j)' /\ GapAt(j)'
      BY <1>2, <1>3, <2>2, OldNotices DEF IInv
    <2> QED BY <1>2, <2>3, AtEach
  <1> QED BY <1>7, <1>8, <1>9, <1>10, <1>11, <1>12 DEF IInv

\* Nothing is told and nothing emitted, but for links and processes.
LEMMA QuietStep ==
    ASSUME IInv, UNCHANGED <<log, written, told>>,
           FeedTypeOK', LogInv', LastInv', JournalInv', HeardMessageStays',
           wire' = <<>> \/ (wire' = wire /\ life' = life /\ sent' = sent),
           \/ life' = life /\ sent' = sent
           \/ life' = life + 1 /\ sent' = 0,
           run' = run \/ run' = run + 1
    PROVE  IInv'
  <1>1. WireInv'
    <2>1. CASE wire' = <<>>
      BY <2>1 DEF WireInv
    <2>2. CASE wire' # <<>>
      BY <2>2 DEF IInv, WireInv, Live
    <2> QED BY <2>1, <2>2
  <1>2. ToldInv'
    <2>1. \A j \in DOMAIN told : told[j].seq \in Nat /\ told[j].life \in Nat /\ told[j].run \in Nat
      BY NoticeFields DEF IInv, FeedTypeOK
    <2>2. life \in Nat /\ sent \in Nat /\ run \in Nat
      BY DEF IInv, FeedTypeOK
    <2> QED BY <2>1, <2>2 DEF IInv, ToldInv, Live
  <1>3. LossIsTold' /\ GapsAreReal'
    BY DEF IInv, LossIsTold, GapsAreReal, Precedes, Live, LostBetween
  <1> QED BY <1>1, <1>2, <1>3 DEF IInv

\* The gateway starts anew.
LEMMA GatewayRestartsStep ==
    ASSUME IInv, GatewayRestarts
    PROVE  IInv'
  <1>1. FeedTypeOK'
    <2>1. <<>> \in Seq(Event)
      OBVIOUS
    <2> QED BY <2>1 DEF IInv, FeedTypeOK, GatewayRestarts, Disconnect
  <1>2. LogInv' /\ LastInv' /\ JournalInv' /\ HeardMessageStays'
    BY DEF IInv, LogInv, LastInv, LatestLive, Live, JournalInv, HeardMessageStays,
           GatewayRestarts, Disconnect
  <1> QED BY <1>1, <1>2, QuietStep DEF GatewayRestarts, Disconnect

\* A link is lost, or subscribes, or start() gives up.
LEMMA LinkSteps ==
    ASSUME IInv, LinkLost \/ Subscribe \/ StartFails
    PROVE  IInv'
  <1>1. FeedTypeOK'
    <2>1. <<>> \in Seq(Event)
      OBVIOUS
    <2>2. listening' \in BOOLEAN
      BY Zenon DEF IInv, FeedTypeOK, LinkLost, Subscribe, StartFails, Disconnect, apiVars
    <2>3. drops' \in Nat
      BY DEF IInv, FeedTypeOK, LinkLost, Subscribe, StartFails
    <2>4. link' \in {"down", "subscribing", "up"}
      BY DEF IInv, FeedTypeOK, LinkLost, Subscribe, StartFails, Disconnect
    <2>5. /\ UNCHANGED <<life, sent, run, log, written, backfilled, lastEventSeq, told, journal>>
          /\ wire' = <<>> \/ wire' = wire
      BY DEF LinkLost, Subscribe, StartFails, Disconnect, gatewayVars, apiVars
    <2> QED BY <2>1, <2>2, <2>3, <2>4, <2>5 DEF IInv, FeedTypeOK
  <1>2. /\ UNCHANGED <<log, written, told, life, sent, run, lastEventSeq, journal>>
        /\ wire' = <<>> \/ wire' = wire
    BY DEF LinkLost, Subscribe, StartFails, Disconnect, gatewayVars, apiVars
  <1>3. LogInv' /\ LastInv' /\ JournalInv' /\ HeardMessageStays'
    BY <1>2 DEF IInv, LogInv, LastInv, LatestLive, Live, JournalInv, HeardMessageStays
  <1> QED BY <1>1, <1>2, <1>3, QuietStep

\* What a restart of the API sets has its type.
LEMMA RestartType ==
    ASSUME FeedTypeOK, Restart
    PROVE  /\ run' \in Nat /\ link' \in {"down", "subscribing", "up"} /\ wire' \in Seq(Event)
           /\ listening' \in BOOLEAN /\ backfilled' \in BOOLEAN
           /\ lastEventSeq' \in Nat \cup {None}
           /\ UNCHANGED <<life, sent, log, written, drops>>
  <1>1. wire' \in Seq(Event)
    <2>1. <<>> \in Seq(Event)
      OBVIOUS
    <2> QED BY <2>1 DEF Restart
  <1>2. run' \in Nat
    BY DEF FeedTypeOK, Restart
  <1>3. listening' \in BOOLEAN /\ backfilled' \in BOOLEAN
    BY DEF Restart
  <1> QED BY <1>1, <1>2, <1>3 DEF Restart, gatewayVars

\* After a restart of the API nothing has been told to it.
LEMMA RestartLast ==
    ASSUME IInv, Restart, NEW t \in Seq(Notice), \A j \in DOMAIN t : t[j].run <= run, told' = t
    PROVE  LastInv'
  <1>1. run' = run + 1 /\ lastEventSeq' = None /\ run \in Nat
    BY DEF Restart, IInv, FeedTypeOK
  <1>2. \A j \in DOMAIN t : t[j].run \in Nat
    BY NoticeFields
  <1> QED BY <1>1, <1>2 DEF LastInv

\* The API process dies.
LEMMA ApiDiesStep ==
    ASSUME IInv, ApiDies
    PROVE  IInv'
  <1>1. FeedTypeOK'
    BY RestartType DEF IInv, FeedTypeOK, ApiDies
  <1>2. LogInv' /\ JournalInv' /\ HeardMessageStays'
    BY DEF IInv, LogInv, JournalInv, HeardMessageStays, ApiDies, Restart, gatewayVars
  <1>3. LastInv'
    BY RestartLast DEF IInv, FeedTypeOK, ToldInv, ApiDies
  <1> QED BY <1>1, <1>2, <1>3, QuietStep DEF ApiDies, Restart, gatewayVars

\* Messages are recovered from the session files.
LEMMA BackfillStep ==
    ASSUME IInv, Backfill
    PROVE  IInv'
  <1> DEFINE E == {[id |-> <<"session.message", m, 0>>, msg |-> m] : m \in Imported}
  <1>1. Imported \subseteq Message
    <2>1. \A i \in DOMAIN written : written[i] \in Message
      BY ElementOfSeq DEF IInv, FeedTypeOK
    <2> QED BY <2>1 DEF Imported, Recoverable
  <1>2. \A y \in E : y \in Entry /\ y.id[2] = y.msg /\ y.id[3] = 0
    BY <1>1 DEF Entry, Kind, LiveKind
  <1>3. journal' = {x \in journal : \A y \in E : x.id # y.id} \cup E
    BY DEF Backfill, Upserted
  <1> HIDE DEF E
  <1>4. journal' \subseteq Entry /\ JournalInv'
    BY <1>2, <1>3 DEF IInv, FeedTypeOK, JournalInv
  <1>5. \A x \in journal : x.id[3] # 0 => x \in journal'
    BY <1>2, <1>3
  <1>6. HeardMessageStays'
    BY <1>5 DEF IInv, HeardMessageStays, Backfill
  <1>7. FeedTypeOK' /\ LogInv' /\ LastInv'
    BY <1>4 DEF IInv, FeedTypeOK, LogInv, LastInv, LatestLive, Live, Backfill, gatewayVars
  <1> QED BY <1>4, <1>6, <1>7, QuietStep DEF Backfill, gatewayVars

\* The reconnect plan is through.
LEMMA PlanDoneStep ==
    ASSUME IInv, PlanDone
    PROVE  IInv'
  <1> DEFINE n == NoticeOf("gateway.reconnected", [life |-> life, seq |-> 0, msg |-> None])
  <1>1. /\ n \in Notice /\ ~Live(n) /\ n.kind # "sequence.gap" /\ n.run = run
        /\ n.kind # "session.message"
    <2>1. n \in Notice
      BY NoticeType DEF IInv, FeedTypeOK, Kind
    <2> QED BY <2>1 DEF NoticeOf, Live, LiveKind
  <1>2. /\ told' = told \o <<n>> /\ journal' = Listened(<<n>>)
        /\ UNCHANGED <<life, sent, log, written, wire, run, lastEventSeq, backfilled, drops>>
        /\ link' = "up" /\ listening' = TRUE
    BY DEF PlanDone, Notify, gatewayVars
  <1> HIDE DEF n
  <1>3. told \in Seq(Notice) /\ run \in Nat
    BY DEF IInv, FeedTypeOK
  <1>4. /\ told' \in Seq(Notice)
        /\ Len(told) \in Nat /\ DOMAIN told = 1 .. Len(told)
        /\ DOMAIN told' = 1 .. Len(told) + 1
        /\ told'[Len(told) + 1] = n
        /\ \A k \in DOMAIN told : told'[k] = told[k]
    BY <1>1, <1>2, <1>3, OneMore
  <1>5. journal' \subseteq Entry /\ JournalInv' /\ HeardMessageStays'
    <2>1. <<n>> \in Seq(Notice) /\ \A k \in DOMAIN <<n>> : ~Live(<<n>>[k])
      BY <1>1
    <2> QED BY <1>2, <2>1, Journalled DEF IInv
  <1>6. FeedTypeOK' /\ LogInv'
    BY <1>2, <1>4, <1>5 DEF IInv, FeedTypeOK, LogInv
  <1>7. \A j \in DOMAIN told' : \/ j \in DOMAIN told /\ told'[j] = told[j]
                                \/ j = Len(told) + 1 /\ told'[j] = n
    BY <1>4
  <1>8. WireInv' /\ ToldInv'
    BY <1>1, <1>2, <1>3, <1>7 DEF IInv, WireInv, ToldInv, Live
  <1>9. LastInv'
    <2>1. CASE lastEventSeq = None
      BY <1>1, <1>2, <1>7, <2>1 DEF IInv, LastInv, Live
    <2>2. CASE lastEventSeq # None
      <3>1. PICK j \in DOMAIN told : LatestLive(j) /\ told[j].seq = lastEventSeq
        BY <2>2 DEF IInv, LastInv
      <3>2. j \in DOMAIN told' /\ told'[j] = told[j]
        BY <1>4, <3>1
      <3>3. LatestLive(j)'
        BY <1>1, <1>2, <1>7, <3>1, <3>2 DEF LatestLive, Live
      <3> QED BY <1>2, <2>2, <3>1, <3>2, <3>3 DEF LastInv
    <2> QED BY <2>1, <2>2
  <1>10. LossIsTold' /\ GapsAreReal'
    BY <1>1, <1>2, PlainNotice
  <1> QED BY <1>5, <1>6, <1>8, <1>9, <1>10 DEF IInv

\* An event frame arrives.
LEMMA ReceiveStep ==
    ASSUME IInv, Receive
    PROVE  IInv'
  <1> DEFINE e == Head(wire)
             g == GapOf(e)
             n == NoticeOf(e.kind, e)
  <1>1. /\ wire # <<>> /\ wire' = Tail(wire)
        /\ told' = told \o Emitted(e) /\ journal' = Listened(Emitted(e))
        /\ lastEventSeq' = e.seq
        /\ UNCHANGED <<life, sent, log, written, link, run, listening, backfilled, drops>>
    BY DEF Receive, Notify, gatewayVars
  <1>2. /\ e \in Event /\ e = wire[1] /\ 1 \in DOMAIN wire
        /\ e.life = life /\ e.seq \in 1 .. sent /\ e.seq \in Nat /\ e.seq >= 1
        /\ \A j \in DOMAIN told : Live(told[j]) /\ told[j].life = life => told[j].seq < e.seq
    BY <1>1, HeadOfWire DEF IInv, FeedTypeOK
  <1>3. /\ told \in Seq(Notice) /\ run \in Nat /\ life \in Nat /\ sent \in Nat
        /\ wire \in Seq(Event)
    BY DEF IInv, FeedTypeOK
  <1>4. /\ g \in Notice /\ n \in Notice
        /\ ~Live(g) /\ g.run = run
        /\ Live(n) /\ n.seq = e.seq /\ n.life = life /\ n.run = run
        /\ Jumps(e) => Emitted(e) = <<g, n>>
        /\ ~Jumps(e) => Emitted(e) = <<n>>
        /\ Emitted(e) \in Seq(Notice)
    BY <1>2, EmittedIs DEF IInv
  <1>5. /\ Tail(wire) \in Seq(Event)
        /\ \A k \in DOMAIN Tail(wire) : k + 1 \in DOMAIN wire /\ Tail(wire)[k] = wire[k + 1]
                                        /\ 1 < k + 1 /\ k \in Nat
    BY <1>1, <1>3
  <1> HIDE DEF e, g, n
  <1>6. PICK p \in Nat :
            /\ p = IF Jumps(e) THEN Len(told) + 2 ELSE Len(told) + 1
            /\ told' \in Seq(Notice) /\ p \in DOMAIN told' /\ told'[p] = n
            /\ \A k \in DOMAIN told : k \in DOMAIN told' /\ told'[k] = told[k] /\ k < p
            /\ \A k \in DOMAIN told' : \/ k \in DOMAIN told
                                       \/ k = p
                                       \/ Jumps(e) /\ k = p - 1 /\ told'[k] = g
            /\ \A k \in DOMAIN told' : k <= p /\ k \in Nat
            /\ Jumps(e) => p - 1 \in DOMAIN told' /\ told'[p - 1] = g
    <2>1. CASE Jumps(e)
      <3>1. /\ told' \in Seq(Notice)
            /\ Len(told) \in Nat /\ DOMAIN told = 1 .. Len(told)
            /\ DOMAIN told' = 1 .. Len(told) + 2
            /\ told'[Len(told) + 1] = g /\ told'[Len(told) + 2] = n
            /\ \A k \in DOMAIN told : told'[k] = told[k]
        BY <1>1, <1>3, <1>4, <2>1, TwoMore
      <3>2. Len(told) + 2 \in Nat /\ Len(told) + 2 - 1 = Len(told) + 1
        BY <3>1
      <3> QED BY <2>1, <3>1, <3>2
    <2>2. CASE ~Jumps(e)
      <3>1. /\ told' \in Seq(Notice)
            /\ Len(told) \in Nat /\ DOMAIN told = 1 .. Len(told)
            /\ DOMAIN told' = 1 .. Len(told) + 1
            /\ told'[Len(told) + 1] = n
            /\ \A k \in DOMAIN told : told'[k] = told[k]
        BY <1>1, <1>3, <1>4, <2>2, OneMore
      <3> QED BY <2>2, <3>1
    <2> QED BY <2>1, <2>2
  <1>7. journal' \subseteq Entry /\ JournalInv' /\ HeardMessageStays'
    <2>1. \A k \in DOMAIN Emitted(e) : Live(Emitted(e)[k]) => Emitted(e)[k].seq >= 1
      BY <1>2, <1>4
    <2> QED BY <1>1, <1>4, <2>1, Journalled DEF IInv
  <1>8. FeedTypeOK' /\ LogInv'
    BY <1>1, <1>2, <1>5, <1>6, <1>7 DEF IInv, FeedTypeOK, LogInv
  <1>9. WireInv'
    <2> SUFFICES ASSUME NEW k \in DOMAIN Tail(wire)
                 PROVE  /\ Tail(wire)[k].life = life /\ Tail(wire)[k].seq \in 1 .. sent
                        /\ \A m \in DOMAIN Tail(wire) :
                               k < m => Tail(wire)[k].seq < Tail(wire)[m].seq
                        /\ \A j \in DOMAIN told' : Live(told'[j]) /\ told'[j].life = life
                               => told'[j].seq < Tail(wire)[k].seq
      BY <1>1 DEF WireInv, Live
    <2>1. k + 1 \in DOMAIN wire /\ Tail(wire)[k] = wire[k + 1] /\ 1 < k + 1
      BY <1>5
    <2>2. wire[1].seq < wire[k + 1].seq
      BY <1>2, <2>1 DEF IInv, WireInv
    <2>3. \A m \in DOMAIN Tail(wire) : k < m => Tail(wire)[k].seq < Tail(wire)[m].seq
      BY <1>5, <2>1 DEF IInv, WireInv
    <2>4. \A j \in DOMAIN told' : Live(told'[j]) /\ told'[j].life = life
                               => told'[j].seq < wire[k + 1].seq
      BY <1>2, <1>4, <1>6, <2>1, <2>2 DEF IInv, WireInv
    <2> QED BY <2>1, <2>3, <2>4 DEF IInv, WireInv
  <1>10. ToldInv'
    <2> SUFFICES ASSUME NEW j \in DOMAIN told'
                 PROVE  /\ told'[j].run <= run
                        /\ Live(told'[j]) => /\ told'[j].seq >= 1 /\ told'[j].life <= life
                                             /\ told'[j].life = life => told'[j].seq <= sent
      BY <1>1 DEF ToldInv, Live
    <2>1. CASE j \in DOMAIN told
      BY <1>6, <2>1 DEF IInv, ToldInv
    <2>2. CASE j = p
      BY <1>2, <1>3, <1>4, <1>6, <2>2
    <2>3. CASE told'[j] = g
      BY <1>3, <1>4, <2>3
    <2> QED BY <1>6, <2>1, <2>2, <2>3
  <1>11. LastInv'
    <2>1. LatestLive(p)'
      BY <1>1, <1>4, <1>6 DEF LatestLive, Live
    <2>2. lastEventSeq' # None
      BY <1>1, <1>2, FeedAssumption
    <2> QED BY <1>1, <1>4, <1>6, <2>1, <2>2 DEF LastInv
  <1>12. LossIsTold' /\ GapsAreReal'
    <2>1. \A j \in DOMAIN told : LossAt(j)' /\ GapAt(j)'
      BY <1>1, <1>3, <1>6, OldNotices DEF IInv
    <2>2. LossAt(p)' /\ GapAt(p)'
      BY <1>1, <1>6, LiveNotice DEF e, g, n
    <2>3. ASSUME Jumps(e) PROVE LossAt(p - 1)' /\ GapAt(p - 1)'
      <3>1. PICK q \in Nat : q = p - 1 /\ q = Len(told) + 1
        BY <1>3, <1>6, <2>3
      <3>2. LossAt(q)' /\ GapAt(q)'
        BY <1>1, <1>6, <2>3, <3>1, GapNotice DEF e, g
      <3> QED BY <3>1, <3>2
    <2> QED BY <1>6, <2>1, <2>2, <2>3, AtEach
  <1> QED BY <1>7, <1>8, <1>9, <1>10, <1>11, <1>12 DEF IInv

\* The write of an entry throws.
LEMMA ReceiveFailsStep ==
    ASSUME IInv, ReceiveFails
    PROVE  IInv'
  <1> DEFINE e == Head(wire)
             g == GapOf(e)
  <1>1. /\ wire # <<>>
        /\ run' = run + 1 /\ link' = "down" /\ wire' = <<>>
        /\ listening' = FALSE /\ lastEventSeq' = None /\ backfilled' = FALSE
        /\ UNCHANGED <<life, sent, log, written, drops>>
    BY DEF ReceiveFails, Restart, gatewayVars
  <1>2. PICK n \in 0 .. Len(Emitted(e)) - 1 : Notify(SubSeq(Emitted(e), 1, n))
    BY DEF ReceiveFails
  <1>3. e \in Event /\ e.life = life
    BY <1>1, HeadOfWire
  <1>4. /\ told \in Seq(Notice) /\ run \in Nat
        /\ <<>> \in Seq(Event) /\ <<>> \in Seq(Notice)
    BY DEF IInv, FeedTypeOK
  <1>5. CASE SubSeq(Emitted(e), 1, n) = <<>>
    <2>1. told' = told /\ journal' = Listened(<<>>)
      BY <1>2, <1>4, <1>5, ConcatEmptySeq DEF Notify
    <2>2. journal' = journal
      BY <2>1 DEF Listened, Upserted
    <2>3. FeedTypeOK'
      BY <2>1, <2>2, RestartType DEF IInv, FeedTypeOK, ReceiveFails
    <2>4. LogInv' /\ JournalInv' /\ HeardMessageStays'
      BY <1>1, <2>1, <2>2 DEF IInv, LogInv, JournalInv, HeardMessageStays
    <2>5. LastInv'
      BY <1>4, <2>1, RestartLast DEF IInv, ToldInv, ReceiveFails
    <2> QED BY <1>1, <2>1, <2>3, <2>4, <2>5, QuietStep
  <1>6. CASE Jumps(e) /\ SubSeq(Emitted(e), 1, n) = <<g>>
    <2>1. told' = told \o <<g>> /\ journal' = Listened(<<g>>)
      BY <1>2, <1>6 DEF Notify
    <2>2. g \in Notice /\ ~Live(g) /\ g.run = run
      BY <1>3, EmittedIs DEF IInv
    <2> HIDE DEF g
    <2>3. /\ told' \in Seq(Notice)
          /\ Len(told) \in Nat /\ DOMAIN told = 1 .. Len(told)
          /\ DOMAIN told' = 1 .. Len(told) + 1
          /\ told'[Len(told) + 1] = g
          /\ \A k \in DOMAIN told : told'[k] = told[k]
      BY <1>4, <2>1, <2>2, OneMore
    <2>4. \A j \in DOMAIN told' : \/ j \in DOMAIN told /\ told'[j] = told[j]
                                  \/ j = Len(told) + 1 /\ told'[j] = g
      BY <2>3
    <2>5. journal' \subseteq Entry /\ JournalInv' /\ HeardMessageStays'
      <3>1. <<g>> \in Seq(Notice) /\ \A k \in DOMAIN <<g>> : ~Live(<<g>>[k])
        BY <2>2
      <3> QED BY <2>1, <3>1, Journalled DEF IInv
    <2>6. FeedTypeOK' /\ LogInv'
      <3>1. FeedTypeOK'
        BY <2>3, <2>5, RestartType DEF IInv, FeedTypeOK, ReceiveFails
      <3> QED BY <1>1, <3>1 DEF IInv, LogInv
    <2>7. WireInv'
      BY <1>1 DEF WireInv
    <2>8. ToldInv'
      <3>1. \A j \in DOMAIN told : told[j].run \in Nat
        BY <1>4, NoticeFields
      <3> QED BY <1>1, <1>4, <2>2, <2>4, <3>1 DEF IInv, ToldInv, Live
    <2>9. LastInv'
      <3>1. PICK t \in Seq(Notice) : t = told'
        BY <2>3
      <3>2. \A j \in DOMAIN t : t[j].run <= run
        BY <1>4, <2>2, <2>4, <3>1 DEF IInv, ToldInv
      <3> QED BY <3>1, <3>2, RestartLast DEF ReceiveFails
    <2>10. LossIsTold' /\ GapsAreReal'
      <3>1. \A j \in DOMAIN told : LossAt(j)' /\ GapAt(j)'
        BY <1>1, <1>4, <2>3, OldNotices DEF IInv
      <3>2. PICK p \in Nat : p = Len(told) + 1
        BY <2>3
      <3>3. LossAt(p)' /\ GapAt(p)'
        BY <1>1, <1>6, <2>3, <3>2, GapNotice DEF g
      <3> QED BY <2>4, <3>1, <3>2, <3>3, AtEach
    <2> QED BY <2>5, <2>6, <2>7, <2>8, <2>9, <2>10 DEF IInv
  <1> QED BY <1>2, <1>3, <1>5, <1>6, Beginnings DEF IInv

-----------------------------------------------------------------------------
(* Theorems.                                                               *)

\* The invariant holds at first ...
LEMMA InitInv == Init => IInv
  <1> SUFFICES ASSUME Init PROVE IInv
    OBVIOUS
  <1>1. FeedTypeOK
    <2>1. <<>> \in Seq(Event) /\ <<>> \in Seq(Message) /\ <<>> \in Seq(Notice)
      OBVIOUS
    <2>2. drops \in Nat
      BY FeedAssumption DEF Init
    <2> QED BY <2>1, <2>2 DEF Init, FeedTypeOK
  <1>2. LogInv /\ WireInv /\ ToldInv /\ LastInv /\ JournalInv
    BY DEF Init, LogInv, WireInv, ToldInv, LastInv, JournalInv
  <1>3. LossIsTold /\ GapsAreReal /\ HeardMessageStays
    BY DEF Init, LossIsTold, GapsAreReal, HeardMessageStays
  <1> QED BY <1>1, <1>2, <1>3 DEF IInv

\* ... and every step keeps it.
LEMMA NextInv == IInv /\ [Next]_vars => IInv'
  <1> SUFFICES ASSUME IInv, [Next]_vars PROVE IInv'
    OBVIOUS
  <1>1. CASE \E m \in Message \cup {None} : Emit(m)
    BY <1>1, EmitStep
  <1>2. CASE GatewayRestarts
    BY <1>2, GatewayRestartsStep
  <1>3. CASE LinkLost \/ Subscribe \/ StartFails
    BY <1>3, LinkSteps
  <1>4. CASE PlanDone
    BY <1>4, PlanDoneStep
  <1>5. CASE Receive
    BY <1>5, ReceiveStep
  <1>6. CASE ReceiveFails
    BY <1>6, ReceiveFailsStep
  <1>7. CASE ApiDies
    BY <1>7, ApiDiesStep
  <1>8. CASE Backfill
    BY <1>8, BackfillStep
  <1>9. CASE UNCHANGED vars
    <2>1. UNCHANGED <<life, sent, log, written, link, wire, run, listening, lastEventSeq,
                      told, journal, backfilled, drops>>
      BY <1>9 DEF vars
    <2>2. FeedTypeOK' /\ LogInv' /\ LastInv' /\ JournalInv' /\ HeardMessageStays'
      BY <2>1 DEF IInv, FeedTypeOK, LogInv, LastInv, LatestLive, Live, JournalInv,
                  HeardMessageStays
    <2> QED BY <2>1, <2>2, QuietStep
  <1> QED BY <1>1, <1>2, <1>3, <1>4, <1>5, <1>6, <1>7, <1>8, <1>9 DEF Next

\* The inductive invariant about the log, the wire, the latest number and what was told.
THEOREM FeedInvHolds == Spec => []IInv
  BY InitInv, NextInv, PTL DEF Spec

\* The feed keeps its types.
THEOREM TypeCorrect == Spec => []FeedTypeOK
  <1>1. IInv => FeedTypeOK
    BY DEF IInv
  <1> QED BY FeedInvHolds, <1>1, PTL

\* However links, gateways and API processes come and go, of two events of one gateway
\* process the second is never passed on without a gap before it if one between them was
\* lost (emitEvent).
THEOREM LossIsToldHolds == Spec => []LossIsTold
  <1>1. IInv => LossIsTold
    BY DEF IInv
  <1> QED BY FeedInvHolds, <1>1, PTL

\* No gap is told where nothing was lost and the gateway is the same (emitEvent).
THEOREM GapsAreRealHolds == Spec => []GapsAreReal
  <1>1. IInv => GapsAreReal
    BY DEF IInv
  <1> QED BY FeedInvHolds, <1>1, PTL

\* A message that was heard keeps its entry for good (normalizedEventId, upsertEntry).
THEOREM HeardMessageStaysHolds == Spec => []HeardMessageStays
  <1>1. IInv => HeardMessageStays
    BY DEF IInv
  <1> QED BY FeedInvHolds, <1>1, PTL
=============================================================================
