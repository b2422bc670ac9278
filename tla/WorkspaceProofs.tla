--------------------------- MODULE WorkspaceProofs ---------------------------
(***************************************************************************)
(* Theorems about Workspace, for any number of days, calls under way,      *)
(* clicks, texts, writes and outages.                                      *)
(***************************************************************************)
EXTENDS Workspace, SequenceTheorems, TLAPS

-----------------------------------------------------------------------------
(* The inductive invariant.                                                *)

\* A text was written about day d alone, or an import wrote some of it, or a handler kept
\* it while another day was on its way.
About(text, d) == text \in Text /\ (text.imported \/ text.crossed \/ text.of \subseteq {d})

\* The copies of a day that the server hands out.
TrueCopy == {c \in [key : Day, ver : Nat, ctx : Text] : About(c.ctx, c.key)}

\* What the server stores, and what it has pushed.
ServerInv ==
    /\ version \in [Day -> Nat] /\ context \in [Day -> Text] /\ listed \subseteq Day
    /\ \A d \in Day : About(context[d], d)
    /\ stream \in Seq(TrueCopy)

\* The editor holds a text about the day on the screen, and so it did at the last render.
ScreenInv ==
    /\ day.key \in Shown /\ About(draft, day.key)
    /\ shown.key \in Shown /\ About(shown.draft, shown.key)

\* As long as a text is unsaved no layer lags in what the next answer is decided by.
SteadyInv ==
    dirty => /\ shown.dirty /\ shown.key = day.key
             /\ seen.dirty /\ seen.key = day.key

\* A text on its way to the server goes with the day it was written on, and so does one
\* on its way back.
CallInv(c) ==
    /\ c.phase \in {"purge", "list"} => c.kind \in {"poll", "index"}
    /\ c.phase = "sent" /\ c.kind = "save"   => c.key \in Day /\ About(c.text, c.key)
    /\ c.phase = "sent" /\ c.kind = "import" =>
          c.key \in Day /\ c.text \in Text /\ c.text.imported
    /\ c.phase = "read" /\ c.kind = "import" => c.text \in Text /\ c.text.imported
    /\ c.phase = "read" /\ c.kind \in {"poll", "index", "open", "reload", "send"} =>
          c.copy \in TrueCopy

CallsInv ==
    /\ calls = [s \in Slot |-> calls[s]]
    /\ \A s \in Slot : calls[s] # Idle => CallInv(calls[s])

IInv == budget \in Budget /\ ServerInv /\ ScreenInv /\ SteadyInv /\ CallsInv

-----------------------------------------------------------------------------
(* Lemmas.                                                                 *)

\* What is written about the day on the screen stays about it.
LEMMA WrittenAbout ==
    ASSUME budget \in Budget, NEW d \in Day, NEW t \in Text
    PROVE  /\ Written(t, d) \in Text
           /\ Written(t, d).imported = t.imported /\ Written(t, d).crossed = t.crossed
           /\ Written(t, d).of = t.of \cup {d}
  BY DEF Written, Text, Budget

\* A text that a handler took over from day d is about the day now on the screen.
LEMMA CrossingAbout ==
    ASSUME NEW d, NEW t \in Text, About(t, d)
    PROVE  Crossing(t, d) \in Text /\ About(Crossing(t, d), day.key)
  <1>1. CASE d = day.key
    BY <1>1 DEF Crossing, Text, About
  <1>2. CASE d # day.key
    BY <1>2 DEF Crossing, Text, About
  <1> QED BY <1>1, <1>2

\* A text nobody has written.
LEMMA BlankText ==
    ASSUME WorkspaceAssumption
    PROVE  Blank \in Text /\ Blank.imported = FALSE /\ Blank.of = {}
  BY DEF WorkspaceAssumption, Blank, Text

\* A copy that the server hands out is about its day.
LEMMA CopyIsTrue ==
    ASSUME ServerInv, NEW d \in Day, NEW v \in Nat
    PROVE  CopyOf(d, v) \in TrueCopy /\ CopyOf(d, v).key = d
  BY DEF ServerInv, TrueCopy, CopyOf, About

\* What is spent leaves a budget.
LEMMA SpendLeaves ==
    ASSUME budget \in Budget, WorkspaceAssumption,
           NEW what \in {"writes", "clicks", "edits", "outages"}, Spend(what)
    PROVE  budget' \in Budget
  <1>1. /\ MaxWrites \in Nat /\ MaxClicks \in Nat /\ MaxEdits \in Nat
        /\ MaxOutages \in Nat /\ MaxEvents \in Nat
    BY DEF WorkspaceAssumption
  <1>2. /\ budget.writes \in 0 .. MaxWrites /\ budget.clicks \in 0 .. MaxClicks
        /\ budget.edits \in 0 .. MaxEdits /\ budget.outages \in 0 .. MaxOutages
        /\ budget.events \in 0 .. MaxEvents
    BY DEF Budget
  <1>3. CASE what = "writes"
    <2>1. budget' = [writes |-> budget.writes - 1, clicks |-> budget.clicks, edits |-> budget.edits,
                     outages |-> budget.outages, events |-> budget.events - 1]
      BY <1>3 DEF Spend, Budget
    <2>2. budget.writes > 0 /\ budget.events > 0
      BY <1>3 DEF Spend
    <2> QED BY <1>1, <1>2, <2>1, <2>2 DEF Budget
  <1>4. CASE what = "clicks"
    <2>1. budget' = [writes |-> budget.writes, clicks |-> budget.clicks - 1, edits |-> budget.edits,
                     outages |-> budget.outages, events |-> budget.events - 1]
      BY <1>4 DEF Spend, Budget
    <2>2. budget.clicks > 0 /\ budget.events > 0
      BY <1>4 DEF Spend
    <2> QED BY <1>1, <1>2, <2>1, <2>2 DEF Budget
  <1>5. CASE what = "edits"
    <2>1. budget' = [writes |-> budget.writes, clicks |-> budget.clicks, edits |-> budget.edits - 1,
                     outages |-> budget.outages, events |-> budget.events - 1]
      BY <1>5 DEF Spend, Budget
    <2>2. budget.edits > 0 /\ budget.events > 0
      BY <1>5 DEF Spend
    <2> QED BY <1>1, <1>2, <2>1, <2>2 DEF Budget
  <1>6. CASE what = "outages"
    <2>1. budget' = [writes |-> budget.writes, clicks |-> budget.clicks, edits |-> budget.edits,
                     outages |-> budget.outages - 1, events |-> budget.events - 1]
      BY <1>6 DEF Spend, Budget
    <2>2. budget.outages > 0 /\ budget.events > 0
      BY <1>6 DEF Spend
    <2> QED BY <1>1, <1>2, <2>1, <2>2 DEF Budget
  <1> QED BY <1>3, <1>4, <1>5, <1>6

\* The screen after a copy has come.
LEMMA AppliedScreen ==
    ASSUME ScreenInv, SteadyInv, NEW c \in TrueCopy, NEW forced, ApplyFetchedDay(c, forced),
           UNCHANGED <<shown, seen>>
    PROVE  ScreenInv' /\ SteadyInv'
  <1>1. day'.key = c.key /\ c.key \in Day /\ c.key \in Shown /\ About(c.ctx, c.key)
    BY DEF ApplyFetchedDay, TrueCopy, Day, Shown
  <1>2. CASE Keeps(c, forced)
    <2>1. draft' = Crossing(draft, seen.key) /\ dirty' = dirty /\ seen.key = c.key
      BY <1>2 DEF ApplyFetchedDay, Keeps
    <2>2. About(draft', c.key)
      <3>1. CASE seen.key = day.key
        BY <2>1, <3>1 DEF Crossing, ScreenInv, About, Text
      <3>2. CASE seen.key # day.key
        BY <2>1, <3>2 DEF Crossing, ScreenInv, About, Text
      <3> QED BY <3>1, <3>2
    <2> QED BY <1>1, <2>1, <2>2 DEF ScreenInv, SteadyInv, About
  <1>3. CASE ~Keeps(c, forced)
    <2>1. draft' = c.ctx /\ dirty' = FALSE
      BY <1>3 DEF ApplyFetchedDay
    <2> QED BY <1>1, <2>1 DEF ScreenInv, SteadyInv, About
  <1> QED BY <1>2, <1>3

\* A click or a key leaves all three layers with what is on the screen.
LEMMA FlushedScreen ==
    ASSUME NEW cs, Flush(cs), day'.key \in Shown, About(draft', day'.key)
    PROVE  ScreenInv' /\ SteadyInv'
  BY DEF Flush, Shows, SeenOf, ScreenInv, SteadyInv, About

\* One call takes a slot, or leaves it.
LEMMA PutKeeps ==
    ASSUME CallsInv, NEW s \in Slot, NEW c, c # Idle => CallInv(c)
    PROVE  /\ Put(s, c) = [t \in Slot |-> Put(s, c)[t]]
           /\ \A t \in Slot : Put(s, c)[t] # Idle => CallInv(Put(s, c)[t])
  BY DEF CallsInv, Put

\* Effects end polls and begin nothing.
LEMMA RerunKeeps ==
    ASSUME ServerInv, NEW d, NEW cs, cs = [t \in Slot |-> cs[t]],
           \A t \in Slot : cs[t] # Idle => CallInv(cs[t]), Rerun(d, cs)
    PROVE  CallsInv' /\ stream' \in Seq(TrueCopy)
  <1>1. CASE d = seen.selected
    BY <1>1 DEF Rerun, CallsInv, CallInv, ServerInv
  <1>2. CASE d # seen.selected
    BY <1>2 DEF Rerun, CallsInv, CallInv
  <1> QED BY <1>1, <1>2

-----------------------------------------------------------------------------
(* The steps.                                                              *)

\* Where the workspace begins.
LEMMA InitInv ==
    ASSUME WorkspaceAssumption, Init
    PROVE  IInv
  <1>1. budget \in Budget
    BY DEF Init, Budget, WorkspaceAssumption
  <1>2. ServerInv
    BY BlankText DEF Init, ServerInv, About
  <1>3. ScreenInv
    BY BlankText DEF Init, Shows, ScreenInv, About, Shown, WorkspaceAssumption
  <1>4. CallsInv
    BY DEF Init, CallsInv
  <1>5. SteadyInv
    BY DEF Init, SteadyInv
  <1> QED BY <1>1, <1>2, <1>3, <1>4, <1>5 DEF IInv

\* What the operator does.
LEMMA OperatorStep ==
    ASSUME WorkspaceAssumption, IInv, Operator
    PROVE  IInv'
  <1> USE DEF IInv
  <1>1. ASSUME NEW s \in Slot, NEW d, OpenDay(s, d)
        PROVE  IInv'
    <2> DEFINE c == [kind |-> "open", phase |-> "sent", key |-> d]
    <2>1. CallInv(c)
      BY DEF CallInv
    <2>2. CallsInv' /\ stream' \in Seq(TrueCopy) /\ ScreenInv' /\ SteadyInv'
      <3>1. Flush(Put(s, c)) /\ UNCHANGED <<day, draft>>
        BY <1>1 DEF OpenDay
      <3> HIDE DEF c
      <3>2. Rerun(selected', Put(s, c))
        BY <3>1 DEF Flush
      <3>3. day'.key \in Shown /\ About(draft', day'.key)
        BY <3>1 DEF ScreenInv, About
      <3> QED BY <2>1, <3>1, <3>2, <3>3, PutKeeps, RerunKeeps, FlushedScreen
    <2>3. budget' \in Budget
      BY <1>1, SpendLeaves DEF OpenDay
    <2> QED BY <1>1, <2>2, <2>3 DEF OpenDay, server, ServerInv, About
  <1>2. CASE Type
    <2>1. shown.key \in Day /\ budget' \in Budget
      BY <1>2, SpendLeaves DEF Type, ScreenInv, Day, Shown
    <2>2. About(Written(shown.draft, shown.key), shown.key)
      BY <2>1, WrittenAbout DEF ScreenInv, About
    <2>3. About(draft', day.key) /\ day' = day
      BY <1>2, <2>2, CrossingAbout DEF Type, About
    <2>4. Flush(calls)
      BY <1>2 DEF Type
    <2>5. ScreenInv' /\ SteadyInv'
      BY <2>3, <2>4, FlushedScreen DEF ScreenInv
    <2>6. CallsInv' /\ stream' \in Seq(TrueCopy)
      BY <2>4, RerunKeeps DEF Flush, CallsInv
    <2> QED BY <1>2, <2>1, <2>5, <2>6 DEF Type, server, ServerInv, About
  <1>3. ASSUME Spend("clicks"), Flush(calls), UNCHANGED <<server, day, draft, dirty>>
        PROVE  IInv'
    <2>1. CallsInv' /\ stream' \in Seq(TrueCopy)
      BY <1>3, RerunKeeps DEF Flush, CallsInv
    <2>2. budget' \in Budget
      BY <1>3, SpendLeaves
    <2>3. ScreenInv' /\ SteadyInv'
      BY <1>3, FlushedScreen DEF ScreenInv, About
    <2> QED BY <1>3, <2>1, <2>2, <2>3 DEF server, ServerInv, About
  <1>4. ASSUME NEW s \in Slot, NEW d \in Day, Calendar(s, d) \/ Toast(s, d) \/ OpenDay(s, d)
        PROVE  IInv'
    BY <1>1, <1>4 DEF Calendar, Toast
  <1>5. ASSUME NEW s \in Slot, NEW d \in Day, SavedView(s, d)
        PROVE  IInv'
    BY <1>1, <1>3, <1>5 DEF SavedView
  <1>6. ASSUME NEW s \in Slot, Home(s)
        PROVE  IInv'
    BY <1>1, <1>6 DEF Home
  <1>7. ASSUME NEW s \in Slot, NEW c, CallInv(c), calls' = Put(s, c), budget' \in Budget,
               UNCHANGED <<server, screen, stream>>
        PROVE  IInv'
    BY <1>7, PutKeeps DEF server, screen, ServerInv, ScreenInv, SteadyInv, CallsInv, About
  <1>8. ASSUME NEW s \in Slot, Reload(s)
        PROVE  IInv'
    <2> DEFINE c == [kind |-> "reload", phase |-> "sent",
                     key |-> IF shown.selected # 0 THEN shown.selected ELSE shown.key]
    <2>1. CallInv(c)
      BY DEF CallInv
    <2>2. calls' = Put(s, c) /\ budget' \in Budget /\ UNCHANGED <<server, screen, stream>>
      BY <1>8, SpendLeaves DEF Reload
    <2> HIDE DEF c
    <2> QED BY <1>7, <2>1, <2>2
  <1>9. ASSUME NEW s \in Slot, Send(s)
        PROVE  IInv'
    <2> DEFINE c == [kind |-> "send", phase |-> "sent", key |-> NDays]
    <2>1. CallInv(c)
      BY DEF CallInv
    <2>2. calls' = Put(s, c) /\ budget' \in Budget /\ UNCHANGED <<server, screen, stream>>
      BY <1>9, SpendLeaves DEF Send
    <2> HIDE DEF c
    <2> QED BY <1>7, <2>1, <2>2
  <1>10. ASSUME NEW s \in Slot, Save(s)
         PROVE  IInv'
    <2> DEFINE c == [kind |-> "save", phase |-> "sent", key |-> shown.key, text |-> shown.draft]
    <2>1. CallInv(c)
      BY <1>10 DEF Save, CallInv, ScreenInv, Day, Shown
    <2>2. calls' = Put(s, c) /\ budget' \in Budget /\ UNCHANGED <<server, screen, stream>>
      BY <1>10, SpendLeaves DEF Save
    <2> HIDE DEF c
    <2> QED BY <1>7, <2>1, <2>2
  <1>11. ASSUME NEW s \in Slot, ImportMonitoring(s)
         PROVE  IInv'
    <2> DEFINE text == [Written(Blank, shown.key) EXCEPT !.imported = TRUE]
               c    == [kind |-> "import", phase |-> "sent", key |-> shown.key, text |-> text]
    <2>1. shown.key \in Day
      BY <1>11 DEF ImportMonitoring, ScreenInv, Day, Shown
    <2>2. text \in Text /\ text.imported
      BY <2>1, BlankText, WrittenAbout DEF Text
    <2>3. CallInv(c)
      BY <2>1, <2>2 DEF CallInv
    <2>4. calls' = Put(s, c) /\ budget' \in Budget /\ UNCHANGED <<server, screen, stream>>
      BY <1>11, SpendLeaves DEF ImportMonitoring
    <2> HIDE DEF c
    <2> QED BY <1>7, <2>3, <2>4
  <1>12. ASSUME NEW s \in Slot, Retention(s)
         PROVE  IInv'
    <2> DEFINE c == [kind |-> "index", phase |-> "purge", from |-> shown.selected,
                     want |-> IF shown.selected # 0 THEN shown.selected ELSE shown.key]
    <2>1. CallInv(c)
      BY DEF CallInv
    <2>2. calls' = Put(s, c) /\ budget' \in Budget /\ UNCHANGED <<server, screen, stream>>
      BY <1>12, SpendLeaves DEF Retention
    <2> HIDE DEF c
    <2> QED BY <1>7, <2>1, <2>2
  <1>13. ASSUME NEW d \in Day, SelectOnly(d)
         PROVE  IInv'
    BY <1>3, <1>13 DEF SelectOnly
  <1> QED
    BY <1>2, <1>4, <1>5, <1>6, <1>8, <1>9, <1>10, <1>11, <1>12, <1>13 DEF Operator

\* What the server, the clock and the stream do.
LEMMA ServerStep ==
    ASSUME WorkspaceAssumption, IInv, NEW s \in Slot, Poll(s) \/ Answer(s)
    PROVE  IInv'
  <1> USE DEF IInv
  <1>1. CASE \E c : (c # Idle => CallInv(c)) /\ calls' = Put(s, c)
                    /\ UNCHANGED <<server, screen, stream, budget>>
    BY <1>1, PutKeeps DEF server, screen, ServerInv, ScreenInv, SteadyInv, CallsInv, About
  <1>2. CASE Poll(s)
    <2> DEFINE c == [kind |-> "poll", phase |-> "list", from |-> seen.selected, want |-> seen.selected]
    <2>1. CallInv(c)
      BY DEF CallInv
    <2> QED BY <1>1, <1>2, <2>1 DEF Poll
  <1>3. CASE Purge(s)
    <2>1. ServerInv' /\ ScreenInv' /\ SteadyInv' /\ budget' \in Budget
      BY <1>3 DEF Purge, screen, ServerInv, ScreenInv, SteadyInv, About
    <2>2. CallsInv'
      BY <1>3 DEF Purge, CallsInv, CallInv
    <2> QED BY <2>1, <2>2
  <1>4. CASE ReadList(s)
    <2> DEFINE c == [kind |-> calls[s].kind, phase |-> "sent", from |-> calls[s].from,
                     key |-> IF calls[s].want \in listed THEN calls[s].want ELSE Max(listed)]
    <2>1. calls[s].kind \in {"poll", "index"}
      BY <1>4 DEF ReadList, CallsInv, CallInv
    <2>2. CallInv(c)
      BY <2>1 DEF CallInv
    <2>3. calls' = Put(s, IF listed = {} THEN Idle ELSE c)
      BY <1>4 DEF ReadList
    <2> HIDE DEF c
    <2> QED BY <1>1, <1>4, <2>2, <2>3 DEF ReadList
  <1>5. CASE ReadDay(s)
    <2> DEFINE k    == calls[s].key
               copy == CopyOf(k, version[k])
               c    == IF calls[s].kind \in {"poll", "index"}
                       THEN [kind |-> calls[s].kind, phase |-> "read",
                             from |-> calls[s].from, copy |-> copy]
                       ELSE [kind |-> calls[s].kind, phase |-> "read", copy |-> copy]
    <2>1. calls' = Put(s, IF k \notin listed THEN Idle ELSE c)
          /\ UNCHANGED <<server, screen, stream, budget>>
          /\ calls[s].kind \in {"poll", "index", "open", "reload"}
      BY <1>5 DEF ReadDay
    <2>2. CASE k \in listed
      <3>1. k \in Day /\ version[k] \in Nat
        BY <2>2 DEF ServerInv
      <3>2. copy \in TrueCopy
        BY <3>1, CopyIsTrue
      <3> HIDE DEF copy
      <3>3. CallInv(c)
        BY <2>1, <3>2 DEF CallInv
      <3> HIDE DEF c
      <3> QED BY <1>1, <2>1, <2>2, <3>3
    <2> HIDE DEF c
    <2>3. CASE k \notin listed
      BY <1>1, <2>1, <2>3
    <2> QED BY <2>2, <2>3
  <1>6. CASE ReadSend(s)
    <2> DEFINE k    == calls[s].key
               copy == CopyOf(k, version[k])
               c    == [kind |-> "send", phase |-> "read", copy |-> copy]
    <2>1. calls' = Put(s, IF k \notin listed THEN Idle ELSE c)
          /\ UNCHANGED <<server, screen, stream, budget>>
      BY <1>6 DEF ReadSend
    <2>2. CASE k \in listed
      <3>1. k \in Day /\ version[k] \in Nat
        BY <2>2 DEF ServerInv
      <3>2. copy \in TrueCopy
        BY <3>1, CopyIsTrue
      <3> HIDE DEF copy
      <3>3. CallInv(c)
        BY <3>2 DEF CallInv
      <3> HIDE DEF c
      <3> QED BY <1>1, <2>1, <2>2, <3>3
    <2> HIDE DEF c
    <2>3. CASE k \notin listed
      BY <1>1, <2>1, <2>3
    <2> QED BY <2>2, <2>3
  <1>7. CASE WriteContext(s)
    <2> DEFINE c == [kind |-> "save", phase |-> "read"]
    <2>1. CallInv(c)
      BY DEF CallInv
    <2>2. CallsInv'
      <3>1. calls' = Put(s, c)
        BY <1>7 DEF WriteContext
      <3> HIDE DEF c
      <3> QED BY <2>1, <3>1, PutKeeps DEF CallsInv
    <2>3. calls[s].key \in Day /\ About(calls[s].text, calls[s].key)
      BY <1>7 DEF WriteContext, CallsInv, CallInv
    <2>4. context' \in [Day -> Text] /\ \A d \in Day : About(context'[d], d)
      BY <1>7, <2>3 DEF WriteContext, ServerInv, About
    <2>5. ServerInv'
      BY <1>7, <2>4 DEF WriteContext, ServerInv, About
    <2>6. ScreenInv' /\ SteadyInv' /\ budget' \in Budget
      BY <1>7 DEF WriteContext, screen, ScreenInv, SteadyInv, About
    <2> QED BY <2>2, <2>5, <2>6
  <1>8. CASE WriteImport(s)
    <2> DEFINE k    == calls[s].key
               text == [calls[s].text EXCEPT !.of = @ \cup context[k].of]
               c    == [kind |-> "import", phase |-> "read", text |-> context'[k]]
    <2>1. k \in Day /\ calls[s].text \in Text /\ calls[s].text.imported
      BY <1>8 DEF WriteImport, CallsInv, CallInv
    <2>2. context[k] \in Text
      BY <2>1 DEF ServerInv
    <2>3. text \in Text /\ text.imported
      BY <2>1, <2>2 DEF Text
    <2>4. context' = [context EXCEPT ![k] = text] /\ calls' = Put(s, c)
          /\ UNCHANGED <<version, listed, screen, stream, budget>>
      BY <1>8 DEF WriteImport
    <2> HIDE DEF k, text
    <2>5. context' \in [Day -> Text] /\ context'[k] = text
          /\ \A d \in Day : About(context'[d], d)
      BY <2>1, <2>3, <2>4 DEF ServerInv, About
    <2>6. CallInv(c)
      BY <2>3, <2>5 DEF CallInv
    <2>7. CallsInv'
      <3> HIDE DEF c
      <3> QED BY <2>4, <2>6, PutKeeps DEF CallsInv
    <2>8. ServerInv'
      BY <2>4, <2>5 DEF ServerInv, About
    <2>9. ScreenInv' /\ SteadyInv' /\ budget' \in Budget
      BY <2>4 DEF screen, ScreenInv, SteadyInv, About
    <2> QED BY <2>7, <2>8, <2>9
  <1> QED BY <1>2, <1>3, <1>4, <1>5, <1>6, <1>7, <1>8 DEF Answer

\* A day is written and pushed, a call fails, or the stream breaks.
LEMMA EnvironmentStep ==
    ASSUME WorkspaceAssumption, IInv, Environment
    PROVE  IInv'
  <1> USE DEF IInv
  <1>1. ASSUME NEW d \in Day, JournalEvent(d)
        PROVE  IInv'
    <2> DEFINE copy == CopyOf(d, version'[d])
    <2>1. version' \in [Day -> Nat] /\ listed' \subseteq Day /\ budget' \in Budget
      BY <1>1, SpendLeaves DEF JournalEvent, Entered, ServerInv
    <2>2. copy \in TrueCopy
      BY <2>1, CopyIsTrue
    <2>3. stream' \in Seq(TrueCopy)
      <3>1. stream' = Append(stream, copy)
        BY <1>1 DEF JournalEvent, Entered
      <3> HIDE DEF copy
      <3> QED BY <2>2, <3>1 DEF ServerInv
    <2> HIDE DEF copy
    <2>4. ServerInv'
      BY <1>1, <2>1, <2>3 DEF JournalEvent, Entered, ServerInv, About
    <2> QED
      BY <1>1, <2>1, <2>4
      DEF JournalEvent, screen, ScreenInv, SteadyInv, CallsInv, CallInv, About
  <1>2. ASSUME NEW s \in Slot, Fails(s)
        PROVE  IInv'
    <2>1. budget' \in Budget /\ CallsInv'
      BY <1>2, SpendLeaves, PutKeeps DEF Fails, CallsInv
    <2> QED BY <1>2, <2>1 DEF Fails, server, screen, ServerInv, ScreenInv, SteadyInv, About
  <1>3. CASE StreamBreaks
    <2>1. budget' \in Budget
      BY <1>3, SpendLeaves DEF StreamBreaks
    <2> QED
      BY <1>3, <2>1
      DEF StreamBreaks, server, screen, ServerInv, ScreenInv, SteadyInv, CallsInv, CallInv, About
  <1> QED BY <1>1, <1>2, <1>3 DEF Environment

\* A day that was pushed is shown, or is not the one that is selected.
LEMMA PushedStep ==
    ASSUME IInv, Pushed
    PROVE  IInv'
  <1> USE DEF IInv
  <1>1. Head(stream) \in TrueCopy /\ Tail(stream) \in Seq(TrueCopy)
    BY DEF Pushed, ServerInv
  <1>2. ServerInv' /\ CallsInv' /\ budget' \in Budget
    BY <1>1 DEF Pushed, server, ServerInv, CallsInv, CallInv, About
  <1>3. CASE Head(stream).key = seen.selected
    <2>1. ApplyFetchedDay(Head(stream), FALSE) /\ UNCHANGED <<shown, seen>>
      BY <1>3 DEF Pushed
    <2>2. ScreenInv' /\ SteadyInv'
      BY <1>1, <2>1, AppliedScreen
    <2> QED BY <1>2, <2>2
  <1>4. CASE Head(stream).key # seen.selected
    BY <1>2, <1>4 DEF Pushed, ScreenInv, SteadyInv, About
  <1> QED BY <1>3, <1>4

\* An answer is applied.
LEMMA ApplyStep ==
    ASSUME IInv, NEW s \in Slot, Apply(s)
    PROVE  IInv'
  <1> USE DEF IInv
  <1>1. CASE ApplyList(s)
    <2>1. calls[s].copy \in TrueCopy
      BY <1>1 DEF ApplyList, Answered, CallsInv, CallInv
    <2>2. ScreenInv' /\ SteadyInv'
      BY <1>1, <2>1, AppliedScreen DEF ApplyList
    <2>3. CallsInv'
      BY <1>1, PutKeeps DEF ApplyList, CallsInv
    <2> QED BY <1>1, <2>2, <2>3 DEF ApplyList, server, ServerInv, About
  <1>2. CASE ApplyDay(s)
    <2>1. calls[s].copy \in TrueCopy
      BY <1>2 DEF ApplyDay, Answered, CallsInv, CallInv
    <2>2. ScreenInv' /\ SteadyInv'
      BY <1>2, <2>1, AppliedScreen DEF ApplyDay
    <2>3. CallsInv'
      BY <1>2, PutKeeps DEF ApplyDay, CallsInv
    <2> QED BY <1>2, <2>2, <2>3 DEF ApplyDay, server, ServerInv, About
  <1>3. CASE ApplySave(s)
    <2>1. CallsInv'
      BY <1>3, PutKeeps DEF ApplySave, CallsInv
    <2> QED BY <1>3, <2>1 DEF ApplySave, server, ServerInv, ScreenInv, SteadyInv, About
  <1>4. CASE ApplyImport(s)
    <2>1. calls[s].text \in Text /\ calls[s].text.imported
      BY <1>4 DEF ApplyImport, Answered, CallsInv, CallInv
    <2>2. ScreenInv' /\ SteadyInv'
      BY <1>4, <2>1 DEF ApplyImport, ScreenInv, SteadyInv, About
    <2>3. CallsInv'
      BY <1>4, PutKeeps DEF ApplyImport, CallsInv
    <2> QED BY <1>4, <2>2, <2>3 DEF ApplyImport, server, ServerInv, About
  <1> QED BY <1>1, <1>2, <1>3, <1>4 DEF Apply

\* React renders, and its effects run.
LEMMA RenderStep ==
    ASSUME IInv, Render
    PROVE  IInv'
  <1> USE DEF IInv
  <1>1. CASE Commit
    BY <1>1 DEF Commit, Shows, server, ServerInv, ScreenInv, SteadyInv, CallsInv, CallInv, About
  <1>2. CASE Effects
    <2>1. CallsInv' /\ stream' \in Seq(TrueCopy)
      BY <1>2, RerunKeeps DEF Effects, CallsInv
    <2> QED BY <1>2, <2>1 DEF Effects, SeenOf, server, ServerInv, ScreenInv, SteadyInv, About
  <1> QED BY <1>1, <1>2 DEF Render

\* Every step keeps the invariant.
LEMMA NextInv ==
    ASSUME WorkspaceAssumption, IInv, [Next]_vars
    PROVE  IInv'
  <1>1. CASE Next
    BY <1>1, OperatorStep, EnvironmentStep, PushedStep, RenderStep, ServerStep, ApplyStep
    DEF Next, CallStep
  <1>2. CASE UNCHANGED vars
    BY <1>2 DEF vars, IInv, ServerInv, ScreenInv, SteadyInv, CallsInv, CallInv, About
  <1> QED BY <1>1, <1>2

\* What a step may do to the text on the screen.
DraftKept ==
    dirty =>
        \/ dirty' /\ (draft' = draft \/ Type)
        \/ \E s \in Slot : Takes(s) /\ Apply(s)
        \/ stream # <<>> /\ Head(stream).key # day.key /\ Pushed

\* A copy of the day on the screen leaves an unsaved text alone.
LEMMA CopyOfTheDay ==
    ASSUME ScreenInv, SteadyInv, dirty, NEW c, c.key = day.key, ApplyFetchedDay(c, FALSE)
    PROVE  UNCHANGED <<draft, dirty>>
  <1>1. Keeps(c, FALSE) /\ seen.key = day.key
    BY DEF SteadyInv, Keeps
  <1>2. Crossing(draft, seen.key) = draft
    BY <1>1 DEF Crossing, Text, ScreenInv, About
  <1> QED BY <1>1, <1>2 DEF ApplyFetchedDay

\* No step takes a typed text but the answers that may.
LEMMA NextKeepsDraft ==
    ASSUME IInv, [Next]_vars
    PROVE  DraftKept
  <1> SUFFICES ASSUME dirty, ~(UNCHANGED <<draft, dirty>>), ~Type
               PROVE  \/ \E s \in Slot : Takes(s) /\ Apply(s)
                      \/ stream # <<>> /\ Head(stream).key # day.key /\ Pushed
    <2>1. CASE Type
      BY <2>1 DEF DraftKept, Type
    <2>2. CASE UNCHANGED <<draft, dirty>>
      BY <2>2 DEF DraftKept
    <2> QED BY <2>1, <2>2 DEF DraftKept
  <1>1. ~Operator
    <2>1. \A s, d : OpenDay(s, d) => UNCHANGED <<draft, dirty>>
      BY DEF OpenDay
    <2>2. \A d : SelectOnly(d) => UNCHANGED <<draft, dirty>>
      BY DEF SelectOnly
    <2>3. \A s, d : Calendar(s, d) \/ Toast(s, d) \/ SavedView(s, d) \/ Home(s)
                       => UNCHANGED <<draft, dirty>>
      BY <2>1 DEF Calendar, Toast, SavedView, Home
    <2>4. \A s : Reload(s) \/ Send(s) \/ Save(s) \/ ImportMonitoring(s) \/ Retention(s)
                       => UNCHANGED <<draft, dirty>>
      BY DEF Reload, Send, Save, ImportMonitoring, Retention, screen
    <2> QED BY <2>1, <2>2, <2>3, <2>4 DEF Operator
  <1>2. ~Environment /\ ~Render
    BY DEF Environment, JournalEvent, Fails, StreamBreaks, Render, Commit, Effects, screen
  <1>3. ASSUME NEW s \in Slot
        PROVE  ~Poll(s) /\ ~Answer(s)
    BY DEF Poll, Answer, Purge, ReadList, ReadDay, ReadSend, WriteContext, WriteImport, screen
  <1>4. ASSUME NEW c, ApplyFetchedDay(c, FALSE)
        PROVE  c.key # day.key
    BY <1>4, CopyOfTheDay DEF IInv
  <1>5. CASE Pushed
    BY <1>4, <1>5 DEF Pushed
  <1>6. ASSUME NEW s \in Slot, Apply(s)
        PROVE  Takes(s)
    <2>1. CASE ApplyList(s)
      BY <1>4, <2>1 DEF ApplyList, Answered, Takes
    <2>2. CASE ApplyDay(s)
      BY <1>4, <2>2 DEF ApplyDay, Answered, Takes
    <2>3. CASE ApplySave(s) \/ ApplyImport(s)
      BY <2>3 DEF ApplySave, ApplyImport, Answered, Takes
    <2> QED BY <1>6, <2>1, <2>2, <2>3 DEF Apply
  <1>7. Next
    BY DEF vars
  <1> QED BY <1>1, <1>2, <1>3, <1>5, <1>6, <1>7 DEF Next, CallStep

-----------------------------------------------------------------------------
(* Theorems.                                                               *)

\* The invariant holds for ever.
THEOREM WorkspaceInvHolds == Spec => []IInv
  <1>1. Init => IInv
    BY InitInv, WorkspaceAssumption
  <1>2. IInv /\ [Next]_vars => IInv'
    BY NextInv, WorkspaceAssumption
  <1> QED BY <1>1, <1>2, PTL DEF Spec

\* No context is ever saved under a day that it was not written on, however many calls,
\* selections and late answers cross, but for texts of an import and those that an answer
\* kept, or a key went into, while another day was on its way to the screen
\* (handleSavePinnedContext, applyFetchedDay).
THEOREM ContextUnderItsDayHolds == Spec => []ContextUnderItsDay
  <1>1. IInv => ContextUnderItsDay
    BY DEF IInv, ServerInv, About, ContextUnderItsDay
  <1> QED BY <1>1, WorkspaceInvHolds, PTL

\* No copy of the day on the screen takes what the operator has typed there and not
\* saved: only a day opened, the end of a save, an import, and a copy of another day do
\* (applyFetchedDay).
THEOREM DraftSurvivesRefreshHolds == Spec => DraftSurvivesRefresh
  <1>1. IInv /\ [Next]_vars => [DraftKept]_vars
    BY NextKeepsDraft
  <1> QED BY <1>1, WorkspaceInvHolds, PTL DEF Spec, DraftSurvivesRefresh, DraftKept
=============================================================================
