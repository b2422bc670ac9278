---------------------------- MODULE PanelsProofs ----------------------------
(***************************************************************************)
(* Theorems about Panels, for any views, days, templates, items and        *)
(* bounds.                                                                 *)
(***************************************************************************)
EXTENDS Panels, SequenceTheorems, FiniteSetTheorems, TLAPS

-----------------------------------------------------------------------------
(* The inductive invariant.                                                *)

\* The cards on the screen are those stored for the active view.
CardsShown == ui.collapsed = local.collapsed[Active]

\* The storage has a place for every view the route may have, and no record loses a field.
Shape ==
    /\ DOMAIN ui = {"day", "view", "template", "item", "collapsed"}
    /\ ui.view \in ViewId
    /\ DOMAIN local = {"template", "default", "slot", "collapsed"}
    /\ local.collapsed = [v \in ViewId |-> local.collapsed[v]]
    /\ DOMAIN tab = {"views", "told"}

IInv == Shape /\ CardsShown

-----------------------------------------------------------------------------
(* Lemmas.                                                                 *)

\* A state as the renders of this module have them.
Rendered(s) == DOMAIN s = {"day", "view", "template", "item", "collapsed"} /\ s.view \in ViewId

\* A storage that has a place for every view.
Keeping(l) ==
    /\ DOMAIN l = {"template", "default", "slot", "collapsed"}
    /\ l.collapsed = [v \in ViewId |-> l.collapsed[v]]

\* The active view is one that the storage has a place for.
LEMMA ActiveIsView ==
    ASSUME NEW views, NEW s, s.view \in ViewId
    PROVE  ActiveIn(views, s) \in ViewId
  BY DEF ActiveIn, ViewId

\* The effects of the cards show what is stored for the view, and store nothing for another
\* view; when the view has been entered they store what was there.
LEMMA CardsStay ==
    ASSUME NEW view \in ViewId, NEW entered \in BOOLEAN, NEW s, Rendered(s),
           NEW l, Keeping(l)
    PROVE  LET done == CardEffects(view, entered, s, l)
           IN  /\ Rendered(done.ui) /\ Keeping(done.local)
               /\ done.ui.view = s.view
               /\ done.ui.collapsed = done.local.collapsed[view]
               /\ \A v \in ViewId :
                     entered \/ v # view => done.local.collapsed[v] = l.collapsed[v]
  <1> DEFINE read    == IF entered THEN ReadCards(view, s, l) ELSE s
             written == WriteCards(view, s, l)
             after   == WriteCards(view, read, written)
  <1>1. CardEffects(view, entered, s, l) = [ui |-> read, local |-> after]
    BY DEF CardEffects
  <1>2. /\ Rendered(read) /\ read.view = s.view
        /\ entered => read.collapsed = l.collapsed[view]
    BY DEF Rendered, ReadCards
  <1>3. Keeping(written) /\ \A v \in ViewId \ {view} : written.collapsed[v] = l.collapsed[v]
    BY DEF Keeping, WriteCards
  <1>4. /\ Keeping(after)
        /\ after.collapsed[view] = read.collapsed
        /\ \A v \in ViewId \ {view} : after.collapsed[v] = written.collapsed[v]
    BY <1>3 DEF Keeping, WriteCards
  <1> HIDE DEF read, written, after
  <1> QED BY <1>1, <1>2, <1>3, <1>4

\* The effects of the day store no cards and show no others.
LEMMA DayEffectsKeepCards ==
    ASSUME NEW newDay, NEW newQuery, NEW s, Rendered(s), NEW l, Keeping(l)
    PROVE  LET done == DayEffects(newDay, newQuery, s, l)
           IN  /\ Rendered(done.ui) /\ Keeping(done.local)
               /\ done.ui.view = s.view /\ done.ui.collapsed = s.collapsed
               /\ done.local.collapsed = l.collapsed
  <1> DEFINE Like(t) == Rendered(t) /\ t.view = s.view /\ t.collapsed = s.collapsed
             With(k) == Keeping(k) /\ k.collapsed = l.collapsed
  <1>1. ASSUME NEW t, NEW k, With(k)
        PROVE  With(WriteSlots(t, k)) /\ With(WriteTemplate(t, k))
    BY <1>1 DEF WriteSlots, WriteTemplate, Keeping
  <1>2. ASSUME NEW t, NEW k, Like(t)
        PROVE  Like(ReadSlots(t, k)) /\ Like(ReadTemplate(t, k))
    BY <1>2 DEF ReadSlots, ReadTemplate, Rendered
  <1> DEFINE written  == WriteTemplate(s, WriteSlots(s, l))
             template == IF newDay THEN ReadTemplate(s, written) ELSE s
             read     == IF newDay \/ newQuery THEN ReadSlots(template, written) ELSE template
             after    == WriteTemplate(read, WriteSlots(read, written))
  <1>3. DayEffects(newDay, newQuery, s, l) = [ui |-> read, local |-> after]
    BY DEF DayEffects
  <1> HIDE DEF Like, With
  <1>4. Like(s) /\ With(l)
    BY DEF Like, With
  <1>5. With(written)
    BY <1>1, <1>4
  <1>6. Like(template)
    BY <1>2, <1>4
  <1>7. Like(read)
    BY <1>2, <1>6
  <1>8. With(after)
    BY <1>1, <1>5
  <1> HIDE DEF read, after
  <1> QED BY <1>3, <1>7, <1>8 DEF Like, With

\* What a step may do to the cards.
CardsKept ==
    /\ \A v \in ViewId :
          local'.collapsed[v] # local.collapsed[v] => v = Active /\ Active' = Active
    /\ ui'.collapsed = local'.collapsed[Active']

\* A render keeps the cards, if the state it renders has the cards of the present one or
\* is rendered under another view.
LEMMA RenderKeepsCards ==
    ASSUME IInv, NEW s, Rendered(s), NEW first \in BOOLEAN,
           DOMAIN tab' = {"views", "told"},
           Render(s, tab'.views, first)
    PROVE  IInv' /\ CardsKept
  <1> DEFINE view    == ActiveIn(tab'.views, s)
             entered == first \/ view # ActiveIn(tab.views, ui)
             cards   == CardEffects(view, entered, s, local)
             newDay   == first \/ s.day # ui.day
             newQuery == first \/ s.view # ui.view
             panes   == DayEffects(newDay, newQuery, cards.ui, cards.local)
  <1>1. ui' = panes.ui /\ local' = panes.local
    BY DEF Render
  <1>2. view \in ViewId
    BY ActiveIsView DEF Rendered
  <1>3. Keeping(local)
    BY DEF IInv, Shape, Keeping
  <1>4. /\ Rendered(cards.ui) /\ Keeping(cards.local)
        /\ cards.ui.view = s.view
        /\ cards.ui.collapsed = cards.local.collapsed[view]
        /\ \A v \in ViewId :
              entered \/ v # view => cards.local.collapsed[v] = local.collapsed[v]
    <2> HIDE DEF view
    <2>1. entered \in BOOLEAN
      OBVIOUS
    <2> HIDE DEF entered
    <2> QED BY CardsStay, <1>2, <1>3, <2>1
  <1>5. /\ Rendered(panes.ui) /\ Keeping(panes.local)
        /\ panes.ui.view = cards.ui.view /\ panes.ui.collapsed = cards.ui.collapsed
        /\ panes.local.collapsed = cards.local.collapsed
    <2>1. Rendered(cards.ui) /\ Keeping(cards.local)
      BY <1>4
    <2> HIDE DEF newDay, newQuery, cards
    <2> QED BY DayEffectsKeepCards, <2>1
  <1>6. Active' = view
    <2>1. ui'.view = s.view
      BY <1>1, <1>4, <1>5
    <2> QED BY <2>1 DEF Active, ActiveIn
  <1>7. ~entered => view = Active
    BY DEF Active
  <1> HIDE DEF view, entered, cards, panes
  <1>8. CardsKept
    BY <1>1, <1>2, <1>4, <1>5, <1>6, <1>7 DEF CardsKept
  <1>9. IInv'
    BY <1>1, <1>2, <1>4, <1>5, <1>6 DEF IInv, Shape, CardsShown, Rendered, Keeping
  <1> QED BY <1>8, <1>9

-----------------------------------------------------------------------------
(* The steps.                                                              *)

\* Where the panels begin.
LEMMA InitInv == PanelsInit => IInv
  <1> SUFFICES ASSUME PanelsInit PROVE IInv
    OBVIOUS
  <1>1. None \in ViewId
    BY DEF ViewId
  <1>2. Active = None
    BY DEF PanelsInit, Active, ActiveIn
  <1> QED BY <1>1, <1>2 DEF PanelsInit, SettingsInit, IInv, Shape, CardsShown

\* Every step keeps the cards.
LEMMA NextInv ==
    ASSUME IInv, [PanelsNext]_panelVars
    PROVE  IInv' /\ [CardsKept]_panelVars
  <1>0. Rendered(ui)
    BY DEF IInv, Shape, Rendered
  <1>1. CASE OpenPage
    <2> PICK d \in Day \cup {None}, v \in ViewId :
            Render([day |-> d, view |-> v, template |-> None,
                    item |-> [k \in Slot |-> None], collapsed |-> FALSE], <<>>, TRUE)
      BY <1>1 DEF OpenPage
    <2> DEFINE s == [day |-> d, view |-> v, template |-> None,
                     item |-> [k \in Slot |-> None], collapsed |-> FALSE]
    <2>1. Rendered(s) /\ Render(s, tab'.views, TRUE) /\ DOMAIN tab' = {"views", "told"}
      BY <1>1 DEF OpenPage, Rendered
    <2> HIDE DEF s
    <2> QED BY <2>1, RenderKeepsCards
  <1>2. CASE ViewsArrive
    <2>1. Render(ui, tab'.views, FALSE) /\ DOMAIN tab' = {"views", "told"}
      BY <1>2 DEF ViewsArrive, LoadTab
    <2> QED BY <1>0, <2>1, RenderKeepsCards
  <1>3. CASE SaveShownView
    <2> PICK saved \in UserView :
            Render(IF ui.view \in Range(NamedViews) THEN ui ELSE [ui EXCEPT !.view = saved],
                   tab'.views, FALSE)
      BY <1>3 DEF SaveShownView
    <2> DEFINE s == IF ui.view \in Range(NamedViews) THEN ui ELSE [ui EXCEPT !.view = saved]
    <2>1. Rendered(s)
      BY <1>0 DEF Rendered, ViewId
    <2>2. DOMAIN tab' = {"views", "told"}
      BY <1>3 DEF SaveShownView, SaveView
    <2> HIDE DEF s
    <2> QED BY <2>1, <2>2, RenderKeepsCards DEF s
  <1>4. CASE SelectDay
    <2> PICK d \in Day \ {ui.day}, v \in {ui.view, None} :
            Render([ui EXCEPT !.day = d, !.view = v], tab.views, FALSE)
      BY <1>4 DEF SelectDay
    <2> DEFINE s == [ui EXCEPT !.day = d, !.view = v]
    <2>1. Rendered(s)
      BY <1>0 DEF Rendered, ViewId
    <2>2. tab' = tab
      BY <1>4 DEF SelectDay, settingsVars
    <2>3. DOMAIN tab' = {"views", "told"} /\ Render(s, tab'.views, FALSE)
      BY <2>2 DEF IInv, Shape
    <2> HIDE DEF s
    <2> QED BY <2>1, <2>3, RenderKeepsCards
  <1>5. CASE ApplyOperatorView
    <2> PICK v \in ViewId, d \in Day, gate \in Item \cup {None}, session \in Item \cup {None} :
            Render([ui EXCEPT !.day = d, !.view = v, !.item.gate = gate,
                              !.item.drilldown = session], tab.views, FALSE)
      BY <1>5 DEF ApplyOperatorView
    <2> DEFINE s == [ui EXCEPT !.day = d, !.view = v, !.item.gate = gate,
                               !.item.drilldown = session]
    <2>1. Rendered(s)
      BY <1>0 DEF Rendered
    <2>2. tab' = tab
      BY <1>5 DEF ApplyOperatorView, settingsVars
    <2>3. DOMAIN tab' = {"views", "told"} /\ Render(s, tab'.views, FALSE)
      BY <2>2 DEF IInv, Shape
    <2> HIDE DEF s
    <2> QED BY <2>1, <2>3, RenderKeepsCards
  <1>6. CASE ChooseTemplate
    <2> PICK t \in Template \cup {None} : Render([ui EXCEPT !.template = t], tab.views, FALSE)
      BY <1>6 DEF ChooseTemplate
    <2> DEFINE s == [ui EXCEPT !.template = t]
    <2>1. Rendered(s)
      BY <1>0 DEF Rendered
    <2>2. tab' = tab
      BY <1>6 DEF ChooseTemplate, settingsVars
    <2>3. DOMAIN tab' = {"views", "told"} /\ Render(s, tab'.views, FALSE)
      BY <2>2 DEF IInv, Shape
    <2> HIDE DEF s
    <2> QED BY <2>1, <2>3, RenderKeepsCards
  <1>7. CASE ChooseItem
    <2> PICK k \in Slot, i \in Item : Render([ui EXCEPT !.item[k] = i], tab.views, FALSE)
      BY <1>7 DEF ChooseItem
    <2> DEFINE s == [ui EXCEPT !.item[k] = i]
    <2>1. Rendered(s)
      BY <1>0 DEF Rendered
    <2>2. tab' = tab
      BY <1>7 DEF ChooseItem, settingsVars
    <2>3. DOMAIN tab' = {"views", "told"} /\ Render(s, tab'.views, FALSE)
      BY <2>2 DEF IInv, Shape
    <2> HIDE DEF s
    <2> QED BY <2>1, <2>3, RenderKeepsCards
  <1>8. CASE ToggleCard
    <2> DEFINE s == [ui EXCEPT !.collapsed = ~@]
    <2>1. Rendered(s)
      BY <1>0 DEF Rendered
    <2>2. tab' = tab
      BY <1>8 DEF ToggleCard, settingsVars
    <2>3. DOMAIN tab' = {"views", "told"} /\ Render(s, tab'.views, FALSE)
      BY <1>8, <2>2 DEF IInv, Shape, ToggleCard
    <2> HIDE DEF s
    <2> QED BY <2>1, <2>3, RenderKeepsCards
  <1>9. CASE (PutScalar \/ PutViews) /\ UNCHANGED <<ui, local>>
    <2>1. tab'.views = tab.views /\ DOMAIN tab' = {"views", "told"}
      BY <1>9 DEF PutScalar, PutViews, IInv, Shape
    <2>2. Active' = Active
      BY <1>9, <2>1 DEF Active, ActiveIn
    <2> QED BY <1>9, <2>1, <2>2 DEF IInv, Shape, CardsShown, CardsKept
  <1>10. CASE UNCHANGED panelVars
    BY <1>10 DEF panelVars, IInv, Shape, CardsShown, Active, ActiveIn
  <1> QED BY <1>1, <1>2, <1>3, <1>4, <1>5, <1>6, <1>7, <1>8, <1>9, <1>10 DEF PanelsNext

-----------------------------------------------------------------------------
(* Sequences and numbers.                                                  *)

\* Of bounded numbers one is the greatest.
LEMMA GreatestExists ==
    ASSUME NEW n \in Nat, NEW S \in SUBSET (1 .. n), S # {}
    PROVE  \E m \in S : \A x \in S : x <= m
  <1> DEFINE T == {n - x : x \in S}
  <1>1. T \subseteq Nat /\ T # {}
    <2>1. \A x \in S : n - x \in Nat
      OBVIOUS
    <2> QED BY <2>1
  <1>2. PICK k \in T : \A j \in T : <<j, k>> \notin OpToRel(<, Nat)
    BY <1>1, NatLessThanWellFounded, WFMin
  <1>3. PICK m \in S : k = n - m
    BY <1>2
  <1>4. ASSUME NEW x \in S PROVE x <= m
    <2>1. n - x \in T /\ ~(n - x < n - m)
      BY <1>1, <1>2, <1>3 DEF OpToRel
    <2> QED BY <2>1
  <1> QED BY <1>4

\* The elements that Only takes are those of s in S.
LEMMA OnlyTakes ==
    ASSUME NEW A, NEW s \in Seq(A), NEW S
    PROVE  /\ Only(s, S) \in Seq(A)
           /\ Range(Only(s, S)) = Range(s) \cap S
  <1> DEFINE I == {i \in DOMAIN s : s[i] \in S}
             n == Cardinality(I)
             Upto(i) == {j \in I : j <= i}
             rank == [i \in I |-> Cardinality(Upto(i))]
             at(k) == CHOOSE i \in I : Cardinality(Upto(i)) = k
  <1>1. Len(s) \in Nat /\ DOMAIN s = 1 .. Len(s) /\ \A i \in DOMAIN s : s[i] \in A
    BY LenProperties, ElementOfSeq
  <1>2. I \subseteq 1 .. Len(s) /\ IsFiniteSet(I) /\ n \in Nat
    <2>1. I \in SUBSET (1 .. Len(s)) /\ IsFiniteSet(1 .. Len(s))
      BY <1>1, FS_Interval
    <2> HIDE DEF I
    <2> QED BY <2>1, FS_Subset, FS_CardinalityType
  <1> HIDE DEF I
  <1>3. \A i \in I : /\ IsFiniteSet(Upto(i)) /\ Cardinality(Upto(i)) \in Nat
                     /\ Cardinality(Upto(i)) <= n
    <2> TAKE i \in I
    <2>1. Upto(i) \in SUBSET I
      OBVIOUS
    <2> HIDE DEF Upto
    <2> QED BY <1>2, <2>1, FS_Subset, FS_CardinalityType
  <1>4. \A i \in I : Cardinality(Upto(i)) # 0
    <2> TAKE i \in I
    <2>1. i \in Upto(i)
      BY <1>2
    <2> HIDE DEF Upto
    <2> QED BY <1>3, <2>1, FS_EmptySet
  <1>5. rank \in [I -> 1 .. n]
    <2> HIDE DEF n, Upto
    <2> QED BY <1>2, <1>3, <1>4
  <1>6. ASSUME NEW i \in I, NEW j \in I, i < j PROVE Cardinality(Upto(i)) # Cardinality(Upto(j))
    <2>1. Upto(i) \subseteq Upto(j) /\ j \in Upto(j) /\ j \notin Upto(i)
      <3>1. i \in Nat /\ j \in Nat /\ \A k \in I : k \in Nat
        BY <1>2
      <3>2. ~(j <= i) /\ j <= j /\ \A k \in I : k <= i => k <= j
        BY <1>6, <3>1
      <3> QED BY <3>2
    <2> HIDE DEF Upto
    <2>2. Cardinality(Upto(j)) = Cardinality(Upto(i)) => Upto(j) = Upto(i)
      BY <1>3, <2>1, FS_Subset
    <2> QED BY <2>1, <2>2
  <1>7. rank \in Injection(I, 1 .. n)
    <2>1. \A i, j \in I : i # j => i < j \/ j < i
      BY <1>2
    <2> HIDE DEF Upto, n
    <2>2. \A i, j \in I : rank[i] = rank[j] => i = j
      BY <1>6, <2>1
    <2> QED BY <1>5, <2>2 DEF Injection, IsInjective
  <1>8. rank \in Surjection(I, 1 .. n)
    <2>1. IsFiniteSet(1 .. n) /\ Cardinality(1 .. n) = n
      BY <1>2, FS_Interval
    <2> HIDE DEF rank
    <2> QED BY <1>7, <2>1, FS_Injection
  <1>9. \A k \in 1 .. n : at(k) \in I /\ Cardinality(Upto(at(k))) = k
    <2> TAKE k \in 1 .. n
    <2>1. \E i \in I : rank[i] = k
      <3> HIDE DEF rank
      <3> QED BY <1>8 DEF Surjection
    <2> HIDE DEF Upto, n
    <2> QED BY <2>1
  <1>10. \A i \in I : at(Cardinality(Upto(i))) = i /\ Cardinality(Upto(i)) \in 1 .. n
    <2> TAKE i \in I
    <2> HIDE DEF at, Upto, n
    <2>1. Cardinality(Upto(i)) \in 1 .. n
      BY <1>3, <1>4, <1>2
    <2> DEFINE j == at(Cardinality(Upto(i)))
    <2>2. j \in I /\ Cardinality(Upto(j)) = Cardinality(Upto(i))
      BY <1>9, <2>1
    <2> HIDE DEF j
    <2>3. i < j \/ j < i \/ i = j
      BY <1>2, <2>2
    <2>4. i = j
      BY <1>6, <2>2, <2>3
    <2> QED BY <2>1, <2>4 DEF j
  <1>11. Only(s, S) = [k \in 1 .. n |-> s[at(k)]]
    BY DEF Only, I
  <1> HIDE DEF at, n, Upto
  <1>12. \A k \in 1 .. n : s[at(k)] \in A /\ s[at(k)] \in S /\ s[at(k)] \in Range(s)
    BY <1>1, <1>9 DEF I, Range
  <1>13. Only(s, S) \in Seq(A)
    BY <1>2, <1>11, <1>12, SeqDef
  <1>14. ASSUME NEW x \in Range(s) \cap S PROVE x \in Range(Only(s, S))
    <2>1. PICK i \in I : s[i] = x
      BY DEF Range, I
    <2> QED BY <1>10, <1>11, <2>1 DEF Range
  <1>15. ASSUME NEW x \in Range(Only(s, S)) PROVE x \in Range(s) \cap S
    BY <1>11, <1>12 DEF Range
  <1> QED BY <1>13, <1>14, <1>15

-----------------------------------------------------------------------------
(* Reading the settings.                                                   *)

\* Elements taken from nowhere make no sequence.
LEMMA OnlyNone ==
    ASSUME NEW A, NEW s \in Seq(A), NEW S, Range(s) \cap S = {}
    PROVE  Only(s, S) = <<>>
  <1>1. Only(s, S) \in Seq(A) /\ Range(Only(s, S)) = {}
    BY OnlyTakes
  <1>2. \A i \in 1 .. Len(Only(s, S)) : Only(s, S)[i] \in Range(Only(s, S))
    BY <1>1, LenProperties DEF Range
  <1> QED BY <1>1, <1>2, EmptySeq

\* The lists of built-in views are lists of views.
LEMMA BuiltInViews ==
    /\ defaultOperatorViews \in Seq(View)
    /\ buildNamedOperatorViews \in Seq(View)
    /\ Cap \in Nat
  <1>1. ASSUME NEW ids \in Seq(Range(NamedViews)) PROVE BuiltIn(ids) \in Seq(View)
    <2>1. Len(ids) \in Nat /\ DOMAIN ids = 1 .. Len(ids)
          /\ \A i \in DOMAIN ids : ids[i] \in Range(NamedViews)
      BY LenProperties, ElementOfSeq
    <2>2. \A i \in DOMAIN ids : [id |-> ids[i], edition |-> 0] \in View
      BY <2>1, SettingsAssumption DEF View, Edition
    <2> QED BY <2>1, <2>2, SeqDef DEF BuiltIn
  <1>2. Defaults \in Seq(Range(NamedViews))
    BY SettingsAssumption, SeqMonotonic
  <1>3. Cap \in Nat
    BY SettingsAssumption, LenProperties
  <1> QED BY <1>1, <1>2, <1>3, SettingsAssumption
          DEF defaultOperatorViews, buildNamedOperatorViews

\* A cut list.
LEMMA CutList ==
    ASSUME NEW views \in Seq(View), NEW n \in Nat, n <= Len(views)
    PROVE  LET cut == SubSeq(views, 1, n)
           IN  /\ cut \in Seq(View) /\ Len(cut) = n
               /\ \A i \in 1 .. n : cut[i] = views[i]
  <1>1. Len(views) \in Nat /\ \A i \in 1 .. n : views[i] \in View
    BY LenProperties, ElementOfSeq
  <1> QED BY <1>1, SubSeqProperties

\* A list that was merged and is merged again stays as it is.
LEMMA MergeAgain ==
    ASSUME NEW views \in Seq(View)
    PROVE  /\ mergeOperatorViews(views) \in Seq(View)
           /\ mergeOperatorViews(mergeOperatorViews(views)) = mergeOperatorViews(views)
  <1> DEFINE Missing(v) == Only(defaultOperatorViews, {w \in View : w.id \notin Ids(v)})
             long(v) == v \o Missing(v)
             size(v) == IF Len(long(v)) > Cap THEN Cap ELSE Len(long(v))
             after   == mergeOperatorViews(views)
  <1>1. \A v : mergeOperatorViews(v) = SubSeq(long(v), 1, size(v))
    BY DEF mergeOperatorViews
  <1>2. \A v \in Seq(View) : Missing(v) \in Seq(View)
    BY OnlyTakes, BuiltInViews
  <1> HIDE DEF Missing
  <1>3. \A v \in Seq(View) : /\ long(v) \in Seq(View) /\ Len(long(v)) \in Nat /\ Len(v) \in Nat
                             /\ Len(v) <= Len(long(v))
                             /\ \A i \in 1 .. Len(v) : long(v)[i] = v[i]
    <2> TAKE v \in Seq(View)
    <2>1. Len(v) \in Nat /\ Len(Missing(v)) \in Nat
      BY <1>2, LenProperties
    <2>2. /\ long(v) \in Seq(View) /\ Len(long(v)) = Len(v) + Len(Missing(v))
          /\ \A i \in 1 .. Len(v) + Len(Missing(v)) :
                long(v)[i] = IF i <= Len(v) THEN v[i] ELSE Missing(v)[i - Len(v)]
      BY <1>2, ConcatProperties
    <2> HIDE DEF long
    <2> QED BY <2>1, <2>2
  <1>4. \A v \in Seq(View) : size(v) \in Nat /\ size(v) <= Len(long(v))
                             /\ size(v) <= Cap
    <2> HIDE DEF long
    <2> QED BY <1>3, BuiltInViews
  <1>5. /\ after \in Seq(View) /\ Len(after) = size(views)
        /\ \A i \in 1 .. size(views) : after[i] = long(views)[i]
    <2> HIDE DEF long, size
    <2> QED BY <1>1, <1>3, <1>4, CutList
  <1>6. size(after) = Len(after)
    <2>1. CASE Len(long(views)) > Cap
      <3>1. Len(after) = Cap /\ Cap \in Nat
        BY <1>5, <2>1, BuiltInViews
      <3>2. Len(after) <= Len(long(after)) /\ Len(long(after)) \in Nat
        BY <1>3, <1>5
      <3> HIDE DEF long, after
      <3> QED BY <3>1, <3>2
    <2>2. CASE ~(Len(long(views)) > Cap)
      <3>1. after = long(views)
        BY <1>1, <1>3, <2>2, SubSeqFull
      <3>2. Missing(after) = <<>>
        <4>1. ASSUME NEW w \in Range(defaultOperatorViews), w \in View PROVE w.id \in Ids(after)
          <5>1. CASE w.id \in Ids(views)
            <6>1. PICK i \in DOMAIN views : views[i].id = w.id
              BY <5>1 DEF Ids, Range
            <6>2. i \in 1 .. Len(views) /\ Len(views) \in Nat /\ Len(views) <= Len(long(views))
              BY <1>3, LenProperties
            <6>3. i \in DOMAIN long(views) /\ long(views)[i] = views[i]
              BY <1>3, <6>2, LenProperties
            <6> HIDE DEF long, after
            <6> QED BY <3>1, <6>1, <6>3 DEF Ids, Range
          <5>2. CASE w.id \notin Ids(views)
            <6>1. w \in Range(Missing(views))
              BY <4>1, <5>2, OnlyTakes, BuiltInViews DEF Missing
            <6>2. PICK i \in DOMAIN Missing(views) : Missing(views)[i] = w
              BY <6>1 DEF Range
            <6>3. i \in 1 .. Len(Missing(views)) /\ Len(Missing(views)) \in Nat /\ Len(views) \in Nat
              BY <1>2, <6>2, LenProperties
            <6>4. /\ Len(long(views)) = Len(views) + Len(Missing(views))
                  /\ long(views)[Len(views) + i] = Missing(views)[i]
              BY <1>2, <6>3, ConcatProperties
            <6> HIDE DEF long, after
            <6>5. Len(views) + i \in DOMAIN long(views)
              <7>1. DOMAIN long(views) = 1 .. Len(long(views))
                BY <1>3, LenProperties
              <7>2. Len(views) + i \in 1 .. Len(long(views))
                BY <6>3, <6>4
              <7> QED BY <7>1, <7>2
            <6> QED BY <3>1, <6>2, <6>4, <6>5 DEF Ids, Range
          <5> QED BY <5>1, <5>2
        <4>2. Range(defaultOperatorViews) \cap {w \in View : w.id \notin Ids(after)} = {}
          BY <4>1
        <4> HIDE DEF after
        <4> QED BY <4>2, OnlyNone, BuiltInViews DEF Missing
      <3>3. long(after) = after
        BY <1>5, <3>2, ConcatEmptySeq
      <3>4. Len(after) <= Cap /\ Len(after) \in Nat
        BY <1>4, <1>5
      <3> HIDE DEF long, after
      <3> QED BY <3>3, <3>4, BuiltInViews
    <2> QED BY <2>1, <2>2
  <1>7. mergeOperatorViews(after) = after
    <2>1. /\ mergeOperatorViews(after) \in Seq(View)
          /\ Len(mergeOperatorViews(after)) = size(after)
          /\ \A i \in 1 .. size(after) : mergeOperatorViews(after)[i] = long(after)[i]
      <3> HIDE DEF long, size, after
      <3> QED BY <1>1, <1>3, <1>4, <1>5, CutList
    <2> HIDE DEF after, size, long
    <2> QED BY <1>3, <1>5, <1>6, <2>1, SeqEqual
  <1> QED BY <1>5, <1>7

\* What normalizeSettings does to each field.
LEMMA NormalFields ==
    ASSUME NEW s, DOMAIN s = Setting
    PROVE  /\ DOMAIN normalizeSettings(s) = Setting
           /\ normalizeSettings(s).operatorViews = mergeOperatorViews(s.operatorViews)
           /\ \A f \in Scalar : normalizeSettings(s)[f] = s[f]
  BY DEF normalizeSettings, Setting, Scalar

\* What may be read back, field by field.
LEMMA CompleteFields ==
    ASSUME NEW s
    PROVE  s \in Complete => /\ DOMAIN s = Setting
                             /\ s.operatorViews \in Seq(View)
                             /\ \A f \in Scalar : s[f] \in Edition
  BY DEF Complete, Setting, Scalar

\* Normalised settings are complete, and stay as they are when normalised again.
LEMMA NormalSettings ==
    ASSUME NEW s, s = [f \in Setting |-> s[f]], s.operatorViews \in Seq(View),
           \A f \in Scalar : s[f] \in Edition
    PROVE  /\ normalizeSettings(s) \in Complete
           /\ normalizeSettings(s) = [f \in Setting |-> normalizeSettings(s)[f]]
           /\ normalizeSettings(normalizeSettings(s)) = normalizeSettings(s)
  <1>1. mergeOperatorViews(s.operatorViews) \in Seq(View)
    BY MergeAgain
  <1>2. DOMAIN s = Setting /\ Setting = Scalar \cup {"operatorViews"}
    BY DEF Setting
  <1>3. normalizeSettings(s) = [f \in Setting |-> normalizeSettings(s)[f]]
    BY <1>2 DEF normalizeSettings
  <1>4. normalizeSettings(s) \in Complete
    BY <1>1, <1>2, <1>3, NormalFields DEF Complete, Setting, Scalar
  <1>5. normalizeSettings(normalizeSettings(s))
            = [f \in Setting |-> normalizeSettings(normalizeSettings(s))[f]]
    BY <1>3 DEF normalizeSettings
  <1>6. \A f \in Setting : normalizeSettings(normalizeSettings(s))[f] = normalizeSettings(s)[f]
    BY <1>2, <1>3, NormalFields, MergeAgain
  <1> DEFINE once  == normalizeSettings(s)
             twice == normalizeSettings(once)
  <1>7. /\ once = [f \in Setting |-> once[f]] /\ twice = [f \in Setting |-> twice[f]]
        /\ \A f \in Setting : twice[f] = once[f]
    BY <1>3, <1>5, <1>6
  <1> HIDE DEF once, twice
  <1>8. twice = once
    BY <1>7
  <1> QED BY <1>3, <1>4, <1>8 DEF once, twice

\* The five rows.
LEMMA Rows ==
    /\ Range(Written) = Scalar \cup {"operatorViews", "settings.v2"}
    /\ Len(Written) = 5
    /\ Written[1] = "theme" /\ Written[2] = "showToolCalls" /\ Written[3] = "searchPresets"
    /\ Written[4] = "operatorViews" /\ Written[5] = "settings.v2"
  <1>1. DOMAIN Written = 1 .. 5 /\ 1 .. 5 = {1, 2, 3, 4, 5}
    BY DEF Written
  <1> QED BY <1>1 DEF Written, Range, Scalar

\* The settings of the rows, each as it is or by default.
Separate == [f \in Setting |-> IF stored[f] = None THEN defaultSettings[f] ELSE stored[f]]

\* The settings as read are complete and normalised.
LEMMA Reading ==
    ASSUME SettingsTypeOK
    PROVE  /\ getSettings \in Complete
           /\ getSettings = [f \in Setting |-> getSettings[f]]
           /\ normalizeSettings(getSettings) = getSettings
           /\ \A f \in Scalar : Separate[f] \in Edition
           /\ Separate.operatorViews \in Seq(View)
  <1>1. /\ defaultSettings.operatorViews \in Seq(View)
        /\ \A f \in Scalar : defaultSettings[f] \in Edition
    BY BuiltInViews, SettingsAssumption DEF defaultSettings, Setting, Scalar, Edition
  <1>2. Separate.operatorViews \in Seq(View) /\ \A f \in Scalar : Separate[f] \in Edition
    BY <1>1 DEF Separate, SettingsTypeOK, Setting, Scalar
  <1>3. Separate = [f \in Setting |-> Separate[f]]
    BY DEF Separate
  <1>4. stored["settings.v2"] # None =>
            /\ stored["settings.v2"] = [f \in Setting |-> stored["settings.v2"][f]]
            /\ stored["settings.v2"].operatorViews \in Seq(View)
            /\ \A f \in Scalar : stored["settings.v2"][f] \in Edition
    BY CompleteFields DEF SettingsTypeOK, Complete, Setting, Scalar
  <1>5. getSettings = IF stored["settings.v2"] # None
                      THEN normalizeSettings(stored["settings.v2"])
                      ELSE normalizeSettings(Separate)
    BY DEF getSettings, Separate
  <1> HIDE DEF Separate
  <1>6. CASE stored["settings.v2"] # None
    BY <1>2, <1>4, <1>5, <1>6, NormalSettings
  <1>7. CASE stored["settings.v2"] = None
    BY <1>2, <1>3, <1>5, <1>7, NormalSettings
  <1> QED BY <1>2, <1>6, <1>7

\* A request that may come: it names one field, and has a value of its kind.
Request(f, value) ==
    /\ f \in Setting
    /\ f \in Scalar => value \in Edition
    /\ f = "operatorViews" => value \in Seq(View)

\* A request leaves complete settings that differ in the field it names.
LEMMA Merging ==
    ASSUME SettingsTypeOK, NEW f, NEW value, Request(f, value)
    PROVE  LET next == Merged(Field(f, value))
           IN  /\ next \in Complete
               /\ normalizeSettings(next) = next
               /\ \A g \in Setting \ {f} : next[g] = getSettings[g]
  <1> DEFINE s    == [g \in Setting |-> IF g \in DOMAIN Field(f, value) THEN Field(f, value)[g]
                                        ELSE getSettings[g]]
             next == Merged(Field(f, value))
  <1>1. next = normalizeSettings(s)
    BY DEF Merged
  <1>2. \A g \in Setting : s[g] = IF g = f THEN value ELSE getSettings[g]
    BY DEF Field
  <1>3. /\ getSettings.operatorViews \in Seq(View) /\ \A g \in Scalar : getSettings[g] \in Edition
        /\ DOMAIN getSettings = Setting
    BY Reading, CompleteFields
  <1>4. /\ "operatorViews" \in Setting /\ Scalar \subseteq Setting /\ "operatorViews" \notin Scalar
        /\ \A g \in Setting : g \in Scalar \/ g = "operatorViews"
    BY DEF Setting, Scalar
  <1>5. s = [g \in Setting |-> s[g]] /\ DOMAIN s = Setting
    OBVIOUS
  <1>6. s.operatorViews \in Seq(View) /\ \A g \in Scalar : s[g] \in Edition
    BY <1>2, <1>3, <1>4 DEF Request
  <1> HIDE DEF s
  <1>7. next \in Complete /\ normalizeSettings(next) = next
    BY <1>1, <1>5, <1>6, NormalSettings
  <1>8. ASSUME NEW g \in Setting, g # f PROVE next[g] = getSettings[g]
    <2>1. s[g] = getSettings[g]
      BY <1>2, <1>8
    <2>2. CASE g \in Scalar
      BY <1>1, <1>5, <2>1, <2>2, NormalFields
    <2>3. CASE g = "operatorViews"
      <3>1. next.operatorViews = mergeOperatorViews(getSettings.operatorViews)
        BY <1>1, <1>5, <2>1, <2>3, NormalFields
      <3>2. mergeOperatorViews(getSettings.operatorViews) = getSettings.operatorViews
        BY <1>3, Reading, NormalFields
      <3> QED BY <2>3, <3>1, <3>2
    <2> QED BY <1>4, <2>2, <2>3
  <1> QED BY <1>7, <1>8

-----------------------------------------------------------------------------
(* The audit of a change.                                                  *)

\* The events of a change are of views of operators: of a view that is there after it none
\* says that it was deleted, of another one all do; and a view that came or went has one.
LEMMA EventsTell ==
    ASSUME NEW before \in Seq(View), NEW after \in Seq(View)
    PROVE  LET events == ViewEvents(before, after)
           IN  /\ events \in Seq(ViewEvent)
               /\ \A i \in DOMAIN events :
                     events[i].action = "deleted" <=> events[i].view \notin Ids(after)
               /\ \A u \in UserView : ~(u \in Ids(before) <=> u \in Ids(after))
                                      => \E i \in DOMAIN events : events[i].view = u
               /\ \A i \in DOMAIN events :
                     events[i].view \in Ids(before) \/ events[i].view \in Ids(after)
  <1> DEFINE came == Only(Saved(after), View \ Range(before))
             went == Only(Saved(before), {v \in View : v.id \notin Ids(after)})
             C == [i \in DOMAIN came |->
                     [view |-> came[i].id,
                      action |-> IF came[i].id \in Ids(before) THEN "updated" ELSE "created"]]
             D == [i \in DOMAIN went |-> [view |-> went[i].id, action |-> "deleted"]]
             events == ViewEvents(before, after)
  <1>1. events = C \o D
    BY DEF ViewEvents
  <1>2. \A views \in Seq(View) :
            /\ Saved(views) \in Seq(View)
            /\ Range(Saved(views)) = {v \in Range(views) : v \in View /\ v.id \in UserView}
    <2> TAKE views \in Seq(View)
    <2>1. /\ Saved(views) \in Seq(View)
          /\ Range(Saved(views)) = Range(views) \cap {v \in View : ~builtIn(v)}
      BY OnlyTakes DEF Saved
    <2>2. \A v \in View : ~builtIn(v) <=> v.id \in UserView
      BY SettingsAssumption DEF View, builtIn
    <2> QED BY <2>1, <2>2
  <1>3. /\ came \in Seq(View)
        /\ Range(came) = {v \in Range(after) : v \in View /\ v.id \in UserView /\ v \notin Range(before)}
    <2>1. came \in Seq(View) /\ Range(came) = Range(Saved(after)) \cap (View \ Range(before))
      BY <1>2, OnlyTakes
    <2> QED BY <1>2, <2>1
  <1>4. /\ went \in Seq(View)
        /\ Range(went) = {v \in Range(before) : v \in View /\ v.id \in UserView /\ v.id \notin Ids(after)}
    <2>1. /\ went \in Seq(View)
          /\ Range(went) = Range(Saved(before)) \cap {v \in View : v.id \notin Ids(after)}
      BY <1>2, OnlyTakes
    <2> QED BY <1>2, <2>1
  <1> HIDE DEF came, went
  <1>5. /\ DOMAIN came = 1 .. Len(came) /\ Len(came) \in Nat
        /\ DOMAIN went = 1 .. Len(went) /\ Len(went) \in Nat
    BY <1>3, <1>4, LenProperties
  <1>6. \A i \in DOMAIN came : came[i] \in Range(came)
    BY DEF Range
  <1>7. \A i \in DOMAIN went : went[i] \in Range(went)
    BY DEF Range
  <1>8. C \in Seq(ViewEvent) /\ Len(C) = Len(came)
    <2>1. \A i \in DOMAIN came : C[i] \in ViewEvent
      BY <1>3, <1>6 DEF ViewEvent
    <2>2. C \in [1 .. Len(came) -> ViewEvent]
      BY <1>5, <2>1
    <2> QED BY <1>5, <2>2, SeqDef, LenProperties
  <1>9. D \in Seq(ViewEvent) /\ Len(D) = Len(went)
    <2>1. \A i \in DOMAIN went : D[i] \in ViewEvent
      BY <1>4, <1>7 DEF ViewEvent
    <2>2. D \in [1 .. Len(went) -> ViewEvent]
      BY <1>5, <2>1
    <2> QED BY <1>5, <2>2, SeqDef, LenProperties
  <1>10. /\ events \in Seq(ViewEvent) /\ Len(events) = Len(came) + Len(went)
         /\ \A i \in 1 .. Len(came) + Len(went) :
               events[i] = IF i <= Len(came) THEN C[i] ELSE D[i - Len(came)]
    <2> HIDE DEF C, D, events
    <2>1. /\ C \o D \in Seq(ViewEvent) /\ Len(C \o D) = Len(C) + Len(D)
          /\ \A i \in 1 .. Len(C) + Len(D) :
                (C \o D)[i] = IF i <= Len(C) THEN C[i] ELSE D[i - Len(C)]
      BY <1>8, <1>9, ConcatProperties
    <2> QED BY ONLY <1>1, <1>8, <1>9, <2>1
  <1>11. DOMAIN events = 1 .. Len(came) + Len(went)
    BY <1>10, LenProperties
  <1>12. \A i \in DOMAIN came : /\ C[i].view \in Ids(after)
                                /\ C[i].action # "deleted"
    BY <1>3, <1>6 DEF Ids
  <1>13. \A i \in DOMAIN went : /\ D[i].view \in Ids(before) /\ D[i].view \notin Ids(after)
                                /\ D[i].action = "deleted"
    BY <1>4, <1>7 DEF Ids
  <1> HIDE DEF events
  <1>14. ASSUME NEW i \in DOMAIN events
         PROVE  /\ events[i].action = "deleted" <=> events[i].view \notin Ids(after)
                /\ events[i].view \in Ids(before) \/ events[i].view \in Ids(after)
    <2> HIDE DEF C, D
    <2>1. CASE i <= Len(came)
      <3>1. i \in DOMAIN came /\ events[i] = C[i]
        BY <1>5, <1>10, <1>11, <2>1
      <3> QED BY <1>12, <3>1
    <2>2. CASE ~(i <= Len(came))
      <3>1. i - Len(came) \in DOMAIN went /\ events[i] = D[i - Len(came)]
        BY <1>5, <1>10, <1>11, <2>2
      <3> QED BY <1>13, <3>1
    <2> QED BY <2>1, <2>2
  <1>15. ASSUME NEW u \in UserView, u \notin Ids(before), u \in Ids(after)
         PROVE  \E i \in DOMAIN events : events[i].view = u
    <2>1. PICK v \in Range(after) : v.id = u
      BY <1>15 DEF Ids
    <2>2. v \in View /\ v \notin Range(before)
      <3>1. \A i \in DOMAIN after : after[i] \in View
        BY LenProperties, ElementOfSeq
      <3> QED BY <1>15, <2>1, <3>1 DEF Range, Ids
    <2>3. PICK i \in DOMAIN came : came[i] = v
      BY <1>3, <2>1, <2>2 DEF Range
    <2>4. i \in DOMAIN events /\ events[i] = C[i]
      <3> HIDE DEF C, D
      <3> QED BY <1>5, <1>10, <1>11
    <2>5. C[i].view = u
      BY <2>1, <2>3
    <2> HIDE DEF C
    <2> QED BY <2>4, <2>5
  <1>16. ASSUME NEW u \in UserView, u \in Ids(before), u \notin Ids(after)
         PROVE  \E i \in DOMAIN events : events[i].view = u
    <2>1. PICK v \in Range(before) : v.id = u
      BY <1>16 DEF Ids
    <2>2. v \in View
      <3>1. \A i \in DOMAIN before : before[i] \in View
        BY LenProperties, ElementOfSeq
      <3> QED BY <2>1, <3>1 DEF Range
    <2>3. PICK i \in DOMAIN went : went[i] = v
      BY <1>4, <1>16, <2>1, <2>2 DEF Range
    <2>4. Len(came) + i \in DOMAIN events /\ events[Len(came) + i] = D[i]
      <3>1. i \in 1 .. Len(went) /\ ~(Len(came) + i <= Len(came)) /\ (Len(came) + i) - Len(came) = i
            /\ Len(came) + i \in 1 .. Len(came) + Len(went)
        BY <1>5
      <3> HIDE DEF C, D
      <3> QED BY <1>10, <1>11, <3>1
    <2>5. D[i].view = u
      BY <2>1, <2>3
    <2> HIDE DEF D
    <2> QED BY <2>4, <2>5
  <1>17. ASSUME NEW u \in UserView, ~(u \in Ids(before) <=> u \in Ids(after))
         PROVE  \E i \in DOMAIN events : events[i].view = u
    BY <1>15, <1>16, <1>17
  <1> HIDE DEF C, D
  <1> QED BY <1>10, <1>14, <1>17 DEF events

\* What the audit tells last of a view, when events are added to it.
LEMMA TellsOn ==
    ASSUME viewAudit \in Seq(ViewEvent), NEW events \in Seq(ViewEvent),
           viewAudit' = viewAudit \o events, NEW u
    PROVE  /\ (\A i \in DOMAIN events : events[i].view # u) => (Told(u)' <=> Told(u))
           /\ (\E i \in DOMAIN events : events[i].view = u) =>
                 /\ (\A i \in DOMAIN events : events[i].view = u => events[i].action # "deleted")
                    => Told(u)'
                 /\ (\A i \in DOMAIN events : events[i].view = u => events[i].action = "deleted")
                    => ~Told(u)'
  <1> DEFINE n == Len(viewAudit)
             m == Len(events)
             IsLast(a, i) == /\ a[i].view = u /\ a[i].action # "deleted"
                             /\ \A j \in DOMAIN a : j > i => a[j].view # u
  <1>1. /\ n \in Nat /\ DOMAIN viewAudit = 1 .. n
        /\ m \in Nat /\ DOMAIN events = 1 .. m
    BY LenProperties
  <1>2. /\ DOMAIN viewAudit' = 1 .. n + m
        /\ \A i \in 1 .. n + m : viewAudit'[i] = IF i <= n THEN viewAudit[i] ELSE events[i - n]
    BY ConcatProperties, LenProperties
  <1>3. /\ Told(u) <=> \E i \in DOMAIN viewAudit : IsLast(viewAudit, i)
        /\ Told(u)' <=> \E i \in DOMAIN viewAudit' : IsLast(viewAudit', i)
    BY DEF Told
  <1> HIDE DEF n, m
  <1>4. /\ \A i \in 1 .. n : i \in 1 .. n + m /\ viewAudit'[i] = viewAudit[i]
        /\ \A i \in 1 .. m : n + i \in 1 .. n + m /\ viewAudit'[n + i] = events[i]
        /\ \A i \in 1 .. n + m : i \in 1 .. n \/ (i - n \in 1 .. m /\ i = n + (i - n))
        /\ \A i \in 1 .. n + m : i \in 1 .. n => viewAudit'[i] = viewAudit[i]
        /\ \A i \in 1 .. n + m : i - n \in 1 .. m => viewAudit'[i] = events[i - n]
    <2>1. /\ \A i \in 1 .. n : i \in 1 .. n + m /\ i <= n
          /\ \A i \in 1 .. m : n + i \in 1 .. n + m /\ ~(n + i <= n) /\ (n + i) - n = i
          /\ \A i \in 1 .. n + m : i \in 1 .. n \/ (i - n \in 1 .. m /\ i = n + (i - n))
          /\ \A i \in 1 .. n + m : i - n \in 1 .. m => ~(i <= n)
      BY <1>1
    <2> QED BY <1>2, <2>1
  <1>5. ASSUME \A i \in DOMAIN events : events[i].view # u, Told(u) PROVE Told(u)'
    <2>1. PICK i \in 1 .. n : IsLast(viewAudit, i)
      BY <1>1, <1>3, <1>5
    <2>2. ASSUME NEW j \in 1 .. n + m, j > i PROVE viewAudit'[j].view # u
      <3>1. CASE j \in 1 .. n
        BY <1>1, <1>4, <2>1, <2>2, <3>1
      <3>2. CASE j - n \in 1 .. m
        BY <1>1, <1>4, <1>5, <3>2
      <3> QED BY <1>4, <3>1, <3>2
    <2>3. IsLast(viewAudit', i)
      <3>1. viewAudit'[i].view = u /\ viewAudit'[i].action # "deleted"
        BY <1>4, <2>1
      <3>2. \A j \in DOMAIN viewAudit' : j > i => viewAudit'[j].view # u
        BY <1>2, <2>2
      <3> QED BY <3>1, <3>2
    <2> HIDE DEF IsLast
    <2> QED BY <1>2, <1>3, <1>4, <2>3
  <1>6. ASSUME \A i \in DOMAIN events : events[i].view # u, Told(u)' PROVE Told(u)
    <2>1. PICK i \in 1 .. n + m : IsLast(viewAudit', i)
      BY <1>2, <1>3, <1>6
    <2>2. i \in 1 .. n
      BY <1>1, <1>4, <1>6, <2>1
    <2>3. \A j \in 1 .. n : j > i => viewAudit[j].view # u
      BY <1>2, <1>4, <2>1
    <2>4. IsLast(viewAudit, i)
      BY <1>1, <1>4, <2>1, <2>2, <2>3
    <2> HIDE DEF IsLast
    <2> QED BY <1>1, <1>3, <2>2, <2>4
  <1>7. ASSUME \E i \in DOMAIN events : events[i].view = u,
               \A i \in DOMAIN events : events[i].view = u => events[i].action # "deleted"
        PROVE  Told(u)'
    <2> DEFINE S == {i \in 1 .. m : events[i].view = u}
    <2>1. S \in SUBSET (1 .. m) /\ S # {}
      BY <1>1, <1>7
    <2>2. PICK g \in S : \A i \in S : i <= g
      BY <1>1, <2>1, GreatestExists
    <2>3. /\ n + g \in 1 .. n + m /\ viewAudit'[n + g] = events[g] /\ g \in 1 .. m
          /\ events[g].view = u /\ events[g].action # "deleted"
      BY <1>1, <1>4, <1>7, <2>2
    <2>4. ASSUME NEW j \in 1 .. n + m, j > n + g, viewAudit'[j].view = u PROVE FALSE
      <3>1. j - n \in 1 .. m /\ ~(j - n <= g)
        BY <1>1, <2>3, <2>4
      <3>2. j - n \in S
        BY <1>4, <2>4, <3>1
      <3> QED BY <2>2, <3>1, <3>2
    <2>5. IsLast(viewAudit', n + g)
      BY <1>2, <2>3, <2>4
    <2> HIDE DEF IsLast
    <2> QED BY <1>2, <1>3, <2>3, <2>5
  <1>8. ASSUME \E i \in DOMAIN events : events[i].view = u,
               \A i \in DOMAIN events : events[i].view = u => events[i].action = "deleted",
               Told(u)'
        PROVE  FALSE
    <2>1. PICK i \in 1 .. n + m : IsLast(viewAudit', i)
      BY <1>2, <1>3, <1>8
    <2>2. PICK g \in 1 .. m : events[g].view = u
      BY <1>1, <1>8
    <2>3. n + g \in 1 .. n + m /\ viewAudit'[n + g].view = u
      BY <1>4, <2>2
    <2>4. ~(n + g > i)
      BY <1>2, <2>1, <2>3
    <2>5. i - n \in 1 .. m
      BY <1>1, <2>3, <2>4
    <2>6. viewAudit'[i] = events[i - n]
      BY <1>4, <2>5
    <2> QED BY <1>1, <1>8, <2>1, <2>5, <2>6
  <1> QED BY <1>5, <1>6, <1>7, <1>8

\* A request does to the settings and the audit what its statements say, whichever is its
\* last: the fields it does not name stay, and if it is not cut short it leaves the settings
\* it was to leave and tells of every view that came, changed or went.
LEMMA Updating ==
    ASSUME SettingsTypeOK, NEW f, NEW value, Request(f, value),
           updateSettings(Field(f, value)),
           tab' \in [views : Seq(View), told : UserView \cup {None}]
    PROVE  /\ SettingsTypeOK' /\ getSettings'.operatorViews \in Seq(View)
           /\ \A g \in Setting \ {f} : getSettings'[g] = getSettings[g]
           /\ deaths' = MaxDeaths =>
                 /\ deaths = MaxDeaths
                 /\ getSettings' = Merged(Field(f, value))
                 /\ viewAudit' = viewAudit \o ViewEvents(getSettings.operatorViews,
                                                         getSettings'.operatorViews)
  <1> DEFINE next   == Merged(Field(f, value))
             events == ViewEvents(getSettings.operatorViews, next.operatorViews)
             rows   == [r \in Range(Written) |-> IF r = "settings.v2" THEN next ELSE next[r]]
             all    == Len(Written) + Len(events)
  <1>1. /\ next \in Complete /\ normalizeSettings(next) = next
        /\ \A g \in Setting \ {f} : next[g] = getSettings[g]
    BY Merging
  <1>2. /\ next.operatorViews \in Seq(View) /\ \A g \in Scalar : next[g] \in Edition
        /\ DOMAIN next = Setting
        /\ getSettings.operatorViews \in Seq(View) /\ getSettings = [g \in Setting |-> getSettings[g]]
    BY <1>1, Reading, CompleteFields
  <1>3. events \in Seq(ViewEvent)
    BY <1>2, EventsTell
  <1> HIDE DEF next, events
  <1>4. Len(events) \in Nat /\ all = 5 + Len(events) /\ all \in Nat
    BY <1>3, Rows, LenProperties
  <1>5. PICK k \in 0 .. all :
           /\ k < all => deaths > 0
           /\ deaths' = IF k < all THEN deaths - 1 ELSE deaths
           /\ stored' = [r \in Range(Written) |->
                            IF \E i \in 1 .. k : i <= Len(Written) /\ Written[i] = r
                            THEN rows[r] ELSE stored[r]]
           /\ viewAudit' = viewAudit
                  \o SubSeq(events, 1, IF k > Len(Written) THEN k - Len(Written) ELSE 0)
    BY DEF updateSettings, next, events
  <1>6. puts' \in 0 .. MaxPuts
    BY SettingsAssumption DEF updateSettings, SettingsTypeOK
  <1>7. deaths \in 0 .. MaxDeaths /\ MaxDeaths \in Nat
    BY SettingsAssumption DEF SettingsTypeOK
  <1>8. /\ deaths' \in 0 .. MaxDeaths
        /\ deaths' = MaxDeaths => deaths = MaxDeaths /\ k = all
    BY <1>4, <1>5, <1>7
  <1> DEFINE cut == IF k > Len(Written) THEN k - Len(Written) ELSE 0
  <1>9. cut \in Nat /\ cut <= Len(events)
    BY <1>4, <1>5, Rows
  <1>10. SubSeq(events, 1, cut) \in Seq(ViewEvent)
    <2> HIDE DEF cut
    <2>1. \A i \in 1 .. cut : events[i] \in ViewEvent
      BY <1>3, <1>4, <1>9, ElementOfSeq
    <2> QED BY <1>9, <2>1, SubSeqProperties
  <1>11. viewAudit' \in Seq(ViewEvent)
    BY <1>5, <1>10, ConcatProperties DEF SettingsTypeOK
  <1>12. k = all => viewAudit' = viewAudit \o events
    <2>1. k = all => cut = Len(events)
      BY <1>4, Rows
    <2> HIDE DEF cut
    <2>2. k = all => viewAudit' = viewAudit \o SubSeq(events, 1, Len(events))
      BY <1>5, <2>1 DEF cut
    <2> QED BY <1>3, <2>2, SubSeqFull
  <1>13. /\ \A r \in Scalar \cup {"operatorViews"} : stored'[r] = stored[r] \/ stored'[r] = next[r]
         /\ stored'["settings.v2"] = IF k >= 5 THEN next ELSE stored["settings.v2"]
         /\ DOMAIN stored' = Range(Written)
    <2>1. \A r \in Range(Written) : stored'[r] = rows[r] \/ stored'[r] = stored[r]
      BY <1>5
    <2>2. "settings.v2" \notin Scalar /\ "operatorViews" # "settings.v2"
      BY DEF Scalar
    <2>3. \A r \in Scalar \cup {"operatorViews"} : rows[r] = next[r]
      BY <2>2, Rows
    <2>4. rows["settings.v2"] = next
      BY Rows
    <2>5. (\E i \in 1 .. k : i <= Len(Written) /\ Written[i] = "settings.v2") <=> k >= 5
      <3>1. \A i \in 1 .. 5 : Written[i] = "settings.v2" <=> i = 5
        <4>1. \A i \in 1 .. 5 : i = 1 \/ i = 2 \/ i = 3 \/ i = 4 \/ i = 5
          OBVIOUS
        <4> QED BY <4>1, Rows
      <3>2. k \in Nat
        BY <1>4
      <3>3. ASSUME NEW i \in 1 .. k, i <= Len(Written), Written[i] = "settings.v2" PROVE k >= 5
        <4>1. i \in 1 .. 5
          BY <3>2, <3>3, Rows
        <4> QED BY <3>1, <3>2, <3>3, <4>1
      <3>4. ASSUME k >= 5 PROVE \E i \in 1 .. k : i <= Len(Written) /\ Written[i] = "settings.v2"
        BY <3>2, <3>4, Rows
      <3> QED BY <3>3, <3>4
    <2>6. stored'["settings.v2"] = IF k >= 5 THEN next ELSE stored["settings.v2"]
      BY <1>5, <2>4, <2>5, Rows
    <2> HIDE DEF rows
    <2> QED BY <1>5, <2>1, <2>3, <2>6, Rows
  <1>14. SettingsTypeOK'
    BY <1>1, <1>2, <1>6, <1>8, <1>11, <1>13 DEF SettingsTypeOK
  <1>15. CASE k >= 5
    <2>1. stored'["settings.v2"] = next /\ next # None
      BY <1>1, <1>13, <1>15, NoneAssumption
    <2>2. getSettings' = next
      BY <1>1, <2>1 DEF getSettings, normalizeSettings, mergeOperatorViews, Ids,
          defaultOperatorViews
    <2>3. deaths' = MaxDeaths =>
              viewAudit' = viewAudit \o ViewEvents(getSettings.operatorViews,
                                                   getSettings'.operatorViews)
      BY <1>8, <1>12, <2>2 DEF events
    <2>4. getSettings' = Merged(Field(f, value))
      BY <2>2 DEF next
    <2> QED BY <1>1, <1>2, <1>8, <1>14, <2>2, <2>3, <2>4
  <1>16. CASE ~(k >= 5)
    <2>1. k # all
      BY <1>4, <1>16
    <2>2. stored'["settings.v2"] = stored["settings.v2"]
      BY <1>13, <1>16
    <2>3. CASE stored["settings.v2"] # None
      <3>1. getSettings' = getSettings
        BY <2>2, <2>3 DEF getSettings
      <3> QED BY <1>2, <1>8, <1>14, <2>1, <3>1
    <2>4. CASE stored["settings.v2"] = None
      <3>1. getSettings' = normalizeSettings(Separate') /\ getSettings = normalizeSettings(Separate)
        BY <2>2, <2>4 DEF getSettings, Separate
      <3>2. \A g \in Setting : Separate'[g] = Separate[g] \/ Separate'[g] = next[g]
        <4>1. \A g \in Setting : next[g] # None
          BY <1>2, NoneAssumption DEF Setting
        <4>2. \A g \in Setting : stored'[g] = stored[g] \/ stored'[g] = next[g]
          BY <1>13 DEF Setting
        <4> QED BY <4>1, <4>2 DEF Separate
      <3>3. DOMAIN Separate = Setting /\ DOMAIN Separate' = Setting
            /\ Setting = Scalar \cup {"operatorViews"} /\ "operatorViews" \notin Scalar
        BY DEF Separate, Setting, Scalar
      <3>4. Separate.operatorViews \in Seq(View)
        BY Reading
      <3>5. ASSUME NEW g \in Setting \ {f} PROVE getSettings'[g] = getSettings[g]
        <4>1. next[g] = getSettings[g]
          BY <1>1
        <4>2. CASE g \in Scalar
          <5>1. getSettings'[g] = Separate'[g] /\ getSettings[g] = Separate[g]
            BY <3>1, <3>3, <4>2, NormalFields
          <5> QED BY <3>2, <4>1, <5>1
        <4>3. CASE g = "operatorViews"
          <5>1. /\ getSettings'.operatorViews = mergeOperatorViews(Separate'.operatorViews)
                /\ getSettings.operatorViews = mergeOperatorViews(Separate.operatorViews)
            BY <3>1, <3>3, NormalFields
          <5>2. mergeOperatorViews(getSettings.operatorViews) = getSettings.operatorViews
            BY <3>4, <5>1, MergeAgain
          <5> QED BY <3>2, <4>1, <4>3, <5>1, <5>2
        <4> QED BY <3>3, <4>2, <4>3
      <3>6. getSettings'.operatorViews \in Seq(View)
        <4>1. getSettings'.operatorViews = mergeOperatorViews(Separate'.operatorViews)
          BY <3>1, <3>3, NormalFields
        <4>2. Separate'.operatorViews \in Seq(View)
          BY <1>2, <3>2, <3>3, <3>4
        <4> QED BY <4>1, <4>2, MergeAgain
      <3> QED BY <1>8, <1>14, <2>1, <3>5, <3>6
    <2> QED BY <2>3, <2>4
  <1> QED BY <1>15, <1>16

-----------------------------------------------------------------------------
(* The steps of the settings.                                              *)

SettingsInv == SettingsTypeOK /\ AuditTellsViews

\* No field but one is read back otherwise.
OneField == Cardinality({f \in Setting : getSettings'[f] # getSettings[f]}) <= 1

\* A request keeps the audit in step with the views, and changes one field.
LEMMA UpdateKeeps ==
    ASSUME SettingsInv, NEW f, NEW value, Request(f, value), updateSettings(Field(f, value)),
           tab' \in [views : Seq(View), told : UserView \cup {None}]
    PROVE  SettingsInv' /\ OneField
  <1>1. /\ SettingsTypeOK' /\ getSettings'.operatorViews \in Seq(View)
        /\ \A g \in Setting \ {f} : getSettings'[g] = getSettings[g]
        /\ deaths' = MaxDeaths =>
              /\ deaths = MaxDeaths
              /\ viewAudit' = viewAudit \o ViewEvents(getSettings.operatorViews,
                                                      getSettings'.operatorViews)
    BY Updating DEF SettingsInv
  <1>2. ASSUME deaths' = MaxDeaths, NEW u \in UserView
        PROVE  u \in Ids(getSettings'.operatorViews) <=> Told(u)'
    <2> DEFINE before == getSettings.operatorViews
               after  == getSettings'.operatorViews
               events == ViewEvents(before, after)
    <2>1. before \in Seq(View) /\ after \in Seq(View)
      BY <1>1, Reading, CompleteFields DEF SettingsInv
    <2>2. u \in Ids(before) <=> Told(u)
      BY <1>1, <1>2 DEF SettingsInv, AuditTellsViews
    <2> HIDE DEF before, after
    <2>3. /\ events \in Seq(ViewEvent)
          /\ \A i \in DOMAIN events :
                events[i].action = "deleted" <=> events[i].view \notin Ids(after)
          /\ ~(u \in Ids(before) <=> u \in Ids(after))
             => \E i \in DOMAIN events : events[i].view = u
      BY <2>1, EventsTell
    <2>4. viewAudit \in Seq(ViewEvent) /\ viewAudit' = viewAudit \o events
      BY <1>1, <1>2 DEF SettingsInv, SettingsTypeOK, before, after
    <2> HIDE DEF events
    <2>5. /\ (\A i \in DOMAIN events : events[i].view # u) => (Told(u)' <=> Told(u))
          /\ (\E i \in DOMAIN events : events[i].view = u) =>
                /\ (\A i \in DOMAIN events : events[i].view = u => events[i].action # "deleted")
                   => Told(u)'
                /\ (\A i \in DOMAIN events : events[i].view = u => events[i].action = "deleted")
                   => ~Told(u)'
      BY <2>3, <2>4, TellsOn
    <2>6. u \in Ids(after) <=> Told(u)'
      <3>1. CASE \A i \in DOMAIN events : events[i].view # u
        BY <2>2, <2>3, <2>5, <3>1
      <3>2. CASE \E i \in DOMAIN events : events[i].view = u
        BY <2>3, <2>5, <3>2
      <3> QED BY <3>1, <3>2
    <2> QED BY <2>6 DEF after
  <1>3. AuditTellsViews'
    BY <1>2 DEF AuditTellsViews
  <1>4. OneField
    <2>1. {g \in Setting : getSettings'[g] # getSettings[g]} \in SUBSET {f}
      BY <1>1
    <2>2. IsFiniteSet({f}) /\ Cardinality({f}) = 1
      BY FS_Singleton
    <2> QED BY <2>1, <2>2, FS_Subset, FS_CardinalityType DEF OneField
  <1> QED BY <1>1, <1>3, <1>4 DEF SettingsInv

\* A set of views becomes a list of them.
LEMMA ListOfSet ==
    ASSUME NEW S \in SUBSET View, IsFiniteSet(S) PROVE SetToSeq(S) \in Seq(View)
  <1>1. Cardinality(S) \in Nat /\ ExistsBijection(1 .. Cardinality(S), S)
    BY FS_CardinalityType
  <1>2. \E f \in [1 .. Cardinality(S) -> S] : IsInjective(f)
    BY <1>1 DEF ExistsBijection, Bijection, Injection
  <1>3. SetToSeq(S) \in [1 .. Cardinality(S) -> S]
    BY <1>2 DEF SetToSeq
  <1>4. SetToSeq(S) \in [1 .. Cardinality(S) -> View]
    BY <1>3
  <1> QED BY <1>1, <1>4, SeqDef

\* What the workbench lists are views.
LEMMA ListedViews ==
    ASSUME NEW views \in Seq(View)
    PROVE  Saved(views) \in Seq(View) /\ mergeOperatorViewsForDay(views) \in Seq(View)
  <1>1. Saved(views) \in Seq(View)
    BY OnlyTakes DEF Saved
  <1> QED BY <1>1, BuiltInViews, ConcatProperties DEF mergeOperatorViewsForDay

\* Where the settings begin: no view is saved, and the audit is empty.
LEMMA SettingsInitInv == SettingsInit => SettingsInv
  <1> SUFFICES ASSUME SettingsInit PROVE SettingsInv
    OBVIOUS
  <1>1. SettingsTypeOK
    <2>1. \A r \in Range(Written) : stored[r] = None
      BY DEF SettingsInit
    <2>2. <<>> \in Seq(View) /\ <<>> \in Seq(ViewEvent)
      BY EmptySeq
    <2> QED BY <2>1, <2>2, Rows, SettingsAssumption DEF SettingsInit, SettingsTypeOK
  <1>2. ASSUME NEW u \in UserView PROVE u \notin Ids(getSettings.operatorViews)
    <2>1. /\ stored["settings.v2"] = None /\ stored["operatorViews"] = None
      BY Rows DEF SettingsInit
    <2>2. getSettings.operatorViews = mergeOperatorViews(defaultOperatorViews)
      BY <2>1 DEF getSettings, normalizeSettings, defaultSettings, Setting, Scalar
    <2> DEFINE missing == Only(defaultOperatorViews,
                               {v \in View : v.id \notin Ids(defaultOperatorViews)})
               merged  == defaultOperatorViews \o missing
    <2>3. missing = <<>>
      <3>1. Range(defaultOperatorViews)
                \cap {v \in View : v.id \notin Ids(defaultOperatorViews)} = {}
        BY DEF Ids
      <3> QED BY <3>1, BuiltInViews, OnlyNone
    <2>4. merged = defaultOperatorViews
      <3> HIDE DEF missing
      <3> QED BY <2>3, BuiltInViews, ConcatEmptySeq
    <2>5. mergeOperatorViews(defaultOperatorViews) =
              SubSeq(merged, 1, IF Len(merged) > Cap THEN Cap ELSE Len(merged))
      BY DEF mergeOperatorViews
    <2> HIDE DEF merged
    <2> DEFINE n   == IF Len(defaultOperatorViews) > Cap THEN Cap ELSE Len(defaultOperatorViews)
               cut == SubSeq(defaultOperatorViews, 1, n)
    <2>6. Len(defaultOperatorViews) \in Nat /\ Cap \in Nat
      BY BuiltInViews, LenProperties
    <2>7. n \in Nat /\ n <= Len(defaultOperatorViews)
      BY <2>6
    <2> HIDE DEF n
    <2>8. /\ cut \in Seq(View) /\ Len(cut) = n
          /\ \A i \in 1 .. n : cut[i] = defaultOperatorViews[i]
      BY <2>7, BuiltInViews, CutList
    <2>9. getSettings.operatorViews = cut
      BY <2>2, <2>4, <2>5 DEF n
    <2> HIDE DEF cut
    <2>10. ASSUME NEW i \in DOMAIN cut PROVE cut[i].id # u
      <3>1. i \in 1 .. n
        BY <2>8, LenProperties
      <3>2. i \in DOMAIN defaultOperatorViews
        BY <2>6, <2>7, <3>1, BuiltInViews, LenProperties
      <3>3. i \in DOMAIN Defaults /\ defaultOperatorViews[i].id = Defaults[i]
        BY <3>2 DEF defaultOperatorViews, BuiltIn
      <3>4. Defaults[i] \in Range(NamedViews)
        BY <3>3, SettingsAssumption DEF Range
      <3> QED BY <2>8, <3>1, <3>3, <3>4, SettingsAssumption
    <2> QED BY <2>9, <2>10 DEF Ids, Range
  <1>3. \A u : ~Told(u)
    BY DEF Told, SettingsInit
  <1> QED BY <1>1, <1>2, <1>3 DEF SettingsInv, AuditTellsViews

\* What is read back depends on the rows alone.
LEMMA SettingsStay ==
    ASSUME SettingsInv, UNCHANGED <<stored, viewAudit, puts, deaths>>,
           tab' \in [views : Seq(View), told : UserView \cup {None}]
    PROVE  SettingsInv' /\ OneField
  <1>1. getSettings' = getSettings
    BY DEF getSettings
  <1>2. SettingsTypeOK'
    BY DEF SettingsInv, SettingsTypeOK
  <1>3. AuditTellsViews'
    BY <1>1 DEF SettingsInv, AuditTellsViews, Told
  <1>4. OneField
    <2> DEFINE changed == {f \in Setting : getSettings'[f] # getSettings[f]}
    <2>1. changed = {}
      BY <1>1
    <2> HIDE DEF changed
    <2>2. Cardinality(changed) = 0
      BY <2>1, FS_EmptySet
    <2>3. Cardinality(changed) <= 1
      BY <2>2
    <2> QED BY <2>3 DEF OneField, changed
  <1> QED BY <1>2, <1>3, <1>4 DEF SettingsInv

\* Every step of the settings keeps the audit in step with the views.
LEMMA SettingsNextInv ==
    ASSUME SettingsInv, SettingsNext PROVE SettingsInv' /\ OneField
  <1>0. tab \in [views : Seq(View), told : UserView \cup {None}] /\ tab.views \in Seq(View)
    BY DEF SettingsInv, SettingsTypeOK
  <1>1. CASE PutScalar
    <2>1. PICK f \in Scalar, e \in Edition : updateSettings(Field(f, e))
      BY <1>1 DEF PutScalar
    <2>2. Request(f, e)
      BY DEF Request, Setting, Scalar
    <2>3. tab' \in [views : Seq(View), told : UserView \cup {None}]
      BY <1>0, <1>1 DEF PutScalar
    <2> QED BY <2>1, <2>2, <2>3, UpdateKeeps
  <1>2. CASE PutViews
    <2>1. PICK ids \in SUBSET UserView, e \in Edition :
              updateSettings(Field("operatorViews", SetToSeq([id : ids, edition : {e}])))
      BY <1>2 DEF PutViews
    <2> DEFINE S == [id : ids, edition : {e}]
    <2>2. S \in SUBSET View
      BY DEF View
    <2>3. IsFiniteSet(S)
      <3> DEFINE entry == [u \in ids |-> [id |-> u, edition |-> e]]
      <3>1. IsFiniteSet(UserView)
        BY SettingsAssumption
      <3>2. IsFiniteSet(ids)
        BY <3>1, FS_Subset
      <3>3. entry \in Surjection(ids, S)
        BY DEF Surjection
      <3> HIDE DEF S, entry
      <3> QED BY <3>2, <3>3, FS_Surjection
    <2> HIDE DEF S
    <2>4. Request("operatorViews", SetToSeq(S))
      BY <2>2, <2>3, ListOfSet DEF Request, Setting, Scalar
    <2>5. tab' \in [views : Seq(View), told : UserView \cup {None}]
      BY <1>0, <1>2 DEF PutViews
    <2> QED BY <2>1, <2>4, <2>5, UpdateKeeps DEF S
  <1>3. CASE LoadTab
    <2>1. getSettings.operatorViews \in Seq(View)
      BY Reading, CompleteFields DEF SettingsInv
    <2>2. mergeOperatorViewsForDay(getSettings.operatorViews) \in Seq(View)
      BY <2>1, ListedViews
    <2>3. tab' \in [views : Seq(View), told : UserView \cup {None}]
      BY <1>3, <2>2 DEF LoadTab
    <2> QED BY <1>3, <2>3, SettingsStay DEF LoadTab
  <1>4. CASE SaveView
    <2> DEFINE others(view) == Only(Saved(tab.views), {v \in View : v.id # view.id})
               mine(view)   == <<view>> \o others(view)
               sent(view)   == mergeOperatorViewsForDay(
                   SubSeq(mine(view), 1, IF Len(mine(view)) > Cap THEN Cap ELSE Len(mine(view))))
    <2>1. PICK view \in [id : UserView, edition : Edition] :
              /\ updateSettings(Field("operatorViews", sent(view)))
              /\ tab' = [views |-> sent(view),
                         told  |-> IF deaths' = deaths THEN view.id ELSE None]
      BY <1>4 DEF SaveView
    <2>2. view \in View /\ view.id \in UserView
      BY DEF View
    <2>3. others(view) \in Seq(View)
      BY <1>0, ListedViews, OnlyTakes
    <2>4. mine(view) \in Seq(View)
      <3> HIDE DEF others
      <3> QED BY <2>2, <2>3, ConcatProperties
    <2>5. sent(view) \in Seq(View)
      <3> DEFINE n == IF Len(mine(view)) > Cap THEN Cap ELSE Len(mine(view))
      <3> HIDE DEF mine
      <3>1. Len(mine(view)) \in Nat /\ Cap \in Nat
        BY <2>4, BuiltInViews, LenProperties
      <3>2. n \in Nat /\ n <= Len(mine(view))
        BY <3>1
      <3> HIDE DEF n
      <3>3. SubSeq(mine(view), 1, n) \in Seq(View)
        BY <2>4, <3>2, CutList
      <3>4. mergeOperatorViewsForDay(SubSeq(mine(view), 1, n)) \in Seq(View)
        BY <3>3, ListedViews
      <3> QED BY <3>4 DEF n
    <2> HIDE DEF sent
    <2>6. Request("operatorViews", sent(view))
      BY <2>5 DEF Request, Setting, Scalar
    <2>7. tab' \in [views : Seq(View), told : UserView \cup {None}]
      BY <2>1, <2>2, <2>5
    <2> QED BY <2>1, <2>6, <2>7, UpdateKeeps
  <1> QED BY <1>1, <1>2, <1>3, <1>4 DEF SettingsNext

\* So does every step of the panels: each is one of the settings, or changes none of them.
LEMMA PanelsKeepSettings ==
    ASSUME SettingsInv, [PanelsNext]_panelVars
    PROVE  SettingsInv' /\ [OneField]_settingsVars
  <1>1. CASE SettingsNext
    BY <1>1, SettingsNextInv
  <1>2. CASE UNCHANGED settingsVars
    <2>1. UNCHANGED <<stored, viewAudit, puts, deaths>>
          /\ tab' \in [views : Seq(View), told : UserView \cup {None}]
      BY <1>2 DEF settingsVars, SettingsInv, SettingsTypeOK
    <2> QED BY <1>2, <2>1, SettingsStay
  <1>3. CASE OpenPage
    <2>1. <<>> \in Seq(View)
      BY EmptySeq
    <2>2. tab' \in [views : Seq(View), told : UserView \cup {None}]
      BY <1>3, <2>1 DEF OpenPage
    <2>3. UNCHANGED <<stored, viewAudit, puts, deaths>>
      BY <1>3 DEF OpenPage
    <2> QED BY <2>2, <2>3, SettingsStay
  <1>4. ViewsArrive \/ SaveShownView \/ PutScalar \/ PutViews => SettingsNext
    BY DEF ViewsArrive, SaveShownView, SettingsNext
  <1>5. SelectDay \/ ApplyOperatorView \/ ChooseTemplate \/ ChooseItem \/ ToggleCard
        => UNCHANGED settingsVars
    BY DEF SelectDay, ApplyOperatorView, ChooseTemplate, ChooseItem, ToggleCard
  <1>6. UNCHANGED panelVars => UNCHANGED settingsVars
    BY DEF panelVars, settingsVars
  <1> QED BY <1>1, <1>2, <1>3, <1>4, <1>5, <1>6 DEF PanelsNext

-----------------------------------------------------------------------------
(* Theorems.                                                               *)

\* The invariant holds for ever.
THEOREM PanelsInvHolds == PanelsSpec => []IInv
  BY InitInv, NextInv, PTL DEF PanelsSpec

\* The collapsed cards of an operator view are changed under that view alone, and the
\* cards on the screen are those of the active view, whatever makes another one active
\* (the diagnostics effects of App.tsx).
THEOREM DiagnosticsKeptHolds == PanelsSpec => DiagnosticsKept
  <1>1. IInv /\ [PanelsNext]_panelVars => [CardsKept]_panelVars
    BY NextInv
  <1> QED BY <1>1, PanelsInvHolds, PTL DEF PanelsSpec, DiagnosticsKept, CardsKept

\* The settings of the panels' specification keep their invariant.
THEOREM SettingsInvHolds == PanelsSpec => []SettingsInv
  <1>1. PanelsInit => SettingsInv
    BY SettingsInitInv DEF PanelsInit
  <1>2. SettingsInv /\ [PanelsNext]_panelVars => SettingsInv'
    BY PanelsKeepSettings
  <1> QED BY <1>1, <1>2, PTL DEF PanelsSpec

\* While no request was cut short, the audit tells which views of operators the settings
\* hold (updateSettings, packages/app/src/settings.ts).
THEOREM AuditTellsViewsHolds == PanelsSpec => []AuditTellsViews
  BY SettingsInvHolds, PTL DEF SettingsInv

\* A request changes at most one field, wherever the process dies in it.
THEOREM OtherFieldsKeptHolds == PanelsSpec => OtherFieldsKept
  <1>1. SettingsInv /\ [PanelsNext]_panelVars => [OneField]_settingsVars
    BY PanelsKeepSettings
  <1> QED BY <1>1, SettingsInvHolds, PTL DEF PanelsSpec, OtherFieldsKept, OneField
=============================================================================
