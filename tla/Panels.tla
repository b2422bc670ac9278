------------------------------- MODULE Panels -------------------------------
(***************************************************************************)
(* What the workbench keeps in the browser's local storage: the incident    *)
(* template of each day, the verification gate, the incident panel and the  *)
(* session drilldown it last showed, and per operator view the diagnostics  *)
(* cards that are collapsed (apps/web/src/App.tsx).  Each has an effect     *)
(* that writes it and one that reads it; after a render they run in the     *)
(* order in which the component declares them, and what they set is         *)
(* rendered again, all before the operator's next input.  The views are     *)
(* those of the settings.                                                   *)
(*                                                                          *)
(* Left out: the day a view is bound to, so a selected day may or may not   *)
(* leave the view; the tab, which panel and drilldown share; the card of    *)
(* pending approvals, which opens by itself; and storage that throws.       *)
(***************************************************************************)
EXTENDS Settings

CONSTANTS
    Day,          \* the days that may be selected
    Template,     \* the incident templates
    Item          \* the gates, incidents and sessions

ASSUME None \notin Day \cup Template \cup Item

VARIABLES
    ui,           \* the state of App
    local         \* window.localStorage

panelVars == <<stored, viewAudit, tab, puts, deaths, ui, local>>

ViewId == Range(NamedViews) \cup UserView \cup {None}
Slot   == {"gate", "panel", "drilldown"}

\* None stands for the empty string and null; view is the one whose query, filters and
\* grouping the route has, whether or not the workbench lists it.
UI == [day : Day \cup {None}, view : ViewId, template : Template \cup {None},
       item : [Slot -> Item \cup {None}], collapsed : BOOLEAN]

\* A day under which no template was stored is not in the domain of template: the empty string
\* is told from null.  A card that was not stored is shown, as one stored so.
PanelsTypeOK ==
    /\ ui \in UI
    /\ DOMAIN local.template \subseteq Day /\ Range(local.template) \subseteq Template \cup {None}
    /\ local.default \in Template \cup {None}
    /\ local.collapsed \in [ViewId -> BOOLEAN]

-----------------------------------------------------------------------------
(* The effects.                                                             *)

\* describeActiveOperatorView
ActiveIn(views, s) == IF s.view \in Ids(views) THEN s.view ELSE None

\* The template of the day is stored, and as the default unless it is none.
WriteTemplate(s, l) ==
    IF s.day = None THEN l
    ELSE [l EXCEPT !.template = (s.day :> s.template) @@ @,
                   !.default = IF s.template = None THEN @ ELSE s.template]

ReadTemplate(s, l) ==
    [s EXCEPT !.template = IF s.day \in DOMAIN l.template THEN l.template[s.day] ELSE l.default]

\* A slot holds one value, under the day it was shown on, and the drilldown's also under the
\* query.
SlotKey(slot, s) == IF slot = "drilldown" THEN <<s.day, s.view>> ELSE <<s.day>>

WriteSlots(s, l) ==
    [l EXCEPT !.slot = [k \in Slot |->
        IF k = "gate" /\ s.day = None THEN @[k]
        ELSE [key |-> SlotKey(k, s), item |-> s.item[k]]]]

ReadSlots(s, l) ==
    [s EXCEPT !.item = [k \in Slot |->
        IF l.slot[k].key = SlotKey(k, s) THEN l.slot[k].item ELSE @[k]]]

ReadCards(view, s, l)  == [s EXCEPT !.collapsed = l.collapsed[view]]
WriteCards(view, s, l) == [l EXCEPT !.collapsed[view] = s.collapsed]

\* Mutant of CardEffects: written before they are read, as the others are.
CardEffectsInReverse(view, entered, s, l) ==
    LET written == WriteCards(view, s, l)
        read    == IF entered THEN ReadCards(view, s, written) ELSE s
    IN  [ui |-> read, local |-> WriteCards(view, read, written)]

\* The cards under the active view: entered says that another one was active before.  The
\* first write is of what the previous view had, the second, after the next render, of what
\* was read.
CardEffects(view, entered, s, l) ==
    LET read    == IF entered THEN ReadCards(view, s, l) ELSE s
        written == WriteCards(view, s, l)
    IN  [ui |-> read, local |-> WriteCards(view, read, written)]

\* The template and the slots, when the day or the query is new or not.
DayEffects(newDay, newQuery, s, l) ==
    LET written  == WriteTemplate(s, WriteSlots(s, l))
        template == IF newDay THEN ReadTemplate(s, written) ELSE s
        read     == IF newDay \/ newQuery THEN ReadSlots(template, written) ELSE template
    IN  [ui |-> read, local |-> WriteTemplate(read, WriteSlots(read, written))]

\* The render of state s with the given views, first says whether it is the first of a page.
Render(s, views, first) ==
    LET view  == ActiveIn(views, s)
        cards == CardEffects(view, first \/ view # ActiveIn(tab.views, ui), s, local)
        panes == DayEffects(first \/ s.day # ui.day, first \/ s.view # ui.view,
                            cards.ui, cards.local)
    IN  ui' = panes.ui /\ local' = panes.local

-----------------------------------------------------------------------------
(* What is rendered.                                                        *)

PanelsInit ==
    /\ SettingsInit
    /\ ui = [day |-> None, view |-> None, template |-> None,
             item |-> [k \in Slot |-> None], collapsed |-> FALSE]
    /\ local = [template |-> <<>>, default |-> None,
                slot |-> [k \in Slot |-> [key |-> <<>>, item |-> None]],
                collapsed |-> [v \in ViewId |-> FALSE]]

\* The page is opened at an address, which says the day and the query, without any views.
OpenPage ==
    /\ tab' = [views |-> <<>>, told |-> None]
    /\ \E d \in Day \cup {None}, v \in ViewId :
        Render([day |-> d, view |-> v, template |-> None,
                item |-> [k \in Slot |-> None], collapsed |-> FALSE], <<>>, TRUE)
    /\ UNCHANGED <<stored, viewAudit, puts, deaths>>

\* The settings arrive.
ViewsArrive == tab.views = <<>> /\ LoadTab /\ Render(ui, tab'.views, FALSE)

\* The view saved has the query of the moment; a built-in one that has it is found first.
SaveShownView ==
    /\ SaveView
    /\ \E saved \in UserView :
        /\ tab'.views[Len(NamedViews) + 1].id = saved
        /\ Render(IF ui.view \in Range(NamedViews) THEN ui ELSE [ui EXCEPT !.view = saved],
                  tab'.views, FALSE)

\* A day is selected, by the operator or because a refresh no longer lists the other.
SelectDay ==
    /\ \E d \in Day \ {ui.day}, v \in {ui.view, None} :
        Render([ui EXCEPT !.day = d, !.view = v], tab.views, FALSE)
    /\ UNCHANGED settingsVars

\* handleApplyOperatorView, and other queries.
ApplyOperatorView ==
    /\ \E v \in ViewId, d \in Day, gate \in Item \cup {None}, session \in Item \cup {None} :
        Render([ui EXCEPT !.day = d, !.view = v, !.item.gate = gate, !.item.drilldown = session],
               tab.views, FALSE)
    /\ UNCHANGED settingsVars

ChooseTemplate ==
    /\ \E t \in Template \cup {None} : Render([ui EXCEPT !.template = t], tab.views, FALSE)
    /\ UNCHANGED settingsVars

\* The operator chooses, or what a report and a list of incidents or sessions have first fills
\* an empty slot.
ChooseItem ==
    /\ \E k \in Slot, i \in Item : Render([ui EXCEPT !.item[k] = i], tab.views, FALSE)
    /\ UNCHANGED settingsVars

ToggleCard ==
    /\ Render([ui EXCEPT !.collapsed = ~@], tab.views, FALSE)
    /\ UNCHANGED settingsVars

PanelsNext ==
    \/ OpenPage \/ ViewsArrive \/ SaveShownView \/ SelectDay \/ ApplyOperatorView
    \/ ChooseTemplate \/ ChooseItem \/ ToggleCard
    \/ (PutScalar \/ PutViews) /\ UNCHANGED <<ui, local>>

PanelsSpec == PanelsInit /\ [][PanelsNext]_panelVars

-----------------------------------------------------------------------------
(* Properties.                                                             *)

Active == ActiveIn(tab.views, ui)

\* architecture.md:192, "diagnostics collapse state persists per operator view": whatever
\* makes another view the active one, a reload, a save or a selected day, no view's cards
\* change but by a toggle under it, and the cards on the screen are those of the active view.
DiagnosticsKept ==
    [][/\ \A v \in ViewId :
            local'.collapsed[v] # local.collapsed[v] => v = Active /\ Active' = Active
       /\ ui'.collapsed = local'.collapsed[Active']]_panelVars

\* architecture.md:252, "per-day template choice remains additive on top" of the default: the
\* template that was chosen on a day changes only while that day is shown.
TemplateOfDayKept ==
    [][\A d \in DOMAIN local.template :
           local.template[d] \notin {None, local'.template[d]} => ui.day = d /\ ui'.day = d
      ]_panelVars
=============================================================================
