------------------------------ MODULE MCPanels ------------------------------
(* Panels for TLC: two built-in views, one of them a server default.  No    *)
(* effect relates cards, templates and slots, and the settings read nothing *)
(* of them: each is checked with the others as a new page has them, the     *)
(* cards with one request, the rest of the panels without any.              *)
EXTENDS Panels

MCNamedViews == <<"reconnect-triage", "morning">>
MCDefaults   == <<"reconnect-triage">>

MCNoCards     == local.collapsed = [v \in ViewId |-> FALSE]
MCNoTemplates == DOMAIN local.template \subseteq {"d1"} /\ local.default = None
MCNoItems     == \A k \in Slot : ui.item[k] = None

\* With more requests the operator does nothing else on the page.
MCScreen      == puts >= MaxPuts - 1 /\ deaths = MaxDeaths

MCSeparate ==
    \/ MCNoCards /\ MCNoItems /\ DOMAIN local.template = {}
       /\ ui.view \in Ids(Saved(tab.views)) \cup {None}
    \/ MCNoTemplates /\ MCNoItems /\ MCScreen
       /\ \A r \in Scalar : stored[r] \in {None, 0}
       /\ \A e \in Range(viewAudit) : e.view = "u1"
    \/ MCNoCards /\ MCNoItems /\ puts = MaxPuts
    \/ MCNoCards /\ MCNoTemplates /\ puts = MaxPuts

\* PanelsNext, action by action.
MCNext ==
    \/ OpenPage /\ MCSeparate'
    \/ ViewsArrive /\ MCSeparate'
    \/ SaveShownView /\ MCSeparate'
    \/ MCScreen /\ SelectDay /\ MCSeparate'
    \/ MCScreen /\ ApplyOperatorView /\ MCSeparate'
    \/ MCScreen /\ ChooseTemplate /\ MCSeparate'
    \/ MCScreen /\ ChooseItem /\ MCSeparate'
    \/ MCScreen /\ ToggleCard /\ MCSeparate'
    \/ PutScalar /\ UNCHANGED <<ui, local>> /\ MCSeparate'
    \/ PutViews /\ UNCHANGED <<ui, local>> /\ MCSeparate'

MCSpec == PanelsInit /\ [][MCNext]_panelVars
=============================================================================
