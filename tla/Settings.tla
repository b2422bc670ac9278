------------------------------ MODULE Settings ------------------------------
(***************************************************************************)
(* The settings: five rows of journal_settings (packages/app/src/           *)
(* settings.ts), and the saved operator views of the workbench, which ride *)
(* on them (apps/web/src/App.tsx, state/operator-workspace.ts).            *)
(*                                                                         *)
(* PUT /api/settings reads the settings, changes the fields it names and   *)
(* writes every row, then one audit event per view that came, changed or   *)
(* went.  Each is a statement of its own: the process may die between any  *)
(* two.  A view is an id and an edition; filters, drilldowns and labels    *)
(* are left out, and the "used" events, which no setting depends on.       *)
(***************************************************************************)
EXTENDS Naturals, SequencesExt

CONSTANTS
    NamedViews,   \* the views built into the workbench, in their order
    Defaults,     \* the server's own, in their order: some of those
    UserView,     \* ids of views that operators save
    Cap,          \* how many views the server keeps
    Editions,     \* bound: the values of a field, the editions of a view: 0 .. Editions
    MaxPuts,      \* bound: requests
    MaxDeaths,    \* bound: deaths of the process within a request
    None

ASSUME SettingsAssumption ==
    /\ Range(Defaults) \subseteq Range(NamedViews)
    /\ UserView \cap Range(NamedViews) = {} /\ None \notin UserView
    /\ Cap = Len(NamedViews)               \* 12 on the server, 12 in the workbench
    /\ {Editions, MaxPuts, MaxDeaths} \subseteq Nat
    /\ NamedViews \in Seq(Range(NamedViews)) /\ Defaults \in Seq(Range(Defaults))
    /\ IsFiniteSet(UserView)

VARIABLES
    stored,       \* journal_settings
    viewAudit,    \* journal_saved_view_audit_events, in the order they were written
    tab,          \* the workbench: its views, and the view it told the operator was saved
    puts, deaths  \* what is left of the budgets

settingsVars == <<stored, viewAudit, tab, puts, deaths>>

Edition == 0 .. Editions
View    == [id : Range(NamedViews) \cup UserView, edition : Edition]
Scalar  == {"theme", "showToolCalls", "searchPresets"}
Setting == Scalar \cup {"operatorViews"}

\* What may be read back from a row: nothing is told apart from every value of one.
Complete == [theme : Edition, showToolCalls : Edition, searchPresets : Edition,
             operatorViews : Seq(View)]

ASSUME NoneAssumption == None \notin Edition /\ None \notin Seq(View) /\ None \notin Complete

\* The rows of one write, in the order of their statements.
Written == <<"theme", "showToolCalls", "searchPresets", "operatorViews", "settings.v2">>

\* The elements of s that are in S, in their order.
Only(s, S) ==
    LET I == {i \in DOMAIN s : s[i] \in S}
    IN  [k \in 1 .. Cardinality(I) |->
            s[CHOOSE i \in I : Cardinality({j \in I : j <= i}) = k]]

builtIn(view) == view.id \in Range(NamedViews)
Ids(views)    == {v.id : v \in Range(views)}
BuiltIn(ids)  == [i \in DOMAIN ids |-> [id |-> ids[i], edition |-> 0]]

\* buildNamedOperatorViews and defaultOperatorViews.
buildNamedOperatorViews == BuiltIn(NamedViews)
defaultOperatorViews    == BuiltIn(Defaults)

\* What the audit keeps of a view.
ViewEvent == [view : UserView, action : {"created", "updated", "deleted"}]

SettingsTypeOK ==
    /\ DOMAIN stored = Range(Written)
    /\ \A f \in Scalar : stored[f] \in Edition \cup {None}
    /\ stored.operatorViews = None \/ stored.operatorViews \in Seq(View)
    /\ stored["settings.v2"] = None \/ stored["settings.v2"] \in Complete
    /\ tab \in [views : Seq(View), told : UserView \cup {None}]
    /\ viewAudit \in Seq(ViewEvent)
    /\ puts \in 0 .. MaxPuts /\ deaths \in 0 .. MaxDeaths

SettingsInit ==
    /\ stored = [r \in Range(Written) |-> None]
    /\ viewAudit = <<>>
    /\ tab = [views |-> <<>>, told |-> None]
    /\ puts = MaxPuts /\ deaths = MaxDeaths

-----------------------------------------------------------------------------
(* Reading.                                                                *)

\* mergeOperatorViews of the server: the defaults it misses go to the end, and then the
\* list is cut.
mergeOperatorViews(views) ==
    LET missing == Only(defaultOperatorViews, {v \in View : v.id \notin Ids(views)})
        merged  == views \o missing
    IN  SubSeq(merged, 1, IF Len(merged) > Cap THEN Cap ELSE Len(merged))

defaultSettings == [f \in Setting |-> IF f \in Scalar THEN 0 ELSE defaultOperatorViews]

normalizeSettings(s) == [s EXCEPT !.operatorViews = mergeOperatorViews(@)]

\* The row that holds all of them is read before the four it replaced.
getSettings ==
    IF stored["settings.v2"] # None
    THEN normalizeSettings(stored["settings.v2"])
    ELSE normalizeSettings([f \in Setting |->
             IF stored[f] = None THEN defaultSettings[f] ELSE stored[f]])

-----------------------------------------------------------------------------
(* Writing.                                                                *)

\* Mutant of Merged: what the request does not name returns to its default.
MergedWithDefaults(input) ==
    normalizeSettings([f \in Setting |->
        IF f \in DOMAIN input THEN input[f] ELSE defaultSettings[f]])

\* The settings that a request for input leaves.
Merged(input) ==
    normalizeSettings([f \in Setting |->
        IF f \in DOMAIN input THEN input[f] ELSE getSettings[f]])

Saved(views) == Only(views, {v \in View : ~builtIn(v)})

\* Mutant of ViewEvents: of the views that went nothing is told.
ViewEventsUncut(before, after) ==
    LET came == Only(Saved(after), View \ Range(before))
    IN  [i \in DOMAIN came |->
            [view |-> came[i].id,
             action |-> IF came[i].id \in Ids(before) THEN "updated" ELSE "created"]]

\* The audit events of a change: the views that came or changed, then those that went.
ViewEvents(before, after) ==
    LET came == Only(Saved(after), View \ Range(before))
        went == Only(Saved(before), {v \in View : v.id \notin Ids(after)})
    IN  [i \in DOMAIN came |->
            [view |-> came[i].id,
             action |-> IF came[i].id \in Ids(before) THEN "updated" ELSE "created"]]
        \o [i \in DOMAIN went |-> [view |-> went[i].id, action |-> "deleted"]]

\* updateSettings, up to its kth statement: the last, unless the process dies first.
updateSettings(input) ==
    /\ puts > 0 /\ puts' = puts - 1
    /\ LET next   == Merged(input)
           events == ViewEvents(getSettings.operatorViews, next.operatorViews)
           rows   == [r \in Range(Written) |-> IF r = "settings.v2" THEN next ELSE next[r]]
           all    == Len(Written) + Len(events)
       IN  \E k \in 0 .. all :
           /\ k < all => deaths > 0
           /\ deaths' = IF k < all THEN deaths - 1 ELSE deaths
           /\ stored' = [r \in Range(Written) |->
                            IF \E i \in 1 .. k : i <= Len(Written) /\ Written[i] = r
                            THEN rows[r] ELSE stored[r]]
           /\ viewAudit' = viewAudit
                  \o SubSeq(events, 1, IF k > Len(Written) THEN k - Len(Written) ELSE 0)

-----------------------------------------------------------------------------
(* Clients.                                                                *)

\* A request that names one field.
Field(f, value) == [g \in {f} |-> value]

\* PUT /api/settings for one field, from the workbench or from a script.
PutScalar ==
    /\ \E f \in Scalar, e \in Edition : updateSettings(Field(f, e))
    /\ tab' = [tab EXCEPT !.told = None]

\* A script lays down its own views: the workbench is not the only client.
PutViews ==
    /\ \E ids \in SUBSET UserView, e \in Edition :
        updateSettings(Field("operatorViews", SetToSeq([id : ids, edition : {e}])))
    /\ tab' = [tab EXCEPT !.told = None]

\* mergeOperatorViewsForDay: the built-in views come first and have no cap of their own.
mergeOperatorViewsForDay(views) == buildNamedOperatorViews \o Saved(views)

\* The workbench reads the settings when it is loaded.
LoadTab ==
    /\ tab' = [views |-> mergeOperatorViewsForDay(getSettings.operatorViews), told |-> None]
    /\ UNCHANGED <<stored, viewAudit, puts, deaths>>

\* handleSaveOperatorView: the list changes at once, and the operator is told when the
\* request has been answered.
SaveView ==
    /\ tab.views # <<>>
    /\ \E view \in [id : UserView, edition : Edition] :
        LET others == Only(Saved(tab.views), {v \in View : v.id # view.id})
            mine   == <<view>> \o others
            sent   == mergeOperatorViewsForDay(
                          SubSeq(mine, 1, IF Len(mine) > Cap THEN Cap ELSE Len(mine)))
        IN  /\ updateSettings(Field("operatorViews", sent))
            /\ tab' = [views |-> sent,
                       told  |-> IF deaths' = deaths THEN view.id ELSE None]

SettingsNext == PutScalar \/ PutViews \/ LoadTab \/ SaveView

SettingsSpec == SettingsInit /\ [][SettingsNext]_settingsVars

-----------------------------------------------------------------------------
(* Properties.                                                             *)

\* The audit tells of the view u, and last that it was there.
Told(u) ==
    \E i \in DOMAIN viewAudit :
        /\ viewAudit[i].view = u /\ viewAudit[i].action # "deleted"
        /\ \A j \in DOMAIN viewAudit : j > i => viewAudit[j].view # u

\* A request changes at most one of the fields that are read, for it names one, on whichever
\* of its statements the process dies and whatever earlier deaths left (updateSettings).
OtherFieldsKept ==
    [][LET was == getSettings
           is  == getSettings'
       IN  Cardinality({f \in Setting : is[f] # was[f]}) <= 1]_settingsVars

\* While nothing has died within a request, the audit tells which views of operators the
\* settings hold: the last event of each of the others, if any, is that it was deleted.
AuditTellsViews ==
    deaths = MaxDeaths =>
        \A u \in UserView : u \in Ids(getSettings.operatorViews) <=> Told(u)

\* architecture.md:20: "user-saved views are capped separately from built-ins so defaults
\* cannot evict a newly saved operator view."  The operator was told "Operator view
\* saved.", and nothing was written since.
SavedViewKept ==
    tab.told # None => tab.told \in Ids(getSettings.operatorViews)
=============================================================================
