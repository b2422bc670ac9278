# OpenClog in TLA+

OpenClog is a local operator journal for an OpenClaw gateway: an API process on
the operator's machine holds a WebSocket link to the gateway, journals its events
in a SQLite file, and serves a web workspace and a desktop shell. This directory
models the parts of it that are hard to test, checks them with TLC and proves
their main properties with TLAPS. `PROJECT.json` lists the components, the runs,
the mutants, the source lines each definition stands for, the hazards and the
theorems; this file explains them.

    tlc -workers 2 -config MCLiveGateway.cfg MCLiveGateway      # one run
    tlapm JournalStoreProofs.tla                                # one module's proofs

## 1. The system

| part | source | state it keeps | what is hard about it |
|---|---|---|---|
| Gateway client | `apps/api/src/live-gateway.ts` | socket, connection flags, reconnect and heartbeat timers, pending requests, failure count, restart cool-down | every call of `openAndNegotiate` is a chain of awaits nothing cancels; timers, socket events and rejected promises interleave |
| Gateway port | `apps/api/src/gateway.ts` | what routes see of the client | the contract of `request()`, `getState()`, `close()` |
| Journal store | `apps/api/src/repository.ts`, `packages/app/src/retention.ts` | SQLite tables: days, entries, summaries, pinned contexts, snapshots | no transactions: a crash or failed statement leaves an operation half done |
| Session backfill | `apps/api/src/openclaw-session-backfill.ts` | none (writes the store) | a bulk write at start-up |
| Delivery | `repository.ts`, `packages/app/src/delivery.ts`, `incident-loop.ts` | receipts, action records | idempotency keys, retries, calls that are not awaited |
| Summary jobs | `repository.ts`, `packages/app/src/summary-jobs.ts` | summaries, jobs | a job is run by the read that polls it; freshness is judged by times that others set |
| Event feed | `live-gateway.ts`, `packages/core/src/normalizer.ts`, `app.ts` | last sequence number, journal | gaps, identities of events, two processes that restart |
| API routes | `apps/api/src/app.ts`, `server.ts` | endpoint budget, stream clients | one call of the parts above each; the budget's window |
| Incident loop | `packages/app/src/incident-loop.ts`, `incidents.ts`, `alerts.ts`, `governance.ts` | incidents, notes, packets, action records, lineage, alert states | several saves per action; incidents that are derived until one is stored |
| Capabilities | `packages/app/src/capabilities.ts` | manifests | gates that depend on the date |
| Settings | `packages/app/src/settings.ts`, the workspace's list of views | five settings rows, the audit of views | written one by one, by clients with lists of their own |
| Monitoring import | `packages/app/src/monitoring-import.ts` | decisions, packets | repeated imports |
| Operations reports | `packages/app/src/operations.ts`, `search.ts` | verification receipts | many verdicts computed from the same rows, each in its own way |
| Web workspace | `apps/web/src` | React state, local storage | polling, live events and selection race; effects that write and read the same key |
| Desktop shell | `apps/desktop/src-tauri` | secrets, the history of its self-checks (a table of the same database) | operating-system calls; a row the reports trust however old it is |

How they interact. `server.ts` opens the store (which migrates, seeds and writes
the sample day), awaits the gateway client's first connection (`resolveGateway`),
builds the API on both, listens, and a second later runs the session backfill, whose
errors are logged and nothing else. The API registers one listener with the client: each
event that is to be journalled is normalised to an entry and written with
`addEntry` in the same macrotask as the WebSocket message. Routes call the store
synchronously, or `gateway.request()` and await it. The Node process is
single-threaded, so a step of the system is one macrotask with its microtasks;
`node:sqlite` is synchronous, so an operation of the store is never interleaved
with another one, but the process can die between two of its statements, and
launchd (`ops/launchd`, `KeepAlive`) starts it again. In the browser, answers
arrive in any order.

What makes each part correct:

* *Gateway client*: it never ends up without a link and without anything armed to
  open one; control requests go only to a gateway that granted the scopes; a link
  in use is watched; what it reports is true of the current socket; calls are
  settled; after `close()` it is quiet.
* *Journal store*: nothing that was stored is lost except by a retention, whose
  snapshot then has it; no entry is stored where no page shows it; a rollback
  restores; the next write repairs a half-written day.
* *Delivery*: an idempotency key is sent once unless it is retried; what was sent has
  a receipt and a receipt has an attempt behind it; retries are tied to what they
  retry; the incident's history agrees with the receipts.
* *Event feed*: a loss is told before anything later is recorded, a gap that is told is
  one, and a message that was heard stays in the journal.
* *Summary jobs and reports*: a day has one job waiting; all who judge the freshness of
  a summary agree; a green release gate is earned and rests on summaries that count
  the recovered evidence; nothing shown beside it contradicts it; a verdict that
  aggregates others hides no bad one.
* *Incident loop*: no record names what is not there; an entry that an incident lists is
  told so in its lineage (not the converse: rows may name what no longer lists them); an
  incident that an operator captured stays one of its day.
* *Settings*: a request changes at most one field; the audit tells which views there are.
* *Web workspace*: what the operator typed about a day outlives every refreshed, pushed or
  answered copy of that day, and is saved under it; a copy of another day takes it (a
  command is answered with the day of today, and a refresh falls back on the newest day
  when the selected one is gone); when the operator rests, the screen settles on the
  selected day; what a panel keeps for a view or a day is not changed from another one.

## 2. Modules

| module | what it is |
|---|---|
| `LiveGateway` | the gateway client: one action per timer callback, socket event, or call |
| `GatewayPort` | the abstract port; `LiveGateway` implements it under `mode <- Mode, outstanding <- Outstanding` |
| `LiveGatewayProofs` | its safety with recovery and without; then, as long as each restart of the service ends before the next link is opened, that all is about one link, and the refinement's safety part |
| `JournalStore` | the journal tables: one action per SQL statement |
| `JournalStoreProofs` | its safety |
| `Delivery` | handoffs and receipts: one action per request, per call of `fetch` or `gh`, and per SQL statement |
| `DeliveryProofs` | its safety |
| `EventFeed`, `EventFeedProofs` | events from the gateway's stream to the journal, and the backfill; its safety |
| `SummaryJobs` | summaries, jobs, retentions and rollbacks, and the verdicts on freshness |
| `Reports` | extends `SummaryJobs` by verification receipts and the release gate |
| `Operations` | extends `Reports` by the desktop self-checks, the Verification Center, the native truth monitor, and the comparison of receipts |
| `OperationsProofs` | safety of the three |
| `Incidents`, `IncidentsProofs` | incidents, notes, packets, records and lineage: one action per SQL statement; its safety |
| `Settings` | the five rows, their readers and writers, and the list of views in the browser |
| `Panels`, `PanelsProofs` | extends `Settings` by what the workbench keeps in local storage; safety of both |
| `Workspace`, `WorkspaceProofs` | the selected day in the browser: one action per await of a handler, and what React renders of it when; its safety |
| `MCLiveGateway`, `MCJournalStore`, ... | instances, symmetry and constraints for TLC |

Definitions named "Mutant of X" are not part of the models: each one is X with a
plausible mistake, and TLC finds the property it is listed with violated once it
replaces X. They show that the property depends on the code.

### LiveGateway

The variables are the fields of the object, under the source's names (`closed`,
`ws`, `reconnectTimer`, `pending`, ...); `status` and `canIssue` are
`state.connectionStatus` and `state.canIssueControlActions`; `failures` is
`consecutiveFailures` up to the largest number a condition compares it with.
Beside them stand the environment (`net`, the state of each socket; `granted`, the
sockets on which the gateway granted the scopes; `faults`, a budget) and the
control state of the async calls: every call of `openAndNegotiate` creates one
socket, so it is named by it, and `phase[s]` says what it awaits (`challenge`,
`hello`, a `plan` answer, or in `reconnectOnce` the service `recover`y).

One step is one macrotask *with all its microtasks*. That matters: rejecting a
pending request makes the attempt that awaits it run its catch block, which
rejects requests in its turn. `AttemptFails` and `LinkFails` stand for that whole
cascade (`FailAttempts` computes who fails, who of them may restart the service,
and what the reconnect timer is then). Details that turned out to matter, and are
modelled: the connect request has the fixed id `connect`, so a second attempt's
request takes the place of the first one's in `pending`; `request()` sends on
`this.ws`, which need not be the socket of the attempt that calls it; frames are
heard from `this.ws` only, `waitForChallenge` listens on its own socket; a failed
*connect* request tears nothing down by itself, other requests that time out do;
`start()` has no recovery; a blocked link (too few scopes) has neither plan nor
heartbeat.

Time. A timer may fire at any moment after it is armed, before or after anything
else. One exception is needed and justified by `reconnectDelayMs`: it doubles, so
from `SlowAfter` failures on it is longer than `timeoutMs` (1 s, 2 s, 4 s, 8 s
against 5 s), and the challenge timers that run when such a timer is armed fire
first. Without it, old attempts and new ones take each other down for ever, which
is the mutant `ConstantDelay` of `EventuallyLinked`. `minFailureWindowMs` and
`cooldownMs` elapse at any moment (`WindowElapses`, `CooldownElapses`).

`ProcessDies` is an exception nobody catches: an `error` event of a socket whose
listeners were removed, a frame that is not JSON, a listener that throws.

### JournalStore

A row of `journal_entries` has its `day_key` column *and* the entry stored in
`entry_json`, which may disagree: on a key conflict `upsertEntry` replaces the
second and keeps the first. `days` keeps the metrics (one number: the entries of
the counted kinds), `snapshots` whole days. `job` is the operation under way with
its position: `Order` gives the tables it writes for each day, in order. Every
statement is an action, `StatementFails` ends an operation in the middle (the
route answers 500 or the backfill records an error; both leave what is written)
and `ProcessDies` does so at any time and goes through the boot, which writes the
sample day again. `upsertDay` also rewrites the entries the day already has with
themselves; only the new ones are in `todo`. `recorded` is a history variable.

### Delivery

A `Handoff` is a target and a day, perhaps with an incident (`Keyed`): then routes
and incident actions give it the idempotency key `incident:target`. What the code
compares of a key is which string it is, so a key is the sequence of retry numbers
appended to the handoff's own key or fingerprint; a verification's key is `<<0>>`.
`receipts` is the table in the order of first saves; `at` is `requestedAt`, by which
`findExistingReceipt` sees the newest first, so the two receipts a failing
`createGithubIssue` leaves are found in either order (`Existing`).

`job` is the request under way. `DryRun`, `MissingConfig`, `CallFetch` and `CallGh`
are the branches of an attempt. `fetch` is not awaited: the request stands in
`outbox` until the handler has ended, and what becomes of it (`posts`, `lost`) is
seen by nobody. `gh` runs inside the handler. Then come `SaveReceipt`,
`SyncLineage`, and `LinkRetry` or `SaveIncidentActionRecord`. `StatementFails` ends
the request, except inside the try block of `createGithubIssue`, whose catch saves a
failed receipt. Addresses are environment variables, so they change with `Restart`;
a rejected `fetch` is an unhandled rejection and is the same step. A request that is
answered with an existing receipt changes nothing and is no step, except that an
incident action records it.

### EventFeed

A gateway process numbers its events from 1 (`sent`), and `log` has all of them. The
frames of a link stand on `wire` in order; they are lost with the link, and an event
emitted while nobody is subscribed is on no wire. `Receive` is the socket's message
handler up to the end of every listener: `emitEvent` compares the number with
`lastEventSeq`, notifies a gap first and then the event (`Emitted`), and the listener of
`app.ts` journals what is to be journalled (`Journalled`), unless it throws halfway
(`ReceiveFails`), which ends the process. `lastEventSeq` outlives a link, not the
process. `told` is a history of the calls of `notifyListeners`, with the process that
made them and whether `createApiApp` had registered its listener by then: `server.ts`
starts the client first. `Backfill` runs once per process and reads the newest
`MaxFiles` session files, oldest first, up to `MaxMessages` messages. An entry's id is
what `normalizedEventId` hashes: kind, message, and the event's number where it has one.

### SummaryJobs, Reports and Operations

Time is a clock that ticks at any moment; several things may happen in one
millisecond. `rows` has every entry that was ever recorded and `present` those in the
table; `listed` has the days with a row. A row has the time its event carries and, if a
backfill brought it, the time of the import; it is `live` if its source is "openclaw",
which `normalizer.ts:54` gives to an assistant's messages from the gateway. A summary has
its time and, as ground truth that the code does not keep, the rows it counted. `Record`
and `Backfill` write rows and then summaries, and a fault may come in between;
`CreateSummaryJob` hands out a waiting job; `Poll` is the read that carries one out, with
the outcomes of a failing statement at each of its points. `ApplyRetention` takes a
snapshot and removes the old days with their entries and summaries; `RollbackRetention`
writes the snapshot's days back, over whatever has come since; a fault leaves either at
any statement (`Visited`: how far its loop has come). They are one step each here, for
nothing is read before the handler has ended; `JournalStore` has them statement by
statement. `rolledBack` is a history: the days a rollback has written to since they were
summarised. `Start` writes the sample day, which a retention may have removed.

What counts as recovered is not the same in two places, and the model keeps both: a
report counts the entries of its own day that are backfilled (`RecoveredIn`), and
`buildRecoveredEvidenceSummaryFromRows` counts those and every live message of every day
(`Recovered`, `repository.ts:2355-2356`). The verdicts are translated one by one (`generatedSummaryFresh`,
`listStaleSummaryDayKeys`, `closeoutSummaryFresh`, `alertedSummary`, `Provisional`),
for the code computes them separately. `Reports` adds receipts, which the verification
runner, a process of its own, records late and out of order, and `ReleaseReady`.

`Operations` adds `native`, the newest row of the history that the desktop host writes.
`SelfCheck` is one run of its five probes, of a schedule or of the window: it may be
stored after one that began later, and then changes nothing, for the history is read
newest first; it may fail to be stored, and no caller of the schedule hears of that.
`overall_status` is the host's own verdict, `DesktopSelfCheck`, `Gates`,
`ReadinessScore` and `MonitorStatus` are what the report makes of it and of the
receipts, `StillFailing` and `LineageStatus` how it compares receipts. They are worked
out by different functions, some from the latest receipt and some from all, which is
why their agreement is worth checking.

### Incidents

`job` is what is left of the request under way: the entries whose lineage is to be
synced, the decisions of a monitoring file that are left, and which statement is next
(`step`). A derived incident is stored under no id; `Derived` stands for the ids that
clients may send though nothing is stored under them. `lineage` has for each entry
the incidents its row names; `CreateIncident`, `Deliver`, actions, imports and
`SyncLineage` write it as `lineageEventForEntry` does, from the incidents of that
moment. `DeliverAction` syncs the lineage of the incident's entries, or nothing when an
existing receipt answers it or it is a dry run. A capture takes the entries it is given or
those of its day (`Selections`; the sample's, for a day that is not there). An entry can
be removed by a retention and restored by a rollback.

### Settings and Panels

The rows are written in the order of `Written`; `updateSettings` takes a number `k` of
statements after which the process died, the whole number if it did not. A view is an
id and an edition. `tab` is the list of one workspace and the view it told the operator
was saved. Three clients write: `PutScalar`, `PutViews` (a script) and `SaveView` (the
workspace, which sends its own list with the built-in views first).

`Panels` has the state of `App` that is kept in local storage (`ui`) and the storage
(`local`). A step is one input of the operator or one answer with the commit it causes,
its effects in the order in which the component declares them, and the render that
their `setState` calls cause: React runs all of it before the next input. `Render`
stands for that; within it an effect reads what an earlier one has written, and a
second round writes what was read. The collapsed cards are declared read first
(`CardEffects`), template and slots write first (`DayEffects`), and this difference
decides what holds.

### Workspace

A handler runs to its next await in one step; a call is sent (`Poll`, `OpenDay`,
`Save`, ...), read by the server (`ReadList`, `ReadDay`, ...) and applied (`ApplyList`,
...) in steps that others come between. A handler uses the selection it closed over
(`from`). `Fails` is a call that fails or is answered when nobody waits any more.

The screen has three layers, as in React. Answers set the state (`selected`, `day`,
`draft`, `dirty`). `Commit` renders it, in a later task, and what is rendered (`shown`) is
what the operator sees, types into and saves. `Effects` runs the passive effects after
that, which write `dayRef` and `pinnedContextDirtyRef` and open the polls and the stream
anew for another selection (`seen`). So `applyFetchedDay` decides by `seen` whether a
dirty text is kept, while it replaces the day of the state (`Keeps`, `ApplyFetchedDay`;
`App.tsx:465-487`), and several answers can come before the next render. A click or key is
rendered with its effects before anything else runs (`Flush`).

A text remembers the days it was written on, so that a context saved under the wrong day
can be told; whether an import wrote some of it; and whether it has `crossed`: an answer
kept it by refs that spoke of another day than the state, or a key went into it when another
day had been set and not rendered. A page starts with any day in its address, or none.

## 3. What the runs check

| run | result | shows |
|---|---|---|
| `core` | pass, 57,679 states | client without recovery: safety, two liveness properties, refinement of the port |
| `recovery` | pass, 267,051 states | client with recovery: a restart spares a link in use |
| `journal` | pass, 2.6 million states | the store, statement by statement |
| `reconnects` | violation | every `gateway.reconnected` has the same id, so a second one erases the first |
| `delivery` | pass, 3.4 million states | handoffs and receipts, step by step |
| `workspace` | pass, 1.3 million states | two calls of the browser under way at once, in every order, with renders and effects in between |
| `workbench` | pass, 60,781 states | settings with a crash between any two statements, and the panels of the browser that uses them |
| `views` | violation | a view saved in the workspace is cut off by the server |
| `templates` | violation | selecting a day overwrites the incident template that was chosen for it |
| `operations` | pass, 932,007 states | summaries, jobs, recovered evidence, retentions and rollbacks, self-checks, the release gate and the verdicts beside it |
| `feed` | pass, 4.9 million states | events over restarts of both processes |
| `incidents` | pass, 11.1 million states | captures, imports and actions, statement by statement |

Definitions that a mutant replaces are named in `PROJECT.json`. Type invariants of the
modules that are proved about are proved rather than run (section 4); `PanelsTypeOK`
is stated in its module and holds in the same instances, but a run of its own would
show nothing about the code.

Bounds of the client: three socket slots (a slot is used again when nothing refers
to its socket), so that a current link, an attempt left over, and a third one
opened meanwhile exist together; one caller, for what callers have in common is
that each has at most one outstanding request here; a plan of two requests, so
that there is a middle; `Threshold` 2 and `SlowAfter` 2, so that both sides of each
comparison occur; three faults, enough to lose a link, lose the next one while the
first attempt still waits, and disturb the third. The faults are spent, so the
liveness properties say what happens once the gateway behaves again; the proofs
cover any number of them.

Bounds of the store: two days, one of them the sample day, so that a retention
keeps one and removes the other; three events, one per role (sample, a counted one
on the same day, one on another day; the last two also come as a backfill batch);
two snapshots, so that a rollback can follow a later retention; `keepDays` 0 or 1;
one fault anywhere. Snapshots are interchangeable (symmetry); sockets and callers
are in the runs that check no liveness.

Bounds of the deliveries: three handoffs, a keyed one by `fetch`, a keyed one by `gh`
and one without a key, for these are the paths of the code; two channels, so that
one may be missing while the other is there; a request is taken while there are fewer
than three receipts, so that a retry of a retry, two retries of one receipt, and a
delivered, a failed and a retried receipt of one issue occur; two faults, so that a
retry can die before it is linked and a later request be disturbed as well. The
counting properties allow one send for each fault spent: the code cannot know what
it did before it died, and the bound says that nothing else adds one.

Bounds of the feed: two messages of two sessions, three events, two lives of each
process and one lost link, so that a number is used by both gateways, a loss falls
between two processes, and a message is emitted, recovered and emitted again; the
backfill reads two files and one message, so that both caps cut.

Bounds of the reports: two days, so that one can be removed while the other is kept;
three milliseconds, so that something can be before, in and after another's; three rows
and two jobs, so that two entries come besides the sample, and a job is queued while one
waits or after it settled; one snapshot, which a rollback can use at any later time; two
commands, for the two that have a gate of their own as well, with three receipts, so
that one of them fails and passes again beside the other; `StaleAfter` 1. `MCSeparate`
leaves out behaviours that combine what no verdict combines: jobs come without receipts,
for no gate reads a job and a job writes its summary as `GenerateSummary` does;
self-checks come with the sample entry alone; there is at most one live entry; and with a
snapshot there is at most one entry besides the sample, or one job, and the receipts of
the gate have passed already, for what a retention and a rollback do to the gate they do
through the entries. `MCNext` is `OpsNext`, action by action, with that restriction; the
proofs are about `OpsSpec` without it.

Bounds of the incidents: two days with an entry each, one important, one of the
sample; one file of two decisions, the first handed off, so that an import has a
middle; two incidents, so that one is stored beside a capture; one fault. `MCFewRows`
bounds the rows of the four tables together.

Bounds of the settings and panels: two built-in views of which one is a server default,
two ids for views of operators, and `Cap` equal to the number of built-in views, as in
the code (12 and 12); three requests and one death, so that a request meets the rows a
dead one left, and another follows. Two days, two templates and two items, which is what
it takes for one to take the place of another. No effect relates cards, templates and
slots, so `MCSeparate` checks each with the others untouched: the cards with one
request, the others with none.

Bounds of the workspace: two days and two calls under way, which is what it takes for
answers to cross; one write of the server, two clicks, one text and one outage, and three
of these together, while polls, renders and the server's answers are not bounded. The
server begins with no day or with all (`MCInit`); a retention reaches what lies between.

`CHECK_DEADLOCK FALSE` stands in the configurations of `Panels`, `Operations`,
`EventFeed` and `Incidents`, whose bounds (requests, clock, processes, rows) end their
behaviours. Elsewhere deadlock is checked: a closed client steps by `Quiescent`, the
store always accepts another operation, the API of `Delivery` can always be restarted,
and the workspace polls for ever.

### Fairness

`FairSpec` of `LiveGateway` asks for weak fairness of what Node and a live gateway do by
themselves: an armed timer fires, the event loop delivers a socket's events, a
service restart settles (`execFile` of `launchctl`), a connection is accepted, and
a gateway that is neither hung nor gone answers. It is not asked of anything the
environment may refuse for ever: faults, calls of routes, `close()`.

`Fairness` of `Workspace` asks the same of the browser: `setInterval` goes on polling,
the server answers, the promise's continuation runs, and a pushed frame is delivered.
Clicks, texts and writes of the server are budgets that end, so `SelectionSettles` is
about what comes after the last of them.

### What the properties except, and why

An exception stands where the code does what the plain property forbids, no document of
the repository promises otherwise, and TLC shows the plain property violated.

* `DraftSurvivesRefresh` is about copies of the day on the screen. The answer of a command
  is the day of today (`App.tsx:983`), and a refresh that no longer finds the selected day
  falls back on the newest (`:686-703`): both replace the day and discard the text.
  Opening a day, the end of a save and an import take it on purpose.
* `ContextUnderItsDay` excepts two kinds of texts. *Imported*: an import that comes back
  after another day was opened goes into that day's editor. *Crossed*: the refs lag the
  state. The operator has typed on day 1 and opens day 2; the answer for day 2 sets day and
  editor; before that is rendered the answer of a reload of day 1 comes, the refs still say
  dirty and day 1, so the editor, which has day 2's context by now, is kept, and the day is
  set to 1. A save then stores day 2's context under day 1. In the same way a
  key pressed before a new day is rendered puts the old text into the new day's editor.
  Both need two answers, or an answer and a key, within one render.
* `CompletedJobHasSummary` names the two ways a completed job loses its summary: a
  retention that removes the day (`repository.ts:621-628`), and a rollback, which writes
  the older one of its snapshot over it (`:1313-1318`).
* `GreenCountsEvidence` excepts a summary made in the millisecond of the import, and the
  days a rollback has written to: an entry is imported and summarised; a retention removes
  its day; a summary is made of the day, which is empty; the rollback puts the entry back
  with its old time of import and dies before the summary. The newer summary does not
  count the entry, and its time says that it does.
* `GreenIsEarned` has, beside a passed run, a dry run and a summary, evidence that is
  `Withdrawn`: a retention that removes the days of recovered entries, or a rollback that
  sets back their time of import, can turn the gate green with no run and no summary made.

### What the violations mean

* `reconnects`: needs no failure at all. The same holds for `sequence.gap` and for
  messages without a sequence number that agree in text and role.
* `views`: the workspace tells the operator "Operator view saved." and has the view
  until it is loaded again. Twelve built-in views come first in what it sends, and the
  server keeps twelve.
* `templates`: the effect that stores the template stands before the one that reads it,
  and both run when the day changes, so the template of the day before is stored under
  the new day and read back. The default is read by a page that is opened without a
  day, and then goes to each day selected there; a page opened on a day stores the empty
  choice over that day's first.

### Seen while modelling, and not the subject of a run

*Client.* With recovery on, `/api/health` may be told that control is possible while
the client is connecting (`request()` still refuses): with recovery, which is the default
of `server.ts:34`, `ReadyMeansGranted`, `ReadyLinkIsWatched` and `OneConversation` fail
once the reconnect timer opens a link while a restart of the service is awaited, and hold
as long as it does not (section 4). `close()` leaves
challenge timers and sockets behind, at shutdown only. An attempt whose socket was
replaced fails late and takes down a healthy link; the next reconnect mends it, but
calls in flight are rejected. `development.md:183` says that a sequence gap triggers a
reconnect; the code (`live-gateway.ts:211-223`) only tells the listeners. A blocked
link that hangs is never noticed, for it has no heartbeat.

*Feed.* Events before `createApiApp` registers its listener advance `lastEventSeq` and
are told to nobody, so a first `gateway.reconnected` is not journalled. If a restarted
gateway has emitted exactly `lastEventSeq` events meanwhile, no gap is told, and a
restart of the API hides any loss. A message that is recovered by the backfill, or
emitted again by a restarted gateway, gets a second entry: the numbers in the id do
what `HeardMessageStays` wants and prevent what `lessons_learned.md:43` wants. The backfill reads the newest ten files oldest first
and stops at ten messages, which may leave out the newest file.

*Store.* A rollback puts back the metrics, summary and pinned context of days that were
kept and have changed since, until the next entry of the day (`AddHeals`); a retention
removes summaries and pinned contexts also when `includeSummaries` is false; a crash
before the last delete leaves a pinned context without a day; the sample day comes back
with every start. `/healthz` and `/api/days` build a report, and a report stores a
snapshot, so they consume the difference that the next report would have shown.

*Deliveries.* A dry run's receipt answers a later real request under its key, and an
incident action records that answer as completed. A retried GitHub issue is posted to
the e-mail endpoint. Two retries of one receipt with a new key get the same key,
`...:retry:2`, though `security.md:233` calls it fresh; the terminal rule a retry writes
into its policy is applied nowhere. A dry run never fails, for it does not look at the
configuration (`repository.ts:382-406`, `522-539`): a target verification passes for a
target that is not configured, and the reports' "failed dry-run" cases never occur.

*Reports.* `getAnalytics` and the gate compare an import with the summary's time, so a
message imported in the millisecond of the summary counts as summarised
(`GreenCountsEvidence` excepts it). The gate compares one day's recovered total with
that of all days, so recovered evidence on two days blocks it until both are in one. The
total of all days also counts the messages that were heard from the gateway, and that of
the day does not: as long as one of them is in the journal the two differ, and the gate is
not green for any day until a retention has removed it.
It may be
green with no recovered evidence and a stale summary, which blocks a gate of the
Verification Center beside it, and while the desktop's self-check is blocked; the center
as a whole is then a warning (`GreenIsUncontested`, which needs the gateway's
receipt among those a release requires). The closeout calls its evidence stale as long
as any receipt is older than an hour, the gate looks at the latest of each command.
`operations.ts:816` finds the last verification by an expression that matches
`npm run verify:gateway` as well, so its time and freshness may be another command's;
the workbench looks for the receipt `test:smoke` (`App.tsx:2820`), which the runner
labels `npm run test:smoke`. The previous counts of the attention delta are the current
ones less one (`operations.ts:1337-1343`). The newest self-check has no age limit: if
the host can no longer store one, the report goes on showing the last that it could.
No route is over its budget, for nothing measures one.
The progress of the incident loop is never updated
(`app.ts:1299`, `repository.ts:2172`), so a closeout is never "ready".

*Incidents.* Storing one incident hides the derived one; actions on a derived incident
answer 404; lineage rows may go on naming it. Capturing the same entries again drops
the packets from the incident's list. An import given no incident but an `importedAt`
seen before moves that incident to another day; repeated imports repeat notes.

*Panels.* The gate, the incident panel and the drilldown are stored before they are read
too, and in one slot each, though the workbench's specification (`:82`) says per day
key: a selected day always gets what was shown before. After a load the built-in views
are bound to the sample's day (`App.tsx:675`). The order of the card effects holds
because a page is mounted once; a development build that mounts twice would store the
first state over what was kept.

## 4. What is proved

All theorems are about `Spec` (`PanelsSpec` for `Panels`, `OpsSpec` for `Operations`)
for every value of the constants allowed by the named assumptions of the modules. None
of it needs the bounds above: any number of sockets, callers, events, days, snapshots,
processes, incidents, views, texts, jobs and faults.

Every safety invariant and every action property that a passing run checks is the
subject of a theorem. The assumptions are those of the modules, among them that `None`
is no value of a row (`NoSummaryAssumption`, `NoneAssumption`), that the list of
required commands has the gateway's (`Gateway \in Command`, `operations.ts`), and that
the lists of built-in views are finite; and two hypotheses of single theorems:
`[]RestartAlone`, without which they are false (below), and `KeysDiffer`, which run
`reconnects` shows to be needed.

Three of the arguments need a greatest element of a set of numbers (the newest receipt,
the newest entry, the last event). What is installed cannot instantiate the library's
induction theorems, so these come from the well-founded order of the naturals
(`MaxIsGreatest`, `NewestExists`, `GreatestExists`).

`LiveGatewayProofs` (with and without recovery). `TypeCorrect`, then `SafetyHolds`: the
invariant is `NeverStranded`, `ClosedIsQuiet` and `ControlOnGrantedSocket` together with
what they need of each other. A link is lost only through `DropLink`, and each use of
`DropLink` comes with `FailAttempts`; the lemma about `EndAttempts` says that whoever
failed either scheduled a reconnect or awaits a restart. For control requests, the
argument is that a request goes out only if `connectionStatus` is connected, and that
status is entered on a granted socket and left by `OpenSocket` and `DropLink`.

For `RestartSparesReadyLink` the invariant is `SteadyInv`: while control requests may be
sent, no failure has been counted since `hello-ok`, and no window of failures has
elapsed, which a restart asks for. Whatever counts a failure, also an attempt that was
left over, takes the flag back in the same step.

The second half is about behaviours that satisfy `[]RestartAlone`: no link is open while a
restart of the service is awaited. It does not fix `RecoveryEnabled`: the service may be
restarted any number of times, as long as each restart ends before the reconnect timer
opens the next link. `LinkHolds`: an armed reconnect timer excludes a link, so a socket is
opened only when there is none; hence attempts past their challenge talk on the current
socket, each with a request out. When a restart ends (`RecoveryEnds`) there is no link,
and so no request, timer or flag that its `scheduleReconnect` could leave behind. The link
properties follow, and `ImplementsPortSafely`: every step of the client is a step of
`GatewayPort` or a stutter. The condition is needed: with recovery, TLC finds
`ReadyMeansGranted` violated by a reconnect timer that fires while a restart is awaited.
A client without recovery meets it always (`NoRestartWithoutRecovery`).

`JournalStoreProofs`. `TypeInvHolds` is `TypeOK` with the shape of a job at each step.
`StoreInvHolds` adds, for stores whose events have keys of their own (`KeysDiffer`; run
`reconnects` shows what happens otherwise): a row's `day_key` is its entry's day
(`RowInv`), snapshots hold entries under their own day (`SnapshotInv`), what is still to
be written (`TodoInv`) is on a day whose row is already there (`StageInv`), and while a
retention deletes, its snapshot has every entry of the days it removes (`ApplyInv`).
`NothingLost` and `NoInvisibleEntry` are conjuncts. `HealInvHolds` adds what an add and
a rollback have established so far at each step, which gives `AddHeals` and
`RollbackRestores`. `DeletesOnlyOldDays` counts the days that are newer than the one
whose entries go. A retention deletes days as it goes, so the count must be of days it
will not delete: `KeepInv` says that the listed days newer than one still to be deleted,
less those of the snapshot (`Kept`), are as many as were to be kept. It holds when the
retention begins because the days it removes are the oldest, and the newest of them has
all the kept ones above it; no statement of it takes a day off that set.

`DeliveryProofs`. `DeliveryInvHolds`: a retry under way started from an older failed
receipt of its handoff (`JobInv`), and until it is linked its own receipt is the last
one of the table (`AnswerInv`), so nothing refers to it when it is rewritten; `TimeInv`
orders the times. `RetryChain`, `RecordTellsReceipt` and `ReceiptsStand` follow, for any
number of handoffs, receipts and faults.

Three properties count. `CountsHold` is about the cardinalities of three sets of places
in the table: receipts that are no dry run, those that claim a delivery, and those that
are retries. Each request changes one of them by one place and the number of sends by
one, but in different steps; what lies between is set off (`Unsaved`, an attempt that
succeeded and has no receipt yet; `Retrying`, a retry that may have sent and is not
linked yet), and a fault that ends the request pays for it (`Spent`). That the first
request of a key is the only one that is no retry is `KeyInv`: a receipt of a keyed
handoff is found under the handoff's own key for ever, so a request without a base finds
it and does not send.

`EventFeedProofs`. `FeedInvHolds`: the log has every number of the gateway that runs
(`LogInv`); what is on the wire comes from it, in order and after all it told before
(`WireInv`); nothing is told of numbers not given yet (`ToldInv`); and `lastEventSeq` is
the number of the last live notice of this process (`LastInv`), which is what
`emitEvent` has to rely on. From these, `LossIsTold` and `GapsAreReal` follow step by
step: a gap is told exactly if the number is not the next one, and a number that was
skipped is in the log. `HeardMessageStays` needs `JournalInv`: an id tells its message,
so whatever takes the place of an entry holds the same message.

`IncidentsProofs`. `IncidentInvHolds`: what a request saves next goes with rows that are
already there (`JobInv`), which makes `NothingDangles` inductive; a snapshot keeps the
day in its name, and an import that was given a snapshot's id was given one that is
there (`CaptureInv`), which gives `CapturedDayStays`; and until a request is cut off, an
entry that an incident lists is named in the lineage or still to be synced by the
request under way (`LineageInv`), which gives `LineageNamesIncidents`. That is one
direction: a row may go on naming an incident that no longer lists its entry, or a derived
one that has been replaced, and so it does. `CapturedDayStays` is about the row of the
incident and its days; a capture of the same entries replaces the rest of it.

`WorkspaceProofs`. `WorkspaceInvHolds`: the editor holds a text about the day on the
screen, and so it did when it was last rendered (`ScreenInv`); a save or an import on its
way carries the day it was begun on (`CallsInv`); and every copy the server has stored,
pushed or answered with is about its own day (`ServerInv`). "About" means written on that
day alone, imported in part, or crossed (section 3); a text becomes crossed only in a
handler whose view of the day is behind the state (`CrossingAbout`), and the proof is that
no other handler can put a text under a day it is not about. `ContextUnderItsDay` is a
conjunct.

`DraftSurvivesRefresh` needs the refs. `SteadyInv`: while the text is dirty, the last render
and the last effects have seen it dirty and on the same day. It is inductive because dirty
is set by keys alone, which are rendered before anything else runs, and because what sets
another day discards the text. Hence a copy of the day on the screen that comes to a dirty
text finds the refs agreeing with the state (`CopyOfTheDay`), and is kept out of the editor
unless it is forced.

`PanelsProofs`. `PanelsInvHolds`: the cards on the screen are those stored for the
active view (`CardsShown`). It is inductive because of the order of two effects of
`App.tsx`: the one that reads the cards of a new view runs before the one that writes
those on the screen, so what was read is still the new view's own, and the next render
writes it back over what the previous view left there (`CardsStay`; the effects of the
day leave the cards alone, `DayEffectsKeepCards`). `DiagnosticsKept` is proved of each
step on the way.

`SettingsInvHolds` is about the settings below them. The argument of `OtherFieldsKept`
is that merging is idempotent (`MergeAgain`): the list was cut at `Cap` after the
defaults were added, so merging it again either misses nothing or cuts off what it adds.
Hence settings that were read and written are read again as they were, from whichever
rows: a request that dies before `settings.v2` leaves each of the four rows as it was or
as `Merged` has it, and both are read as the same but for the field that was named
(`Updating`). `AuditTellsViews` needs of the events of a change that a view that came or
went has one, that one of a view that is gone says deleted, and that no other does
(`EventsTell`); then the last event of a view tells whether it is there (`TellsOn`). The
model takes elements of a list with `Only`, which numbers the places it takes, for the
prover knows no facts about `SelectSeq`; `OnlyTakes` is what it needs of it.

`OperationsProofs`. `OperationsInvHolds`: types, `OneActiveJobPerDay` and
`CompletedJobHasSummary`, which are inductive once jobs and summaries are known not to lie
in the future (`JobInv`, `SummaryInv`), snapshots neither (`SnapshotInv`, which also keeps
the kind of each entry), and the entries of the table to have a listed day (`EntriesInv`);
that a summary made after an import counts it, but on days rolled back (`ImportInv`); and
that the status of a stored self-check is what its checks amount to (`NativeInv`).
`OneVerdict` is a fact about the four functions, proved from the types: they differ in what
they take for the newest entry, for a missing one and for a day without a row.

`GreenCountsEvidence` follows from `ImportInv`, for a green gate has no drift, and a journal
with a live message always has. `GreenIsEarned` is a step property. A day's drift is
restated without the report's counts (`DriftMeans`: a recovered entry of another day, a live
one, one that no summary has, or a summary that is not fresh). No step forgets a row or
changes its day, its time or its kind (`RowsGrow`), and each takes the entries of a day from
the table all together or not at all (`DaysWhole`); so, unless evidence is `Withdrawn`, no
tick, record, import, retention or rollback takes a drift away without a summary that is
written (`DriftStays`), and the receipt that makes a command proven is itself the pass
(`ProvenByPass`).

`VerdictsHideNothing` is arithmetic over six scores, of which
a blocked one is 0 and leaves an average below 85, and the case of the gateway's check,
which the monitor does not list and the gate of the desktop does; `GreenIsUncontested`
compares the latest receipt of each command with all of them.

Only model-checked: `EventuallyLinked`, `HungLinkIsNoticed`, `SelectionSettles` and the
fairness part of `ImplementsPort`, for liveness and `ENABLED` are beyond the prover. The
properties of the three runs that expect a violation are false of the code. The other
way round, `ReceiptsStand` and the type invariants are proved and not run, for the runs
of their modules say more.

## 5. What holds only under the abstraction

* A retention's snapshot gets an id of its own; the code uses the millisecond.
* No two requests of `Delivery` have the same `requestedAt`, and the clock does not go
  back; the code breaks ties by random ids.
* A metric is one number for the five counters, counted the same way.
* A reconnect's jitter and the exact delays are not modelled, only their order
  against the timeout.
* Liveness of the client is checked without service recovery: with it, requests named
  `connect` of two attempts can take each other's place for ever in a model without
  durations.
* The server of `Workspace` keeps the pinned context of a day that a retention removed.
* Ids that are hashes are what is hashed: two different inputs never collide.

## 6. Not modelled

`PROJECT.json` gives the reason for each component.

* Presentation (theme, display, layout), type declarations and fixtures carry no
  state, and they are most of the lines of `apps/web` and `packages/core`.
* Redaction rewrites strings; device authentication is cryptography and file access;
  the desktop shell's Keychain and the verification runner are operating-system calls.
* Most of an operations report (rankings, route budgets, attention items, closeout
  scores, wording, playbooks) is computed from the store and read by nobody but the
  screen.
* The API's routes parse a body, call one operation of a module above and answer; the
  endpoint budget is a counter with one condition. Capability gates refuse requests.
* Alert states and closeouts: one statement each, and no document says when they end.
* Incident workspaces, approvals, the composer and search in the browser, each with a
  state of its own that nothing else reads.
* `storeRedactedEvent` (tests only) and the empty day a monitoring import may create.

## 7. What is left

1. An abstract specification of a handoff that is sent once, which `Delivery` implements
   as long as there is no fault, and one of the journal as a set of entries, which
   `JournalStore` implements between operations.
2. Incident workspaces and search in the browser, composed with `Workspace`.
