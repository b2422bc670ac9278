------------------------------ MODULE Delivery ------------------------------
(***************************************************************************)
(* Handoffs to Slack, a webhook, e-mail and GitHub, and the receipts that  *)
(* tell what became of them: deliverIntegration, createGithubIssue and     *)
(* retryDeliveryReceipt of apps/api/src/repository.ts, with the delivery   *)
(* actions of packages/app/src/incident-loop.ts on top of them.            *)
(*                                                                         *)
(* A handler runs to its end in one macrotask.  A step here is one call of *)
(* fetch or gh or one statement, for a statement may fail and the process  *)
(* may die between any two of them.  Nobody awaits fetch: the request goes *)
(* out after the handler, whatever became of that.                         *)
(*                                                                         *)
(* Left out: titles and bodies, correlation ids, the reason of a failure,  *)
(* the rows of the lineage table.  A capability gate that refuses leaves   *)
(* no trace, so the steps here are those it lets pass.                     *)
(***************************************************************************)
EXTENDS Naturals, Sequences, FiniteSets

CONSTANTS
    Handoff,      \* what can be handed off: a target, a day, and perhaps an incident
    Target,       \* the target of each
    Keyed,        \* those with an incident: their idempotency key is `incident:target`
    Channel,      \* the channels an operator may configure here
    MaxReceipts,  \* bound: a request is taken while there are fewer receipts than this
    MaxFaults,    \* bound: how often a statement fails or the process dies in a handler
    None

ASSUME HandoffAssumption ==
    /\ Target \in [Handoff -> {"slack", "generic-webhook", "email", "github-issue"}]
    /\ Keyed \subseteq Handoff
ASSUME BoundAssumption == MaxReceipts \in Nat /\ MaxFaults \in Nat

VARIABLES
    receipts,     \* journal_delivery_receipts, in the order they were first saved
    records,      \* the delivery actions in journal_incident_action_records
    configured,   \* the channels this process has an address for
    outbox,       \* fetches called whose request has not gone out
    posts,        \* requests a channel has accepted
    lost,         \* requests a channel refused, or that ended with the process
    issues,       \* issues gh has created
    job,          \* the request under way
    faults        \* faults left in the budget

world == <<outbox, posts, lost, issues>>
vars  == <<receipts, records, configured, outbox, posts, lost, issues, job, faults>>

\* A key of a handoff: <<>> is the key it started with (its own, or the fingerprint of
\* its first receipt), each retry with a new key appends its number, and <<0>> is the
\* key of a verification.
Key == Seq(Nat) \cup {None}
ASSUME NoneAssumption == None \notin Seq(Nat)

Status == {"delivered", "failed"}

\* at is requestedAt, the number of the request; retryOf the receipt retried, or 0.
Receipt == [of : Handoff, key : Key, status : Status, dry : BOOLEAN, at : Nat,
            retryOf : Nat, retries : Nat, attempt : Nat \ {0}]

Record == [of : Handoff, receipt : Nat \ {0}, completed : BOOLEAN]

Step == {"idle", "send", "save", "lineage", "link", "record"}

\* The request under way: gh tells createGithubIssue from deliverIntegration, action an
\* incident action from the other routes, base is the receipt a retry started from, and
\* answer the receipt that is returned.
Job == [step : Step, of : Handoff \cup {None}, key : Key, dry : BOOLEAN, gh : BOOLEAN,
        action : BOOLEAN, base : Nat, at : Nat, status : Status, answer : Nat]

NoJob == [step |-> "idle", of |-> None, key |-> None, dry |-> FALSE, gh |-> FALSE,
          action |-> FALSE, base |-> 0, at |-> 0, status |-> "failed", answer |-> 0]

TypeOK ==
    /\ receipts \in Seq(Receipt)
    /\ records \subseteq Record
    /\ configured \subseteq Channel
    /\ outbox \in [Handoff -> Nat] /\ posts \in [Handoff -> Nat]
    /\ lost \in [Handoff -> Nat] /\ issues \in [Handoff -> Nat]
    /\ job \in Job
    /\ faults \in 0 .. MaxFaults

Init ==
    /\ receipts = <<>> /\ records = {}
    /\ configured \in SUBSET Channel
    /\ outbox = [h \in Handoff |-> 0] /\ posts = [h \in Handoff |-> 0]
    /\ lost = [h \in Handoff |-> 0] /\ issues = [h \in Handoff |-> 0]
    /\ job = NoJob
    /\ faults = MaxFaults

-----------------------------------------------------------------------------
(* Receipts and keys.                                                      *)

\* Where a handoff is sent: whatever is neither Slack nor the webhook is e-mail.
deliveryConfigFor(h) ==
    IF Target[h] \in {"slack", "generic-webhook"} THEN Target[h] ELSE "email"

\* findExistingReceipt: without a key nothing matches.
Matching(h, key) ==
    {i \in DOMAIN receipts : key # None /\ receipts[i].of = h /\ receipts[i].key = key}

\* The receipts findExistingReceipt may return: one of the newest.  The two that a
\* failing createGithubIssue saves have the same time, and random ids.
Existing(h, key) ==
    {i \in Matching(h, key) : \A k \in Matching(h, key) : receipts[k].at <= receipts[i].at}

\* The key that routes and incident actions give a handoff.
OwnKey(h) == IF h \in Keyed THEN <<>> ELSE None

\* The key of a retry of receipt i.
RetryKey(i, useNew) ==
    LET key == IF receipts[i].key = None THEN <<>> ELSE receipts[i].key
    IN  IF useNew THEN Append(key, receipts[i].retries + 2) ELSE key

\* Mutant of NewReceipt: the key is not saved.
KeylessReceipt ==
    [of |-> job.of, key |-> None, status |-> job.status, dry |-> job.dry,
     at |-> job.at, retryOf |-> 0, retries |-> 0, attempt |-> 1]

\* The receipt the request under way saves at first.
NewReceipt ==
    [of |-> job.of, key |-> job.key, status |-> job.status, dry |-> job.dry,
     at |-> job.at, retryOf |-> 0, retries |-> 0, attempt |-> 1]

-----------------------------------------------------------------------------
(* Requests.                                                               *)

Ready == job.step = "idle" /\ Len(receipts) < MaxReceipts

\* A request that is to make an attempt.
Attempt(h, key, dry, gh, action, base) ==
    job' = [step |-> "send", of |-> h, key |-> key, dry |-> dry, gh |-> gh,
            action |-> action, base |-> base, at |-> Len(receipts) + 1,
            status |-> "failed", answer |-> 0]

\* POST /api/integrations/:target/deliver, perhaps as a dry run.  A receipt that is
\* already there is returned and nothing happens.
DeliverIntegration ==
    /\ Ready
    /\ \E h \in Handoff, dry \in BOOLEAN :
        /\ Existing(h, OwnKey(h)) = {}
        /\ Attempt(h, OwnKey(h), dry, FALSE, FALSE, 0)
    /\ UNCHANGED <<receipts, records, configured, world, faults>>

\* POST /api/integrations/:target/verify, which knows of no incident.
VerifyIntegrationTarget ==
    /\ Ready
    /\ \E h \in Handoff \ Keyed :
        /\ Existing(h, <<0>>) = {}
        /\ Attempt(h, <<0>>, TRUE, FALSE, FALSE, 0)
    /\ UNCHANGED <<receipts, records, configured, world, faults>>

\* An incident action create_github_issue or deliver_*: an existing receipt is recorded
\* as the outcome of this action.
ExecuteIncidentAction ==
    /\ Ready
    /\ \E h \in Keyed :
        \/ /\ Existing(h, OwnKey(h)) = {}
           /\ Attempt(h, OwnKey(h), FALSE, Target[h] = "github-issue", TRUE, 0)
        \/ \E i \in Existing(h, OwnKey(h)) :
            job' = [NoJob EXCEPT !.step = "record", !.of = h, !.action = TRUE, !.answer = i]
    /\ UNCHANGED <<receipts, records, configured, world, faults>>

\* Mutant of RetryDeliveryReceipt: what was delivered can be retried as well.
RetryAny ==
    /\ Ready
    /\ \E i \in DOMAIN receipts, useNew \in BOOLEAN :
        Attempt(receipts[i].of, RetryKey(i, useNew), receipts[i].dry, FALSE, FALSE, i)
    /\ UNCHANGED <<receipts, records, configured, world, faults>>

\* POST /api/integrations/receipts/:id/retry, with the confirmation it asks for.  It
\* makes a new attempt with deliverIntegration, whatever the target.
RetryDeliveryReceipt ==
    /\ Ready
    /\ \E i \in DOMAIN receipts, useNew \in BOOLEAN :
        /\ receipts[i].status = "failed"
        /\ Attempt(receipts[i].of, RetryKey(i, useNew), receipts[i].dry, FALSE, FALSE, i)
    /\ UNCHANGED <<receipts, records, configured, world, faults>>

-----------------------------------------------------------------------------
(* The steps of a request.                                                 *)

\* Mutant of DryRun: a dry run is sent like any other.
DryRunPosts ==
    /\ job.step = "send" /\ job.dry
    /\ job' = [job EXCEPT !.step = "save", !.status = "delivered"]
    /\ outbox' = [outbox EXCEPT ![job.of] = @ + 1]
    /\ UNCHANGED <<receipts, records, configured, posts, lost, issues, faults>>

\* A dry run makes no attempt.
DryRun ==
    /\ job.step = "send" /\ job.dry
    /\ job' = [job EXCEPT !.step = "save", !.status = "delivered"]
    /\ UNCHANGED <<receipts, records, configured, world, faults>>

\* Mutant of MissingConfig: a target without an address is not told apart.
MissingConfigDelivers ==
    /\ job.step = "send" /\ ~job.dry /\ ~job.gh
    /\ deliveryConfigFor(job.of) \notin configured
    /\ job' = [job EXCEPT !.step = "save", !.status = "delivered"]
    /\ UNCHANGED <<receipts, records, configured, world, faults>>

MissingConfig ==
    /\ job.step = "send" /\ ~job.dry /\ ~job.gh
    /\ deliveryConfigFor(job.of) \notin configured
    /\ job' = [job EXCEPT !.step = "save"]
    /\ UNCHANGED <<receipts, records, configured, world, faults>>

\* fetch is called, which counts as delivered.  An error of fetch itself is a rejection
\* too, so the catch around it is never reached.
CallFetch ==
    /\ job.step = "send" /\ ~job.dry /\ ~job.gh
    /\ deliveryConfigFor(job.of) \in configured
    /\ job' = [job EXCEPT !.step = "save", !.status = "delivered"]
    /\ outbox' = [outbox EXCEPT ![job.of] = @ + 1]
    /\ UNCHANGED <<receipts, records, configured, posts, lost, issues, faults>>

\* gh runs to its end and tells whether it has created the issue.
CallGh ==
    /\ job.step = "send" /\ job.gh
    /\ \/ /\ job' = [job EXCEPT !.step = "save", !.status = "delivered"]
          /\ issues' = [issues EXCEPT ![job.of] = @ + 1]
       \/ job' = [job EXCEPT !.step = "save"] /\ UNCHANGED issues
    /\ UNCHANGED <<receipts, records, configured, outbox, posts, lost, faults>>

\* What follows once the receipt and the lineage are written.
Proceed(j) ==
    IF j.base # 0 THEN [j EXCEPT !.step = "link"]
    ELSE IF j.action THEN [j EXCEPT !.step = "record"]
    ELSE NoJob

SaveReceipt ==
    /\ job.step = "save"
    /\ receipts' = Append(receipts, NewReceipt)
    /\ LET j == [job EXCEPT !.answer = Len(receipts) + 1]
       IN  job' = IF j.of \in Keyed THEN [j EXCEPT !.step = "lineage"] ELSE Proceed(j)
    /\ UNCHANGED <<records, configured, world, faults>>

\* syncLineageForIncident: its rows are left out, but its statements may fail.
SyncLineage ==
    /\ job.step = "lineage"
    /\ job' = Proceed(job)
    /\ UNCHANGED <<receipts, records, configured, world, faults>>

\* The second save of a retry: it ties the receipt to the one that failed.
LinkRetry ==
    /\ job.step = "link"
    /\ receipts' = [receipts EXCEPT ![job.answer] = [@ EXCEPT
                        !.retryOf = job.base,
                        !.retries = receipts[job.base].retries + 1,
                        !.attempt = receipts[job.base].attempt + 1]]
    /\ job' = NoJob
    /\ UNCHANGED <<records, configured, world, faults>>

\* Mutant of Outcome: an action that got so far has delivered.
OutcomeAssumed == TRUE

\* The status of the action is that of the receipt it was answered with.
Outcome == receipts[job.answer].status = "delivered"

SaveIncidentActionRecord ==
    /\ job.step = "record"
    /\ records' = records \cup {[of |-> job.of, receipt |-> job.answer, completed |-> Outcome]}
    /\ job' = NoJob
    /\ UNCHANGED <<receipts, configured, world, faults>>

\* createGithubIssue catches a statement that fails after gh has succeeded and saves a
\* failed receipt, be there a delivered one or not; elsewhere the request ends here.
StatementFails ==
    /\ faults > 0 /\ faults' = faults - 1
    /\ job.step \in {"save", "lineage", "link", "record"}
    /\ job' = IF job.gh /\ job.status = "delivered" /\ job.step \in {"save", "lineage"}
              THEN [job EXCEPT !.step = "save", !.status = "failed"]
              ELSE NoJob
    /\ UNCHANGED <<receipts, records, configured, world>>

\* Requests that have not gone out end with the process; the next one may have been
\* given other addresses.
Exit ==
    /\ job' = NoJob
    /\ configured' \in SUBSET Channel
    /\ outbox' = [h \in Handoff |-> 0]
    /\ lost' = [h \in Handoff |-> lost[h] + outbox[h]]
    /\ UNCHANGED <<receipts, records, posts, issues>>

ProcessDies == job.step # "idle" /\ faults > 0 /\ faults' = faults - 1 /\ Exit

\* Between requests: the operator restarts the API, or a channel cannot be reached and
\* the rejection of its fetch, which nobody handles, ends the process.
Restart == job.step = "idle" /\ Exit /\ UNCHANGED faults

\* The answer of a channel is looked at by nobody.
ChannelAnswers ==
    /\ job.step = "idle"
    /\ \E h \in Handoff :
        /\ outbox[h] > 0
        /\ outbox' = [outbox EXCEPT ![h] = @ - 1]
        /\ \/ posts' = [posts EXCEPT ![h] = @ + 1] /\ UNCHANGED lost
           \/ lost' = [lost EXCEPT ![h] = @ + 1] /\ UNCHANGED posts
    /\ UNCHANGED <<receipts, records, configured, issues, job, faults>>

Next ==
    \/ DeliverIntegration \/ VerifyIntegrationTarget
    \/ ExecuteIncidentAction \/ RetryDeliveryReceipt
    \/ DryRun \/ MissingConfig \/ CallFetch \/ CallGh
    \/ SaveReceipt \/ SyncLineage \/ LinkRetry \/ SaveIncidentActionRecord
    \/ StatementFails \/ ProcessDies \/ Restart \/ ChannelAnswers

Spec == Init /\ [][Next]_vars

-----------------------------------------------------------------------------
(* Properties.                                                             *)

Receipts(P(_)) == Cardinality({i \in DOMAIN receipts : P(receipts[i])})

Live(h, r)    == r.of = h /\ ~r.dry
Spent         == MaxFaults - faults
UnderWay(h)   == job.of = h /\ job.step \in {"save", "lineage", "link"}
Attempted(h)  == outbox[h] + posts[h] + lost[h] + issues[h]

\* Nothing goes out unrecorded: every call of fetch or gh for a handoff has a receipt
\* that is not a dry run, or its request is still under way, or a statement failed or
\* the process died, once for each call without one.
SendsAreReceipted ==
    \A h \in Handoff :
        LET live(r) == Live(h, r)
        IN  Attempted(h) <= Receipts(live) + Spent + (IF UnderWay(h) THEN 1 ELSE 0)

\* The idempotency key works: a handoff of an incident goes out once, and once more for
\* each receipt that says it is a retry, however often routes and actions are called
\* and whichever of them; a fault can add one.
SentOncePerKey ==
    \A h \in Keyed :
        LET retried(r) == r.of = h /\ r.retryOf # 0
        IN  Attempted(h) <= 1 + Receipts(retried) + Spent
                              + (IF job.of = h /\ job.base # 0 THEN 1 ELSE 0)

\* Fails closed: there are never more receipts saying delivered than attempts made.
AttemptBehindReceipt ==
    \A h \in Handoff :
        LET claimed(r) == Live(h, r) /\ r.status = "delivered"
        IN  Receipts(claimed) <= Attempted(h)

\* Retries form chains: a retry follows an older receipt of its handoff that failed, and
\* counts one more than that one does.
RetryChain ==
    \A i \in DOMAIN receipts :
        LET r == receipts[i]
        IN  r.retryOf # 0 =>
                /\ r.retryOf < i
                /\ LET o == receipts[r.retryOf]
                   IN  /\ o.of = r.of /\ o.status = "failed"
                       /\ r.attempt = o.attempt + 1 /\ r.retries = o.retries + 1
                       /\ r.at > o.at

\* An incident's history agrees with the receipts: an action is recorded as completed if
\* and only if the receipt it names, of the same handoff, says delivered.
RecordTellsReceipt ==
    \A c \in records :
        /\ c.receipt \in DOMAIN receipts
        /\ receipts[c.receipt].of = c.of
        /\ c.completed <=> receipts[c.receipt].status = "delivered"

\* The failed receipt is kept visible: what a receipt says of its attempt never changes,
\* whatever is retried and wherever a retry stops.
ReceiptsStand ==
    [][\A i \in DOMAIN receipts :
          /\ i \in DOMAIN receipts'
          /\ receipts'[i].status = receipts[i].status
          /\ receipts'[i].of = receipts[i].of /\ receipts'[i].key = receipts[i].key
          /\ receipts[i].status = "failed" /\ job.answer # i => receipts'[i] = receipts[i]]_vars

=============================================================================
