--------------------------- MODULE DeliveryProofs ---------------------------
(***************************************************************************)
(* Theorems about Delivery, for every set of handoffs, every bound on the  *)
(* receipts and every number of faults.                                    *)
(***************************************************************************)
EXTENDS Delivery, SequenceTheorems, FiniteSetTheorems, TLAPS

USE HandoffAssumption, BoundAssumption

-----------------------------------------------------------------------------
(* The inductive invariant.                                                *)

\* A receipt's requestedAt is not later than its place in the table.
TimeInv == \A i \in DOMAIN receipts : receipts[i].at <= i

\* A request under way is for a handoff; a retry started from an older receipt of that
\* handoff which failed.
JobInv ==
    job.step # "idle" =>
        /\ job.of \in Handoff
        /\ job.step # "record" => job.at <= Len(receipts) + 1
        /\ job.base # 0 =>
              /\ job.base \in DOMAIN receipts
              /\ receipts[job.base].of = job.of
              /\ receipts[job.base].status = "failed"
              /\ receipts[job.base].at < job.at
        /\ ~(job.action /\ job.base # 0)

\* Once the receipt is saved it is the one that is answered; that of a retry is the last
\* one in the table, and no other receipt refers to it.
AnswerInv ==
    /\ job.step \in {"lineage", "link", "record"} =>
          /\ job.answer \in DOMAIN receipts
          /\ receipts[job.answer].of = job.of
    /\ job.step \in {"lineage", "link"} /\ job.base # 0 =>
          /\ job.answer = Len(receipts)
          /\ job.base < job.answer
          /\ receipts[job.answer].at = job.at
    /\ job.step = "link" => job.base # 0

IInv == TypeOK /\ TimeInv /\ JobInv /\ AnswerInv /\ RetryChain /\ RecordTellsReceipt

-----------------------------------------------------------------------------
(* Lemmas.                                                                 *)

\* Table is what the invariant says of stored receipts and records alone.
Table == TimeInv /\ RetryChain /\ RecordTellsReceipt

\* The fields of a stored receipt have their types.
LEMMA ReceiptType ==
    ASSUME receipts \in Seq(Receipt), NEW i \in 1 .. Len(receipts)
    PROVE  /\ receipts[i] \in Receipt
           /\ receipts[i].of \in Handoff /\ receipts[i].key \in Key
           /\ receipts[i].status \in Status /\ receipts[i].dry \in BOOLEAN
           /\ receipts[i].at \in Nat /\ receipts[i].retryOf \in Nat
           /\ receipts[i].retries \in Nat /\ receipts[i].attempt \in Nat \ {0}
  <1>1. receipts[i] \in Receipt
    BY ElementOfSeq
  <1> QED BY <1>1 DEF Receipt

\* The key of a retry is a key.
LEMMA RetryKeyType ==
    ASSUME TypeOK, NEW i \in DOMAIN receipts, NEW useNew \in BOOLEAN
    PROVE  RetryKey(i, useNew) \in Seq(Nat)
  <1>1. receipts[i] \in Receipt
    BY ElementOfSeq DEF TypeOK
  <1> DEFINE key == IF receipts[i].key = None THEN <<>> ELSE receipts[i].key
  <1>2. key \in Seq(Nat) /\ receipts[i].retries + 2 \in Nat
    BY <1>1 DEF Receipt, Key
  <1>3. Append(key, receipts[i].retries + 2) \in Seq(Nat)
    BY <1>2, AppendProperties
  <1> QED BY <1>2, <1>3 DEF RetryKey

\* The key a handoff starts with is a key.
LEMMA OwnKeyType ==
    ASSUME NEW h
    PROVE  OwnKey(h) \in Key
  <1>1. <<>> \in Seq(Nat)
    OBVIOUS
  <1> QED BY <1>1 DEF OwnKey, Key

\* A step that writes neither receipts nor records keeps what is said of them.
LEMMA TableUnchanged ==
    ASSUME Table, UNCHANGED <<receipts, records>>
    PROVE  Table'
  BY DEF Table, TimeInv, RetryChain, RecordTellsReceipt

\* A request that makes an attempt starts well: its retry, if it is one, is of an older
\* failed receipt of the same handoff.
LEMMA AttemptStarts ==
    ASSUME TypeOK, TimeInv, NEW h \in Handoff, NEW key \in Key, NEW dry \in BOOLEAN,
           NEW gh \in BOOLEAN, NEW action \in BOOLEAN, NEW base \in Nat,
           Attempt(h, key, dry, gh, action, base), UNCHANGED receipts,
           base # 0 => /\ base \in DOMAIN receipts /\ receipts[base].of = h
                       /\ receipts[base].status = "failed" /\ ~action
    PROVE  job' \in Job /\ JobInv' /\ AnswerInv'
  <1>1. Len(receipts) + 1 \in Nat
    BY DEF TypeOK
  <1>2. job' \in Job
    BY <1>1 DEF Attempt, Job, Step, Status
  <1>3. base # 0 => receipts[base].at < Len(receipts) + 1
    <2> SUFFICES ASSUME base # 0 PROVE receipts[base].at < Len(receipts) + 1
      OBVIOUS
    <2>1. base \in 1 .. Len(receipts)
      BY DEF TypeOK
    <2>2. receipts[base].at \in Nat
      BY <2>1, ReceiptType DEF TypeOK
    <2> QED BY <1>1, <2>1, <2>2 DEF TimeInv
  <1>4. JobInv'
    BY <1>1, <1>3 DEF Attempt, JobInv
  <1>5. AnswerInv'
    BY DEF Attempt, AnswerInv
  <1> QED BY <1>2, <1>4, <1>5

\* What follows a save is a state of the request the invariant allows.
LEMMA ProceedInv ==
    ASSUME NEW j \in Job, job' = Proceed(j), receipts' \in Seq(Receipt),
           j.of \in Handoff, j.at <= Len(receipts') + 1,
           j.answer \in DOMAIN receipts', receipts'[j.answer].of = j.of,
           ~(j.action /\ j.base # 0),
           j.base # 0 => /\ j.base \in DOMAIN receipts' /\ receipts'[j.base].of = j.of
                         /\ receipts'[j.base].status = "failed"
                         /\ receipts'[j.base].at < j.at
                         /\ j.answer = Len(receipts') /\ j.base < j.answer
                         /\ receipts'[j.answer].at = j.at
    PROVE  job' \in Job /\ JobInv' /\ AnswerInv'
  <1>1. CASE j.base # 0
    <2>1. job' = [j EXCEPT !.step = "link"]
      BY <1>1 DEF Proceed
    <2> QED BY <1>1, <2>1 DEF Job, JobInv, AnswerInv, Step
  <1>2. CASE j.base = 0 /\ j.action
    <2>1. job' = [j EXCEPT !.step = "record"]
      BY <1>2 DEF Proceed
    <2> QED BY <1>2, <2>1 DEF Job, JobInv, AnswerInv, Step
  <1>3. CASE j.base = 0 /\ ~j.action
    <2>1. job' = NoJob
      BY <1>3 DEF Proceed
    <2> QED BY <2>1 DEF NoJob, Job, JobInv, AnswerInv, Step, Status, Key
  <1> QED BY <1>1, <1>2, <1>3 DEF Job

\* A request that has ended leaves nothing to be said of it.
LEMMA NoJobInv ==
    ASSUME job' = NoJob
    PROVE  job' \in Job /\ JobInv' /\ AnswerInv'
  BY DEF NoJob, Job, JobInv, AnswerInv, Step, Status, Key

-----------------------------------------------------------------------------
(* The steps that write.                                                   *)

\* Saving a new receipt keeps the invariant: it is the last one and no retry yet.
LEMMA SaveKeeps ==
    ASSUME IInv, SaveReceipt
    PROVE  IInv'
  <1> DEFINE n == Len(receipts)
             j == [job EXCEPT !.answer = n + 1]
  <1>1. /\ job \in Job /\ job.step = "save" /\ job.of \in Handoff /\ job.at <= n + 1
        /\ receipts \in Seq(Receipt) /\ n \in Nat
        /\ ~(job.action /\ job.base # 0)
    BY DEF IInv, TypeOK, JobInv, SaveReceipt
  <1>2. NewReceipt \in Receipt
    BY <1>1 DEF NewReceipt, Receipt, Job
  <1>3. /\ receipts' \in Seq(Receipt) /\ Len(receipts') = n + 1
        /\ \A i \in 1 .. n : receipts'[i] = receipts[i]
        /\ receipts'[n + 1] = NewReceipt
    BY <1>1, <1>2, AppendProperties DEF SaveReceipt
  <1>4. DOMAIN receipts = 1 .. n /\ DOMAIN receipts' = 1 .. n + 1
    BY <1>1, <1>3
  <1>5. /\ NewReceipt.of = job.of /\ NewReceipt.at = job.at /\ NewReceipt.retryOf = 0
    BY DEF NewReceipt
  <1>6. j \in Job /\ j.answer = n + 1 /\ j.of = job.of /\ j.at = job.at
        /\ j.base = job.base /\ j.action = job.action /\ job.at \in Nat
    BY <1>1 DEF Job
  <1>7. job.base # 0 => /\ job.base \in 1 .. n /\ receipts'[job.base].of = job.of
                        /\ receipts'[job.base].status = "failed"
                        /\ receipts'[job.base].at < job.at
    BY <1>1, <1>3, <1>4 DEF IInv, JobInv
  <1>8. job' \in Job /\ JobInv' /\ AnswerInv'
    <2>1. CASE job.of \in Keyed
      <3>1. job' = [j EXCEPT !.step = "lineage"]
        BY <1>6, <2>1 DEF SaveReceipt
      <3>2. /\ job' \in Job /\ job'.step = "lineage" /\ job'.answer = n + 1
            /\ job'.of = job.of /\ job'.at = job.at /\ job'.base = job.base
            /\ job'.action = job.action
        BY <1>6, <3>1 DEF Job, Step
      <3>3. JobInv'
        <4>1. job'.at <= Len(receipts') + 1
          BY <1>1, <1>3, <1>6, <3>2
        <4> QED BY <1>1, <1>3, <1>4, <1>7, <3>2, <4>1 DEF JobInv
      <3>4. AnswerInv'
        BY <1>1, <1>3, <1>4, <1>5, <1>7, <3>2 DEF AnswerInv
      <3> QED BY <3>2, <3>3, <3>4
    <2>2. CASE job.of \notin Keyed
      <3>1. job' = Proceed(j)
        BY <1>6, <2>2 DEF SaveReceipt
      <3>2. ~(j.action /\ j.base # 0) /\ j.at <= Len(receipts') + 1 /\ j.of \in Handoff
        BY <1>1, <1>3, <1>6
      <3>3. /\ j.answer \in DOMAIN receipts' /\ receipts'[j.answer].of = j.of
            /\ receipts'[j.answer].at = j.at /\ j.answer = Len(receipts')
        BY <1>1, <1>3, <1>4, <1>5, <1>6
      <3>4. j.base # 0 => /\ j.base \in DOMAIN receipts' /\ receipts'[j.base].of = j.of
                          /\ receipts'[j.base].status = "failed"
                          /\ receipts'[j.base].at < j.at /\ j.base < j.answer
        BY <1>1, <1>4, <1>6, <1>7
      <3> HIDE DEF j
      <3> QED BY <1>3, <1>6, <3>1, <3>2, <3>3, <3>4, ProceedInv
    <2> QED BY <2>1, <2>2
  <1>9. TimeInv'
    BY <1>1, <1>3, <1>4, <1>5 DEF IInv, TimeInv
  <1>10. RetryChain'
    <2> SUFFICES ASSUME NEW i \in DOMAIN receipts', receipts'[i].retryOf # 0
                 PROVE  /\ receipts'[i].retryOf < i
                        /\ LET o == receipts'[receipts'[i].retryOf]
                           IN  /\ o.of = receipts'[i].of /\ o.status = "failed"
                               /\ receipts'[i].attempt = o.attempt + 1
                               /\ receipts'[i].retries = o.retries + 1
                               /\ receipts'[i].at > o.at
      BY DEF RetryChain
    <2>1. i \in 1 .. n /\ receipts'[i] = receipts[i]
      BY <1>3, <1>4, <1>5
    <2>2. receipts[i].retryOf \in Nat
      BY <1>1, <2>1, ReceiptType
    <2>3. receipts[i].retryOf < i
      BY <1>4, <2>1 DEF IInv, RetryChain
    <2>4. receipts'[receipts[i].retryOf] = receipts[receipts[i].retryOf]
      BY <1>1, <1>3, <2>1, <2>2, <2>3
    <2> QED BY <1>4, <2>1, <2>3, <2>4 DEF IInv, RetryChain
  <1>11. RecordTellsReceipt'
    BY <1>1, <1>3, <1>4 DEF IInv, RecordTellsReceipt, SaveReceipt
  <1> QED BY <1>3, <1>8, <1>9, <1>10, <1>11
          DEF IInv, TypeOK, SaveReceipt, world

\* Linking a retry keeps the invariant: nothing refers to the receipt it rewrites.
LEMMA LinkKeeps ==
    ASSUME IInv, LinkRetry
    PROVE  IInv'
  <1> DEFINE a == job.answer
             b == job.base
             linked == [receipts[a] EXCEPT !.retryOf = b,
                                           !.retries = receipts[b].retries + 1,
                                           !.attempt = receipts[b].attempt + 1]
  <1>1. /\ receipts \in Seq(Receipt) /\ DOMAIN receipts = 1 .. Len(receipts)
        /\ Len(receipts) \in Nat /\ job.step = "link"
    BY DEF IInv, TypeOK, LinkRetry
  <1>2. /\ b # 0 /\ b \in 1 .. Len(receipts) /\ a = Len(receipts) /\ b < a
        /\ receipts[a].of = job.of /\ receipts[b].of = job.of
        /\ receipts[b].status = "failed" /\ receipts[b].at < job.at
        /\ receipts[a].at = job.at
    BY <1>1 DEF IInv, JobInv, AnswerInv
  <1>3. /\ a \in 1 .. Len(receipts)
        /\ receipts[a] \in Receipt /\ receipts[a].at \in Nat
        /\ receipts[b] \in Receipt /\ receipts[b].at \in Nat
        /\ receipts[b].retries \in Nat /\ receipts[b].attempt \in Nat \ {0}
    BY <1>1, <1>2, ReceiptType
  <1>4. /\ linked \in Receipt
        /\ linked.of = receipts[a].of /\ linked.at = receipts[a].at
        /\ linked.status = receipts[a].status /\ linked.retryOf = b
        /\ linked.retries = receipts[b].retries + 1
        /\ linked.attempt = receipts[b].attempt + 1
    <2>1. b \in Nat /\ receipts[b].retries + 1 \in Nat /\ receipts[b].attempt + 1 \in Nat \ {0}
      BY <1>2, <1>3
    <2> QED BY <1>3, <2>1 DEF Receipt
  <1>5. receipts' = [receipts EXCEPT ![a] = linked]
    BY DEF LinkRetry
  <1>6. /\ receipts' \in Seq(Receipt) /\ Len(receipts') = Len(receipts)
        /\ \A i \in 1 .. Len(receipts) : receipts'[i] = IF i = a THEN linked ELSE receipts[i]
    BY <1>1, <1>3, <1>4, <1>5, ExceptSeq
  <1>7. DOMAIN receipts' = 1 .. Len(receipts)
    BY <1>6
  <1>8. TimeInv'
    BY <1>1, <1>4, <1>6, <1>7 DEF IInv, TimeInv
  <1>9. RetryChain'
    <2> SUFFICES ASSUME NEW i \in DOMAIN receipts', receipts'[i].retryOf # 0
                 PROVE  /\ receipts'[i].retryOf < i
                        /\ LET o == receipts'[receipts'[i].retryOf]
                           IN  /\ o.of = receipts'[i].of /\ o.status = "failed"
                               /\ receipts'[i].attempt = o.attempt + 1
                               /\ receipts'[i].retries = o.retries + 1
                               /\ receipts'[i].at > o.at
      BY DEF RetryChain
    <2>1. CASE i = a
      <3>1. receipts'[i] = linked /\ receipts'[b] = receipts[b]
        BY <1>2, <1>3, <1>6, <2>1
      <3> QED BY <1>2, <1>3, <1>4, <2>1, <3>1
    <2>2. CASE i # a
      <3>1. i \in 1 .. Len(receipts) /\ receipts'[i] = receipts[i] /\ i < a
        BY <1>2, <1>6, <1>7, <2>2
      <3>2. receipts[i].retryOf \in Nat /\ receipts[i].retryOf < i
        BY <1>1, <3>1, ReceiptType DEF IInv, RetryChain
      <3>3. receipts'[receipts[i].retryOf] = receipts[receipts[i].retryOf]
        BY <1>1, <1>6, <3>1, <3>2
      <3> QED BY <1>1, <3>1, <3>2, <3>3 DEF IInv, RetryChain
    <2> QED BY <2>1, <2>2
  <1>10. RecordTellsReceipt'
    BY <1>1, <1>4, <1>6, <1>7 DEF IInv, RecordTellsReceipt, LinkRetry
  <1>11. job' \in Job /\ JobInv' /\ AnswerInv'
    BY NoJobInv DEF LinkRetry
  <1> QED BY <1>6, <1>8, <1>9, <1>10, <1>11 DEF IInv, TypeOK, LinkRetry, world

\* Recording an action keeps the invariant: the record is made from its receipt.
LEMMA RecordKeeps ==
    ASSUME IInv, SaveIncidentActionRecord
    PROVE  IInv'
  <1> DEFINE c == [of |-> job.of, receipt |-> job.answer, completed |-> Outcome]
  <1>1. /\ job.of \in Handoff /\ job.answer \in DOMAIN receipts
        /\ receipts[job.answer].of = job.of /\ receipts \in Seq(Receipt)
    BY DEF IInv, TypeOK, JobInv, AnswerInv, SaveIncidentActionRecord
  <1>2. c \in Record
    BY <1>1 DEF Record, Outcome
  <1>3. c.of = job.of /\ c.receipt = job.answer
        /\ (c.completed <=> receipts[job.answer].status = "delivered")
    BY DEF Outcome
  <1>4. records' = records \cup {c} /\ UNCHANGED receipts
    BY DEF SaveIncidentActionRecord
  <1>5. RecordTellsReceipt'
    BY <1>1, <1>3, <1>4 DEF IInv, RecordTellsReceipt
  <1>6. TimeInv' /\ RetryChain'
    BY <1>4 DEF IInv, TimeInv, RetryChain
  <1>7. job' \in Job /\ JobInv' /\ AnswerInv'
    BY NoJobInv DEF SaveIncidentActionRecord
  <1> QED BY <1>2, <1>4, <1>5, <1>6, <1>7
          DEF IInv, TypeOK, SaveIncidentActionRecord, world

-----------------------------------------------------------------------------
(* The theorems.                                                           *)

\* The invariant holds of an empty store.
LEMMA InitHolds == Init => IInv
  <1> SUFFICES ASSUME Init PROVE IInv
    OBVIOUS
  <1>1. receipts = <<>> /\ receipts \in Seq(Receipt) /\ DOMAIN receipts = {}
    BY DEF Init
  <1>2. job \in Job /\ JobInv /\ AnswerInv
    BY DEF Init, NoJob, Job, JobInv, AnswerInv, Step, Status, Key
  <1>3. TimeInv /\ RetryChain /\ RecordTellsReceipt
    BY <1>1 DEF Init, TimeInv, RetryChain, RecordTellsReceipt
  <1> QED BY <1>1, <1>2, <1>3 DEF Init, IInv, TypeOK

\* Every step keeps the invariant.
LEMMA NextKeeps == IInv /\ [Next]_vars => IInv'
  <1> SUFFICES ASSUME IInv, [Next]_vars PROVE IInv'
    OBVIOUS
  <1>a. /\ TypeOK /\ TimeInv /\ JobInv /\ AnswerInv /\ Table
        /\ receipts \in Seq(Receipt) /\ job \in Job /\ Len(receipts) \in Nat
        /\ DOMAIN receipts = 1 .. Len(receipts)
    BY DEF IInv, TypeOK, Table
  <1>b. ASSUME UNCHANGED <<receipts, records>>, TypeOK', JobInv', AnswerInv'
        PROVE  IInv'
    BY <1>a, <1>b, TableUnchanged DEF IInv, Table
  <1>1. CASE DeliverIntegration
    <2>1. PICK h \in Handoff, dry \in BOOLEAN : Attempt(h, OwnKey(h), dry, FALSE, FALSE, 0)
      BY <1>1 DEF DeliverIntegration
    <2>2. job' \in Job /\ JobInv' /\ AnswerInv'
      BY <1>1, <1>a, <2>1, OwnKeyType, AttemptStarts DEF DeliverIntegration
    <2> QED BY <1>1, <1>a, <1>b, <2>2 DEF DeliverIntegration, TypeOK, world
  <1>2. CASE VerifyIntegrationTarget
    <2>1. PICK h \in Handoff : Attempt(h, <<0>>, TRUE, FALSE, FALSE, 0)
      BY <1>2 DEF VerifyIntegrationTarget
    <2>2. <<0>> \in Key
      BY DEF Key
    <2>3. job' \in Job /\ JobInv' /\ AnswerInv'
      BY <1>2, <1>a, <2>1, <2>2, AttemptStarts DEF VerifyIntegrationTarget
    <2> QED BY <1>2, <1>a, <1>b, <2>3 DEF VerifyIntegrationTarget, TypeOK, world
  <1>3. CASE ExecuteIncidentAction
    <2>1. PICK h \in Keyed :
             \/ Attempt(h, OwnKey(h), FALSE, Target[h] = "github-issue", TRUE, 0)
             \/ \E i \in Existing(h, OwnKey(h)) :
                  job' = [NoJob EXCEPT !.step = "record", !.of = h, !.action = TRUE,
                                       !.answer = i]
      BY <1>3 DEF ExecuteIncidentAction
    <2>2. UNCHANGED receipts /\ h \in Handoff
      BY <1>3, <2>1 DEF ExecuteIncidentAction
    <2>3. ASSUME Attempt(h, OwnKey(h), FALSE, Target[h] = "github-issue", TRUE, 0)
          PROVE  job' \in Job /\ JobInv' /\ AnswerInv'
      <3>1. PICK gh \in BOOLEAN : Attempt(h, OwnKey(h), FALSE, gh, TRUE, 0)
        <4>1. CASE Target[h] = "github-issue"
          <5>1. Attempt(h, OwnKey(h), FALSE, TRUE, TRUE, 0)
            BY <2>3, <4>1 DEF Attempt
          <5> QED BY <5>1
        <4>2. CASE Target[h] # "github-issue"
          <5>1. Attempt(h, OwnKey(h), FALSE, FALSE, TRUE, 0)
            BY <2>3, <4>2 DEF Attempt
          <5> QED BY <5>1
        <4> QED BY <4>1, <4>2
      <3> QED BY <1>a, <2>2, <3>1, OwnKeyType, AttemptStarts
    <2>4. ASSUME NEW i \in Existing(h, OwnKey(h)),
                 job' = [NoJob EXCEPT !.step = "record", !.of = h, !.action = TRUE,
                                      !.answer = i]
          PROVE  job' \in Job /\ JobInv' /\ AnswerInv'
      <3>1. i \in DOMAIN receipts /\ receipts[i].of = h
        BY DEF Existing, Matching
      <3>2. i \in Nat
        BY <1>a, <3>1
      <3>3. job' = [step |-> "record", of |-> h, key |-> None, dry |-> FALSE, gh |-> FALSE,
                    action |-> TRUE, base |-> 0, at |-> 0, status |-> "failed", answer |-> i]
        BY <2>4 DEF NoJob
      <3>4. job' \in Job
        BY <2>2, <3>2, <3>3 DEF Job, Step, Status, Key
      <3> QED BY <2>2, <3>1, <3>3, <3>4 DEF JobInv, AnswerInv
    <2>5. job' \in Job /\ JobInv' /\ AnswerInv'
      BY <2>1, <2>3, <2>4
    <2> QED BY <1>3, <1>a, <1>b, <2>5 DEF ExecuteIncidentAction, TypeOK, world
  <1>4. CASE RetryDeliveryReceipt
    <2>1. PICK i \in DOMAIN receipts, useNew \in BOOLEAN :
             /\ receipts[i].status = "failed"
             /\ Attempt(receipts[i].of, RetryKey(i, useNew), receipts[i].dry, FALSE, FALSE, i)
      BY <1>4 DEF RetryDeliveryReceipt
    <2>2. receipts[i].of \in Handoff /\ receipts[i].dry \in BOOLEAN /\ i \in Nat
      BY <1>a, ReceiptType
    <2>3. RetryKey(i, useNew) \in Key
      BY <1>a, RetryKeyType DEF Key
    <2>4. UNCHANGED receipts
      BY <1>4 DEF RetryDeliveryReceipt
    <2>5. job' \in Job /\ JobInv' /\ AnswerInv'
      BY <1>a, <2>1, <2>2, <2>3, <2>4, AttemptStarts
    <2> QED BY <1>4, <1>a, <1>b, <2>5 DEF RetryDeliveryReceipt, TypeOK, world
  <1>5. CASE DryRun
    BY <1>5, <1>a, <1>b DEF DryRun, TypeOK, JobInv, AnswerInv, Job, Step, Status, world
  <1>6. CASE MissingConfig
    BY <1>6, <1>a, <1>b DEF MissingConfig, TypeOK, JobInv, AnswerInv, Job, Step, world
  <1>7. CASE CallFetch
    <2>1. job' \in Job /\ JobInv' /\ AnswerInv'
      BY <1>7, <1>a DEF CallFetch, JobInv, AnswerInv, Job, Step, Status
    <2>2. outbox' \in [Handoff -> Nat]
      <3>1. job.of \in Handoff /\ outbox[job.of] + 1 \in Nat
        BY <1>7, <1>a DEF CallFetch, JobInv, TypeOK
      <3>2. outbox' = [outbox EXCEPT ![job.of] = outbox[job.of] + 1]
        BY <1>7 DEF CallFetch
      <3> QED BY <1>a, <3>1, <3>2 DEF TypeOK
    <2> QED BY <1>7, <1>a, <1>b, <2>1, <2>2 DEF CallFetch, TypeOK
  <1>8. CASE CallGh
    <2>1. job' \in Job /\ JobInv' /\ AnswerInv'
      BY <1>8, <1>a DEF CallGh, JobInv, AnswerInv, Job, Step, Status
    <2>2. issues' \in [Handoff -> Nat]
      <3>1. job.of \in Handoff /\ issues[job.of] + 1 \in Nat
        BY <1>8, <1>a DEF CallGh, JobInv, TypeOK
      <3>2. UNCHANGED issues \/ issues' = [issues EXCEPT ![job.of] = issues[job.of] + 1]
        BY <1>8 DEF CallGh
      <3> QED BY <1>a, <3>1, <3>2 DEF TypeOK
    <2> QED BY <1>8, <1>a, <1>b, <2>1, <2>2 DEF CallGh, TypeOK
  <1>9. CASE SaveReceipt
    BY <1>9, SaveKeeps
  <1>10. CASE SyncLineage
    <2>1. /\ job' = Proceed(job) /\ receipts' = receipts /\ job.step = "lineage"
          /\ UNCHANGED <<records, configured, world, faults>>
      BY <1>10 DEF SyncLineage
    <2>2. job' \in Job /\ JobInv' /\ AnswerInv'
      BY <1>a, <2>1, ProceedInv DEF JobInv, AnswerInv
    <2> QED BY <1>a, <1>b, <2>1, <2>2 DEF TypeOK, world
  <1>11. CASE LinkRetry
    BY <1>11, LinkKeeps
  <1>12. CASE SaveIncidentActionRecord
    BY <1>12, RecordKeeps
  <1>13. CASE StatementFails
    <2>1. job' \in Job /\ JobInv' /\ AnswerInv'
      <3>1. CASE job' = NoJob
        BY <3>1, NoJobInv
      <3>2. CASE job' = [job EXCEPT !.step = "save", !.status = "failed"]
                 /\ job.step \in {"save", "lineage"}
        BY <1>13, <1>a, <3>2 DEF StatementFails, JobInv, AnswerInv, Job, Step, Status
      <3> QED BY <1>13, <3>1, <3>2 DEF StatementFails
    <2>2. faults' \in 0 .. MaxFaults
      BY <1>13, <1>a DEF StatementFails, TypeOK
    <2> QED BY <1>13, <1>a, <1>b, <2>1, <2>2 DEF StatementFails, TypeOK, world
  <1>14. ASSUME Exit, faults' \in 0 .. MaxFaults
         PROVE  IInv'
    <2>1. job' \in Job /\ JobInv' /\ AnswerInv'
      BY <1>14, NoJobInv DEF Exit
    <2>2. lost' \in [Handoff -> Nat] /\ outbox' \in [Handoff -> Nat]
      BY <1>14, <1>a DEF Exit, TypeOK
    <2> QED BY <1>14, <1>a, <1>b, <2>1, <2>2 DEF Exit, TypeOK
  <1>15. CASE ProcessDies
    BY <1>14, <1>15, <1>a DEF ProcessDies, TypeOK
  <1>16. CASE Restart
    BY <1>14, <1>16, <1>a DEF Restart, TypeOK
  <1>17. CASE ChannelAnswers
    <2>1. /\ outbox' \in [Handoff -> Nat] /\ posts' \in [Handoff -> Nat]
          /\ lost' \in [Handoff -> Nat]
      <3>1. PICK h \in Handoff :
               /\ outbox[h] > 0
               /\ outbox' = [outbox EXCEPT ![h] = @ - 1]
               /\ \/ posts' = [posts EXCEPT ![h] = @ + 1] /\ UNCHANGED lost
                  \/ lost' = [lost EXCEPT ![h] = @ + 1] /\ UNCHANGED posts
        BY <1>17 DEF ChannelAnswers
      <3>2. outbox[h] - 1 \in Nat /\ posts[h] + 1 \in Nat /\ lost[h] + 1 \in Nat
        BY <1>a, <3>1 DEF TypeOK
      <3> QED BY <1>a, <3>1, <3>2 DEF TypeOK
    <2>2. JobInv' /\ AnswerInv'
      BY <1>17, <1>a DEF ChannelAnswers, JobInv, AnswerInv
    <2> QED BY <1>17, <1>a, <1>b, <2>1, <2>2 DEF ChannelAnswers, TypeOK
  <1>18. CASE UNCHANGED vars
    <2>1. TypeOK' /\ JobInv' /\ AnswerInv'
      BY <1>18, <1>a DEF vars, world, TypeOK, JobInv, AnswerInv
    <2> QED BY <1>18, <1>b, <2>1 DEF vars
  <1> QED BY <1>1, <1>2, <1>3, <1>4, <1>5, <1>6, <1>7, <1>8, <1>9, <1>10, <1>11, <1>12,
             <1>13, <1>15, <1>16, <1>17, <1>18 DEF Next

\* The inductive invariant of the receipts.
THEOREM DeliveryInvHolds == Spec => []IInv
  BY InitHolds, NextKeeps, PTL DEF Spec

\* The tables and the request under way keep their types.
THEOREM TypeCorrect == Spec => []TypeOK
  <1>1. IInv => TypeOK
    BY DEF IInv
  <1> QED BY <1>1, DeliveryInvHolds, PTL

\* Whatever fails or dies in between, retries form chains of older failed receipts.
THEOREM RetriesFormChains == Spec => []RetryChain
  <1>1. IInv => RetryChain
    BY DEF IInv
  <1> QED BY <1>1, DeliveryInvHolds, PTL

\* The history of an incident agrees with its receipts, also after retries.
THEOREM RecordsAgree == Spec => []RecordTellsReceipt
  <1>1. IInv => RecordTellsReceipt
    BY DEF IInv
  <1> QED BY <1>1, DeliveryInvHolds, PTL

\* No step changes what a receipt says of its attempt, nor a failed receipt at all.
THEOREM ReceiptsNeverChange == Spec => ReceiptsStand
  <1> DEFINE Stands(i) ==
          /\ i \in DOMAIN receipts'
          /\ receipts'[i].status = receipts[i].status
          /\ receipts'[i].of = receipts[i].of /\ receipts'[i].key = receipts[i].key
          /\ receipts[i].status = "failed" /\ job.answer # i => receipts'[i] = receipts[i]
  <1>1. IInv /\ [Next]_vars => [\A i \in DOMAIN receipts : Stands(i)]_vars
    <2> SUFFICES ASSUME IInv, Next, NEW i \in DOMAIN receipts
                 PROVE  Stands(i)
      OBVIOUS
    <2>1. receipts \in Seq(Receipt) /\ i \in 1 .. Len(receipts) /\ Len(receipts) \in Nat
      BY DEF IInv, TypeOK
    <2>2. CASE SaveReceipt
      <3>1. job \in Job /\ job.of \in Handoff
        BY <2>2 DEF IInv, TypeOK, JobInv, SaveReceipt
      <3>2. NewReceipt \in Receipt
        BY <3>1 DEF NewReceipt, Receipt, Job
      <3>3. /\ receipts' \in Seq(Receipt) /\ Len(receipts') = Len(receipts) + 1
            /\ receipts'[i] = receipts[i]
        BY <2>1, <2>2, <3>2, AppendProperties DEF SaveReceipt
      <3> QED BY <2>1, <3>3
    <2>3. CASE LinkRetry
      <3>1. /\ DOMAIN receipts' = DOMAIN receipts
            /\ i # job.answer => receipts'[i] = receipts[i]
        BY <2>1, <2>3 DEF LinkRetry
      <3>2. receipts[i] \in Receipt
        BY <2>1, ReceiptType
      <3>3. /\ receipts'[i].status = receipts[i].status
            /\ receipts'[i].of = receipts[i].of /\ receipts'[i].key = receipts[i].key
        BY <2>1, <2>3, <3>1, <3>2 DEF LinkRetry, Receipt
      <3> QED BY <3>1, <3>3
    <2>4. CASE UNCHANGED receipts
      BY <2>1, <2>4
    <2> QED BY <2>2, <2>3, <2>4
            DEF Next, DeliverIntegration, VerifyIntegrationTarget, ExecuteIncidentAction,
                RetryDeliveryReceipt, DryRun, MissingConfig, CallFetch, CallGh, SyncLineage,
                SaveIncidentActionRecord, StatementFails, ProcessDies, Restart, Exit,
                ChannelAnswers
  <1> QED BY <1>1, DeliveryInvHolds, PTL DEF Spec, ReceiptsStand

-----------------------------------------------------------------------------
(* Keys.                                                                   *)

\* Whatever is there of a handoff of an incident, a receipt with the key that it started
\* with is; a request that is no retry has that key, and until it has made its attempt
\* nothing is there of its handoff.
KeyInv ==
    /\ \A h \in Keyed :
          Matching(h, <<>>) = {} => \A i \in DOMAIN receipts : receipts[i].of # h
    /\ job.of \in Keyed /\ job.base = 0 /\ job.step \in {"send", "save", "lineage"} =>
          job.key = <<>>
    /\ job.of \in Keyed /\ job.base = 0 /\ job.step = "send" =>
          \A i \in DOMAIN receipts : receipts[i].of # job.of

\* The receipt of a retry is not tied to the one that failed before its second save.
UnlinkedInv ==
    job.step \in {"lineage", "link"} /\ job.base # 0 => receipts[job.answer].retryOf = 0

\* No request has delivered before it tries, and gh is not called for a dry run.
FreshInv == job.step = "send" => job.status = "failed" /\ ~(job.gh /\ job.dry)

RequestInv == KeyInv /\ UnlinkedInv /\ FreshInv

\* If a receipt matches, a newest one does: of the sets of those newer than one of them, a
\* smallest is empty.
LEMMA NewestExists ==
    ASSUME TypeOK, NEW h, NEW key, Matching(h, key) # {}
    PROVE  Existing(h, key) # {}
  <1> DEFINE M == Matching(h, key)
             at(i) == receipts[i].at
             Newer(i) == {k \in M : at(k) > at(i)}
             T == {Newer(i) : i \in M}
  <1>1. /\ M \subseteq 1 .. Len(receipts) /\ M # {} /\ Len(receipts) \in Nat
        /\ receipts \in Seq(Receipt)
    BY LenProperties DEF Matching, TypeOK
  <1>2. \A i \in M : at(i) \in Nat
    BY <1>1, ReceiptType
  <1>3. IsFiniteSet(M)
    <2>1. IsFiniteSet(1 .. Len(receipts))
      BY <1>1, FS_Interval
    <2> QED BY <1>1, <2>1, FS_Subset
  <1>4. T \subseteq FiniteSubsetsOf(M) /\ T # {}
    <2> HIDE DEF M, at
    <2>1. \A i \in M : Newer(i) \in SUBSET M
      OBVIOUS
    <2>2. \A X \in T : X \in SUBSET M
      BY <2>1
    <2>3. T # {}
      BY <1>1
    <2>4. FiniteSubsetsOf(M) = SUBSET M
      BY <1>3, FS_FiniteSubsetsOfFinite
    <2> QED BY <2>2, <2>3, <2>4
  <1>5. PICK X \in T : \A Y \in T : <<Y, X>> \notin StrictSubsetOrdering(M)
    BY <1>4, FS_StrictSubsetOrderingWellFounded, WFMin
  <1>6. PICK i \in M : X = Newer(i)
    BY <1>5
  <1>7. ASSUME NEW k \in M, at(k) > at(i)
        PROVE  FALSE
    <2> HIDE DEF at, M
    <2>1. \A m \in M : at(m) > at(k) => at(m) > at(i)
      BY <1>2, <1>7
    <2>2. ~(at(k) > at(k))
      BY <1>2, <1>7
    <2>3. Newer(k) \in T /\ k \in X /\ k \notin Newer(k)
      BY <1>6, <1>7, <2>2
    <2>4. Newer(k) \subseteq X /\ X \in SUBSET M
      BY <1>6, <2>1
    <2>5. <<Newer(k), X>> \in StrictSubsetOrdering(M)
      BY <2>3, <2>4 DEF StrictSubsetOrdering
    <2> HIDE DEF Newer, T
    <2> QED BY <1>5, <2>3, <2>5
  <1>8. \A k \in M : at(k) <= at(i)
    BY <1>2, <1>7
  <1> QED BY <1>8 DEF Existing

\* A handoff of an incident that finds no receipt has none.
LEMMA NoneThere ==
    ASSUME TypeOK, KeyInv, NEW h \in Keyed, Existing(h, OwnKey(h)) = {}
    PROVE  OwnKey(h) = <<>> /\ \A i \in DOMAIN receipts : receipts[i].of # h
  <1>1. OwnKey(h) = <<>>
    BY DEF OwnKey
  <1>2. Matching(h, <<>>) = {}
    BY <1>1, NewestExists
  <1> QED BY <1>1, <1>2 DEF KeyInv

\* As long as no receipt is written, receipts and keys go together.
LEMMA KeysKept ==
    ASSUME KeyInv, UNCHANGED receipts,
           job'.of \in Keyed /\ job'.base = 0 /\ job'.step \in {"send", "save", "lineage"} =>
               job'.key = <<>>,
           job'.of \in Keyed /\ job'.base = 0 /\ job'.step = "send" =>
               \A i \in DOMAIN receipts : receipts[i].of # job'.of
    PROVE  KeyInv'
  BY DEF KeyInv, Matching

\* A request that ends leaves the keys in order.
LEMMA EndKeeps ==
    ASSUME RequestInv, UNCHANGED receipts, job' = NoJob
    PROVE  RequestInv'
  <1>1. job'.step = "idle"
    BY DEF NoJob
  <1>2. KeyInv'
    BY <1>1, KeysKept DEF RequestInv
  <1> QED BY <1>1, <1>2 DEF RequestInv, UnlinkedInv, FreshInv

\* A request that starts leaves them in order, if it is a retry or finds nothing.
LEMMA StartKeeps ==
    ASSUME RequestInv, UNCHANGED receipts, NEW h, NEW key, NEW dry, NEW gh, NEW action,
           NEW base, Attempt(h, key, dry, gh, action, base),
           ~(gh /\ dry),
           h \in Keyed /\ base = 0 =>
               key = <<>> /\ \A i \in DOMAIN receipts : receipts[i].of # h
    PROVE  RequestInv'
  <1>1. /\ job'.of = h /\ job'.key = key /\ job'.base = base /\ job'.step = "send"
        /\ job'.status = "failed" /\ job'.gh = gh /\ job'.dry = dry
    BY DEF Attempt
  <1>2. KeyInv'
    BY <1>1, KeysKept DEF RequestInv
  <1> QED BY <1>1, <1>2 DEF RequestInv, UnlinkedInv, FreshInv

\* A request that has tried, or whose statement has failed, comes to its save.
LEMMA SendKeeps ==
    ASSUME RequestInv, UNCHANGED receipts, job.step \in {"send", "save", "lineage"},
           job'.step = "save", job'.of = job.of, job'.key = job.key, job'.base = job.base
    PROVE  RequestInv'
  <1>1. KeyInv'
    BY KeysKept DEF RequestInv, KeyInv
  <1> QED BY <1>1 DEF RequestInv, UnlinkedInv, FreshInv

\* What a request does after its receipt and the lineage.
LEMMA ProceedTo ==
    ASSUME NEW j \in Job, job' = Proceed(j)
    PROVE  \/ /\ j.base # 0 /\ job'.step = "link"
              /\ job'.of = j.of /\ job'.base = j.base /\ job'.answer = j.answer
              /\ job'.status = j.status /\ job'.dry = j.dry
           \/ j.base = 0 /\ job'.step = "record" /\ job'.of = j.of /\ job'.base = 0
           \/ j.base = 0 /\ job' = NoJob
  <1>1. CASE j.base # 0
    <2>1. job' = [j EXCEPT !.step = "link"]
      BY <1>1 DEF Proceed
    <2> QED BY <1>1, <2>1 DEF Job
  <1>2. CASE j.base = 0 /\ j.action
    <2>1. job' = [j EXCEPT !.step = "record"]
      BY <1>2 DEF Proceed
    <2> QED BY <1>2, <2>1 DEF Job
  <1>3. CASE j.base = 0 /\ ~j.action
    BY <1>3 DEF Proceed
  <1> QED BY <1>1, <1>2, <1>3 DEF Job

\* What SaveReceipt leaves: one receipt more, which is no retry yet, and the request either
\* at its lineage or past it.
LEMMA SaveLeaves ==
    ASSUME IInv, SaveReceipt
    PROVE  /\ receipts \in Seq(Receipt) /\ Len(receipts) \in Nat
           /\ DOMAIN receipts = 1 .. Len(receipts)
           /\ DOMAIN receipts' = DOMAIN receipts \cup {Len(receipts) + 1}
           /\ Len(receipts) + 1 \notin DOMAIN receipts
           /\ \A i \in DOMAIN receipts : receipts'[i] = receipts[i]
           /\ receipts'[Len(receipts) + 1] = NewReceipt
           /\ job'.step \in {"lineage", "link", "record", "idle"}
           /\ job'.step \in {"lineage", "link"} =>
                 /\ job'.of = job.of /\ job'.base = job.base
                 /\ job'.answer = Len(receipts) + 1
           /\ job'.step = "lineage" => job'.key = job.key
           /\ job'.step = "link" <=> job.base # 0 /\ job'.step # "lineage"
           /\ job'.step \in {"record", "idle"} => job'.base = 0
  <1> DEFINE n == Len(receipts)
             j == [job EXCEPT !.answer = n + 1]
  <1>1. /\ job \in Job /\ receipts \in Seq(Receipt) /\ n \in Nat /\ job.step = "save"
        /\ job.of \in Handoff /\ job.at \in Nat
    BY LenProperties DEF IInv, TypeOK, JobInv, SaveReceipt, Job
  <1>2. NewReceipt \in Receipt
    BY <1>1 DEF NewReceipt, Receipt, Job
  <1>3. /\ receipts' \in Seq(Receipt) /\ Len(receipts') = n + 1
        /\ \A i \in 1 .. n : receipts'[i] = receipts[i]
        /\ receipts'[n + 1] = NewReceipt
    BY <1>1, <1>2, AppendProperties DEF SaveReceipt
  <1>4. /\ DOMAIN receipts = 1 .. n /\ DOMAIN receipts' = 1 .. n + 1
    BY <1>1, <1>3
  <1>5. DOMAIN receipts' = DOMAIN receipts \cup {n + 1} /\ n + 1 \notin DOMAIN receipts
    BY <1>1, <1>4
  <1>6. j \in Job /\ j.answer = n + 1 /\ j.of = job.of /\ j.base = job.base /\ j.key = job.key
    BY <1>1 DEF Job
  <1>7. CASE job.of \in Keyed
    <2>1. job' = [j EXCEPT !.step = "lineage"]
      BY <1>6, <1>7 DEF SaveReceipt
    <2>2. /\ job'.step = "lineage" /\ job'.of = job.of /\ job'.base = job.base
          /\ job'.answer = n + 1 /\ job'.key = job.key
      BY <1>6, <2>1 DEF Job
    <2> QED BY <1>1, <1>3, <1>4, <1>5, <2>2
  <1>8. CASE job.of \notin Keyed
    <2>1. job' = Proceed(j)
      BY <1>6, <1>8 DEF SaveReceipt
    <2> HIDE DEF j
    <2>2. \/ /\ j.base # 0 /\ job'.step = "link"
             /\ job'.of = j.of /\ job'.base = j.base /\ job'.answer = j.answer
          \/ j.base = 0 /\ job'.step \in {"record", "idle"} /\ job'.base = 0
      BY <1>6, <2>1, ProceedTo DEF NoJob
    <2> QED BY <1>1, <1>3, <1>4, <1>5, <1>6, <2>2
  <1> QED BY <1>7, <1>8

\* The new receipt of a request that is no retry has the key its handoff starts with.
LEMMA SaveRequest ==
    ASSUME IInv, RequestInv, SaveReceipt
    PROVE  RequestInv'
  <1> DEFINE n == Len(receipts)
  <1>1. /\ DOMAIN receipts = 1 .. n /\ DOMAIN receipts' = DOMAIN receipts \cup {n + 1}
        /\ n + 1 \notin DOMAIN receipts
        /\ \A i \in DOMAIN receipts : receipts'[i] = receipts[i]
        /\ receipts'[n + 1] = NewReceipt
        /\ job'.step \in {"lineage", "link", "record", "idle"}
        /\ job'.step \in {"lineage", "link"} =>
              job'.of = job.of /\ job'.base = job.base /\ job'.answer = n + 1
        /\ job'.step = "lineage" => job'.key = job.key
    BY SaveLeaves
  <1>2. /\ NewReceipt.of = job.of /\ NewReceipt.key = job.key /\ NewReceipt.retryOf = 0
    BY DEF NewReceipt
  <1>3. <<>> # None
    <2>1. <<>> \in Seq(Nat)
      OBVIOUS
    <2> QED BY <2>1, NoneAssumption
  <1>4. \A h : Matching(h, <<>>) \subseteq Matching(h, <<>>)'
    BY <1>1 DEF Matching
  <1>5. ASSUME NEW h \in Keyed, job.of = h
        PROVE  Matching(h, <<>>)' # {}
    <2>1. CASE job.base = 0
      <3>1. job.key = <<>>
        BY <1>5, <2>1 DEF RequestInv, KeyInv, SaveReceipt
      <3>2. /\ n + 1 \in DOMAIN receipts' /\ receipts'[n + 1].of = h
            /\ receipts'[n + 1].key = <<>>
        BY <1>1, <1>2, <1>5, <3>1
      <3> QED BY <1>3, <3>2 DEF Matching
    <2>2. CASE job.base # 0
      <3>1. job.base \in DOMAIN receipts /\ receipts[job.base].of = job.of
        BY <2>2 DEF IInv, JobInv, SaveReceipt
      <3> QED BY <1>4, <1>5, <3>1 DEF RequestInv, KeyInv
    <2> QED BY <2>1, <2>2
  <1>6. ASSUME NEW h \in Keyed, Matching(h, <<>>)' = {}, NEW i \in DOMAIN receipts'
        PROVE  receipts'[i].of # h
    <2>1. CASE i = n + 1
      BY <1>1, <1>2, <1>5, <1>6, <2>1
    <2>2. CASE i \in DOMAIN receipts
      BY <1>1, <1>4, <1>6, <2>2 DEF RequestInv, KeyInv
    <2> QED BY <1>1, <2>1, <2>2
  <1>7. job'.of \in Keyed /\ job'.base = 0 /\ job'.step \in {"send", "save", "lineage"} =>
            job'.key = <<>>
    BY <1>1 DEF RequestInv, KeyInv, SaveReceipt
  <1>8. KeyInv'
    BY <1>1, <1>6, <1>7 DEF KeyInv
  <1>9. UnlinkedInv'
    BY <1>1, <1>2 DEF UnlinkedInv
  <1>10. FreshInv'
    BY <1>1 DEF FreshInv
  <1> QED BY <1>8, <1>9, <1>10 DEF RequestInv

\* What LinkRetry leaves: the receipt that is answered, of the request's handoff, becomes a
\* retry of an older one, and the rest of it and of the table stands.
LEMMA LinkLeaves ==
    ASSUME IInv, LinkRetry
    PROVE  /\ job' = NoJob /\ job.base # 0 /\ DOMAIN receipts' = DOMAIN receipts
           /\ job.answer \in DOMAIN receipts /\ receipts[job.answer].of = job.of
           /\ \A i \in DOMAIN receipts :
                 /\ receipts'[i].of = receipts[i].of /\ receipts'[i].key = receipts[i].key
                 /\ receipts'[i].dry = receipts[i].dry
                 /\ receipts'[i].status = receipts[i].status
                 /\ receipts'[i].retryOf = IF i = job.answer THEN job.base
                                                             ELSE receipts[i].retryOf
  <1> DEFINE a == job.answer
             linked == [receipts[a] EXCEPT !.retryOf = job.base,
                                           !.retries = receipts[job.base].retries + 1,
                                           !.attempt = receipts[job.base].attempt + 1]
  <1>1. /\ receipts \in Seq(Receipt) /\ DOMAIN receipts = 1 .. Len(receipts)
        /\ job.base # 0 /\ a \in DOMAIN receipts /\ receipts[a].of = job.of
    BY DEF IInv, TypeOK, AnswerInv, LinkRetry
  <1>2. receipts[a] \in Receipt
    BY <1>1, ReceiptType
  <1>3. /\ linked.of = receipts[a].of /\ linked.key = receipts[a].key
        /\ linked.dry = receipts[a].dry /\ linked.status = receipts[a].status
        /\ linked.retryOf = job.base
    BY <1>2 DEF Receipt
  <1>4. job' = NoJob /\ receipts' = [receipts EXCEPT ![a] = linked]
    BY DEF LinkRetry
  <1> HIDE DEF linked
  <1>5. /\ DOMAIN receipts' = DOMAIN receipts
        /\ \A i \in DOMAIN receipts : receipts'[i] = IF i = a THEN linked ELSE receipts[i]
    BY <1>1, <1>4
  <1> QED BY <1>1, <1>3, <1>4, <1>5

LEMMA LinkRequest ==
    ASSUME IInv, RequestInv, LinkRetry
    PROVE  RequestInv'
  <1>1. /\ job' = NoJob /\ DOMAIN receipts' = DOMAIN receipts
        /\ \A i \in DOMAIN receipts :
              receipts'[i].of = receipts[i].of /\ receipts'[i].key = receipts[i].key
    BY LinkLeaves
  <1>2. job'.step = "idle"
    BY <1>1 DEF NoJob
  <1>3. \A h : Matching(h, <<>>)' = Matching(h, <<>>)
    BY <1>1 DEF Matching
  <1>4. KeyInv'
    BY <1>1, <1>2, <1>3 DEF RequestInv, KeyInv
  <1> QED BY <1>2, <1>4 DEF RequestInv, UnlinkedInv, FreshInv

LEMMA RequestInit == Init => RequestInv
  BY DEF Init, NoJob, RequestInv, KeyInv, UnlinkedInv, FreshInv

LEMMA RequestNext == IInv /\ RequestInv /\ [Next]_vars => RequestInv'
  <1> SUFFICES ASSUME IInv, RequestInv, [Next]_vars PROVE RequestInv'
    OBVIOUS
  <1>a. TypeOK /\ KeyInv /\ job \in Job
    BY DEF IInv, TypeOK, RequestInv
  <1>1. CASE DeliverIntegration
    <2>1. PICK h \in Handoff, dry \in BOOLEAN :
              Existing(h, OwnKey(h)) = {} /\ Attempt(h, OwnKey(h), dry, FALSE, FALSE, 0)
      BY <1>1 DEF DeliverIntegration
    <2>2. h \in Keyed => OwnKey(h) = <<>> /\ \A i \in DOMAIN receipts : receipts[i].of # h
      BY <1>a, <2>1, NoneThere
    <2> QED BY <1>1, <2>1, <2>2, StartKeeps DEF DeliverIntegration
  <1>2. CASE VerifyIntegrationTarget
    <2>1. PICK h \in Handoff \ Keyed : Attempt(h, <<0>>, TRUE, FALSE, FALSE, 0)
      BY <1>2 DEF VerifyIntegrationTarget
    <2> QED BY <1>2, <2>1, StartKeeps DEF VerifyIntegrationTarget
  <1>3. CASE ExecuteIncidentAction
    <2>1. PICK h \in Keyed :
             \/ /\ Existing(h, OwnKey(h)) = {}
                /\ Attempt(h, OwnKey(h), FALSE, Target[h] = "github-issue", TRUE, 0)
             \/ \E i \in Existing(h, OwnKey(h)) :
                  job' = [NoJob EXCEPT !.step = "record", !.of = h, !.action = TRUE,
                                       !.answer = i]
      BY <1>3 DEF ExecuteIncidentAction
    <2>2. UNCHANGED receipts
      BY <1>3 DEF ExecuteIncidentAction
    <2>3. CASE /\ Existing(h, OwnKey(h)) = {}
               /\ Attempt(h, OwnKey(h), FALSE, Target[h] = "github-issue", TRUE, 0)
      <3>1. OwnKey(h) = <<>> /\ \A i \in DOMAIN receipts : receipts[i].of # h
        BY <1>a, <2>3, NoneThere
      <3> QED BY <2>2, <2>3, <3>1, StartKeeps
    <2>4. CASE \E i \in Existing(h, OwnKey(h)) :
                  job' = [NoJob EXCEPT !.step = "record", !.of = h, !.action = TRUE,
                                       !.answer = i]
      <3>1. job'.step = "record"
        BY <2>4 DEF NoJob
      <3>2. KeyInv'
        BY <1>a, <2>2, <3>1, KeysKept
      <3> QED BY <3>1, <3>2 DEF RequestInv, UnlinkedInv, FreshInv
    <2> QED BY <2>1, <2>3, <2>4
  <1>4. CASE RetryDeliveryReceipt
    <2>1. PICK i \in DOMAIN receipts, useNew \in BOOLEAN :
              Attempt(receipts[i].of, RetryKey(i, useNew), receipts[i].dry, FALSE, FALSE, i)
      BY <1>4 DEF RetryDeliveryReceipt
    <2>2. i # 0
      BY LenProperties DEF IInv, TypeOK
    <2> QED BY <1>4, <2>1, <2>2, StartKeeps DEF RetryDeliveryReceipt
  <1>5. CASE DryRun \/ MissingConfig \/ CallFetch \/ CallGh
    <2>1. job.step = "send" /\ UNCHANGED receipts
      BY <1>5 DEF DryRun, MissingConfig, CallFetch, CallGh
    <2>2. /\ job'.step = "save" /\ job'.of = job.of /\ job'.key = job.key
          /\ job'.base = job.base
      BY <1>5, <1>a DEF DryRun, MissingConfig, CallFetch, CallGh, Job
    <2> QED BY <2>1, <2>2, SendKeeps
  <1>6. CASE SaveReceipt
    BY <1>6, SaveRequest
  <1>7. CASE SyncLineage
    <2>1. job' = Proceed(job) /\ UNCHANGED receipts /\ job.step = "lineage"
      BY <1>7 DEF SyncLineage
    <2>2. \/ /\ job.base # 0 /\ job'.step = "link"
             /\ job'.of = job.of /\ job'.base = job.base /\ job'.answer = job.answer
          \/ job.base = 0 /\ job'.step \in {"record", "idle"}
      BY <1>a, <2>1, ProceedTo DEF NoJob
    <2>3. KeyInv'
      BY <1>a, <2>1, <2>2, KeysKept
    <2>4. UnlinkedInv'
      BY <2>1, <2>2 DEF RequestInv, UnlinkedInv
    <2> QED BY <2>2, <2>3, <2>4 DEF RequestInv, FreshInv
  <1>8. CASE LinkRetry
    BY <1>8, LinkRequest
  <1>9. CASE SaveIncidentActionRecord \/ ProcessDies \/ Restart
    BY <1>9, EndKeeps DEF SaveIncidentActionRecord, ProcessDies, Restart, Exit
  <1>10. CASE StatementFails
    <2>1. UNCHANGED receipts
      BY <1>10 DEF StatementFails
    <2>2. CASE job' = NoJob
      BY <2>1, <2>2, EndKeeps
    <2>3. CASE /\ job' = [job EXCEPT !.step = "save", !.status = "failed"]
               /\ job.step \in {"save", "lineage"}
      <3>1. /\ job'.step = "save" /\ job'.of = job.of /\ job'.key = job.key
            /\ job'.base = job.base
        BY <1>a, <2>3 DEF Job
      <3> QED BY <2>1, <2>3, <3>1, SendKeeps
    <2> QED BY <1>10, <2>2, <2>3 DEF StatementFails
  <1>11. CASE UNCHANGED <<receipts, job>>
    BY <1>11, <1>a, KeysKept DEF RequestInv, KeyInv, UnlinkedInv, FreshInv
  <1> QED BY <1>1, <1>2, <1>3, <1>4, <1>5, <1>6, <1>7, <1>8, <1>9, <1>10, <1>11
          DEF Next, ChannelAnswers, vars

-----------------------------------------------------------------------------
(* Counts.                                                                 *)

LiveSet(h)    == {i \in DOMAIN receipts : Live(h, receipts[i])}
ClaimedSet(h) == {i \in DOMAIN receipts :
                    Live(h, receipts[i]) /\ receipts[i].status = "delivered"}
RetriedSet(h) == {i \in DOMAIN receipts : receipts[i].of = h /\ receipts[i].retryOf # 0}

\* An attempt that has succeeded and has no receipt yet.
Unsaved(h) ==
    IF job.of = h /\ job.step = "save" /\ job.status = "delivered" /\ ~job.dry THEN 1 ELSE 0

\* A retry that may have sent and is not tied to its receipt yet.
Retrying(h) ==
    IF job.of = h /\ job.base # 0 /\ job.step \in {"save", "lineage", "link"} THEN 1 ELSE 0

\* The three counts: what was sent is receipted, what is claimed was sent, and a handoff of an
\* incident is sent once and once for each retry, faults and the request under way set off.
CountInv ==
    \A h \in Handoff :
        /\ Attempted(h) <= Cardinality(LiveSet(h)) + Spent + Unsaved(h)
        /\ Cardinality(ClaimedSet(h)) + Unsaved(h) <= Attempted(h)
        /\ h \in Keyed => Attempted(h) <= 1 + Cardinality(RetriedSet(h)) + Spent + Retrying(h)

\* The counts are numbers.
LEMMA CountTypes ==
    TypeOK =>
        /\ Spent \in Nat
        /\ \A h \in Handoff :
              /\ Attempted(h) \in Nat
              /\ IsFiniteSet(LiveSet(h)) /\ Cardinality(LiveSet(h)) \in Nat
              /\ IsFiniteSet(ClaimedSet(h)) /\ Cardinality(ClaimedSet(h)) \in Nat
              /\ IsFiniteSet(RetriedSet(h)) /\ Cardinality(RetriedSet(h)) \in Nat
              /\ Unsaved(h) \in {0, 1} /\ Retrying(h) \in {0, 1}
  <1> SUFFICES ASSUME TypeOK
               PROVE  /\ Spent \in Nat
                      /\ \A h \in Handoff :
                            /\ Attempted(h) \in Nat
                            /\ IsFiniteSet(LiveSet(h)) /\ Cardinality(LiveSet(h)) \in Nat
                            /\ IsFiniteSet(ClaimedSet(h)) /\ Cardinality(ClaimedSet(h)) \in Nat
                            /\ IsFiniteSet(RetriedSet(h)) /\ Cardinality(RetriedSet(h)) \in Nat
                            /\ Unsaved(h) \in {0, 1} /\ Retrying(h) \in {0, 1}
    OBVIOUS
  <1>1. IsFiniteSet(DOMAIN receipts)
    <2>1. Len(receipts) \in Nat /\ DOMAIN receipts = 1 .. Len(receipts)
      BY LenProperties DEF TypeOK
    <2> QED BY <2>1, FS_Interval
  <1>2. \A S : S \subseteq DOMAIN receipts => IsFiniteSet(S) /\ Cardinality(S) \in Nat
    BY <1>1, FS_Subset, FS_CardinalityType
  <1>3. Spent \in Nat
    BY DEF Spent, TypeOK
  <1>4. ASSUME NEW h \in Handoff
        PROVE  /\ Attempted(h) \in Nat
               /\ LiveSet(h) \subseteq DOMAIN receipts
               /\ ClaimedSet(h) \subseteq DOMAIN receipts
               /\ RetriedSet(h) \subseteq DOMAIN receipts
               /\ Unsaved(h) \in {0, 1} /\ Retrying(h) \in {0, 1}
    <2>1. outbox[h] \in Nat /\ posts[h] \in Nat /\ lost[h] \in Nat /\ issues[h] \in Nat
      BY DEF TypeOK
    <2>2. Attempted(h) \in Nat
      BY <2>1 DEF Attempted
    <2> QED BY <2>2 DEF LiveSet, ClaimedSet, RetriedSet, Unsaved, Retrying
  <1> QED BY <1>2, <1>3, <1>4

LEMMA CountTypesNext ==
    TypeOK' =>
        (/\ Spent \in Nat
         /\ \A h \in Handoff :
               /\ Attempted(h) \in Nat
               /\ IsFiniteSet(LiveSet(h)) /\ Cardinality(LiveSet(h)) \in Nat
               /\ IsFiniteSet(ClaimedSet(h)) /\ Cardinality(ClaimedSet(h)) \in Nat
               /\ IsFiniteSet(RetriedSet(h)) /\ Cardinality(RetriedSet(h)) \in Nat
               /\ Unsaved(h) \in {0, 1} /\ Retrying(h) \in {0, 1})'
  BY CountTypes, PTL

\* A step that writes no receipt and makes no attempt keeps the counts, if what it takes off
\* the request under way is put down to a fault.
LEMMA CountsKept ==
    ASSUME TypeOK, TypeOK', CountInv, UNCHANGED receipts,
           \A h \in Handoff :
               /\ Attempted(h)' = Attempted(h)
               /\ Unsaved(h)' <= Unsaved(h)
               /\ Spent' + Unsaved(h)' >= Spent + Unsaved(h)
               /\ Spent' + Retrying(h)' >= Spent + Retrying(h)
    PROVE  CountInv'
  <1> SUFFICES ASSUME NEW h \in Handoff
               PROVE  /\ Attempted(h)' <= Cardinality(LiveSet(h)') + Spent' + Unsaved(h)'
                      /\ Cardinality(ClaimedSet(h)') + Unsaved(h)' <= Attempted(h)'
                      /\ h \in Keyed => Attempted(h)' <= 1 + Cardinality(RetriedSet(h)')
                                                           + Spent' + Retrying(h)'
    BY DEF CountInv
  <1>1. LiveSet(h)' = LiveSet(h) /\ ClaimedSet(h)' = ClaimedSet(h) /\ RetriedSet(h)' = RetriedSet(h)
    BY DEF LiveSet, ClaimedSet, RetriedSet, Live
  <1>2. /\ Spent \in Nat /\ Attempted(h) \in Nat
        /\ Cardinality(LiveSet(h)) \in Nat /\ Cardinality(ClaimedSet(h)) \in Nat
        /\ Cardinality(RetriedSet(h)) \in Nat
        /\ Unsaved(h) \in {0, 1} /\ Retrying(h) \in {0, 1}
    BY CountTypes
  <1>3. Spent' \in Nat /\ Unsaved(h)' \in {0, 1} /\ Retrying(h)' \in {0, 1}
    BY CountTypesNext
  <1>4. /\ Attempted(h)' = Attempted(h)
        /\ Unsaved(h)' <= Unsaved(h)
        /\ Spent' + Unsaved(h)' >= Spent + Unsaved(h)
        /\ Spent' + Retrying(h)' >= Spent + Retrying(h)
    OBVIOUS
  <1>5. /\ Attempted(h) <= Cardinality(LiveSet(h)) + Spent + Unsaved(h)
        /\ Cardinality(ClaimedSet(h)) + Unsaved(h) <= Attempted(h)
        /\ h \in Keyed => Attempted(h) <= 1 + Cardinality(RetriedSet(h)) + Spent + Retrying(h)
    BY DEF CountInv
  <1> QED BY ONLY <1>1, <1>2, <1>3, <1>4, <1>5

\* An attempt that succeeds: its receipt is still to be saved, and if its handoff is that of
\* an incident, it is a retry or the first of all.
LEMMA CountsOfSend ==
    ASSUME TypeOK, TypeOK', KeyInv, CountInv, UNCHANGED <<receipts, faults>>,
           job.step = "send", ~job.dry,
           job'.step = "save", job'.status = "delivered", job'.dry = job.dry,
           job'.of = job.of, job'.base = job.base,
           \A h \in Handoff : Attempted(h)' = Attempted(h) + (IF h = job.of THEN 1 ELSE 0)
    PROVE  CountInv'
  <1> SUFFICES ASSUME NEW h \in Handoff
               PROVE  /\ Attempted(h)' <= Cardinality(LiveSet(h)') + Spent' + Unsaved(h)'
                      /\ Cardinality(ClaimedSet(h)') + Unsaved(h)' <= Attempted(h)'
                      /\ h \in Keyed => Attempted(h)' <= 1 + Cardinality(RetriedSet(h)')
                                                           + Spent' + Retrying(h)'
    BY DEF CountInv
  <1>1. /\ LiveSet(h)' = LiveSet(h) /\ ClaimedSet(h)' = ClaimedSet(h)
        /\ RetriedSet(h)' = RetriedSet(h) /\ Spent' = Spent
    BY DEF LiveSet, ClaimedSet, RetriedSet, Live, Spent
  <1>2. /\ Spent \in Nat /\ Attempted(h) \in Nat
        /\ Cardinality(LiveSet(h)) \in Nat /\ Cardinality(ClaimedSet(h)) \in Nat
        /\ Cardinality(RetriedSet(h)) \in Nat
    BY CountTypes
  <1>3. /\ Attempted(h) <= Cardinality(LiveSet(h)) + Spent + Unsaved(h)
        /\ Cardinality(ClaimedSet(h)) + Unsaved(h) <= Attempted(h)
        /\ h \in Keyed => Attempted(h) <= 1 + Cardinality(RetriedSet(h)) + Spent + Retrying(h)
    BY DEF CountInv
  <1>4. Unsaved(h) = 0 /\ Retrying(h) = 0
    BY DEF Unsaved, Retrying
  <1>5. CASE h = job.of
    <2>1. Attempted(h)' = Attempted(h) + 1 /\ Unsaved(h)' = 1
      BY <1>5 DEF Unsaved
    <2>2. CASE job.base # 0
      <3>1. Retrying(h)' = 1
        BY <1>5, <2>2 DEF Retrying
      <3> QED BY ONLY <1>1, <1>2, <1>3, <1>4, <2>1, <3>1
    <2>3. CASE job.base = 0 /\ h \in Keyed
      <3>1. LiveSet(h) = {}
        BY <1>5, <2>3 DEF KeyInv, LiveSet, Live
      <3>2. Cardinality(LiveSet(h)) = 0
        BY <3>1, FS_EmptySet
      <3>3. Retrying(h)' = 0
        BY <2>3 DEF Retrying
      <3> QED BY ONLY <1>1, <1>2, <1>3, <1>4, <2>1, <3>2, <3>3
    <2>4. CASE h \notin Keyed
      BY ONLY <1>1, <1>2, <1>3, <1>4, <2>1, <2>4
    <2> QED BY <2>2, <2>3, <2>4
  <1>6. CASE h # job.of
    <2>1. Attempted(h)' = Attempted(h)
      BY <1>2, <1>6
    <2>2. Unsaved(h)' = 0 /\ Retrying(h)' = 0
      BY <1>6 DEF Unsaved, Retrying
    <2> QED BY ONLY <1>1, <1>2, <1>3, <1>4, <2>1, <2>2
  <1> QED BY <1>5, <1>6

\* A receipt that is saved counts what its request has sent, and is no retry yet.
LEMMA CountsOfSave ==
    ASSUME IInv, CountInv, SaveReceipt
    PROVE  CountInv'
  <1> SUFFICES ASSUME NEW h \in Handoff
               PROVE  /\ Attempted(h)' <= Cardinality(LiveSet(h)') + Spent' + Unsaved(h)'
                      /\ Cardinality(ClaimedSet(h)') + Unsaved(h)' <= Attempted(h)'
                      /\ h \in Keyed => Attempted(h)' <= 1 + Cardinality(RetriedSet(h)')
                                                           + Spent' + Retrying(h)'
    BY DEF CountInv
  <1> DEFINE n == Len(receipts)
  <1>1. /\ DOMAIN receipts' = DOMAIN receipts \cup {n + 1} /\ n + 1 \notin DOMAIN receipts
        /\ \A i \in DOMAIN receipts : receipts'[i] = receipts[i]
        /\ receipts'[n + 1] = NewReceipt
        /\ job'.step \in {"lineage", "link", "record", "idle"}
        /\ job'.step \in {"lineage", "link"} => job'.of = job.of /\ job'.base = job.base
        /\ job'.step = "link" <=> job.base # 0 /\ job'.step # "lineage"
        /\ job'.step \in {"record", "idle"} => job'.base = 0
    BY SaveLeaves
  <1>2. /\ NewReceipt.of = job.of /\ NewReceipt.status = job.status
        /\ NewReceipt.dry = job.dry /\ NewReceipt.retryOf = 0
    BY DEF NewReceipt
  <1>3. Spent' = Spent /\ Attempted(h)' = Attempted(h) /\ job.step = "save"
    BY DEF SaveReceipt, world, Spent, Attempted
  <1>4. /\ Spent \in Nat /\ Attempted(h) \in Nat
        /\ IsFiniteSet(LiveSet(h)) /\ Cardinality(LiveSet(h)) \in Nat
        /\ IsFiniteSet(ClaimedSet(h)) /\ Cardinality(ClaimedSet(h)) \in Nat
        /\ Cardinality(RetriedSet(h)) \in Nat
        /\ Unsaved(h) \in {0, 1} /\ Retrying(h) \in {0, 1}
    BY CountTypes DEF IInv
  <1>5. /\ Attempted(h) <= Cardinality(LiveSet(h)) + Spent + Unsaved(h)
        /\ Cardinality(ClaimedSet(h)) + Unsaved(h) <= Attempted(h)
        /\ h \in Keyed => Attempted(h) <= 1 + Cardinality(RetriedSet(h)) + Spent + Retrying(h)
    BY DEF CountInv
  <1>6. RetriedSet(h)' = RetriedSet(h)
    BY <1>1, <1>2 DEF RetriedSet
  <1>7. Unsaved(h)' = 0
    BY <1>1 DEF Unsaved
  <1>8. Retrying(h)' = Retrying(h)
    BY <1>1, <1>3 DEF Retrying
  <1>9. CASE job.of = h /\ ~job.dry
    <2>1. LiveSet(h)' = LiveSet(h) \cup {n + 1} /\ n + 1 \notin LiveSet(h)
      BY <1>1, <1>2, <1>9 DEF LiveSet, Live
    <2>2. Cardinality(LiveSet(h)') = Cardinality(LiveSet(h)) + 1
      BY <1>4, <2>1, FS_AddElement
    <2>3. CASE job.status = "delivered"
      <3>1. ClaimedSet(h)' = ClaimedSet(h) \cup {n + 1} /\ n + 1 \notin ClaimedSet(h)
        BY <1>1, <1>2, <1>9, <2>3 DEF ClaimedSet, Live
      <3>2. Cardinality(ClaimedSet(h)') = Cardinality(ClaimedSet(h)) + 1
        BY <1>4, <3>1, FS_AddElement
      <3>3. Unsaved(h) = 1
        BY <1>3, <1>9, <2>3 DEF Unsaved
      <3> QED BY ONLY <1>3, <1>4, <1>5, <1>6, <1>7, <1>8, <2>2, <3>2, <3>3
    <2>4. CASE job.status # "delivered"
      <3>1. ClaimedSet(h)' = ClaimedSet(h)
        BY <1>1, <1>2, <1>9, <2>4 DEF ClaimedSet, Live
      <3>2. Unsaved(h) = 0
        BY <2>4 DEF Unsaved
      <3> QED BY ONLY <1>3, <1>4, <1>5, <1>6, <1>7, <1>8, <2>2, <3>1, <3>2
    <2> QED BY <2>3, <2>4
  <1>10. CASE ~(job.of = h /\ ~job.dry)
    <2>1. LiveSet(h)' = LiveSet(h) /\ ClaimedSet(h)' = ClaimedSet(h)
      BY <1>1, <1>2, <1>10 DEF LiveSet, ClaimedSet, Live
    <2>2. Unsaved(h) = 0
      BY <1>10 DEF Unsaved
    <2> QED BY ONLY <1>3, <1>4, <1>5, <1>6, <1>7, <1>8, <2>1, <2>2
  <1> QED BY <1>9, <1>10

\* A retry that is tied to its receipt is counted there and no more under way.
LEMMA CountsOfLink ==
    ASSUME IInv, UnlinkedInv, CountInv, LinkRetry
    PROVE  CountInv'
  <1> SUFFICES ASSUME NEW h \in Handoff
               PROVE  /\ Attempted(h)' <= Cardinality(LiveSet(h)') + Spent' + Unsaved(h)'
                      /\ Cardinality(ClaimedSet(h)') + Unsaved(h)' <= Attempted(h)'
                      /\ h \in Keyed => Attempted(h)' <= 1 + Cardinality(RetriedSet(h)')
                                                           + Spent' + Retrying(h)'
    BY DEF CountInv
  <1>1. /\ job' = NoJob /\ job.base # 0 /\ DOMAIN receipts' = DOMAIN receipts
        /\ job.answer \in DOMAIN receipts /\ receipts[job.answer].of = job.of
        /\ \A i \in DOMAIN receipts :
              /\ receipts'[i].of = receipts[i].of /\ receipts'[i].dry = receipts[i].dry
              /\ receipts'[i].status = receipts[i].status
              /\ receipts'[i].retryOf = IF i = job.answer THEN job.base
                                                          ELSE receipts[i].retryOf
    BY LinkLeaves
  <1>2. LiveSet(h)' = LiveSet(h) /\ ClaimedSet(h)' = ClaimedSet(h)
    BY <1>1 DEF LiveSet, ClaimedSet, Live
  <1>3. Spent' = Spent /\ Attempted(h)' = Attempted(h) /\ job.step = "link"
    BY DEF LinkRetry, world, Spent, Attempted
  <1>4. /\ Spent \in Nat /\ Attempted(h) \in Nat
        /\ Cardinality(LiveSet(h)) \in Nat /\ Cardinality(ClaimedSet(h)) \in Nat
        /\ IsFiniteSet(RetriedSet(h)) /\ Cardinality(RetriedSet(h)) \in Nat
    BY CountTypes DEF IInv
  <1>5. /\ Attempted(h) <= Cardinality(LiveSet(h)) + Spent + Unsaved(h)
        /\ Cardinality(ClaimedSet(h)) + Unsaved(h) <= Attempted(h)
        /\ h \in Keyed => Attempted(h) <= 1 + Cardinality(RetriedSet(h)) + Spent + Retrying(h)
    BY DEF CountInv
  <1>6. Unsaved(h) = 0 /\ Unsaved(h)' = 0 /\ Retrying(h)' = 0
    BY <1>1, <1>3 DEF Unsaved, Retrying, NoJob
  <1>7. CASE job.of = h
    <2>1. receipts[job.answer].retryOf = 0
      BY <1>1, <1>3 DEF UnlinkedInv
    <2>2. RetriedSet(h)' = RetriedSet(h) \cup {job.answer} /\ job.answer \notin RetriedSet(h)
      BY <1>1, <1>7, <2>1 DEF RetriedSet
    <2>3. Cardinality(RetriedSet(h)') = Cardinality(RetriedSet(h)) + 1
      BY <1>4, <2>2, FS_AddElement
    <2>4. Retrying(h) = 1
      BY <1>1, <1>3, <1>7 DEF Retrying
    <2> QED BY ONLY <1>2, <1>3, <1>4, <1>5, <1>6, <2>3, <2>4
  <1>8. CASE job.of # h
    <2>1. RetriedSet(h)' = RetriedSet(h)
      BY <1>1, <1>8 DEF RetriedSet
    <2>2. Retrying(h) = 0
      BY <1>8 DEF Retrying
    <2> QED BY ONLY <1>2, <1>3, <1>4, <1>5, <1>6, <2>1, <2>2
  <1> QED BY <1>7, <1>8

LEMMA CountInit == Init => CountInv
  <1> SUFFICES ASSUME Init, NEW h \in Handoff
               PROVE  /\ Attempted(h) <= Cardinality(LiveSet(h)) + Spent + Unsaved(h)
                      /\ Cardinality(ClaimedSet(h)) + Unsaved(h) <= Attempted(h)
                      /\ h \in Keyed => Attempted(h) <= 1 + Cardinality(RetriedSet(h))
                                                          + Spent + Retrying(h)
    BY DEF CountInv
  <1>1. Attempted(h) = 0 /\ Spent = 0 /\ Unsaved(h) = 0 /\ Retrying(h) = 0
    BY DEF Init, Attempted, Spent, Unsaved, Retrying, NoJob
  <1>2. LiveSet(h) = {} /\ ClaimedSet(h) = {} /\ RetriedSet(h) = {}
    BY DEF Init, LiveSet, ClaimedSet, RetriedSet
  <1>3. /\ Cardinality(LiveSet(h)) = 0 /\ Cardinality(ClaimedSet(h)) = 0
        /\ Cardinality(RetriedSet(h)) = 0
    BY <1>2, FS_EmptySet
  <1> QED BY <1>1, <1>3

LEMMA CountNext == IInv /\ IInv' /\ RequestInv /\ CountInv /\ [Next]_vars => CountInv'
  <1> SUFFICES ASSUME IInv, IInv', RequestInv, CountInv, [Next]_vars PROVE CountInv'
    OBVIOUS
  <1>a. /\ TypeOK /\ TypeOK' /\ KeyInv /\ UnlinkedInv /\ job \in Job
        /\ job.step = "send" => job.status = "failed" /\ ~(job.gh /\ job.dry)
    BY DEF IInv, TypeOK, RequestInv, FreshInv
  <1>b. Spent \in Nat /\ \A h \in Handoff : Unsaved(h) \in {0, 1} /\ Retrying(h) \in {0, 1}
    BY <1>a, CountTypes
  <1>c. ASSUME UNCHANGED <<receipts, faults>>,
               \A h \in Handoff : Attempted(h)' = Attempted(h),
               \A h \in Handoff : Unsaved(h)' = Unsaved(h) /\ Retrying(h)' >= Retrying(h)
        PROVE  CountInv'
    <2>1. Spent' = Spent
      BY <1>c DEF Spent
    <2>2. \A h \in Handoff : /\ Attempted(h)' = Attempted(h)
                             /\ Unsaved(h)' <= Unsaved(h)
                             /\ Spent' + Unsaved(h)' >= Spent + Unsaved(h)
                             /\ Spent' + Retrying(h)' >= Spent + Retrying(h)
      <3> TAKE h \in Handoff
      <3>1. Unsaved(h) \in {0, 1} /\ Retrying(h) \in {0, 1} /\ Spent \in Nat
        BY <1>b
      <3>2. Retrying(h)' \in {0, 1}
        BY DEF Retrying
      <3> QED BY <1>c, <2>1, <3>1, <3>2
    <2> QED BY <1>a, <1>c, <2>2, CountsKept
  <1>d. ASSUME UNCHANGED receipts, faults > 0, faults' = faults - 1,
               \A h \in Handoff : Attempted(h)' = Attempted(h),
               \A h \in Handoff : Unsaved(h)' = 0
        PROVE  CountInv'
    <2>1. Spent' = Spent + 1
      BY <1>a, <1>d DEF Spent, TypeOK
    <2>2. \A h \in Handoff : /\ Attempted(h)' = Attempted(h)
                             /\ Unsaved(h)' <= Unsaved(h)
                             /\ Spent' + Unsaved(h)' >= Spent + Unsaved(h)
                             /\ Spent' + Retrying(h)' >= Spent + Retrying(h)
      <3> TAKE h \in Handoff
      <3>1. Unsaved(h) \in {0, 1} /\ Retrying(h) \in {0, 1} /\ Spent \in Nat
        BY <1>b
      <3>2. Retrying(h)' \in {0, 1}
        BY DEF Retrying
      <3> QED BY <1>d, <2>1, <3>1, <3>2
    <2> QED BY <1>a, <1>d, <2>2, CountsKept
  <1>e. UNCHANGED world => \A h \in Handoff : Attempted(h)' = Attempted(h)
    BY DEF world, Attempted
  <1>f. ASSUME Exit
        PROVE  \A h \in Handoff : Attempted(h)' = Attempted(h) /\ Unsaved(h)' = 0
    <2> TAKE h \in Handoff
    <2>1. /\ outbox'[h] = 0 /\ lost'[h] = lost[h] + outbox[h]
          /\ posts'[h] = posts[h] /\ issues'[h] = issues[h] /\ job' = NoJob
      BY <1>f DEF Exit
    <2>2. outbox[h] \in Nat /\ posts[h] \in Nat /\ lost[h] \in Nat /\ issues[h] \in Nat
      BY <1>a DEF TypeOK
    <2>3. Attempted(h)' = Attempted(h)
      BY <2>1, <2>2 DEF Attempted
    <2> QED BY <2>1, <2>3 DEF Unsaved, NoJob
  <1>1. CASE DeliverIntegration \/ VerifyIntegrationTarget \/ ExecuteIncidentAction
             \/ RetryDeliveryReceipt
    <2>1. job.step = "idle" /\ UNCHANGED <<receipts, world, faults>>
      BY <1>1 DEF DeliverIntegration, VerifyIntegrationTarget, ExecuteIncidentAction,
                  RetryDeliveryReceipt, Ready
    <2>a. \A h, key, dry, gh, action, base :
             Attempt(h, key, dry, gh, action, base) => job'.step = "send"
      BY DEF Attempt
    <2>b. \A h, i : job' = [NoJob EXCEPT !.step = "record", !.of = h, !.action = TRUE,
                                         !.answer = i]
                      => job'.step = "record"
      BY DEF NoJob
    <2>2. job'.step \in {"send", "record"}
      <3>1. CASE DeliverIntegration
        BY ONLY <3>1, <2>a DEF DeliverIntegration
      <3>2. CASE VerifyIntegrationTarget
        BY ONLY <3>2, <2>a DEF VerifyIntegrationTarget
      <3>3. CASE ExecuteIncidentAction
        <4>1. PICK h \in Keyed :
                 \/ Attempt(h, OwnKey(h), FALSE, Target[h] = "github-issue", TRUE, 0)
                 \/ \E i \in Existing(h, OwnKey(h)) :
                      job' = [NoJob EXCEPT !.step = "record", !.of = h, !.action = TRUE,
                                           !.answer = i]
          BY ONLY <3>3 DEF ExecuteIncidentAction
        <4> QED BY ONLY <4>1, <2>a, <2>b
      <3>4. CASE RetryDeliveryReceipt
        BY ONLY <3>4, <2>a DEF RetryDeliveryReceipt
      <3> QED BY ONLY <1>1, <3>1, <3>2, <3>3, <3>4
    <2>3. \A h \in Handoff : /\ Unsaved(h) = 0 /\ Unsaved(h)' = 0
                             /\ Retrying(h) = 0 /\ Retrying(h)' = 0
      BY <2>1, <2>2 DEF Unsaved, Retrying
    <2> QED BY <1>c, <1>e, <2>1, <2>3
  <1>2. CASE \/ DryRun \/ MissingConfig
             \/ CallGh /\ job' = [job EXCEPT !.step = "save"] /\ UNCHANGED issues
    <2>1. job.step = "send" /\ UNCHANGED <<receipts, faults>>
      BY <1>2 DEF DryRun, MissingConfig, CallGh
    <2>2. \A h \in Handoff : Attempted(h)' = Attempted(h)
      BY <1>2, <1>e DEF DryRun, MissingConfig, CallGh, Attempted
    <2>3. job'.dry = job.dry /\ (job.dry \/ job'.status = "failed")
      BY <1>2, <1>a, <2>1 DEF DryRun, MissingConfig, CallGh, Job
    <2>4. \A h \in Handoff : Unsaved(h) = 0 /\ Unsaved(h)' = 0 /\ Retrying(h) = 0
      BY <2>1, <2>3 DEF Unsaved, Retrying
    <2>5. \A h \in Handoff : Retrying(h)' >= 0
      BY DEF Retrying
    <2> QED BY <1>c, <2>1, <2>2, <2>4, <2>5
  <1>3. CASE \/ CallFetch
             \/ /\ CallGh
                /\ issues' = [issues EXCEPT ![job.of] = @ + 1]
                /\ job' = [job EXCEPT !.step = "save", !.status = "delivered"]
    <2>1. /\ job.step = "send" /\ ~job.dry /\ UNCHANGED <<receipts, faults>>
          /\ job' = [job EXCEPT !.step = "save", !.status = "delivered"]
      BY <1>3, <1>a DEF CallFetch, CallGh, Job
    <2>2. /\ job'.step = "save" /\ job'.status = "delivered" /\ job'.dry = job.dry
          /\ job'.of = job.of /\ job'.base = job.base
      BY <1>a, <2>1 DEF Job
    <2>3. \A h \in Handoff : Attempted(h)' = Attempted(h) + (IF h = job.of THEN 1 ELSE 0)
      <3> TAKE h \in Handoff
      <3>1. outbox[h] \in Nat /\ posts[h] \in Nat /\ lost[h] \in Nat /\ issues[h] \in Nat
        BY <1>a DEF TypeOK
      <3>2. /\ DOMAIN outbox = Handoff /\ DOMAIN issues = Handoff
            /\ outbox = [x \in Handoff |-> outbox[x]] /\ issues = [x \in Handoff |-> issues[x]]
        BY <1>a DEF TypeOK
      <3>3. CASE CallFetch
        <4>1. /\ outbox'[h] = IF h = job.of THEN outbox[h] + 1 ELSE outbox[h]
              /\ posts' = posts /\ lost' = lost /\ issues' = issues
          BY <3>2, <3>3 DEF CallFetch
        <4> QED BY <3>1, <4>1 DEF Attempted
      <3>4. CASE CallGh /\ issues' = [issues EXCEPT ![job.of] = @ + 1]
        <4>1. /\ issues'[h] = IF h = job.of THEN issues[h] + 1 ELSE issues[h]
              /\ posts' = posts /\ lost' = lost /\ outbox' = outbox
          BY <3>2, <3>4 DEF CallGh
        <4> QED BY <3>1, <4>1 DEF Attempted
      <3> QED BY <1>3, <3>3, <3>4
    <2> QED BY <1>a, <2>1, <2>2, <2>3, CountsOfSend
  <1>4. CASE SaveReceipt
    BY <1>4, CountsOfSave
  <1>5. CASE SyncLineage
    <2>1. /\ job' = Proceed(job) /\ job.step = "lineage" /\ UNCHANGED <<receipts, world, faults>>
      BY <1>5 DEF SyncLineage
    <2>2. \/ job.base # 0 /\ job'.step = "link" /\ job'.of = job.of /\ job'.base = job.base
          \/ job.base = 0 /\ job'.step \in {"record", "idle"}
      BY <1>a, <2>1, ProceedTo DEF NoJob
    <2>3. \A h \in Handoff : /\ Unsaved(h) = 0 /\ Unsaved(h)' = 0
                             /\ Retrying(h)' = Retrying(h)
      BY <2>1, <2>2 DEF Unsaved, Retrying
    <2>4. \A h \in Handoff : Retrying(h)' >= Retrying(h)
      BY <1>b, <2>3
    <2> QED BY <1>c, <1>e, <2>1, <2>3, <2>4
  <1>6. CASE LinkRetry
    BY <1>6, <1>a, CountsOfLink
  <1>7. CASE SaveIncidentActionRecord
    <2>1. job.step = "record" /\ job' = NoJob /\ UNCHANGED <<receipts, world, faults>>
      BY <1>7 DEF SaveIncidentActionRecord
    <2>2. \A h \in Handoff : /\ Unsaved(h) = 0 /\ Unsaved(h)' = 0
                             /\ Retrying(h) = 0 /\ Retrying(h)' = 0
      BY <2>1 DEF Unsaved, Retrying, NoJob
    <2> QED BY <1>c, <1>e, <2>1, <2>2
  <1>8. CASE StatementFails
    <2>1. UNCHANGED <<receipts, world>> /\ faults > 0 /\ faults' = faults - 1
      BY <1>8 DEF StatementFails
    <2>2. job'.status = "failed"
      BY <1>8, <1>a DEF StatementFails, NoJob, Job
    <2>3. \A h \in Handoff : Unsaved(h)' = 0
      BY <2>2 DEF Unsaved
    <2> QED BY <1>d, <1>e, <2>1, <2>3
  <1>9. CASE ProcessDies
    BY <1>9, <1>d, <1>f DEF ProcessDies, Exit
  <1>10. CASE Restart
    <2>1. job.step = "idle" /\ job' = NoJob /\ UNCHANGED <<receipts, faults>>
      BY <1>10 DEF Restart, Exit
    <2>2. \A h \in Handoff : /\ Unsaved(h) = 0 /\ Unsaved(h)' = 0
                             /\ Retrying(h) = 0 /\ Retrying(h)' = 0
      BY <2>1 DEF Unsaved, Retrying, NoJob
    <2> QED BY <1>10, <1>c, <1>f, <2>1, <2>2 DEF Restart
  <1>11. CASE ChannelAnswers
    <2>1. \A h \in Handoff : Attempted(h)' = Attempted(h)
      <3> TAKE g \in Handoff
      <3>1. PICK h \in Handoff :
               /\ outbox[h] > 0
               /\ outbox' = [outbox EXCEPT ![h] = @ - 1]
               /\ \/ posts' = [posts EXCEPT ![h] = @ + 1] /\ UNCHANGED lost
                  \/ lost' = [lost EXCEPT ![h] = @ + 1] /\ UNCHANGED posts
        BY <1>11 DEF ChannelAnswers
      <3>2. /\ outbox \in [Handoff -> Nat] /\ posts \in [Handoff -> Nat]
            /\ lost \in [Handoff -> Nat] /\ issues \in [Handoff -> Nat] /\ issues' = issues
        BY <1>11, <1>a DEF TypeOK, ChannelAnswers
      <3>3. /\ outbox[g] \in Nat /\ posts[g] \in Nat /\ lost[g] \in Nat /\ issues[g] \in Nat
            /\ outbox'[g] = IF g = h THEN outbox[g] - 1 ELSE outbox[g]
            /\ issues'[g] = issues[g]
        BY <3>1, <3>2
      <3>4. \/ posts'[g] = (IF g = h THEN posts[g] + 1 ELSE posts[g]) /\ lost'[g] = lost[g]
            \/ lost'[g] = (IF g = h THEN lost[g] + 1 ELSE lost[g]) /\ posts'[g] = posts[g]
        BY <3>1, <3>2
      <3> QED BY <3>3, <3>4 DEF Attempted
    <2>2. UNCHANGED <<receipts, faults, job>>
      BY <1>11 DEF ChannelAnswers
    <2>3. \A h \in Handoff : Unsaved(h)' = Unsaved(h) /\ Retrying(h)' = Retrying(h)
      BY <2>2 DEF Unsaved, Retrying
    <2>4. \A h \in Handoff : Retrying(h)' >= Retrying(h)
      BY <1>b, <2>3
    <2> QED BY <1>c, <2>1, <2>2, <2>3, <2>4
  <1>12. CASE UNCHANGED vars
    <2>1. UNCHANGED <<receipts, faults, job, world>>
      BY <1>12 DEF vars, world
    <2>2. \A h \in Handoff : Unsaved(h)' = Unsaved(h) /\ Retrying(h)' = Retrying(h)
      BY <2>1 DEF Unsaved, Retrying
    <2>3. \A h \in Handoff : Retrying(h)' >= Retrying(h)
      BY <1>b, <2>2
    <2> QED BY <1>c, <1>e, <2>1, <2>2, <2>3
  <1>13. CallGh =>
            \/ job' = [job EXCEPT !.step = "save"] /\ UNCHANGED issues
            \/ /\ issues' = [issues EXCEPT ![job.of] = @ + 1]
               /\ job' = [job EXCEPT !.step = "save", !.status = "delivered"]
    BY ONLY DEF CallGh
  <1>14. CASE CallGh
    BY ONLY <1>2, <1>3, <1>13, <1>14
  <1>15. CASE Next
    BY ONLY <1>1, <1>2, <1>3, <1>4, <1>5, <1>6, <1>7, <1>8, <1>9, <1>10, <1>11, <1>14, <1>15
       DEF Next
  <1> QED BY <1>12, <1>15

\* Receipts, keys and counts hold in every state.
THEOREM CountsHold == Spec => [](IInv /\ RequestInv /\ CountInv)
  <1>1. Spec => []IInv
    BY DeliveryInvHolds
  <1>2. Spec => []RequestInv
    BY <1>1, RequestInit, RequestNext, PTL DEF Spec
  <1>3. Spec => []CountInv
    BY <1>1, <1>2, CountInit, CountNext, PTL DEF Spec
  <1> QED BY <1>1, <1>2, <1>3, PTL

\* Nothing goes out without a receipt, but for the request under way and one for each fault.
THEOREM SendsReceipted == Spec => []SendsAreReceipted
  <1>1. ASSUME IInv, RequestInv, CountInv, NEW h \in Handoff
        PROVE  Attempted(h) <= Cardinality(LiveSet(h)) + Spent
                                 + (IF UnderWay(h) THEN 1 ELSE 0)
    <2>1. /\ Spent \in Nat /\ Attempted(h) \in Nat /\ Cardinality(LiveSet(h)) \in Nat
          /\ Unsaved(h) \in {0, 1}
      BY <1>1, CountTypes DEF IInv
    <2>2. Attempted(h) <= Cardinality(LiveSet(h)) + Spent + Unsaved(h)
      BY <1>1 DEF CountInv
    <2>3. Unsaved(h) <= IF UnderWay(h) THEN 1 ELSE 0
      BY DEF Unsaved, UnderWay
    <2> QED BY ONLY <2>1, <2>2, <2>3
  <1>2. IInv /\ RequestInv /\ CountInv => SendsAreReceipted
    BY <1>1 DEF SendsAreReceipted, Receipts, LiveSet
  <1> QED BY <1>2, CountsHold, PTL

\* A handoff of an incident goes out once and once for each retry, and for each fault.
THEOREM SentOnce == Spec => []SentOncePerKey
  <1>1. ASSUME IInv, RequestInv, CountInv, NEW h \in Keyed
        PROVE  Attempted(h) <= 1 + Cardinality(RetriedSet(h)) + Spent
                                 + (IF job.of = h /\ job.base # 0 THEN 1 ELSE 0)
    <2>1. /\ Spent \in Nat /\ Attempted(h) \in Nat /\ Cardinality(RetriedSet(h)) \in Nat
          /\ Retrying(h) \in {0, 1}
      BY <1>1, CountTypes DEF IInv
    <2>2. Attempted(h) <= 1 + Cardinality(RetriedSet(h)) + Spent + Retrying(h)
      BY <1>1 DEF CountInv
    <2>3. Retrying(h) <= IF job.of = h /\ job.base # 0 THEN 1 ELSE 0
      BY DEF Retrying
    <2> QED BY ONLY <2>1, <2>2, <2>3
  <1>2. IInv /\ RequestInv /\ CountInv => SentOncePerKey
    BY <1>1 DEF SentOncePerKey, Receipts, RetriedSet
  <1> QED BY <1>2, CountsHold, PTL

\* What the receipts claim to have delivered was sent.
THEOREM ClaimsWereSent == Spec => []AttemptBehindReceipt
  <1>1. ASSUME IInv, RequestInv, CountInv, NEW h \in Handoff
        PROVE  Cardinality(ClaimedSet(h)) <= Attempted(h)
    <2>1. /\ Attempted(h) \in Nat /\ Cardinality(ClaimedSet(h)) \in Nat
          /\ Unsaved(h) \in {0, 1}
      BY <1>1, CountTypes DEF IInv
    <2>2. Cardinality(ClaimedSet(h)) + Unsaved(h) <= Attempted(h)
      BY <1>1 DEF CountInv
    <2> QED BY ONLY <2>1, <2>2
  <1>2. IInv /\ RequestInv /\ CountInv => AttemptBehindReceipt
    BY <1>1 DEF AttemptBehindReceipt, Receipts, ClaimedSet
  <1> QED BY <1>2, CountsHold, PTL
=============================================================================
