--------------------------- MODULE EventProcessing ---------------------------
(***************************************************************************)
(* Event intake of the cost reporter: the SQS event queue, the analyzer    *)
(* Lambda invocations that drain it in batches, and the DynamoDB           *)
(* idempotency table they claim work in.                                   *)
(*                                                                         *)
(* Source: src/src/runtime/handlers.py (analyzer_handler and the handlers  *)
(* below it), src/src/runtime/idempotency.py (DynamoIdempotencyStore),     *)
(* src/src/runtime/publisher.py (CompositePublisher).  The queue and the   *)
(* Lambda poller are AWS services, modelled from src/template.yaml.        *)
(*                                                                         *)
(* Time is kept in countdown timers: what a message, a lease or an         *)
(* invocation has left, all decremented together by Tick.                  *)
(***************************************************************************)
EXTENDS Integers, FiniteSets

CONSTANTS
  Msgs,            \* SQS messages, all sent to the queue at the start
  Ignored,         \* messages whose event is not actionable or not ours
  Keys,            \* dedupe keys
  KeyOf,           \* the dedupe key of a message's event
  ChangeSetKeys,   \* keys of change set events; the others are stack events
  Workers,         \* concurrent invocations (ReservedConcurrentExecutions)
  Destinations,    \* the publishers of the CompositePublisher
  NoMsg,           \* "no current record"
  LambdaTimeout,   \* 300 s, scaled
  Lease,           \* 330 s, scaled (lease_seconds)
  Visibility,      \* 360 s, scaled (VisibilityTimeout)
  BatchSize,       \* 10, scaled
  MaxReceive,      \* 10, scaled (maxReceiveCount)
  MaxFaults,       \* bound: faults of every kind in one behaviour
  StoreOutages,    \* may calls to the idempotency table fail?
  SqsDuplicates    \* may SQS hand out a message that is in flight?

ASSUME NamesAssumption ==
  /\ KeyOf \in [Msgs -> Keys]
  /\ Ignored \subseteq Msgs
  /\ ChangeSetKeys \subseteq Keys
  /\ NoMsg \notin Msgs

ASSUME TimingAssumption ==
  /\ LambdaTimeout \in Nat
  /\ Lease \in Nat
  /\ Visibility \in Nat
  /\ LambdaTimeout < Lease
  /\ Lease < Visibility

ASSUME BoundsAssumption ==
  /\ BatchSize \in Nat \ {0}
  /\ MaxReceive \in Nat \ {0}
  /\ MaxFaults \in Nat
  /\ StoreOutages \in BOOLEAN
  /\ SqsDuplicates \in BOOLEAN

VARIABLES
  msg,        \* where each message is
  hidden,     \* time until an in-flight message is visible again
  receives,   \* ApproximateReceiveCount
  row,        \* status of each key's row, "none" when there is no row
  lease,      \* leaseUntil - now of a PROCESSING row, floored at -1
  pc,         \* what each invocation does next
  timeLeft,   \* time until Lambda kills the invocation
  batch,      \* records of the invocation
  todo,       \* records it has not looked at
  cur,        \* record it is processing
  failed,     \* batchItemFailures so far
  sent,       \* has the current record's report been published?
  accepted,   \* history: how often a destination took the key's report
  suppressed, \* history: keys whose analysis ended without a report
  replays,    \* history: faults that hit a key once its report was out
  faults      \* faults so far

sqs == <<msg, hidden, receives>>
table == <<row, lease>>
record == <<cur, sent>>
invocation == <<timeLeft, batch, todo>>
history == <<accepted, suppressed, replays>>
vars == <<sqs, table, pc, invocation, record, failed, history, faults>>

Statuses == {"none", "PROCESSING", "COMPLETED"}
PC == {"idle", "next", "inspect", "analyze", "publish", "suppress", "commit",
       "complete", "release"}

(* The control points at which an invocation holds ClaimResult.ACQUIRED. *)
Owning == {"analyze", "publish", "suppress", "commit", "complete", "release"}

Init ==
  /\ msg = [m \in Msgs |-> "queued"]
  /\ hidden = [m \in Msgs |-> 0]
  /\ receives = [m \in Msgs |-> 0]
  /\ row = [k \in Keys |-> "none"]
  /\ lease = [k \in Keys |-> -1]
  /\ pc = [w \in Workers |-> "idle"]
  /\ timeLeft = [w \in Workers |-> 0]
  /\ batch = [w \in Workers |-> {}]
  /\ todo = [w \in Workers |-> {}]
  /\ cur = [w \in Workers |-> NoMsg]
  /\ failed = [w \in Workers |-> {}]
  /\ sent = [w \in Workers |-> FALSE]
  /\ accepted = [k \in Keys |-> [d \in Destinations |-> 0]]
  /\ suppressed = {}
  /\ replays = [k \in Keys |-> 0]
  /\ faults = 0

(***************************************************************************)
(* Helpers                                                                 *)
(***************************************************************************)

KeyIn(w) == KeyOf[cur[w]]

Fault == faults < MaxFaults /\ faults' = faults + 1
NoFault == UNCHANGED faults

(* A call to the idempotency table that raises something other than a      *)
(* conditional failure.                                                    *)
Outage == StoreOutages /\ Fault

(* Mutants of Claimable: no takeover of an expired lease; a takeover       *)
(* without looking at the lease; a takeover without looking at the status. *)
ClaimableOnlyNew(k) == row[k] = "none"
ClaimableIgnoringLease(k) == row[k] # "COMPLETED"
ClaimableIgnoringStatus(k) == row[k] = "none" \/ lease[k] < 0

(* ConditionExpression of the claim: attribute_not_exists(pk), or a        *)
(* PROCESSING row with leaseUntil < now.                                   *)
Claimable(k) ==
  \/ row[k] = "none"
  \/ row[k] = "PROCESSING" /\ lease[k] < 0

(* Mutant of PutClaim: a lease shorter than the invocation may run. *)
PutClaimTooShort(k) ==
  /\ row' = [row EXCEPT ![k] = "PROCESSING"]
  /\ lease' = [lease EXCEPT ![k] = LambdaTimeout - 1]

(* The claim's put: PROCESSING with leaseUntil = now + lease_seconds. *)
PutClaim(k) ==
  /\ row' = [row EXCEPT ![k] = "PROCESSING"]
  /\ lease' = [lease EXCEPT ![k] = Lease]

(* A fault of the current record counts as a replay when its report had    *)
(* already been handed to a destination.                                   *)
CountReplay(w, out) ==
  replays' = IF out THEN [replays EXCEPT ![KeyIn(w)] = @ + 1] ELSE replays

(* Mutant of FinishRecord: the failure is not put in batchItemFailures. *)
FinishRecordSilently(w, failure) ==
  /\ pc' = [pc EXCEPT ![w] = "next"]
  /\ cur' = [cur EXCEPT ![w] = NoMsg]
  /\ sent' = [sent EXCEPT ![w] = FALSE]
  /\ UNCHANGED failed

(* The record is finished; with TRUE it goes into batchItemFailures.       *)
FinishRecord(w, failure) ==
  /\ pc' = [pc EXCEPT ![w] = "next"]
  /\ failed' = [failed EXCEPT ![w] = IF failure THEN @ \cup {cur[w]} ELSE @]
  /\ cur' = [cur EXCEPT ![w] = NoMsg]
  /\ sent' = [sent EXCEPT ![w] = FALSE]

Goto(w, label) ==
  /\ pc' = [pc EXCEPT ![w] = label]
  /\ UNCHANGED <<cur, failed>>

(***************************************************************************)
(* The queue and the Lambda poller                                         *)
(***************************************************************************)

Visible(m) == msg[m] = "queued" /\ hidden[m] = 0

Deliver(w, records) ==
  /\ pc[w] = "idle"
  /\ pc' = [pc EXCEPT ![w] = "next"]
  /\ timeLeft' = [timeLeft EXCEPT ![w] = LambdaTimeout]
  /\ batch' = [batch EXCEPT ![w] = records]
  /\ todo' = [todo EXCEPT ![w] = records]
  /\ hidden' = [m \in Msgs |-> IF m \in records THEN Visibility ELSE hidden[m]]
  /\ receives' = [m \in Msgs |->
                    IF m \in records THEN receives[m] + 1 ELSE receives[m]]
  /\ UNCHANGED <<msg, table, record, failed, history>>

(* The poller receives visible messages and invokes the analyzer.          *)
Receive(w, records) ==
  /\ records # {} /\ Cardinality(records) <= BatchSize
  /\ \A m \in records : Visible(m) /\ receives[m] < MaxReceive
  /\ Deliver(w, records)
  /\ NoFault

(* At-least-once delivery: a message that is in flight arrives again.      *)
ReceiveAgain(w, m) ==
  /\ SqsDuplicates /\ Fault
  /\ msg[m] = "queued" /\ hidden[m] > 0 /\ receives[m] < MaxReceive
  /\ Deliver(w, {m})

(* RedrivePolicy: too many receives move the message to the DLQ.           *)
DeadLetter(m) ==
  /\ Visible(m) /\ receives[m] = MaxReceive
  /\ msg' = [msg EXCEPT ![m] = "dead"]
  /\ UNCHANGED <<hidden, receives, table, pc, invocation, record, failed,
                 history, faults>>

(***************************************************************************)
(* analyzer_handler                                                        *)
(***************************************************************************)

(* No body, no JSON, NotActionable, or this plugin's own stack: the record *)
(* is discarded and acknowledged.                                          *)
Discard(w, m) ==
  /\ pc[w] = "next" /\ m \in todo[w] \cap Ignored
  /\ todo' = [todo EXCEPT ![w] = @ \ {m}]
  /\ UNCHANGED <<sqs, table, pc, timeLeft, batch, record, failed, history,
                 faults>>

(* DynamoIdempotencyStore.claim: the conditional put.  An unavailable      *)
(* store means the work goes ahead, with or without the put applied.       *)
Claim(w, m) ==
  /\ pc[w] = "next" /\ m \in todo[w] \ Ignored
  /\ todo' = [todo EXCEPT ![w] = @ \ {m}]
  /\ cur' = [cur EXCEPT ![w] = m]
  /\ \/ /\ Claimable(KeyOf[m]) /\ PutClaim(KeyOf[m]) /\ NoFault
        /\ pc' = [pc EXCEPT ![w] = "analyze"]
     \/ /\ ~Claimable(KeyOf[m]) /\ NoFault
        /\ pc' = [pc EXCEPT ![w] = "inspect"]
        /\ UNCHANGED table
     \/ /\ Outage
        /\ \/ UNCHANGED table
           \/ Claimable(KeyOf[m]) /\ PutClaim(KeyOf[m])
        /\ pc' = [pc EXCEPT ![w] = "analyze"]
  /\ UNCHANGED <<sqs, timeLeft, batch, sent, failed, history>>

(* Mutant of ReadsComplete: a COMPLETED row is taken for work in progress. *)
ReadsCompleteWhenGone(k) == row[k] = "none"

(* _existing_claim answers COMPLETE for a COMPLETED row and for a row that *)
(* is gone by now, BUSY otherwise.                                         *)
ReadsComplete(k) == row[k] \in {"none", "COMPLETED"}

(* DynamoIdempotencyStore._existing_claim: COMPLETE acknowledges the       *)
(* record, BUSY returns it to the queue; a failed read counts as BUSY.     *)
Inspect(w) ==
  /\ pc[w] = "inspect"
  /\ \/ NoFault /\ FinishRecord(w, ~ReadsComplete(KeyIn(w)))
     \/ Outage /\ FinishRecord(w, TRUE)
  /\ UNCHANGED <<sqs, table, invocation, history>>

(* Analyzer.analyze / analyze_change_set: a report, a skipped outcome, an  *)
(* exception, or - change sets only - ChangeSetNotReady.                   *)
Analyze(w) ==
  /\ pc[w] = "analyze"
  /\ \/ NoFault /\ Goto(w, "publish")
     \/ NoFault /\ Goto(w, "suppress")
     \/ NoFault /\ KeyIn(w) \in ChangeSetKeys /\ Goto(w, "release")
     \/ Fault /\ Goto(w, "release")
  /\ UNCHANGED <<sqs, table, invocation, sent, history>>

(* Mutant of Publish: a destination's failure is logged and swallowed. *)
PublishSwallowing(w) ==
  /\ pc[w] = "publish"
  /\ Goto(w, "commit")
  /\ sent' = [sent EXCEPT ![w] = TRUE]
  /\ \/ NoFault /\ accepted' = [accepted EXCEPT ![KeyIn(w)] =
                                  [d \in Destinations |-> @[d] + 1]]
     \/ Fault /\ UNCHANGED accepted
  /\ UNCHANGED <<sqs, table, invocation, suppressed, replays>>

(* CompositePublisher.publish tries every destination and raises when one  *)
(* failed; a destination may have taken a report whose call raised.        *)
Publish(w) ==
  /\ pc[w] = "publish"
  /\ \E took \in SUBSET Destinations :
       /\ accepted' = [accepted EXCEPT ![KeyIn(w)] =
                         [d \in Destinations |->
                            IF d \in took THEN @[d] + 1 ELSE @[d]]]
       /\ \/ /\ took = Destinations /\ NoFault /\ Goto(w, "commit")
             /\ sent' = [sent EXCEPT ![w] = TRUE]
             /\ UNCHANGED replays
          \/ /\ Fault /\ Goto(w, "release")
             /\ CountReplay(w, took # {})
             /\ UNCHANGED sent
  /\ UNCHANGED <<sqs, table, invocation, suppressed>>

(* _deliver for a skipped outcome: commit (which may raise) and no report. *)
Suppress(w) ==
  /\ pc[w] = "suppress"
  /\ \/ NoFault /\ Goto(w, "complete") /\ suppressed' = suppressed \cup {KeyIn(w)}
     \/ Fault /\ KeyIn(w) \notin ChangeSetKeys /\ Goto(w, "release")
        /\ UNCHANGED suppressed
  /\ UNCHANGED <<sqs, table, invocation, sent, accepted, replays>>

(* Analyzer.commit after the publish.  Change sets have nothing to commit. *)
Commit(w) ==
  /\ pc[w] = "commit"
  /\ \/ NoFault /\ Goto(w, "complete") /\ UNCHANGED replays
     \/ Fault /\ KeyIn(w) \notin ChangeSetKeys /\ Goto(w, "release")
        /\ CountReplay(w, TRUE)
  /\ UNCHANGED <<sqs, table, invocation, sent, accepted, suppressed>>

(* DynamoIdempotencyStore.complete: an unconditional update that creates   *)
(* the row when it is gone; errors are logged and swallowed.               *)
MarkCompleted(k) ==
  /\ row' = [row EXCEPT ![k] = "COMPLETED"]
  /\ lease' = [lease EXCEPT ![k] = -1]

Complete(w) ==
  /\ pc[w] = "complete"
  /\ FinishRecord(w, FALSE)
  /\ \/ NoFault /\ MarkCompleted(KeyIn(w)) /\ UNCHANGED replays
     \/ Outage /\ UNCHANGED table /\ CountReplay(w, sent[w])
     \/ Outage /\ MarkCompleted(KeyIn(w)) /\ UNCHANGED replays
  /\ UNCHANGED <<sqs, invocation, accepted, suppressed>>

(* DynamoIdempotencyStore.release: an unconditional delete; errors are     *)
(* logged and swallowed.                                                   *)
DeleteRow(k) ==
  /\ row' = [row EXCEPT ![k] = "none"]
  /\ lease' = [lease EXCEPT ![k] = -1]

Release(w) ==
  /\ pc[w] = "release"
  /\ FinishRecord(w, TRUE)
  /\ \/ NoFault /\ DeleteRow(KeyIn(w))
     \/ Outage /\ (UNCHANGED table \/ DeleteRow(KeyIn(w)))
  /\ UNCHANGED <<sqs, invocation, history>>

(* Mutant of Stop: a reused container keeps the record it died on. *)
StopKeepingRecord(w) ==
  /\ pc' = [pc EXCEPT ![w] = "idle"]
  /\ timeLeft' = [timeLeft EXCEPT ![w] = 0]
  /\ batch' = [batch EXCEPT ![w] = {}]
  /\ todo' = [todo EXCEPT ![w] = {}]
  /\ failed' = [failed EXCEPT ![w] = {}]
  /\ sent' = [sent EXCEPT ![w] = FALSE]
  /\ UNCHANGED cur

(* The invocation is over. *)
Stop(w) ==
  /\ pc' = [pc EXCEPT ![w] = "idle"]
  /\ timeLeft' = [timeLeft EXCEPT ![w] = 0]
  /\ batch' = [batch EXCEPT ![w] = {}]
  /\ todo' = [todo EXCEPT ![w] = {}]
  /\ cur' = [cur EXCEPT ![w] = NoMsg]
  /\ failed' = [failed EXCEPT ![w] = {}]
  /\ sent' = [sent EXCEPT ![w] = FALSE]

(* The handler returns; the poller deletes every record that is not in     *)
(* batchItemFailures.  Failed ones reappear when their visibility ends.    *)
Return(w) ==
  /\ pc[w] = "next" /\ todo[w] = {}
  /\ msg' = [m \in Msgs |->
               IF m \in batch[w] \ failed[w] /\ msg[m] = "queued"
               THEN "deleted" ELSE msg[m]]
  /\ Stop(w)
  /\ UNCHANGED <<hidden, receives, table, history, faults>>

(* Lambda timeout, out of memory or lost container: nothing is released,   *)
(* nothing acknowledged.                                                   *)
Crash(w) ==
  /\ pc[w] # "idle" /\ Fault
  /\ Stop(w)
  /\ CountReplay(w, sent[w] /\ pc[w] \in {"commit", "complete"})
  /\ UNCHANGED <<sqs, table, accepted, suppressed>>

(* Time passes.  No invocation outlives its timeout.                       *)
Tick ==
  /\ \A w \in Workers : pc[w] # "idle" => timeLeft[w] > 0
  /\ timeLeft' = [w \in Workers |-> IF pc[w] = "idle" THEN 0 ELSE timeLeft[w] - 1]
  /\ hidden' = [m \in Msgs |-> IF hidden[m] > 0 THEN hidden[m] - 1 ELSE 0]
  /\ lease' = [k \in Keys |-> IF lease[k] >= 0 THEN lease[k] - 1 ELSE -1]
  /\ UNCHANGED <<msg, receives, row, pc, batch, todo, record, failed, history,
                 faults>>

(* One step of the analyzer itself, faults of what it calls included. *)
Step(w) ==
  \/ \E m \in Msgs : Discard(w, m) \/ Claim(w, m)
  \/ Inspect(w) \/ Analyze(w) \/ Publish(w) \/ Suppress(w) \/ Commit(w)
  \/ Complete(w) \/ Release(w) \/ Return(w)

Next ==
  \/ \E w \in Workers : Step(w) \/ Crash(w)
  \/ \E w \in Workers, records \in SUBSET Msgs : Receive(w, records)
  \/ \E w \in Workers, m \in Msgs : ReceiveAgain(w, m)
  \/ \E m \in Msgs : DeadLetter(m)
  \/ Tick

Spec == Init /\ [][Next]_vars

(* Lambda runs an invocation on, the poller keeps polling, SQS redrives,   *)
(* and time passes.  Faults are never owed.                                *)
Fairness ==
  /\ WF_vars(Tick)
  /\ \A w \in Workers : WF_vars(Step(w))
  /\ \A m \in Msgs :
       /\ WF_vars(\E w \in Workers, records \in SUBSET Msgs :
                    m \in records /\ Receive(w, records))
       /\ WF_vars(DeadLetter(m))

FairSpec == Spec /\ Fairness

(***************************************************************************)
(* Properties                                                              *)
(***************************************************************************)

(* Every variable keeps its type. *)
TypeOK ==
  /\ msg \in [Msgs -> {"queued", "deleted", "dead"}]
  /\ hidden \in [Msgs -> 0..Visibility]
  /\ receives \in [Msgs -> 0..MaxReceive]
  /\ row \in [Keys -> Statuses]
  /\ lease \in [Keys -> -1..Lease]
  /\ pc \in [Workers -> PC]
  /\ timeLeft \in [Workers -> 0..LambdaTimeout]
  /\ batch \in [Workers -> SUBSET Msgs]
  /\ todo \in [Workers -> SUBSET Msgs]
  /\ cur \in [Workers -> Msgs \cup {NoMsg}]
  /\ failed \in [Workers -> SUBSET Msgs]
  /\ sent \in [Workers -> BOOLEAN]
  /\ accepted \in [Keys -> [Destinations -> Nat]]
  /\ suppressed \subseteq Keys
  /\ replays \in [Keys -> Nat]
  /\ faults \in Nat
  /\ \A w \in Workers : cur[w] \in Msgs <=> pc[w] \in Owning \cup {"inspect"}

Owns(w, k) == pc[w] \in Owning /\ KeyIn(w) = k

(* "The claim is a conditional write, so two concurrent Lambdas cannot     *)
(* both win" (idempotency.py): while the table answers, no two invocations *)
(* work on one key, lease expiry and takeover included.                    *)
OneOwner ==
  ~StoreOutages =>
    \A v, w \in Workers, k \in Keys : Owns(v, k) /\ Owns(w, k) => v = w

(* While the table answers, the lease of a claim outlasts the invocation   *)
(* that works under it (330 s against 300 s), so the takeover of an        *)
(* expired lease never takes work from an invocation that is still alive.  *)
LeaseCoversWork ==
  ~StoreOutages =>
    \A w \in Workers : pc[w] \in Owning =>
      row[KeyIn(w)] = "PROCESSING" /\ timeLeft[w] <= lease[KeyIn(w)]

(* While the table answers, a COMPLETED row is never overwritten by a      *)
(* claim nor deleted by a release: completed work stays deduplicated.      *)
CompletedStays ==
  [][~StoreOutages =>
       \A k \in Keys : row[k] = "COMPLETED" => row'[k] = "COMPLETED"]_vars

(* A destination is given a key's report again only after a fault struck   *)
(* once the report was out (README "Duplicate report": a retry after       *)
(* partial delivery or commit failure can replay an accepted destination). *)
DuplicatesHaveACause ==
  ~StoreOutages =>
    \A k \in Keys, d \in Destinations : accepted[k][d] <= 1 + replays[k]

(* A COMPLETED row means the outcome is out: suppressed on purpose, or     *)
(* taken by every destination, so deduplicating against it loses nothing.  *)
CompletedIsDelivered ==
  \A k \in Keys : row[k] = "COMPLETED" =>
    k \in suppressed \/ \A d \in Destinations : accepted[k][d] > 0

Handled(k) == k \in suppressed \/ \A d \in Destinations : accepted[k][d] > 0

(* "A missing report is worse than a duplicate one" (idempotency.py): when *)
(* a message has been acknowledged, its event was handled or another       *)
(* message with its key is still in the queue or in the dead-letter queue. *)
NoSilentLoss ==
  \A m \in Msgs \ Ignored : msg[m] = "deleted" =>
    \/ Handled(KeyOf[m])
    \/ \E n \in Msgs \ Ignored : KeyOf[n] = KeyOf[m] /\ msg[n] # "deleted"

(* Waiting for another invocation's claim alone never dead-letters a stack *)
(* event: a fault costs it at most two receives, the failed one and one    *)
(* that finds the lease of the failed one still running, and an attempt    *)
(* that goes well at most two more.                                        *)
DeadLettersHaveCauses ==
  \A m \in Msgs : msg[m] = "dead" /\ KeyOf[m] \notin ChangeSetKeys =>
    2 * faults + 2 >= MaxReceive

(* If retries outnumber what the faults can cost, every stack event's      *)
(* outcome gets out: after a crash the lease expires and a retry takes the *)
(* work over.                                                              *)
EventuallyHandled ==
  MaxReceive > 2 * MaxFaults + 2 =>
    \A m \in Msgs \ Ignored :
      KeyOf[m] \notin ChangeSetKeys => <>Handled(KeyOf[m])
==============================================================================
