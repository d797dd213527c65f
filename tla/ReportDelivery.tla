---------------------------- MODULE ReportDelivery ----------------------------
(***************************************************************************)
(* Reports of one stack on their way from the SNS topic into Slack and     *)
(* into a mailbox.                                                         *)
(*                                                                         *)
(* Source: src/src/runtime/slack.py (SlackForwarder, SlackClient,          *)
(* DynamoMessageStore), email.py (SesMailer), slack_handler and            *)
(* email_handler in handlers.py, SlackFunction and EmailReportFunction in  *)
(* src/template.yaml.                                                      *)
(*                                                                         *)
(* SNS hands each report to each subscriber in an invocation of its own    *)
(* (one record per event), concurrently and in any order.  Lambda repeats  *)
(* an invocation that raised, then puts it on the delivery dead-letter     *)
(* queue.  Messages of the channel are named by their position, which      *)
(* stands for the timestamp Slack answers.  Rendering is left out.         *)
(***************************************************************************)
EXTENDS Integers, Sequences, FiniteSets

CONSTANTS
  Deliveries,   \* invocations for [subscriber, cycle, phase]
  MaxAttempts,  \* how often Lambda tries
  MaxFaults     \* bound: failed calls and removed messages

(* A cycle is a deployment: an estimate of it, and its confirmed report.   *)
ASSUME DeliveryAssumption ==
  /\ Deliveries \subseteq [subscriber : {"slack", "email"}, cycle : Nat,
                           phase : {"ESTIMATE", "CONFIRMED"}]
  /\ MaxAttempts \in Nat \ {0} /\ MaxFaults \in Nat

VARIABLES
  pc,        \* where each invocation is
  attempts,  \* how often it was started
  existing,  \* the message it looked up, or posted
  channel,   \* the messages: whose report each shows, and whether it is there
  mails,     \* how often each report was mailed
  row,       \* the remembered message of the stack, 0 for none
  stale,     \* what the row said before, which a read may still find
  exposed,   \* history: messages that stayed remembered although edited, were
             \* looked up twice, or were read from a row already overwritten
  calm,      \* history: one report after the other, in order, without faults,
             \* and every read found what was written last
  faults

vars == <<pc, attempts, existing, channel, mails, row, stale, exposed, calm, faults>>

None == 0
Settled == {"delivered", "refused", "dead"}
InProgress == {"lookup", "update", "forget", "post", "remember"}
Slack == {d \in Deliveries : d.subscriber = "slack"}
Messages == DOMAIN channel

Init ==
  /\ pc = [d \in Deliveries |-> "unpublished"]
  /\ attempts = [d \in Deliveries |-> 0]
  /\ existing = [d \in Deliveries |-> None]
  /\ channel = <<>>
  /\ mails = [d \in Deliveries |-> 0]
  /\ row = None /\ stale = {}
  /\ exposed = {} /\ calm = TRUE /\ faults = 0

Fault == faults < MaxFaults /\ faults' = faults + 1 /\ calm' = FALSE
NoFault == UNCHANGED <<faults, calm>>

Goto(d, label) == pc' = [pc EXCEPT ![d] = label]

(* Mutant of AfterFailure: the function is not retried. *)
AfterFailureAtOnce(d) == "dead"

(* Lambda's asynchronous retries, then the delivery dead-letter queue. *)
AfterFailure(d) == IF attempts[d] < MaxAttempts THEN "waiting" ELSE "dead"

(* The handler raises, times out or dies: a message that was edited and    *)
(* not forgotten stays remembered.                                         *)
Fails(d, edited) ==
  /\ Fault /\ Goto(d, AfterFailure(d))
  /\ existing' = [existing EXCEPT ![d] = None]
  /\ exposed' = exposed \cup edited

Earlier(d, e) ==
  \/ d.cycle < e.cycle
  \/ d.cycle = e.cycle /\ d.phase = "ESTIMATE" /\ e.phase = "CONFIRMED"

(* The analyzer publishes a report, in whatever order reports get out. *)
Publish(d) ==
  /\ pc[d] = "unpublished"
  /\ Goto(d, "waiting")
  /\ calm' = (calm /\ \A e \in Deliveries :
                pc[e] = "unpublished" \/ (pc[e] \in Settled /\ ~Earlier(d, e)))
  /\ UNCHANGED <<attempts, existing, channel, mails, row, stale, exposed, faults>>

(* slack_handler, email_handler *)
Start(d) ==
  /\ pc[d] = "waiting"
  /\ attempts' = [attempts EXCEPT ![d] = @ + 1]
  /\ Goto(d, IF d \in Slack THEN "lookup" ELSE "post")
  /\ UNCHANGED <<existing, channel, mails, row, stale, exposed, faults, calm>>

(* Mutant of Edits: an estimate edits what is remembered, too. *)
EditsAny(d, found) == found # None

(* Only a confirmed report edits a message. *)
Edits(d, found) == found # None /\ d.phase = "CONFIRMED"

(* messages.get: the read is not a consistent one and may miss the last    *)
(* writes of the row; no bound on its age is assumed.  A failed read is no *)
(* message.                                                                *)
Lookup(d) ==
  /\ pc[d] = "lookup"
  /\ \E found \in {row, None} \cup stale :
       /\ IF found \in {row} \cup stale
          THEN UNCHANGED faults /\ calm' = (calm /\ found = row)
          ELSE Fault
       /\ existing' = [existing EXCEPT ![d] = found]
       /\ exposed' = exposed \cup ({found} \ {row, None})
       /\ Goto(d, IF Edits(d, found) THEN "update" ELSE "post")
  /\ UNCHANGED <<attempts, channel, mails, row, stale>>

Show(d) == channel' = [channel EXCEPT ![existing[d]].shows = d]

(* chat.update: done; done, but the answer is lost; failed for now; or     *)
(* failed for good (the message is gone), and the report is posted.        *)
Update(d) ==
  /\ pc[d] = "update"
  /\ LET there == channel[existing[d]].there
     IN  \/ there /\ NoFault /\ Show(d) /\ Goto(d, "forget")
            /\ UNCHANGED <<existing, exposed>>
         \/ there /\ Show(d) /\ Fails(d, {existing[d]})
         \/ Fails(d, {}) /\ UNCHANGED channel
         \/ (IF there THEN Fault ELSE NoFault) /\ Goto(d, "post")
            /\ UNCHANGED <<channel, existing, exposed>>
  /\ UNCHANGED <<attempts, mails, row, stale>>

(* The row says something else; what it said lingers. *)
Written(value) == row' = value /\ stale' = (stale \cup {row}) \ {value}

(* Mutant of AfterMerge: the message stays remembered. *)
AfterMergeKept == row

AfterMerge == None

(* messages.delete, which never raises.                                    *)
Forget(d) ==
  /\ pc[d] = "forget"
  /\ Goto(d, "delivered")
  /\ \/ NoFault /\ Written(AfterMerge)
        /\ exposed' = exposed \cup
             {m \in {existing[d]} :
                \E e \in Slack \ {d} : pc[e] = "update" /\ existing[e] = m}
     \/ Fault /\ UNCHANGED <<row, stale>> /\ exposed' = exposed \cup {existing[d]}
  /\ UNCHANGED <<attempts, existing, channel, mails>>

(* Mutant of Sent: mails go to the channel. *)
SentToSlack(d) ==
  channel' = Append(channel, [shows |-> d, there |-> TRUE]) /\ UNCHANGED mails

(* chat.postMessage, send_email *)
Sent(d) ==
  IF d \in Slack
  THEN channel' = Append(channel, [shows |-> d, there |-> TRUE]) /\ UNCHANGED mails
  ELSE mails' = [mails EXCEPT ![d] = @ + 1] /\ UNCHANGED channel

Remembers(d) == d \in Slack /\ d.phase = "ESTIMATE"

(* Sent; sent, but the answer is lost; failed for now; or refused for good *)
(* and acknowledged.                                                       *)
Post(d) ==
  /\ pc[d] = "post"
  /\ \/ /\ NoFault /\ Sent(d)
        /\ existing' = [existing EXCEPT ![d] = IF d \in Slack THEN Len(channel') ELSE None]
        /\ Goto(d, IF Remembers(d) THEN "remember" ELSE "delivered")
        /\ UNCHANGED exposed
     \/ Sent(d) /\ Fails(d, {})
     \/ Fails(d, {}) /\ UNCHANGED <<channel, mails>>
     \/ Fault /\ Goto(d, "refused") /\ UNCHANGED <<existing, channel, mails, exposed>>
  /\ UNCHANGED <<attempts, row, stale>>

(* messages.put, whose failure is only logged. *)
Remember(d) ==
  /\ pc[d] = "remember"
  /\ Goto(d, "delivered")
  /\ \/ NoFault /\ Written(existing[d])
     \/ Fault /\ UNCHANGED <<row, stale>>
  /\ UNCHANGED <<attempts, existing, channel, mails, exposed>>

(* The invocation dies or runs out of its 60 seconds. *)
Crash(d) ==
  /\ pc[d] \in InProgress
  /\ Fails(d, IF pc[d] = "forget" THEN {existing[d]} ELSE {})
  /\ UNCHANGED <<attempts, channel, mails, row, stale>>

(* The row's TTL, which tells an abandoned change set. *)
Expire ==
  /\ row # None /\ Written(None) /\ calm' = FALSE
  /\ UNCHANGED <<pc, attempts, existing, channel, mails, exposed, faults>>

(* Someone deletes a message in Slack. *)
Remove(m) ==
  /\ channel[m].there /\ Fault
  /\ channel' = [channel EXCEPT ![m].there = FALSE]
  /\ UNCHANGED <<pc, attempts, existing, mails, row, stale, exposed>>

Handle(d) ==
  Start(d) \/ Lookup(d) \/ Update(d) \/ Forget(d) \/ Post(d) \/ Remember(d)

Next ==
  \/ \E d \in Deliveries : Publish(d) \/ Handle(d) \/ Crash(d)
  \/ Expire
  \/ \E m \in Messages : Remove(m)

Spec == Init /\ [][Next]_vars

(* Lambda runs the invocations it has accepted, and they run to an end.    *)
FairSpec == Spec /\ \A d \in Deliveries : WF_vars(Handle(d))

(***************************************************************************)
(* Properties                                                              *)
(***************************************************************************)

(* Every variable keeps its type. *)
TypeOK ==
  /\ pc \in [Deliveries -> {"unpublished", "waiting"} \cup InProgress \cup Settled]
  /\ attempts \in [Deliveries -> 0..MaxAttempts]
  /\ existing \in [Deliveries -> Messages \cup {None}]
  /\ \A m \in Messages : channel[m].shows \in Slack /\ channel[m].there \in BOOLEAN
  /\ mails \in [Deliveries -> 0..MaxAttempts]
  /\ row \in Messages \cup {None} /\ stale \subseteq Messages \cup {None}
  /\ exposed \subseteq Messages
  /\ calm \in BOOLEAN /\ faults \in 0..MaxFaults

(* "The same message must be edited rather than a second one posted -      *)
(* otherwise the channel shows two figures for one deployment" (test_slack)*)
(* Reports that arrive one after the other, in order and without faults,   *)
(* and whose reads of the row find what was written last, end as one       *)
(* message per deployment, which shows its confirmed report when there is  *)
(* one, and as one mail each.                                              *)
MergedInPlace ==
  calm /\ (\A d \in Deliveries : pc[d] \in {"unpublished"} \cup Settled) =>
    /\ \A m, n \in Messages :
         channel[m].shows.cycle = channel[n].shows.cycle => m = n
    /\ \A d \in Deliveries : pc[d] # "unpublished" =>
         /\ d \in Slack /\ d.phase = "CONFIRMED" =>
              \E m \in Messages : channel[m].shows = d
         /\ d \notin Slack => mails[d] = 1

(* "A new post is better than losing the confirmed numbers entirely"       *)
(* (test_slack): the confirmed figures of one deployment are replaced by   *)
(* those of another only in a message whose row outlived its edit          *)
(* (a delete that failed, a handler that died, an answer that was lost),   *)
(* that two invocations had looked up at once, or that a read found in a   *)
(* row which had been overwritten or deleted.                              *)
OverwriteHasACause ==
  [][\A m \in Messages : LET c == channel[m].shows IN
       c.phase = "CONFIRMED" /\ channel'[m].shows # c =>
         \/ m \in exposed
         \/ pc[c] = "forget" /\ existing[c] = m]_vars

(* Reports that fail less often than Lambda tries are delivered in the     *)
(* end, unless the service refuses them for good.                          *)
EventuallyDelivered ==
  MaxFaults < MaxAttempts =>
    <>[](\A d \in Deliveries : pc[d] \in {"unpublished", "delivered", "refused"})
==============================================================================
