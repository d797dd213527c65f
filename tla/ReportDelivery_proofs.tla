------------------------ MODULE ReportDelivery_proofs -------------------------
(***************************************************************************)
(* Proofs about ReportDelivery, for any reports, number of attempts and    *)
(* number of faults: the types, why a confirmed report is only ever        *)
(* overwritten in a message whose row outlived its edit, and that reports  *)
(* which come one after the other end as one message per deployment.       *)
(***************************************************************************)
EXTENDS ReportDelivery, SequenceTheorems, TLAPS

Message == [shows : Slack, there : BOOLEAN]

(* The types, with the channel as a sequence. *)
Typed ==
  /\ pc \in [Deliveries -> {"unpublished", "waiting"} \cup InProgress \cup Settled]
  /\ attempts \in [Deliveries -> 0..MaxAttempts]
  /\ existing \in [Deliveries -> Messages \cup {None}]
  /\ channel \in Seq(Message)
  /\ mails \in [Deliveries -> 0..MaxAttempts]
  /\ row \in Messages \cup {None} /\ stale \subseteq Messages \cup {None}
  /\ exposed \subseteq Messages
  /\ calm \in BOOLEAN /\ faults \in 0..MaxFaults

(* An attempt mails at most once, and only what may start is waiting. *)
Counted ==
  \A d \in Deliveries :
    /\ mails[d] <= attempts[d]
    /\ pc[d] \in InProgress => mails[d] < attempts[d]
    /\ pc[d] = "waiting" => attempts[d] < MaxAttempts
    /\ pc[d] = "unpublished" => attempts[d] = 0

(* Only the Slack subscriber looks up, edits and remembers messages, and   *)
(* what it edits or remembers is one.                                      *)
Placed ==
  \A d \in Deliveries :
    /\ pc[d] \in {"lookup", "update", "forget", "remember"} => d \in Slack
    /\ pc[d] \in {"update", "forget", "remember"} => existing[d] \in Messages

TypeInv == Typed /\ Counted /\ Placed

(* A message about to be remembered is known to its own invocation alone.  *)
Fresh ==
  \A e \in Deliveries : pc[e] = "remember" =>
    /\ e.phase = "ESTIMATE"
    /\ channel[existing[e]].shows = e
    /\ existing[e] \notin {row} \cup stale
    /\ \A f \in Deliveries : pc[f] \in {"update", "forget"} => existing[f] # existing[e]

(* The confirmed report m shows can no longer be reached: its row outlived *)
(* no edit and was not read afterwards, and its own invocation is not      *)
(* about to forget it.                                                     *)
Final(m) ==
  LET c == channel[m].shows IN
  /\ c.phase = "CONFIRMED" /\ m \notin exposed
  /\ ~(pc[c] = "forget" /\ existing[c] = m)

(* Such a message is neither remembered nor being edited. *)
Unreachable ==
  \A m \in Messages : Final(m) =>
    /\ row # m
    /\ \A e \in Deliveries : pc[e] = "update" => existing[e] # m

CauseInv == TypeInv /\ Fresh /\ Unreachable

(***************************************************************************)
(* The channel                                                             *)
(***************************************************************************)

(* Messages are numbered from one on. *)
LEMMA ChannelFacts ==
  ASSUME channel \in Seq(Message)
  PROVE  /\ Len(channel) \in Nat /\ Messages = 1..Len(channel)
         /\ None \notin Messages
         /\ \A m \in Messages : channel[m] \in Message
<1>1. Len(channel) \in Nat /\ DOMAIN channel = 1..Len(channel)
  BY LenProperties
<1>2. \A m \in 1..Len(channel) : channel[m] \in Message
  BY ElementOfSeq
<1> QED BY <1>1, <1>2 DEF Messages, None

(* chat.update changes what one message shows. *)
LEMMA ShowFacts ==
  ASSUME channel \in Seq(Message), NEW d \in Slack, existing[d] \in Messages, Show(d)
  PROVE  /\ channel' \in Seq(Message) /\ Messages' = Messages
         /\ \A m \in Messages : channel'[m].shows =
              IF m = existing[d] THEN d ELSE channel[m].shows
         /\ \A m \in Messages : channel'[m].there = channel[m].there
<1> DEFINE i == existing[d]  e == [channel[i] EXCEPT !.shows = d]
<1>1. i \in 1..Len(channel) /\ channel[i] \in Message
  BY ChannelFacts
<1>2. e \in Message /\ e.shows = d /\ e.there = channel[i].there
  BY <1>1 DEF Message
<1>3. channel' = [channel EXCEPT ![i] = e]
  BY DEF Show
<1> HIDE DEF i, e
<1>4. /\ channel' \in Seq(Message) /\ Len(channel') = Len(channel)
      /\ \A j \in 1..Len(channel) : channel'[j] = IF j = i THEN e ELSE channel[j]
  BY <1>1, <1>2, <1>3, ExceptSeq
<1>5. Messages = 1..Len(channel) /\ Messages' = 1..Len(channel')
  BY <1>4, LenProperties DEF Messages
<1> QED BY <1>2, <1>4, <1>5 DEF i

(* chat.postMessage adds a message. *)
LEMMA SentFacts ==
  ASSUME channel \in Seq(Message), NEW d \in Slack, Sent(d)
  PROVE  /\ channel' \in Seq(Message) /\ mails' = mails
         /\ Len(channel') \notin Messages \cup {None}
         /\ Messages' = Messages \cup {Len(channel')}
         /\ \A m \in Messages : channel'[m].shows = channel[m].shows
         /\ \A m \in Messages : channel'[m].there = channel[m].there
         /\ channel'[Len(channel')].shows = d /\ channel'[Len(channel')].there
<1> DEFINE e == [shows |-> d, there |-> TRUE]
<1>1. e \in Message /\ e.shows = d /\ e.there
  BY DEF Message
<1>2. channel' = Append(channel, e) /\ mails' = mails
  BY DEF Sent
<1> HIDE DEF e
<1>3. /\ channel' \in Seq(Message) /\ Len(channel') = Len(channel) + 1
      /\ \A j \in 1..Len(channel) : channel'[j] = channel[j]
      /\ channel'[Len(channel) + 1] = e
  BY <1>1, <1>2, AppendProperties
<1>4. /\ Len(channel) \in Nat
      /\ Messages = 1..Len(channel) /\ Messages' = 1..Len(channel')
  BY <1>3, LenProperties DEF Messages
<1> QED BY <1>1, <1>2, <1>3, <1>4 DEF None

(* Someone's deletion leaves what the messages showed. *)
LEMMA RemoveFacts ==
  ASSUME channel \in Seq(Message), NEW i \in Messages, Remove(i)
  PROVE  /\ channel' \in Seq(Message) /\ Messages' = Messages
         /\ \A m \in Messages : channel'[m].shows = channel[m].shows
<1> DEFINE e == [channel[i] EXCEPT !.there = FALSE]
<1>1. i \in 1..Len(channel) /\ channel[i] \in Message
  BY ChannelFacts
<1>2. e \in Message /\ e.shows = channel[i].shows
  BY <1>1 DEF Message
<1>3. channel' = [channel EXCEPT ![i] = e]
  BY DEF Remove
<1> HIDE DEF e
<1>4. /\ channel' \in Seq(Message) /\ Len(channel') = Len(channel)
      /\ \A j \in 1..Len(channel) : channel'[j] = IF j = i THEN e ELSE channel[j]
  BY <1>1, <1>2, <1>3, ExceptSeq
<1>5. Messages = 1..Len(channel) /\ Messages' = 1..Len(channel')
  BY <1>4, LenProperties DEF Messages
<1> QED BY <1>2, <1>4, <1>5

(***************************************************************************)
(* Types                                                                   *)
(***************************************************************************)

(* A fault is counted within its bound. *)
LEMMA FaultType ==
  ASSUME faults \in 0..MaxFaults, calm \in BOOLEAN, Fault \/ NoFault
  PROVE  faults' \in 0..MaxFaults /\ calm' \in BOOLEAN
<1>1. faults' \in 0..MaxFaults
  BY DeliveryAssumption DEF Fault, NoFault
<1>2. calm' \in BOOLEAN
  BY Zenon DEF Fault, NoFault
<1> QED BY <1>1, <1>2

(* An invocation that failed is retried or dead; its count stands. *)
LEMMA FailsType ==
  ASSUME TypeInv, NEW d \in Deliveries, NEW edited \in SUBSET Messages,
         pc[d] \in InProgress, Fails(d, edited), attempts' = attempts,
         Messages \subseteq Messages'
  PROVE  /\ pc' \in [Deliveries -> {"unpublished", "waiting"} \cup InProgress \cup Settled]
         /\ existing' \in [Deliveries -> Messages' \cup {None}]
         /\ exposed' \subseteq Messages'
         /\ faults' \in 0..MaxFaults /\ calm' \in BOOLEAN
         /\ pc'[d] \in {"waiting", "dead"}
         /\ pc'[d] = "waiting" => attempts[d] < MaxAttempts
         /\ \A e \in Deliveries \ {d} : pc'[e] = pc[e] /\ existing'[e] = existing[e]
<1>1. faults' \in 0..MaxFaults /\ calm' \in BOOLEAN
  BY FaultType DEF TypeInv, Typed, Fails
<1>2. AfterFailure(d) \in {"waiting", "dead"}
      /\ (AfterFailure(d) = "waiting" => attempts[d] < MaxAttempts)
  BY DEF AfterFailure
<1>3. pc' = [pc EXCEPT ![d] = AfterFailure(d)] /\ existing' = [existing EXCEPT ![d] = None]
      /\ exposed' = exposed \cup edited
  BY DEF Fails, Goto
<1> QED BY <1>1, <1>2, <1>3 DEF TypeInv, Typed, Settled

(* The invariant of the types holds initially. *)
LEMMA TypeInit == Init => TypeInv
<1> SUFFICES ASSUME Init PROVE TypeInv
  OBVIOUS
<1>1. channel \in Seq(Message)
  BY EmptySeq DEF Init
<1>2. 0 \in 0..MaxAttempts /\ 0 \in 0..MaxFaults
  BY DeliveryAssumption
<1>3. \A d \in Deliveries : 0 <= 0
  OBVIOUS
<1> QED BY <1>1, <1>2 DEF Init, TypeInv, Typed, Counted, Placed, InProgress, None

LEMMA TypeStep == TypeInv /\ [Next]_vars => TypeInv'
<1> SUFFICES ASSUME TypeInv, [Next]_vars PROVE TypeInv'
  OBVIOUS
<1> USE DEF InProgress, Settled
<1>0. \A n \in 0..MaxAttempts : n \in Nat /\ MaxAttempts \in Nat
  BY DeliveryAssumption
<1>1. CASE UNCHANGED vars
  BY <1>1 DEF vars, TypeInv, Typed, Counted, Placed, Messages
<1>2. ASSUME NEW d \in Deliveries, Publish(d) PROVE TypeInv'
  <2>1. Messages' = Messages
    BY <1>2 DEF Publish, Messages
  <2>2. Typed'
    BY <1>2, <2>1 DEF Publish, Goto, TypeInv, Typed
  <2>3. Counted'
    BY <1>2, DeliveryAssumption DEF Publish, Goto, TypeInv, Typed, Counted
  <2> QED BY <1>2, <2>1, <2>2, <2>3 DEF Publish, Goto, TypeInv, Typed, Placed
<1>3. ASSUME NEW d \in Deliveries, Start(d) PROVE TypeInv'
  <2>1. Messages' = Messages
    BY <1>3 DEF Start, Messages
  <2>2. attempts[d] < MaxAttempts /\ attempts[d] \in Nat /\ mails[d] <= attempts[d] /\ mails[d] \in Nat
    BY <1>0, <1>3 DEF Start, TypeInv, Typed, Counted
  <2>3. attempts[d] + 1 \in 0..MaxAttempts /\ mails[d] < attempts[d] + 1
    BY <1>0, <2>2, DeliveryAssumption
  <2>4. Typed'
    BY <1>3, <2>1, <2>3 DEF Start, Goto, TypeInv, Typed
  <2>5. Counted'
    BY <1>3, <2>2, <2>3 DEF Start, Goto, TypeInv, Typed, Counted
  <2> QED BY <1>3, <2>1, <2>4, <2>5 DEF Start, Goto, TypeInv, Typed, Placed
<1>4. ASSUME NEW d \in Deliveries, Lookup(d) PROVE TypeInv'
  <2>1. Messages' = Messages /\ UNCHANGED <<attempts, channel, mails, row, stale>>
    BY <1>4 DEF Lookup, Messages
  <2>2. PICK found \in {row, None} \cup stale :
          /\ (faults' = faults /\ calm' = (calm /\ found = row)) \/ Fault
          /\ existing' = [existing EXCEPT ![d] = found]
          /\ exposed' = exposed \cup ({found} \ {row, None})
          /\ pc' = [pc EXCEPT ![d] = IF Edits(d, found) THEN "update" ELSE "post"]
    BY <1>4 DEF Lookup, Goto
  <2>3. faults' \in 0..MaxFaults /\ calm' \in BOOLEAN
    <3>1. faults' \in 0..MaxFaults
      BY <2>2, DeliveryAssumption DEF Fault, TypeInv, Typed
    <3>2. calm' \in BOOLEAN
      BY <2>2, Zenon DEF Fault
    <3> QED BY <3>1, <3>2
  <2>4. Typed'
    BY <2>1, <2>2, <2>3 DEF TypeInv, Typed
  <2>5. Counted'
    BY <1>4, <2>1, <2>2 DEF Lookup, TypeInv, Typed, Counted
  <2>6. Placed'
    BY <1>4, <2>1, <2>2 DEF Lookup, TypeInv, Typed, Placed, Edits
  <2> QED BY <2>4, <2>5, <2>6 DEF TypeInv
<1>5. ASSUME NEW d \in Deliveries, Update(d) PROVE TypeInv'
  <2>0. pc[d] = "update" /\ d \in Slack /\ existing[d] \in Messages
        /\ UNCHANGED <<attempts, mails, row, stale>>
    BY <1>5 DEF Update, TypeInv, Placed
  <2>1. channel' \in Seq(Message) /\ Messages' = Messages
    <3>1. Show(d) \/ channel' = channel
      BY <1>5 DEF Update
    <3> QED BY <2>0, <3>1, ShowFacts DEF TypeInv, Typed, Messages
  <2>2. \/ /\ Fault \/ NoFault
           /\ \E l \in {"forget", "post"} : pc' = [pc EXCEPT ![d] = l]
           /\ UNCHANGED <<existing, exposed>>
        \/ \E edited \in SUBSET Messages : Fails(d, edited)
    BY <1>5, <2>0, Zenon DEF Update, Goto
  <2>3. CASE \E edited \in SUBSET Messages : Fails(d, edited)
    <3>1. /\ pc' \in [Deliveries -> {"unpublished", "waiting"} \cup InProgress \cup Settled]
          /\ existing' \in [Deliveries -> Messages' \cup {None}]
          /\ exposed' \subseteq Messages'
          /\ faults' \in 0..MaxFaults /\ calm' \in BOOLEAN
          /\ pc'[d] \in {"waiting", "dead"}
          /\ pc'[d] = "waiting" => attempts[d] < MaxAttempts
          /\ \A e \in Deliveries \ {d} : pc'[e] = pc[e] /\ existing'[e] = existing[e]
      BY <2>0, <2>1, <2>3, FailsType
    <3> QED BY <2>0, <2>1, <3>1 DEF TypeInv, Typed, Counted, Placed
  <2>4. CASE /\ Fault \/ NoFault
             /\ \E l \in {"forget", "post"} : pc' = [pc EXCEPT ![d] = l]
             /\ UNCHANGED <<existing, exposed>>
    <3>1. faults' \in 0..MaxFaults /\ calm' \in BOOLEAN
      BY <2>4, FaultType DEF TypeInv, Typed
    <3> QED BY <2>0, <2>1, <2>4, <3>1 DEF TypeInv, Typed, Counted, Placed
  <2> QED BY <2>2, <2>3, <2>4
<1>6. ASSUME NEW d \in Deliveries, Forget(d) PROVE TypeInv'
  <2>1. Messages' = Messages /\ UNCHANGED <<attempts, existing, channel, mails>>
    BY <1>6 DEF Forget, Messages
  <2>2. pc[d] = "forget" /\ pc' = [pc EXCEPT ![d] = "delivered"] /\ existing[d] \in Messages
    BY <1>6 DEF Forget, Goto, TypeInv, Placed
  <2>3. faults' \in 0..MaxFaults /\ calm' \in BOOLEAN
    BY <1>6, FaultType DEF Forget, TypeInv, Typed
  <2>4. /\ row' \in {row, None} /\ stale' \subseteq stale \cup {row}
        /\ exposed' \subseteq exposed \cup {existing[d]}
    BY <1>6 DEF Forget, Written, AfterMerge
  <2>5. Typed'
    BY <2>1, <2>2, <2>3, <2>4 DEF TypeInv, Typed
  <2> QED BY <2>1, <2>2, <2>5 DEF TypeInv, Typed, Counted, Placed
<1>7. ASSUME NEW d \in Deliveries, Post(d) PROVE TypeInv'
  <2>0. pc[d] = "post" /\ UNCHANGED <<attempts, row, stale>> /\ mails[d] < attempts[d]
        /\ mails[d] \in Nat /\ attempts[d] \in 0..MaxAttempts
    BY <1>0, <1>7 DEF Post, TypeInv, Typed, Counted
  <2>1. ASSUME Sent(d)
        PROVE /\ channel' \in Seq(Message) /\ Messages \subseteq Messages'
              /\ mails' \in [Deliveries -> 0..MaxAttempts]
              /\ \A e \in Deliveries \ {d} : mails'[e] = mails[e]
              /\ mails'[d] <= attempts[d]
              /\ d \in Slack => mails' = mails /\ Len(channel') \in Messages'
    <3>1. CASE d \in Slack
      <4>1. /\ channel' \in Seq(Message) /\ mails' = mails
            /\ Messages' = Messages \cup {Len(channel')}
        BY <2>1, <3>1, SentFacts DEF TypeInv, Typed
      <4> QED BY <2>0, <3>1, <4>1 DEF TypeInv, Typed
    <3>2. CASE d \notin Slack
      <4>1. mails' = [mails EXCEPT ![d] = @ + 1] /\ channel' = channel
        BY <2>1, <3>2 DEF Sent
      <4>2. mails[d] + 1 \in 0..MaxAttempts /\ mails[d] + 1 <= attempts[d]
        BY <2>0, DeliveryAssumption
      <4> QED BY <3>2, <4>1, <4>2 DEF TypeInv, Typed, Messages
    <3> QED BY <3>1, <3>2
  <2>2. ASSUME Fails(d, {}),
               channel' \in Seq(Message), Messages \subseteq Messages',
               mails' \in [Deliveries -> 0..MaxAttempts],
               \A e \in Deliveries \ {d} : mails'[e] = mails[e],
               mails'[d] <= attempts[d]
        PROVE  TypeInv'
    <3>1. /\ pc' \in [Deliveries -> {"unpublished", "waiting"} \cup InProgress \cup Settled]
          /\ existing' \in [Deliveries -> Messages' \cup {None}]
          /\ exposed' \subseteq Messages'
          /\ faults' \in 0..MaxFaults /\ calm' \in BOOLEAN
          /\ pc'[d] \in {"waiting", "dead"}
          /\ pc'[d] = "waiting" => attempts[d] < MaxAttempts
          /\ \A e \in Deliveries \ {d} : pc'[e] = pc[e] /\ existing'[e] = existing[e]
      BY <2>0, <2>2, FailsType
    <3>2. Typed'
      BY <2>0, <2>2, <3>1 DEF TypeInv, Typed
    <3>3. Counted'
      BY <2>0, <2>2, <3>1 DEF TypeInv, Typed, Counted
    <3>4. Placed'
      BY <2>0, <2>2, <3>1 DEF TypeInv, Typed, Placed
    <3> QED BY <3>2, <3>3, <3>4 DEF TypeInv
  <2>3. CASE /\ NoFault /\ Sent(d)
             /\ existing' = [existing EXCEPT ![d] = IF d \in Slack THEN Len(channel') ELSE None]
             /\ Goto(d, IF Remembers(d) THEN "remember" ELSE "delivered")
             /\ UNCHANGED exposed
    <3>1. faults' \in 0..MaxFaults /\ calm' \in BOOLEAN
      BY <2>3, FaultType DEF TypeInv, Typed
    <3>2. Remembers(d) => d \in Slack
      BY DEF Remembers
    <3>3. pc' = [pc EXCEPT ![d] = IF Remembers(d) THEN "remember" ELSE "delivered"]
      BY <2>3 DEF Goto
    <3>4. Typed'
      <4>1. (IF d \in Slack THEN Len(channel') ELSE None) \in Messages' \cup {None}
        BY <2>1, <2>3
      <4> QED BY <2>0, <2>1, <2>3, <3>1, <3>3, <4>1 DEF TypeInv, Typed
    <3>5. Counted'
      BY <2>0, <2>1, <2>3, <3>2, <3>3 DEF TypeInv, Typed, Counted
    <3>6. Placed'
      BY <2>0, <2>1, <2>3, <3>2, <3>3 DEF TypeInv, Typed, Placed
    <3> QED BY <3>4, <3>5, <3>6 DEF TypeInv
  <2>4. CASE Sent(d) /\ Fails(d, {})
    BY <2>1, <2>2, <2>4
  <2>5. CASE Fails(d, {}) /\ UNCHANGED <<channel, mails>>
    BY <2>0, <2>2, <2>5 DEF TypeInv, Typed, Counted, Messages
  <2>6. CASE Fault /\ Goto(d, "refused") /\ UNCHANGED <<existing, channel, mails, exposed>>
    <3>1. faults' \in 0..MaxFaults /\ calm' \in BOOLEAN
      BY <2>6, FaultType DEF TypeInv, Typed
    <3> QED BY <2>0, <2>6, <3>1 DEF Goto, TypeInv, Typed, Counted, Placed, Messages
  <2> QED BY <1>7, <2>3, <2>4, <2>5, <2>6 DEF Post
<1>8. ASSUME NEW d \in Deliveries, Remember(d) PROVE TypeInv'
  <2>1. Messages' = Messages /\ UNCHANGED <<attempts, existing, channel, mails, exposed>>
    BY <1>8 DEF Remember, Messages
  <2>2. pc[d] = "remember" /\ pc' = [pc EXCEPT ![d] = "delivered"] /\ existing[d] \in Messages
        /\ row' \in {row, existing[d]} /\ stale' \subseteq stale \cup {row}
    BY <1>8 DEF Remember, Written, Goto, TypeInv, Placed
  <2>3. faults' \in 0..MaxFaults /\ calm' \in BOOLEAN
    BY <1>8, FaultType DEF Remember, TypeInv, Typed
  <2> QED BY <2>1, <2>2, <2>3 DEF TypeInv, Typed, Counted, Placed
<1>9. ASSUME NEW d \in Deliveries, Crash(d) PROVE TypeInv'
  <2>1. Messages' = Messages /\ UNCHANGED <<attempts, channel, mails, row, stale>>
        /\ pc[d] \in InProgress
    BY <1>9 DEF Crash, Messages
  <2>2. \E edited \in SUBSET Messages : Fails(d, edited)
    <3>1. pc[d] = "forget" => existing[d] \in Messages
      BY DEF TypeInv, Placed
    <3> QED BY <1>9, <3>1, Zenon DEF Crash
  <2>3. /\ pc' \in [Deliveries -> {"unpublished", "waiting"} \cup InProgress \cup Settled]
        /\ existing' \in [Deliveries -> Messages' \cup {None}]
        /\ exposed' \subseteq Messages'
        /\ faults' \in 0..MaxFaults /\ calm' \in BOOLEAN
        /\ pc'[d] \in {"waiting", "dead"}
        /\ pc'[d] = "waiting" => attempts[d] < MaxAttempts
        /\ \A e \in Deliveries \ {d} : pc'[e] = pc[e] /\ existing'[e] = existing[e]
    BY <2>1, <2>2, FailsType
  <2> QED BY <2>1, <2>3 DEF TypeInv, Typed, Counted, Placed
<1>10. CASE Expire
  BY <1>10 DEF Expire, Written, TypeInv, Typed, Counted, Placed, Messages
<1>11. ASSUME NEW m \in Messages, Remove(m) PROVE TypeInv'
  <2>1. channel' \in Seq(Message) /\ Messages' = Messages
    BY <1>11, RemoveFacts DEF TypeInv, Typed
  <2>2. faults' \in 0..MaxFaults /\ calm' \in BOOLEAN
    BY <1>11, FaultType DEF Remove, TypeInv, Typed
  <2> QED BY <1>11, <2>1, <2>2 DEF Remove, TypeInv, Typed, Counted, Placed
<1> QED BY <1>1, <1>2, <1>3, <1>4, <1>5, <1>6, <1>7, <1>8, <1>9, <1>10, <1>11
        DEF Next, Handle

(* Every variable keeps its type: messages that are remembered or edited   *)
(* exist, and no report is mailed more often than it was tried.            *)
THEOREM DeliveryTypeCorrect == Spec => []TypeOK
<1>1. Spec => []TypeInv
  BY TypeInit, TypeStep, PTL DEF Spec
<1>2. TypeInv => TypeOK
  BY ChannelFacts DEF TypeInv, Typed, TypeOK, Message
<1> QED BY <1>1, <1>2, PTL

(***************************************************************************)
(* Overwritten reports                                                     *)
(***************************************************************************)

LEMMA CauseInit == Init => CauseInv
<1> SUFFICES ASSUME Init PROVE CauseInv
  OBVIOUS
<1>1. Fresh
  BY DEF Init, Fresh
<1>2. Unreachable
  BY DEF Init, Unreachable, Messages
<1> QED BY <1>1, <1>2, TypeInit DEF CauseInv

(* A failed invocation is in no state the invariant speaks of. *)
LEMMA FailsAway ==
  ASSUME TypeInv, NEW d \in Deliveries, NEW edited, Fails(d, edited)
  PROVE  /\ pc'[d] \in {"waiting", "dead"}
         /\ exposed' = exposed \cup edited
         /\ \A e \in Deliveries \ {d} : pc'[e] = pc[e] /\ existing'[e] = existing[e]
BY DEF TypeInv, Typed, Fails, Goto, AfterFailure

(* Steps that change no message, no row and at most the place of one       *)
(* invocation, which was not about to forget what it had edited, keep the  *)
(* invariant, if that invocation does not start to edit or to remember.    *)
LEMMA QuietStep ==
  ASSUME CauseInv, NEW d \in Deliveries,
         Messages' = Messages, \A m \in Messages : channel'[m].shows = channel[m].shows,
         row' \in {row, None}, stale' \subseteq stale \cup {row}, exposed \subseteq exposed',
         pc'[d] \notin {"update", "forget", "remember"},
         pc[d] = "forget" => existing[d] \in exposed',
         \A e \in Deliveries \ {d} : pc'[e] = pc[e] /\ existing'[e] = existing[e]
  PROVE  Fresh' /\ Unreachable'
<1>1. None \notin Messages
  BY ChannelFacts DEF CauseInv, TypeInv, Typed
<1>2. Fresh'
  <2> SUFFICES ASSUME NEW e \in Deliveries, pc'[e] = "remember"
               PROVE  /\ e.phase = "ESTIMATE"
                      /\ channel'[existing'[e]].shows = e
                      /\ existing'[e] \notin {row'} \cup stale'
                      /\ \A f \in Deliveries : pc'[f] \in {"update", "forget"} =>
                            existing'[f] # existing'[e]
    BY DEF Fresh
  <2>1. e # d /\ pc[e] = "remember" /\ existing'[e] = existing[e] /\ existing[e] \in Messages
    BY DEF CauseInv, TypeInv, Placed
  <2> QED BY <1>1, <2>1 DEF CauseInv, Fresh
<1>3. Unreachable'
  <2> SUFFICES ASSUME NEW m \in Messages, Final(m)'
               PROVE  row' # m /\ \A e \in Deliveries : pc'[e] = "update" => existing'[e] # m
    BY DEF Unreachable
  <2>1. channel'[m].shows = channel[m].shows /\ channel[m].shows \in Deliveries
    BY ChannelFacts DEF CauseInv, TypeInv, Typed, Message, Slack
  <2>2. Final(m)
    BY <2>1 DEF Final
  <2> QED BY <1>1, <2>2 DEF CauseInv, Unreachable
<1> QED BY <1>2, <1>3

LEMMA CauseStep == CauseInv /\ [Next]_vars => CauseInv'
<1> SUFFICES ASSUME CauseInv, [Next]_vars PROVE Fresh' /\ Unreachable'
  BY TypeStep DEF CauseInv
<1>0. /\ channel \in Seq(Message) /\ pc \in [Deliveries -> {"unpublished", "waiting"} \cup InProgress \cup Settled]
      /\ existing \in [Deliveries -> Messages \cup {None}]
      /\ None \notin Messages
      /\ \A m \in Messages : channel[m].shows \in Deliveries
  BY ChannelFacts DEF CauseInv, TypeInv, Typed, Message, Slack
<1>1. CASE UNCHANGED vars
  BY <1>1 DEF vars, CauseInv, Fresh, Unreachable, Final, Messages
<1>2. ASSUME NEW d \in Deliveries, Publish(d) PROVE Fresh' /\ Unreachable'
  BY <1>0, <1>2, QuietStep DEF Publish, Goto, Messages
<1>3. ASSUME NEW d \in Deliveries, Start(d) PROVE Fresh' /\ Unreachable'
  BY <1>0, <1>3, QuietStep DEF Start, Goto, Messages
<1>4. ASSUME NEW d \in Deliveries, Lookup(d) PROVE Fresh' /\ Unreachable'
  <2>1. pc[d] = "lookup" /\ UNCHANGED <<channel, row, stale>> /\ Messages' = Messages
    BY <1>4 DEF Lookup, Messages
  <2>2. PICK found \in {row, None} \cup stale :
          /\ existing' = [existing EXCEPT ![d] = found]
          /\ exposed' = exposed \cup ({found} \ {row, None})
          /\ pc' = [pc EXCEPT ![d] = IF Edits(d, found) THEN "update" ELSE "post"]
    BY <1>4 DEF Lookup, Goto
  <2>3. CASE ~Edits(d, found)
    BY <1>0, <2>1, <2>2, <2>3, QuietStep
  <2>4. CASE Edits(d, found)
    <3>1. /\ pc' = [pc EXCEPT ![d] = "update"] /\ found \in {row} \cup stale
          /\ existing'[d] = found /\ \A e \in Deliveries \ {d} : existing'[e] = existing[e]
      BY <1>0, <2>2, <2>4 DEF Edits
    <3>2. Fresh'
      BY <1>0, <2>1, <3>1 DEF CauseInv, TypeInv, Placed, Fresh
    <3>3. Unreachable'
      <4> SUFFICES ASSUME NEW m \in Messages, Final(m)'
                   PROVE  row' # m /\ \A e \in Deliveries : pc'[e] = "update" => existing'[e] # m
        BY <2>1 DEF Unreachable
      <4>1. m \notin exposed' /\ Final(m)
        BY <1>0, <2>1, <2>2, <3>1 DEF Final
      <4>2. row # m /\ \A e \in Deliveries : pc[e] = "update" => existing[e] # m
        BY <4>1 DEF CauseInv, Unreachable
      <4>3. found # m
        BY <1>0, <2>2, <4>1, <4>2
      <4> QED BY <1>0, <2>1, <3>1, <4>2, <4>3
    <3> QED BY <3>2, <3>3
  <2> QED BY <2>3, <2>4
<1>5. ASSUME NEW d \in Deliveries, Update(d) PROVE Fresh' /\ Unreachable'
  <2>0. pc[d] = "update" /\ d \in Slack /\ existing[d] \in Messages
        /\ UNCHANGED <<row, stale>>
    BY <1>5 DEF Update, CauseInv, TypeInv, Placed
  <2>1. CASE NoFault /\ Show(d) /\ Goto(d, "forget") /\ UNCHANGED <<existing, exposed>>
    <3>1. /\ Messages' = Messages /\ pc' = [pc EXCEPT ![d] = "forget"]
          /\ \A m \in Messages : channel'[m].shows =
                IF m = existing[d] THEN d ELSE channel[m].shows
          /\ UNCHANGED <<existing, exposed>>
      BY <1>0, <2>0, <2>1, ShowFacts DEF Goto
    <3>2. Fresh'
      BY <1>0, <2>0, <3>1 DEF CauseInv, TypeInv, Placed, Fresh
    <3>3. Unreachable'
      BY <1>0, <2>0, <3>1 DEF CauseInv, Unreachable, Final
    <3> QED BY <3>2, <3>3
  <2>2. CASE Show(d) /\ Fails(d, {existing[d]})
    <3>1. /\ Messages' = Messages
          /\ \A m \in Messages : channel'[m].shows =
                IF m = existing[d] THEN d ELSE channel[m].shows
      BY <1>0, <2>0, <2>2, ShowFacts
    <3>2. /\ pc'[d] \in {"waiting", "dead"}
          /\ exposed' = exposed \cup {existing[d]}
          /\ \A e \in Deliveries \ {d} : pc'[e] = pc[e] /\ existing'[e] = existing[e]
      BY <2>2, FailsAway DEF CauseInv
    <3>3. Fresh'
      BY <1>0, <2>0, <3>1, <3>2 DEF CauseInv, TypeInv, Placed, Fresh
    <3>4. Unreachable'
      BY <1>0, <2>0, <3>1, <3>2 DEF CauseInv, Unreachable, Final
    <3> QED BY <3>3, <3>4
  <2>3. CASE Fails(d, {}) /\ UNCHANGED channel
    BY <1>0, <2>0, <2>3, FailsAway, QuietStep DEF CauseInv, Messages
  <2>4. CASE Goto(d, "post") /\ UNCHANGED <<channel, existing, exposed>>
    BY <1>0, <2>0, <2>4, QuietStep DEF Goto, Messages
  <2> QED BY <1>5, <2>1, <2>2, <2>3, <2>4 DEF Update
<1>6. ASSUME NEW d \in Deliveries, Forget(d) PROVE Fresh' /\ Unreachable'
  <2>0. /\ pc[d] = "forget" /\ pc' = [pc EXCEPT ![d] = "delivered"]
        /\ UNCHANGED <<existing, channel>> /\ Messages' = Messages
        /\ d \in Slack /\ existing[d] \in Messages
    BY <1>6 DEF Forget, Goto, Messages, CauseInv, TypeInv, Placed
  <2>1. CASE UNCHANGED <<row, stale>> /\ exposed' = exposed \cup {existing[d]}
    BY <1>0, <2>0, <2>1, QuietStep
  <2>2. CASE /\ Written(AfterMerge)
             /\ exposed' = exposed \cup
                  {m \in {existing[d]} :
                     \E e \in Slack \ {d} : pc[e] = "update" /\ existing[e] = m}
    <3>1. row' = None /\ stale' \subseteq stale \cup {row} /\ exposed \subseteq exposed'
      BY <2>2 DEF Written, AfterMerge
    <3>2. Fresh'
      BY <1>0, <2>0, <3>1 DEF CauseInv, TypeInv, Placed, Fresh
    <3>3. Unreachable'
      <4> SUFFICES ASSUME NEW m \in Messages, Final(m)', NEW e \in Deliveries,
                          pc'[e] = "update", existing'[e] = m
                   PROVE  FALSE
        BY <1>0, <2>0, <3>1 DEF Unreachable
      <4>1. e # d /\ pc[e] = "update" /\ existing[e] = m /\ e \in Slack
        BY <1>0, <2>0 DEF CauseInv, TypeInv, Placed
      <4>2. m # existing[d]
        BY <2>2, <4>1 DEF Final
      <4>3. Final(m)
        BY <1>0, <2>0, <3>1, <4>2 DEF Final
      <4> QED BY <4>1, <4>3 DEF CauseInv, Unreachable
    <3> QED BY <3>2, <3>3
  <2> QED BY <1>6, <2>1, <2>2 DEF Forget
<1>7. ASSUME NEW d \in Deliveries, Post(d) PROVE Fresh' /\ Unreachable'
  <2>0. pc[d] = "post" /\ UNCHANGED <<row, stale>>
    BY <1>7 DEF Post
  <2>1. CASE d \in Slack /\ Sent(d) /\ (Fails(d, {}) \/
               /\ existing' = [existing EXCEPT ![d] = IF d \in Slack THEN Len(channel') ELSE None]
               /\ Goto(d, IF Remembers(d) THEN "remember" ELSE "delivered")
               /\ UNCHANGED exposed)
    <3> DEFINE n == Len(channel')
    <3>1. /\ n \notin Messages \cup {None}
          /\ Messages' = Messages \cup {n}
          /\ \A m \in Messages : channel'[m].shows = channel[m].shows
          /\ channel'[n].shows = d
      BY <1>0, <2>1, SentFacts
    <3> HIDE DEF n
    <3>2. /\ exposed' = exposed
          /\ \A e \in Deliveries \ {d} : pc'[e] = pc[e] /\ existing'[e] = existing[e]
          /\ pc'[d] \notin {"update", "forget"}
          /\ pc'[d] = "remember" => existing'[d] = n /\ d.phase = "ESTIMATE"
      <4>1. CASE Fails(d, {})
        <5>1. exposed' = exposed \cup {}
          BY <4>1 DEF Fails
        <5>2. exposed' = exposed
          BY <5>1
        <5> QED BY <4>1, <5>2, FailsAway DEF CauseInv
      <4>2. CASE /\ existing' = [existing EXCEPT ![d] = n]
                 /\ Goto(d, IF Remembers(d) THEN "remember" ELSE "delivered")
                 /\ UNCHANGED exposed
        BY <1>0, <4>2 DEF Goto, Remembers
      <4> QED BY <2>1, <4>1, <4>2 DEF n
    <3>3. {row} \cup stale \subseteq Messages \cup {None}
          /\ \A e \in Deliveries : existing[e] \in Messages \cup {None}
      BY <1>0 DEF CauseInv, TypeInv, Typed
    <3>4. Fresh'
      <4> SUFFICES ASSUME NEW e \in Deliveries, pc'[e] = "remember"
                   PROVE  /\ e.phase = "ESTIMATE"
                          /\ channel'[existing'[e]].shows = e
                          /\ existing'[e] \notin {row'} \cup stale'
                          /\ \A f \in Deliveries : pc'[f] \in {"update", "forget"} =>
                                existing'[f] # existing'[e]
        BY DEF Fresh
      <4>1. CASE e = d
        BY <2>0, <3>1, <3>2, <3>3, <4>1
      <4>2. CASE e # d
        <5>1. pc[e] = "remember" /\ existing'[e] = existing[e] /\ existing[e] \in Messages
          BY <3>2, <4>2 DEF CauseInv, TypeInv, Placed
        <5> QED BY <2>0, <3>1, <3>2, <4>2, <5>1 DEF CauseInv, Fresh
      <4> QED BY <4>1, <4>2
    <3>5. Unreachable'
      <4> SUFFICES ASSUME NEW m \in Messages \cup {n}, Final(m)'
                   PROVE  row' # m /\ \A e \in Deliveries : pc'[e] = "update" => existing'[e] # m
        BY <3>1 DEF Unreachable
      <4>1. CASE m = n
        BY <2>0, <3>1, <3>2, <3>3, <4>1
      <4>2. CASE m \in Messages
        <5>1. Final(m)
          BY <1>0, <2>0, <3>1, <3>2, <4>2 DEF Final
        <5> QED BY <2>0, <3>2, <4>2, <5>1 DEF CauseInv, Unreachable
      <4> QED BY <4>1, <4>2
    <3> QED BY <3>4, <3>5
  <2>2. CASE channel' = channel /\ pc'[d] \notin {"update", "forget", "remember"}
             /\ exposed' = exposed
             /\ \A e \in Deliveries \ {d} : pc'[e] = pc[e] /\ existing'[e] = existing[e]
    BY <1>0, <2>0, <2>2, QuietStep DEF Messages
  <2>3. CASE Fails(d, {}) /\ channel' = channel
    BY <2>2, <2>3, FailsAway DEF CauseInv
  <2>4. CASE Goto(d, "refused") /\ UNCHANGED <<existing, channel, mails, exposed>>
    BY <1>0, <2>2, <2>4 DEF Goto
  <2>5. CASE d \notin Slack /\ Sent(d)
    <3>1. channel' = channel /\ ~Remembers(d)
      BY <2>5 DEF Sent, Remembers
    <3>2. CASE Fails(d, {})
      BY <2>3, <3>1, <3>2
    <3>3. CASE /\ existing' = [existing EXCEPT ![d] = IF d \in Slack THEN Len(channel') ELSE None]
               /\ Goto(d, IF Remembers(d) THEN "remember" ELSE "delivered")
               /\ UNCHANGED exposed
      BY <1>0, <2>2, <3>1, <3>3 DEF Goto
    <3> QED BY <1>7, <2>4, <3>2, <3>3 DEF Post
  <2> QED BY <1>7, <2>1, <2>3, <2>4, <2>5 DEF Post
<1>8. ASSUME NEW d \in Deliveries, Remember(d) PROVE Fresh' /\ Unreachable'
  <2>0. /\ pc[d] = "remember" /\ pc' = [pc EXCEPT ![d] = "delivered"]
        /\ row' \in {row, existing[d]} /\ stale' \subseteq stale \cup {row}
        /\ UNCHANGED <<existing, channel, exposed>> /\ Messages' = Messages
    BY <1>8 DEF Remember, Written, Goto, Messages
  <2>1. existing[d] \in Messages /\ channel[existing[d]].shows = d /\ d.phase = "ESTIMATE"
    BY <2>0 DEF CauseInv, TypeInv, Placed, Fresh
  <2>2. Fresh'
    BY <1>0, <2>0, <2>1 DEF CauseInv, Fresh
  <2>3. Unreachable'
    <3> SUFFICES ASSUME NEW m \in Messages, Final(m)'
                 PROVE  row' # m /\ \A e \in Deliveries : pc'[e] = "update" => existing'[e] # m
      BY <2>0 DEF Unreachable
    <3>1. Final(m) /\ m # existing[d]
      BY <1>0, <2>0, <2>1 DEF Final
    <3> QED BY <1>0, <2>0, <3>1 DEF CauseInv, Unreachable
  <2> QED BY <2>2, <2>3
<1>9. ASSUME NEW d \in Deliveries, Crash(d) PROVE Fresh' /\ Unreachable'
  <2>1. /\ UNCHANGED <<channel, row, stale>> /\ Messages' = Messages
        /\ Fails(d, IF pc[d] = "forget" THEN {existing[d]} ELSE {})
    BY <1>9 DEF Crash, Messages
  <2>2. /\ pc'[d] \in {"waiting", "dead"}
        /\ exposed' = exposed \cup (IF pc[d] = "forget" THEN {existing[d]} ELSE {})
        /\ \A e \in Deliveries \ {d} : pc'[e] = pc[e] /\ existing'[e] = existing[e]
    BY <2>1, FailsAway DEF CauseInv
  <2> QED BY <2>1, <2>2, QuietStep
<1>10. CASE Expire
  BY <1>0, <1>10 DEF Expire, Written, CauseInv, TypeInv, Placed, Fresh, Unreachable, Final, Messages
<1>11. ASSUME NEW i \in Messages, Remove(i) PROVE Fresh' /\ Unreachable'
  <2>1. /\ Messages' = Messages /\ UNCHANGED <<pc, existing, row, stale, exposed>>
        /\ \A m \in Messages : channel'[m].shows = channel[m].shows
    BY <1>0, <1>11, RemoveFacts DEF Remove
  <2>2. Fresh'
    BY <2>1 DEF CauseInv, TypeInv, Placed, Fresh
  <2>3. Unreachable'
    BY <2>1 DEF CauseInv, Unreachable, Final
  <2> QED BY <2>2, <2>3
<1> QED BY <1>1, <1>2, <1>3, <1>4, <1>5, <1>6, <1>7, <1>8, <1>9, <1>10, <1>11
        DEF Next, Handle

(* What a message shows is changed by an edit of what was looked up. *)
LEMMA ChangedByAnEdit ==
  ASSUME CauseInv, [Next]_vars, NEW m \in Messages, channel'[m].shows # channel[m].shows
  PROVE  \E e \in Deliveries : pc[e] = "update" /\ existing[e] = m
<1>0. channel \in Seq(Message)
  BY DEF CauseInv, TypeInv, Typed
<1>1. PICK d \in Deliveries : Update(d) \/ Post(d)
  <2>1. ASSUME NEW i \in Messages, Remove(i) PROVE FALSE
    BY <1>0, <2>1, RemoveFacts
  <2> QED BY <2>1 DEF Next, Handle, vars, Publish, Start, Lookup, Forget, Remember, Crash, Expire
<1>2. CASE Post(d)
  <2>1. CASE d \in Slack /\ Sent(d)
    BY <1>0, <2>1, SentFacts
  <2>2. CASE channel' = channel
    BY <2>2
  <2> QED BY <1>2, <2>1, <2>2 DEF Post, Sent
<1>3. CASE Update(d)
  <2>1. pc[d] = "update" /\ d \in Slack /\ existing[d] \in Messages /\ Show(d)
    BY <1>3 DEF Update, CauseInv, TypeInv, Placed
  <2>2. m = existing[d]
    BY <1>0, <2>1, ShowFacts
  <2> QED BY <2>1, <2>2
<1> QED BY <1>1, <1>2, <1>3

(* The confirmed figures of a deployment are replaced only in a message    *)
(* whose row outlived its edit, that two invocations had looked up at      *)
(* once, or that was read from a row already gone                          *)
(* (SlackForwarder.forward edits what messages.get answered).              *)
THEOREM OverwriteIsExplained == Spec => OverwriteHasACause
<1>1. Spec => []CauseInv
  BY CauseInit, CauseStep, PTL DEF Spec
<1>2. ASSUME CauseInv, [Next]_vars
      PROVE  [\A m \in Messages : LET c == channel[m].shows IN
                c.phase = "CONFIRMED" /\ channel'[m].shows # c =>
                  \/ m \in exposed
                  \/ pc[c] = "forget" /\ existing[c] = m]_vars
  <2> SUFFICES ASSUME NEW m \in Messages, channel[m].shows.phase = "CONFIRMED",
                      channel'[m].shows # channel[m].shows, m \notin exposed,
                      ~(pc[channel[m].shows] = "forget" /\ existing[channel[m].shows] = m)
               PROVE  FALSE
    OBVIOUS
  <2>1. Final(m)
    BY DEF Final
  <2>2. PICK e \in Deliveries : pc[e] = "update" /\ existing[e] = m
    BY <1>2, ChangedByAnEdit
  <2> QED BY <1>2, <2>1, <2>2 DEF CauseInv, Unreachable
<1> QED BY <1>1, <1>2, PTL DEF Spec, OverwriteHasACause

(***************************************************************************)
(* One report after the other                                              *)
(***************************************************************************)

Published(d) == pc[d] # "unpublished"
Active(d) == Published(d) /\ pc[d] \notin Settled

(* One invocation at a time, in the order of the deployments. *)
OneByOne ==
  \A d, e \in Deliveries : Active(d) /\ Published(e) =>
    (e = d \/ pc[e] = "delivered") /\ ~Earlier(d, e)

NoneLost == \A d \in Deliveries : pc[d] \notin {"refused", "dead"}

(* A message shows a report that was sent, one per deployment. *)
Distinct ==
  /\ \A m \in Messages :
       channel[m].there /\ pc[channel[m].shows] \in {"forget", "remember", "delivered"}
  /\ \A m, n \in Messages : channel[m].shows.cycle = channel[n].shows.cycle => m = n

(* The estimate m shows is still to be replaced: no later report of the    *)
(* stack was sent.                                                         *)
Standing(m) ==
  LET s == channel[m].shows IN
  /\ s.phase = "ESTIMATE" /\ pc[s] = "delivered"
  /\ \A e \in Slack : Published(e) /\ Earlier(s, e) => pc[e] \in {"waiting", "lookup", "update"}

(* What is remembered is the one estimate that stands. *)
Remembered ==
  /\ \A m \in Messages : Standing(m) => row = m
  /\ row # None => channel[row].shows.phase = "ESTIMATE" \/ pc[channel[row].shows] = "forget"
  /\ \A d \in Deliveries : pc[d] \in {"update", "forget"} => existing[d] = row /\ d.phase = "CONFIRMED"
  /\ \A d \in Deliveries : pc[d] = "forget" => channel[existing[d]].shows = d
  /\ \A d \in Slack : pc[d] = "post" /\ d.phase = "CONFIRMED" =>
       \A m \in Messages : channel[m].shows.cycle # d.cycle

Arrived ==
  /\ \A d \in Slack : d.phase = "CONFIRMED" /\ pc[d] = "delivered" =>
       \E m \in Messages : channel[m].shows = d
  /\ \A d \in Deliveries \ Slack : mails[d] = IF pc[d] = "delivered" THEN 1 ELSE 0

Orderly == OneByOne /\ NoneLost /\ Distinct /\ Remembered /\ Arrived

CalmInv == calm => Orderly

(* The reports for Slack are in a row. *)
LEMMA SlackOrder ==
  /\ \A d, e \in Slack : d = e \/ Earlier(d, e) \/ Earlier(e, d)
  /\ \A d, e \in Slack : Earlier(d, e) => d # e /\ ~Earlier(e, d) /\ d.cycle <= e.cycle
  /\ \A d, e \in Slack : Earlier(d, e) /\ d.cycle = e.cycle =>
       /\ d.phase = "ESTIMATE" /\ e.phase = "CONFIRMED"
       /\ \A f \in Slack : ~(Earlier(d, f) /\ Earlier(f, e))
<1>1. \A d \in Slack : /\ d = [subscriber |-> "slack", cycle |-> d.cycle, phase |-> d.phase]
                       /\ d.cycle \in Nat /\ d.phase \in {"ESTIMATE", "CONFIRMED"}
  BY DeliveryAssumption DEF Slack
<1>2. \A d, e \in Slack : d.cycle = e.cycle /\ d.phase = e.phase => d = e
  BY <1>1
<1>3. \A d, e \in Slack : d = e \/ Earlier(d, e) \/ Earlier(e, d)
  BY <1>1, <1>2 DEF Earlier
<1> QED BY <1>1, <1>3 DEF Earlier

(* All others have been delivered, the ones of Slack before this one. *)
LEMMA Alone ==
  ASSUME OneByOne, NEW d \in Deliveries, Active(d)
  PROVE  /\ \A e \in Deliveries \ {d} : pc[e] \in {"unpublished", "delivered"}
         /\ d \in Slack => \A e \in Slack \ {d} : Published(e) => Earlier(e, d)
<1>1. \A e \in Deliveries \ {d} : Published(e) => pc[e] = "delivered" /\ ~Earlier(d, e)
  BY DEF OneByOne
<1> QED BY <1>1, SlackOrder DEF Published, Slack

(* The step of the one active invocation leaves the order alone. *)
LEMMA StepAlone ==
  ASSUME TypeInv, OneByOne, NoneLost, NEW d \in Deliveries, Active(d), NEW label, Goto(d, label),
         label \in InProgress \cup {"delivered"}
  PROVE  /\ pc'[d] = label /\ \A e \in Deliveries \ {d} : pc'[e] = pc[e]
         /\ OneByOne' /\ NoneLost'
<1>1. pc'[d] = label /\ \A e \in Deliveries \ {d} : pc'[e] = pc[e]
  BY DEF TypeInv, Typed, Goto
<1>2. \A e \in Deliveries : Published(e)' <=> Published(e)
  BY <1>1 DEF Published, Active, InProgress
<1>3. \A e \in Deliveries : Active(e)' => e = d
  BY <1>1, Alone DEF Active, Published, Settled
<1>4. ASSUME NEW e \in Deliveries, Published(e) PROVE (e = d \/ pc'[e] = "delivered") /\ ~Earlier(d, e)
  BY <1>1, <1>4 DEF OneByOne
<1>5. OneByOne'
  BY <1>2, <1>3, <1>4 DEF OneByOne
<1> QED BY <1>1, <1>5 DEF NoneLost, InProgress

(* A message of the deployment whose confirmed report is about to be sent  *)
(* is the remembered one.                                                  *)
LEMMA EstimateIsRemembered ==
  ASSUME TypeInv, Orderly, NEW d \in Slack, d.phase = "CONFIRMED", pc[d] \in {"lookup", "update"},
         NEW m \in Messages, channel[m].shows.cycle = d.cycle
  PROVE  row = m
<1> DEFINE s == channel[m].shows
<1>1. Active(d) /\ d \in Deliveries
  BY DEF Active, Published, Settled, Slack
<1>2. s \in Slack /\ s # d /\ Published(s)
  BY ChannelFacts DEF TypeInv, Typed, Message, Orderly, Distinct, Published
<1>3. pc[s] = "delivered" /\ Earlier(s, d)
  BY <1>1, <1>2, Alone DEF Orderly, Slack, Published
<1>4. s.phase = "ESTIMATE" /\ \A f \in Slack : ~(Earlier(s, f) /\ Earlier(f, d))
  BY <1>2, <1>3, SlackOrder
<1>5. ASSUME NEW e \in Slack, Published(e), Earlier(s, e) PROVE e = d
  BY <1>1, <1>4, <1>5, Alone DEF Orderly
<1>6. Standing(m)
  BY <1>3, <1>4, <1>5 DEF Standing
<1> QED BY <1>6 DEF Orderly, Remembered

(* No estimate stands once a later report is being sent. *)
LEMMA NothingStands ==
  ASSUME NEW d \in Slack, Published(d)', pc'[d] \notin {"waiting", "lookup", "update"},
         NEW m, NEW s \in Slack \ {d}, channel'[m].shows = s, Published(s)',
         \A e \in Slack \ {d} : Published(e)' => Earlier(e, d)
  PROVE  ~Standing(m)'
BY DEF Standing

LEMMA CalmInit == Init => CalmInv
<1> SUFFICES ASSUME Init PROVE Orderly
  BY DEF CalmInv
<1>1. /\ \A d \in Deliveries : pc[d] = "unpublished" /\ mails[d] = 0
      /\ Messages = {} /\ row = None
  BY DEF Init, Messages
<1>2. OneByOne /\ NoneLost
  BY <1>1 DEF OneByOne, Active, Published, NoneLost
<1>3. Distinct /\ Arrived
  BY <1>1 DEF Distinct, Arrived, Slack
<1>4. Remembered
  BY <1>1 DEF Remembered, Slack
<1> QED BY <1>2, <1>3, <1>4 DEF Orderly

(* Steps before anything is sent: what stands still stands. *)
LEMMA UnsentStep ==
  ASSUME TypeInv, Orderly, NEW d \in Deliveries,
         UNCHANGED <<channel, mails, row>>, OneByOne', NoneLost',
         pc[d] \in {"unpublished", "waiting", "lookup"},
         pc'[d] \in {"waiting", "lookup", "update", "post"},
         pc'[d] = "lookup" => d \in Slack,
         \A e \in Deliveries \ {d} : pc'[e] = pc[e] /\ existing'[e] = existing[e],
         pc'[d] = "update" => existing'[d] = row /\ d.phase = "CONFIRMED",
         pc'[d] = "post" /\ d \in Slack /\ d.phase = "CONFIRMED" =>
           \A m \in Messages : channel[m].shows.cycle # d.cycle,
         pc'[d] = "post" /\ d \in Slack => \A m \in Messages : ~Standing(m)'
  PROVE  Orderly'
<1>1. Messages' = Messages /\ \A m \in Messages : channel[m].shows \in Slack
  BY ChannelFacts DEF Messages, TypeInv, Typed, Message
<1>2. \A m \in Messages : channel[m].shows # d
  BY DEF Orderly, Distinct
<1>3. ASSUME NEW m \in Messages, Standing(m)' PROVE Standing(m)
  <2>1. /\ channel[m].shows.phase = "ESTIMATE" /\ pc[channel[m].shows] = "delivered"
    BY <1>1, <1>2, <1>3 DEF Standing, Slack
  <2>2. ASSUME NEW e \in Slack, Published(e), Earlier(channel[m].shows, e)
        PROVE  pc[e] \in {"waiting", "lookup", "update"}
    <3>1. CASE e # d
      BY <1>3, <2>2, <3>1 DEF Standing, Published, Slack
    <3>2. CASE e = d
      BY <2>2, <3>2 DEF Published
    <3> QED BY <3>1, <3>2
  <2> QED BY <2>1, <2>2 DEF Standing
<1>4. Distinct'
  BY <1>1, <1>2 DEF Orderly, Distinct, Slack
<1>5. Remembered'
  <2>1. \A m \in Messages : Standing(m)' => row = m
    BY <1>3 DEF Orderly, Remembered
  <2>2. row # None => channel[row].shows.phase = "ESTIMATE" \/ pc'[channel[row].shows] = "forget"
    <3>1. row # None => row \in Messages
      BY DEF TypeInv, Typed
    <3> QED BY <1>1, <1>2, <3>1 DEF Orderly, Remembered, Slack
  <2>3. \A e \in Deliveries : pc'[e] \in {"update", "forget"} => existing'[e] = row /\ e.phase = "CONFIRMED"
    BY DEF Orderly, Remembered
  <2>4. \A e \in Deliveries : pc'[e] = "forget" => channel[existing'[e]].shows = e
    BY DEF Orderly, Remembered
  <2>5. \A e \in Slack : pc'[e] = "post" /\ e.phase = "CONFIRMED" =>
          \A m \in Messages : channel[m].shows.cycle # e.cycle
    BY DEF Orderly, Remembered, Slack
  <2> QED BY <1>1, <2>1, <2>2, <2>3, <2>4, <2>5 DEF Remembered
<1>6. Arrived'
  BY <1>1 DEF Orderly, Arrived, Slack
<1> QED BY <1>4, <1>5, <1>6 DEF Orderly

LEMMA PublishCalm == \A d \in Deliveries : TypeInv /\ CalmInv /\ Publish(d) => CalmInv'
<1> SUFFICES ASSUME NEW d \in Deliveries, TypeInv, CalmInv, Publish(d), calm' PROVE Orderly'
  BY DEF CalmInv
<1>1. /\ calm /\ pc[d] = "unpublished" /\ Goto(d, "waiting")
      /\ UNCHANGED <<channel, mails, row, existing>>
      /\ \A e \in Deliveries : pc[e] = "unpublished" \/ (pc[e] \in Settled /\ ~Earlier(d, e))
  BY DEF Publish
<1>2. Orderly
  BY <1>1 DEF CalmInv
<1>3. pc'[d] = "waiting" /\ \A e \in Deliveries \ {d} : pc'[e] = pc[e]
  BY <1>1 DEF TypeInv, Typed, Goto
<1>4. NoneLost'
  BY <1>2, <1>3 DEF Orderly, NoneLost
<1>5. \A e \in Deliveries : Active(e)' => e = d
  BY <1>1, <1>3 DEF Active, Published
<1>6. ~Earlier(d, d)
  BY DeliveryAssumption DEF Earlier
<1>7. OneByOne'
  BY <1>1, <1>2, <1>3, <1>5, <1>6 DEF OneByOne, Published, Orderly, NoneLost, Settled
<1> QED BY <1>1, <1>2, <1>3, <1>4, <1>7, UnsentStep

LEMMA StartCalm == \A d \in Deliveries : TypeInv /\ CalmInv /\ Start(d) => CalmInv'
<1> SUFFICES ASSUME NEW d \in Deliveries, TypeInv, CalmInv, Start(d), calm' PROVE Orderly'
  BY DEF CalmInv
<1>1. /\ calm /\ pc[d] = "waiting" /\ Goto(d, IF d \in Slack THEN "lookup" ELSE "post")
      /\ UNCHANGED <<channel, mails, row, existing>>
  BY DEF Start
<1>2. Orderly /\ Active(d)
  BY <1>1 DEF CalmInv, Active, Published, Settled
<1>3. /\ pc'[d] = (IF d \in Slack THEN "lookup" ELSE "post")
      /\ \A e \in Deliveries \ {d} : pc'[e] = pc[e]
      /\ OneByOne' /\ NoneLost'
  BY <1>1, <1>2, StepAlone DEF Orderly, InProgress
<1> QED BY <1>1, <1>2, <1>3, UnsentStep

LEMMA LookupCalm == \A d \in Deliveries : TypeInv /\ CalmInv /\ Lookup(d) => CalmInv'
<1> SUFFICES ASSUME NEW d \in Deliveries, TypeInv, CalmInv, Lookup(d), calm' PROVE Orderly'
  BY DEF CalmInv
<1> DEFINE label == IF Edits(d, row) THEN "update" ELSE "post"
<1>1. /\ calm /\ pc[d] = "lookup" /\ Goto(d, label) /\ existing' = [existing EXCEPT ![d] = row]
      /\ UNCHANGED <<channel, mails, row>>
  BY DEF Lookup, Fault
<1>2. Orderly /\ Active(d) /\ d \in Slack
  BY <1>1 DEF CalmInv, Active, Published, Settled, TypeInv, Placed
<1>3. /\ pc'[d] = label
      /\ \A e \in Deliveries \ {d} : pc'[e] = pc[e]
      /\ OneByOne' /\ NoneLost'
  BY <1>1, <1>2, StepAlone DEF Orderly, InProgress
<1>4. existing'[d] = row /\ \A e \in Deliveries \ {d} : existing'[e] = existing[e]
  BY <1>1 DEF TypeInv, Typed
<1>5. pc'[d] = "update" => d.phase = "CONFIRMED"
  BY <1>3 DEF Edits
<1>6. None \notin Messages /\ Messages' = Messages /\ \A m \in Messages : channel[m].shows \in Slack
  BY <1>1, ChannelFacts DEF TypeInv, Typed, Messages, Message
<1>7. ASSUME pc'[d] = "post", d.phase = "CONFIRMED", NEW m \in Messages
      PROVE  channel[m].shows.cycle # d.cycle
  <2>1. row = None
    BY <1>3, <1>7 DEF Edits
  <2> QED BY <1>1, <1>2, <1>6, <1>7, <2>1, EstimateIsRemembered
<1>8. ASSUME pc'[d] = "post", NEW m \in Messages PROVE ~Standing(m)'
  <2>1. \A e \in Slack \ {d} : Published(e)' => Earlier(e, d)
    BY <1>2, <1>3, Alone DEF Orderly, Published, Slack
  <2>2. PICK s \in Slack : s = channel[m].shows
    BY <1>6
  <2>3. s # d /\ Published(s)' /\ channel'[m].shows = s
    BY <1>1, <1>2, <1>3, <2>2 DEF Orderly, Distinct, Published, Slack
  <2> QED BY <1>2, <1>8, <2>1, <2>2, <2>3, NothingStands DEF Published
<1> QED BY <1>1, <1>2, <1>3, <1>4, <1>5, <1>7, <1>8, UnsentStep

(* The report replaces the estimate that was remembered. *)
LEMMA UpdateCalm == \A d \in Deliveries : TypeInv /\ CalmInv /\ Update(d) => CalmInv'
<1> SUFFICES ASSUME NEW d \in Deliveries, TypeInv, CalmInv, Update(d), calm' PROVE Orderly'
  BY DEF CalmInv
<1>1. pc[d] = "update" /\ existing[d] \in Messages /\ d \in Slack /\ calm
  BY DEF Update, Fails, Fault, NoFault, TypeInv, Placed
<1>2. Orderly /\ Active(d)
  BY <1>1 DEF CalmInv, Active, Published, Settled
<1>3. channel[existing[d]].there
  BY <1>1, <1>2 DEF Orderly, Distinct
<1>4. Show(d) /\ Goto(d, "forget") /\ UNCHANGED <<existing, mails, row>>
  BY <1>1, <1>3 DEF Update, Fails, Fault, NoFault
<1>5. /\ pc'[d] = "forget"
      /\ \A e \in Deliveries \ {d} : pc'[e] = pc[e]
      /\ OneByOne' /\ NoneLost'
  BY <1>2, <1>4, StepAlone DEF Orderly, InProgress
<1>6. /\ Messages' = Messages
      /\ \A m \in Messages : channel'[m].shows = IF m = row THEN d ELSE channel[m].shows
      /\ \A m \in Messages : channel'[m].there = channel[m].there
      /\ \A m \in Messages : channel[m].shows \in Slack
      /\ row \in Messages /\ existing[d] = row /\ d.phase = "CONFIRMED"
  BY <1>1, <1>2, <1>4, ShowFacts, ChannelFacts
  DEF TypeInv, Typed, Message, Orderly, Remembered
<1>7. \A e \in Slack \ {d} : Published(e) => Earlier(e, d)
  BY <1>1, <1>2, Alone DEF Orderly
<1>8. \A m \in Messages : channel[m].shows # d /\ Published(channel[m].shows)
  BY <1>1, <1>2 DEF Orderly, Distinct, Published
<1>9. \A m \in Messages : channel[m].shows.cycle = d.cycle => m = row
  BY <1>1, <1>2, <1>6, EstimateIsRemembered
<1>10. Distinct'
  BY <1>2, <1>5, <1>6, <1>8, <1>9 DEF Orderly, Distinct, Slack
<1>11. \A m \in Messages : ~Standing(m)'
  <2>1. ASSUME NEW m \in Messages, m # row PROVE ~Standing(m)'
    <3>1. PICK s \in Slack \ {d} : s = channel[m].shows
      BY <1>6, <1>8
    <3>3. Published(d)' /\ Published(s)' /\ channel'[m].shows = s
      BY <1>5, <1>6, <1>8, <2>1, <3>1 DEF Published, Slack
    <3>2. \A e \in Slack \ {d} : Published(e)' => Earlier(e, d)
      BY <1>5, <1>7 DEF Published, Slack
    <3> QED BY <1>1, <1>5, <3>1, <3>2, <3>3, NothingStands
  <2>2. ~Standing(row)'
    BY <1>4, <1>6 DEF Standing
  <2> QED BY <2>1, <1>4, <1>6 DEF Standing
<1>12. \A e \in Deliveries : pc'[e] \in {"update", "forget", "post"} => e = d
  BY <1>2, <1>5, Alone DEF Orderly
<1>13. Remembered'
  BY <1>4, <1>5, <1>6, <1>11, <1>12 DEF Remembered, Slack
<1>14. Arrived'
  <2>1. ASSUME NEW e \in Slack, e.phase = "CONFIRMED", pc'[e] = "delivered"
        PROVE  \E m \in Messages : channel'[m].shows = e
    <3>1. e # d /\ pc[e] = "delivered"
      BY <1>5, <2>1 DEF Slack
    <3>2. PICK m \in Messages : channel[m].shows = e
      BY <1>2, <2>1, <3>1 DEF Orderly, Arrived
    <3>3. m # row
      BY <1>2, <1>6, <2>1, <3>1, <3>2, ChannelFacts DEF Orderly, Remembered, TypeInv, Typed
    <3> QED BY <1>6, <3>2, <3>3
  <2> QED BY <1>1, <1>2, <1>4, <1>5, <1>6, <2>1 DEF Orderly, Arrived
<1> QED BY <1>5, <1>10, <1>13, <1>14 DEF Orderly

(* The edited message is forgotten. *)
LEMMA ForgetCalm == \A d \in Deliveries : TypeInv /\ CalmInv /\ Forget(d) => CalmInv'
<1> SUFFICES ASSUME NEW d \in Deliveries, TypeInv, CalmInv, Forget(d), calm' PROVE Orderly'
  BY DEF CalmInv
<1>1. /\ pc[d] = "forget" /\ calm /\ row' = None /\ Goto(d, "delivered") /\ d \in Slack
      /\ UNCHANGED <<existing, channel, mails>>
  BY DEF Forget, Written, Fault, NoFault, AfterMerge, TypeInv, Placed
<1>2. Orderly /\ Active(d)
  BY <1>1 DEF CalmInv, Active, Published, Settled
<1>3. /\ pc'[d] = "delivered"
      /\ \A e \in Deliveries \ {d} : pc'[e] = pc[e]
      /\ OneByOne' /\ NoneLost'
  BY <1>1, <1>2, StepAlone DEF Orderly
<1>4. /\ Messages' = Messages /\ \A m \in Messages : channel[m].shows \in Slack
      /\ existing[d] \in Messages /\ channel[existing[d]].shows = d /\ d.phase = "CONFIRMED"
  BY <1>1, <1>2, ChannelFacts DEF TypeInv, Typed, Placed, Messages, Message, Orderly, Remembered
<1>5. \A e \in Slack \ {d} : Published(e)' => Earlier(e, d)
  BY <1>1, <1>2, <1>3, Alone DEF Orderly, Published, Slack
<1>6. Distinct'
  BY <1>1, <1>2, <1>3, <1>4 DEF Orderly, Distinct, Slack
<1>7. ASSUME NEW m \in Messages PROVE ~Standing(m)'
  <2>1. PICK s \in Slack : s = channel[m].shows
    BY <1>4
  <2>2. channel'[m].shows = s /\ Published(s)' /\ Published(d)'
    BY <1>1, <1>2, <1>3, <1>4, <2>1 DEF Orderly, Distinct, Published, Slack
  <2>3. CASE s = d
    BY <1>4, <2>2, <2>3 DEF Standing
  <2>4. CASE s # d
    BY <1>1, <1>3, <1>5, <2>2, <2>4, NothingStands
  <2> QED BY <2>3, <2>4
<1>8. \A e \in Deliveries : pc'[e] \notin {"update", "forget", "post"}
  BY <1>2, <1>3, Alone DEF Orderly
<1>9. Remembered'
  BY <1>1, <1>4, <1>7, <1>8 DEF Remembered, Slack
<1>10. Arrived'
  BY <1>1, <1>2, <1>3, <1>4 DEF Orderly, Arrived, Slack
<1> QED BY <1>3, <1>6, <1>9, <1>10 DEF Orderly

(* A report that finds nothing to edit is a message, or a mail, of its own. *)
LEMMA PostCalm == \A d \in Deliveries : TypeInv /\ CalmInv /\ Post(d) => CalmInv'
<1> SUFFICES ASSUME NEW d \in Deliveries, TypeInv, CalmInv, Post(d), calm' PROVE Orderly'
  BY DEF CalmInv
<1> DEFINE label == IF Remembers(d) THEN "remember" ELSE "delivered"
<1>1. /\ pc[d] = "post" /\ calm /\ row' = row /\ Goto(d, label) /\ Sent(d)
      /\ existing' = [existing EXCEPT ![d] = IF d \in Slack THEN Len(channel') ELSE None]
  BY DEF Post, Fails, Fault, NoFault
<1>2. Orderly /\ Active(d)
  BY <1>1 DEF CalmInv, Active, Published, Settled
<1>3. /\ pc'[d] = label
      /\ \A e \in Deliveries \ {d} : pc'[e] = pc[e]
      /\ OneByOne' /\ NoneLost'
  BY <1>1, <1>2, StepAlone DEF Orderly, InProgress
<1>4. \A e \in Deliveries : pc'[e] \notin {"update", "forget", "post"}
  BY <1>2, <1>3, Alone DEF Orderly
<1>5. \A m \in Messages : channel[m].shows \in Slack \ {d} /\ pc[channel[m].shows] = "delivered"
  BY <1>1, <1>2, ChannelFacts, Alone DEF TypeInv, Typed, Message, Orderly, Distinct, Slack
<1>6. row # None => row \in Messages /\ channel[row].shows.phase = "ESTIMATE"
  BY <1>2, <1>5 DEF Orderly, Remembered, TypeInv, Typed
<1>7. CASE d \in Slack
  <2>1. PICK n : /\ n \notin Messages /\ Messages' = Messages \cup {n} /\ UNCHANGED mails
                 /\ \A m \in Messages : /\ channel'[m].shows = channel[m].shows
                                        /\ channel'[m].there = channel[m].there
                 /\ channel'[n].shows = d /\ channel'[n].there
    BY <1>1, <1>7, SentFacts DEF TypeInv, Typed
  <2>2. \A e \in Slack \ {d} : Published(e)' => Earlier(e, d)
    BY <1>2, <1>3, <1>7, Alone DEF Orderly, Published, Slack
  <2>3. ASSUME NEW m \in Messages PROVE channel[m].shows.cycle # d.cycle
    <3>1. CASE d.phase = "CONFIRMED"
      BY <1>1, <1>2, <1>7, <3>1 DEF Orderly, Remembered
    <3>2. CASE d.phase # "CONFIRMED"
      <4>1. Earlier(channel[m].shows, d)
        BY <1>5, <1>2, <1>7, Alone DEF Orderly, Published
      <4> QED BY <1>5, <1>7, <3>2, <4>1, SlackOrder
    <3> QED BY <3>1, <3>2
  <2>4. Distinct'
    BY <1>2, <1>3, <1>5, <2>1, <2>3 DEF Orderly, Distinct, Slack
  <2>5. ~Standing(n)'
    BY <1>3, <1>7, <2>1 DEF Standing, Remembers
  <2>6. ASSUME NEW m \in Messages PROVE ~Standing(m)'
    <3>1. PICK s \in Slack \ {d} : s = channel[m].shows /\ pc[s] = "delivered"
      BY <1>5
    <3>2. channel'[m].shows = s /\ Published(s)' /\ Published(d)'
      BY <1>3, <2>1, <3>1 DEF Published, Slack
    <3> QED BY <1>3, <1>7, <2>2, <3>1, <3>2, NothingStands
  <2>7. Remembered'
    BY <1>1, <1>4, <1>6, <2>1, <2>5, <2>6 DEF Remembered, Slack
  <2>8. Arrived'
    BY <1>2, <1>3, <1>5, <1>7, <2>1 DEF Orderly, Arrived, Slack
  <2> QED BY <1>3, <2>4, <2>7, <2>8 DEF Orderly
<1>8. CASE d \notin Slack
  <2>1. mails' = [mails EXCEPT ![d] = @ + 1] /\ UNCHANGED channel /\ Messages' = Messages
    BY <1>1, <1>8 DEF Sent, Messages
  <2>2. pc'[d] = "delivered"
    BY <1>3, <1>8 DEF Remembers
  <2>3. Distinct'
    BY <1>2, <1>3, <1>5, <2>1 DEF Orderly, Distinct, Slack
  <2>4. ASSUME NEW m \in Messages, Standing(m)' PROVE Standing(m)
    <3>1. \A e \in Slack : (Published(e)' <=> Published(e)) /\ pc'[e] = pc[e]
      BY <1>3, <1>8 DEF Published, Slack
    <3> QED BY <1>5, <2>1, <2>4, <3>1 DEF Standing
  <2>5. Remembered'
    BY <1>1, <1>2, <1>4, <1>6, <2>1, <2>4 DEF Orderly, Remembered, Slack
  <2>6. mails'[d] = 1 /\ \A e \in Deliveries \ {d} : mails'[e] = mails[e]
    <3>1. mails[d] = 0
      BY <1>1, <1>2, <1>8 DEF Orderly, Arrived
    <3>2. DOMAIN mails = Deliveries
      BY DEF TypeInv, Typed
    <3>3. mails'[d] = mails[d] + 1 /\ \A e \in Deliveries \ {d} : mails'[e] = mails[e]
      BY <2>1, <3>2
    <3> QED BY <3>1, <3>3
  <2>7. Arrived'
    BY <1>2, <1>3, <1>8, <2>1, <2>2, <2>6 DEF Orderly, Arrived, Slack
  <2> QED BY <1>3, <2>3, <2>5, <2>7 DEF Orderly
<1> QED BY <1>7, <1>8

(* The estimate's message is remembered: no other stands. *)
LEMMA RememberCalm == \A d \in Deliveries : CauseInv /\ CalmInv /\ Remember(d) => CalmInv'
<1> SUFFICES ASSUME NEW d \in Deliveries, CauseInv, CalmInv, Remember(d), calm' PROVE Orderly'
  BY DEF CalmInv
<1>1. /\ pc[d] = "remember" /\ calm /\ row' = existing[d] /\ Goto(d, "delivered")
      /\ UNCHANGED <<existing, channel, mails>>
  BY DEF Remember, Written, Fault, NoFault
<1>2. Orderly /\ Active(d) /\ TypeInv
  BY <1>1 DEF CalmInv, Active, Published, Settled, CauseInv
<1>3. /\ pc'[d] = "delivered"
      /\ \A e \in Deliveries \ {d} : pc'[e] = pc[e]
      /\ OneByOne' /\ NoneLost'
  BY <1>1, <1>2, StepAlone DEF Orderly
<1>4. /\ d \in Slack /\ d.phase = "ESTIMATE"
      /\ existing[d] \in Messages /\ channel[existing[d]].shows = d
  BY <1>1, <1>2 DEF TypeInv, Placed, CauseInv, Fresh
<1>5. Messages' = Messages /\ \A m \in Messages : channel[m].shows \in Slack
  BY <1>1, <1>2, ChannelFacts DEF TypeInv, Typed, Messages, Message
<1>6. \A e \in Slack \ {d} : Published(e)' => Earlier(e, d)
  BY <1>2, <1>3, <1>4, Alone DEF Orderly, Published, Slack
<1>7. Distinct'
  BY <1>1, <1>2, <1>3, <1>5 DEF Orderly, Distinct, Slack
<1>8. ASSUME NEW m \in Messages, Standing(m)' PROVE existing[d] = m
  <2>1. PICK s \in Slack : s = channel[m].shows
    BY <1>5
  <2>2. channel'[m].shows = s /\ Published(s)' /\ Published(d)'
    BY <1>1, <1>2, <1>3, <2>1 DEF Orderly, Distinct, Published, Slack
  <2>3. s = d
    BY <1>3, <1>4, <1>6, <1>8, <2>2, NothingStands
  <2> QED BY <1>2, <1>4, <2>1, <2>3 DEF Orderly, Distinct
<1>9. \A e \in Deliveries : pc'[e] \notin {"update", "forget", "post"}
  BY <1>2, <1>3, Alone DEF Orderly
<1>10. Remembered'
  BY <1>1, <1>4, <1>5, <1>8, <1>9 DEF Remembered, Slack
<1>11. Arrived'
  BY <1>1, <1>2, <1>3, <1>4, <1>5 DEF Orderly, Arrived, Slack
<1> QED BY <1>3, <1>7, <1>10, <1>11 DEF Orderly

LEMMA CalmStep == CauseInv /\ CalmInv /\ [Next]_vars => CalmInv'
<1> SUFFICES ASSUME CauseInv, CalmInv, [Next]_vars, calm' PROVE CalmInv'
  BY DEF CalmInv
<1>1. TypeInv
  BY DEF CauseInv
<1>2. CASE UNCHANGED vars
  BY <1>2 DEF CalmInv, Orderly, OneByOne, NoneLost, Distinct, Standing, Remembered, Arrived,
              Active, Published, Messages, vars
<1>3. ~Expire /\ (\A m \in Messages : ~Remove(m)) /\ \A d \in Deliveries : ~Crash(d)
  BY DEF Expire, Remove, Crash, Fails, Fault
<1> QED BY <1>1, <1>2, <1>3, PublishCalm, StartCalm, LookupCalm, UpdateCalm, ForgetCalm, PostCalm,
           RememberCalm DEF Next, Handle

(* Reports that arrive one after the other, in order and without faults or *)
(* stale reads, end as one message per deployment with its confirmed figures, and one   *)
(* mail each: a confirmed report finds its deployment's estimate, the one  *)
(* message that stands, remembered.                                        *)
THEOREM MergedInPlaceHolds == Spec => []MergedInPlace
<1>1. Init => CauseInv /\ CalmInv
  BY CauseInit, CalmInit
<1>2. CauseInv /\ CalmInv /\ [Next]_vars => (CauseInv /\ CalmInv)'
  BY CauseStep, CalmStep
<1>3. CalmInv => MergedInPlace
  <2> SUFFICES ASSUME Orderly, NEW d \in Deliveries, pc[d] \in {"unpublished"} \cup Settled,
                      pc[d] # "unpublished"
               PROVE  pc[d] = "delivered"
    BY DEF CalmInv, MergedInPlace, Orderly, Distinct, Arrived
  <2> QED BY DEF Orderly, NoneLost, Settled
<1> QED BY <1>1, <1>2, <1>3, PTL DEF Spec
==============================================================================
