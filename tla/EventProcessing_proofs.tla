----------------------- MODULE EventProcessing_proofs ------------------------
(***************************************************************************)
(* Proofs about EventProcessing, for any messages, keys, invocations,      *)
(* timer lengths and number of faults the assumptions allow.               *)
(***************************************************************************)
EXTENDS EventProcessing, TLAPS

(* The unprimed control and table updates the actions are built from keep  *)
(* their types: a record that ends, or an invocation that moves on.        *)
LEMMA GotoType ==
  ASSUME TypeOK, NEW w \in Workers, NEW label \in Owning,
         pc[w] \in Owning \cup {"inspect"}, Goto(w, label)
  PROVE  /\ pc' \in [Workers -> PC]
         /\ cur' = cur /\ failed' = failed
         /\ \A v \in Workers : cur'[v] \in Msgs <=> pc'[v] \in Owning \cup {"inspect"}
BY DEF TypeOK, Goto, Owning, PC

(* Ending a record (handlers._handle_record returning) keeps the types. *)
LEMMA FinishRecordType ==
  ASSUME TypeOK, NEW w \in Workers, NEW failure \in BOOLEAN,
         pc[w] \in Owning \cup {"inspect"}, FinishRecord(w, failure)
  PROVE  /\ pc' \in [Workers -> PC]
         /\ cur' \in [Workers -> Msgs \cup {NoMsg}]
         /\ failed' \in [Workers -> SUBSET Msgs]
         /\ sent' \in [Workers -> BOOLEAN]
         /\ \A v \in Workers : cur'[v] \in Msgs <=> pc'[v] \in Owning \cup {"inspect"}
<1>1. cur[w] \in Msgs
  BY DEF TypeOK
<1>2. pc' \in [Workers -> PC] /\ cur' \in [Workers -> Msgs \cup {NoMsg}]
  BY DEF TypeOK, FinishRecord, PC
<1>3. failed' \in [Workers -> SUBSET Msgs]
  BY <1>1 DEF TypeOK, FinishRecord
<1>4. sent' \in [Workers -> BOOLEAN]
  BY DEF TypeOK, FinishRecord
<1>5. \A v \in Workers : cur'[v] \in Msgs <=> pc'[v] \in Owning \cup {"inspect"}
  BY NamesAssumption DEF TypeOK, FinishRecord, Owning
<1>6. QED
  BY <1>2, <1>3, <1>4, <1>5

(* The initial state has the types. *)
LEMMA InitType == Init => TypeOK
<1>1. -1 \in -1..Lease /\ 0 \in 0..Visibility /\ 0 \in 0..MaxReceive
      /\ 0 \in 0..LambdaTimeout
  BY TimingAssumption, BoundsAssumption
<1>2. QED
  BY <1>1, NamesAssumption DEF Init, TypeOK, Statuses, PC, Owning

(* The put of claim keeps the table's type. *)
LEMMA PutClaimType ==
  ASSUME TypeOK, NEW k \in Keys, PutClaim(k)
  PROVE  row' \in [Keys -> Statuses] /\ lease' \in [Keys -> -1..Lease]
BY TimingAssumption DEF TypeOK, PutClaim, Statuses

(* The delete of release keeps the table's type. *)
LEMMA DeleteRowType ==
  ASSUME TypeOK, NEW k \in Keys, DeleteRow(k)
  PROVE  row' \in [Keys -> Statuses] /\ lease' \in [Keys -> -1..Lease]
BY TimingAssumption DEF TypeOK, DeleteRow, Statuses

(* The update of complete keeps the table's type. *)
LEMMA MarkCompletedType ==
  ASSUME TypeOK, NEW k \in Keys, MarkCompleted(k)
  PROVE  row' \in [Keys -> Statuses] /\ lease' \in [Keys -> -1..Lease]
BY TimingAssumption DEF TypeOK, MarkCompleted, Statuses

(* A fault, or none, leaves the fault count a number. *)
LEMMA FaultType ==
  ASSUME TypeOK, Fault \/ NoFault \/ Outage
  PROVE  faults' \in Nat
BY DEF TypeOK, Fault, NoFault, Outage

(* Counting a replay keeps the counter's type. *)
LEMMA CountReplayType ==
  ASSUME TypeOK, NEW w \in Workers, NEW out \in BOOLEAN, CountReplay(w, out)
  PROVE  replays' \in [Keys -> Nat]
<1>1. CASE ~out
  BY <1>1 DEF TypeOK, CountReplay
<1>2. CASE out
  <2>1. \A k \in Keys : replays[k] + 1 \in Nat
    BY DEF TypeOK
  <2>2. CASE KeyIn(w) \in Keys
    BY <1>2, <2>1, <2>2 DEF TypeOK, CountReplay
  <2>3. CASE KeyIn(w) \notin Keys
    BY <1>2, <2>3 DEF TypeOK, CountReplay
  <2>4. QED
    BY <2>2, <2>3
<1>3. QED
  BY <1>1, <1>2

(* The current record of an invocation that has one belongs to a key. *)
LEMMA KeyInType ==
  ASSUME TypeOK, NEW w \in Workers, pc[w] \in Owning \cup {"inspect"}
  PROVE  KeyIn(w) \in Keys /\ cur[w] \in Msgs
BY NamesAssumption DEF TypeOK, KeyIn

(* A delivery to an invocation keeps every type. *)
LEMMA DeliverType ==
  ASSUME TypeOK, NEW w \in Workers, NEW records \in SUBSET Msgs,
         \A m \in records : receives[m] < MaxReceive,
         Deliver(w, records), faults' \in Nat
  PROVE  TypeOK'
<1>1. hidden' \in [Msgs -> 0..Visibility]
  BY TimingAssumption DEF TypeOK, Deliver
<1>2. receives' \in [Msgs -> 0..MaxReceive]
  BY BoundsAssumption DEF TypeOK, Deliver
<1>3. timeLeft' \in [Workers -> 0..LambdaTimeout]
  BY TimingAssumption DEF TypeOK, Deliver
<1>4. pc' \in [Workers -> PC]
      /\ \A v \in Workers : cur'[v] \in Msgs <=> pc'[v] \in Owning \cup {"inspect"}
  BY DEF TypeOK, Deliver, PC, Owning, record
<1>5. QED
  BY <1>1, <1>2, <1>3, <1>4
     DEF TypeOK, Deliver, table, record, history

(* The end of an invocation, returned or crashed, keeps every type. *)
LEMMA StopType ==
  ASSUME TypeOK, NEW w \in Workers, Stop(w),
         msg' \in [Msgs -> {"queued", "deleted", "dead"}],
         UNCHANGED <<hidden, receives, table, accepted, suppressed>>,
         replays' \in [Keys -> Nat], faults' \in Nat
  PROVE  TypeOK'
<1>1. timeLeft' \in [Workers -> 0..LambdaTimeout]
  BY TimingAssumption DEF TypeOK, Stop
<1>2. /\ pc' \in [Workers -> PC]
      /\ cur' \in [Workers -> Msgs \cup {NoMsg}]
      /\ \A v \in Workers : cur'[v] \in Msgs <=> pc'[v] \in Owning \cup {"inspect"}
  BY NamesAssumption DEF TypeOK, Stop, PC, Owning
<1>3. QED
  BY <1>1, <1>2 DEF TypeOK, Stop, table

(* A step of an invocation keeps every type. *)
LEMMA StepType ==
  ASSUME TypeOK, NEW w \in Workers, Step(w)
  PROVE  TypeOK'
<1>1. ASSUME NEW m \in Msgs, Discard(w, m)
      PROVE  TypeOK'
  BY <1>1 DEF TypeOK, Discard, sqs, table, record, history
<1>2. ASSUME NEW m \in Msgs, Claim(w, m)
      PROVE  TypeOK'
  <2>1. KeyOf[m] \in Keys
    BY NamesAssumption
  <2>2. row' \in [Keys -> Statuses] /\ lease' \in [Keys -> -1..Lease]
    BY <1>2, <2>1, PutClaimType DEF Claim, TypeOK, table
  <2>3. /\ pc' \in [Workers -> PC] /\ cur' \in [Workers -> Msgs \cup {NoMsg}]
        /\ \A v \in Workers : cur'[v] \in Msgs <=> pc'[v] \in Owning \cup {"inspect"}
    BY <1>2 DEF TypeOK, Claim, PC, Owning
  <2>4. faults' \in Nat
    BY <1>2, FaultType DEF Claim
  <2>5. QED
    BY <1>2, <2>2, <2>3, <2>4 DEF TypeOK, Claim, sqs, history
<1>3. CASE Inspect(w)
  <2>1. faults' \in Nat
    BY <1>3, FaultType DEF Inspect
  <2>2. PICK failure \in BOOLEAN : FinishRecord(w, failure)
    BY <1>3 DEF Inspect, ReadsComplete
  <2>3. QED
    BY <1>3, <2>1, <2>2, FinishRecordType
       DEF TypeOK, Inspect, sqs, table, invocation, history
<1>4. CASE Analyze(w)
  <2>1. PICK label \in Owning : Goto(w, label)
    BY <1>4 DEF Analyze, Owning
  <2>2. faults' \in Nat
    BY <1>4, FaultType DEF Analyze
  <2>3. pc[w] \in Owning
    BY <1>4 DEF Analyze, Owning
  <2>4. QED
    BY <1>4, <2>1, <2>2, <2>3, GotoType
       DEF TypeOK, Analyze, sqs, table, invocation, history
<1>5. CASE Publish(w)
  <2>1. PICK label \in Owning : Goto(w, label)
    BY <1>5 DEF Publish, Owning
  <2>2. pc[w] \in Owning
    BY <1>5 DEF Publish, Owning
  <2>3. PICK took \in SUBSET Destinations :
          /\ accepted' = [accepted EXCEPT ![KeyIn(w)] =
                            [d \in Destinations |->
                               IF d \in took THEN @[d] + 1 ELSE @[d]]]
          /\ \/ /\ took = Destinations /\ NoFault /\ Goto(w, "commit")
                /\ sent' = [sent EXCEPT ![w] = TRUE]
                /\ UNCHANGED replays
             \/ /\ Fault /\ Goto(w, "release")
                /\ CountReplay(w, took # {})
                /\ UNCHANGED sent
    BY <1>5 DEF Publish
  <2>4. accepted' \in [Keys -> [Destinations -> Nat]]
    BY <2>2, <2>3, KeyInType DEF TypeOK
  <2>5. replays' \in [Keys -> Nat]
    BY <2>3, CountReplayType DEF TypeOK
  <2>6. sent' \in [Workers -> BOOLEAN] /\ faults' \in Nat
    BY <2>3, FaultType DEF TypeOK
  <2>7. QED
    BY <1>5, <2>1, <2>2, <2>4, <2>5, <2>6, GotoType
       DEF TypeOK, Publish, sqs, table, invocation
<1>6. CASE Suppress(w)
  <2>1. PICK label \in Owning : Goto(w, label)
    BY <1>6 DEF Suppress, Owning
  <2>2. pc[w] \in Owning
    BY <1>6 DEF Suppress, Owning
  <2>3. suppressed' \subseteq Keys /\ faults' \in Nat
    BY <1>6, <2>2, KeyInType, FaultType DEF TypeOK, Suppress
  <2>4. QED
    BY <1>6, <2>1, <2>2, <2>3, GotoType
       DEF TypeOK, Suppress, sqs, table, invocation
<1>7. CASE Commit(w)
  <2>1. PICK label \in Owning : Goto(w, label)
    BY <1>7 DEF Commit, Owning
  <2>2. pc[w] \in Owning
    BY <1>7 DEF Commit, Owning
  <2>3. replays' \in [Keys -> Nat] /\ faults' \in Nat
    BY <1>7, CountReplayType, FaultType DEF TypeOK, Commit
  <2>4. QED
    BY <1>7, <2>1, <2>2, <2>3, GotoType
       DEF TypeOK, Commit, sqs, table, invocation
<1>8. CASE Complete(w)
  <2>1. pc[w] \in Owning
    BY <1>8 DEF Complete, Owning
  <2>2. KeyIn(w) \in Keys
    BY <2>1, KeyInType
  <2>3. row' \in [Keys -> Statuses] /\ lease' \in [Keys -> -1..Lease]
    BY <1>8, <2>2, MarkCompletedType DEF TypeOK, Complete, table
  <2>4. replays' \in [Keys -> Nat] /\ faults' \in Nat
    BY <1>8, CountReplayType, FaultType DEF TypeOK, Complete
  <2>5. FinishRecord(w, FALSE)
    BY <1>8 DEF Complete
  <2>6. QED
    BY <1>8, <2>1, <2>3, <2>4, <2>5, FinishRecordType
       DEF TypeOK, Complete, sqs, invocation
<1>9. CASE Release(w)
  <2>1. pc[w] \in Owning
    BY <1>9 DEF Release, Owning
  <2>2. KeyIn(w) \in Keys
    BY <2>1, KeyInType
  <2>3. row' \in [Keys -> Statuses] /\ lease' \in [Keys -> -1..Lease]
    BY <1>9, <2>2, DeleteRowType DEF TypeOK, Release, table
  <2>4. faults' \in Nat
    BY <1>9, FaultType DEF Release
  <2>5. FinishRecord(w, TRUE)
    BY <1>9 DEF Release
  <2>6. QED
    BY <1>9, <2>1, <2>3, <2>4, <2>5, FinishRecordType
       DEF TypeOK, Release, sqs, invocation, history
<1>10. CASE Return(w)
  <2>1. msg' \in [Msgs -> {"queued", "deleted", "dead"}]
    BY <1>10 DEF TypeOK, Return
  <2>2. QED
    BY <1>10, <2>1, StopType DEF TypeOK, Return, history
<1>11. QED
  BY <1>1, <1>2, <1>3, <1>4, <1>5, <1>6, <1>7, <1>8, <1>9, <1>10 DEF Step

(* Every step keeps every type. *)
LEMMA NextType == TypeOK /\ [Next]_vars => TypeOK'
<1> SUFFICES ASSUME TypeOK, [Next]_vars
             PROVE  TypeOK'
  OBVIOUS
<1>1. ASSUME NEW w \in Workers, Step(w)
      PROVE  TypeOK'
  BY <1>1, StepType
<1>2. ASSUME NEW w \in Workers, Crash(w)
      PROVE  TypeOK'
  <2>1. replays' \in [Keys -> Nat]
    BY <1>2, CountReplayType DEF TypeOK, Crash
  <2>2. faults' \in Nat
    BY <1>2, FaultType DEF Crash
  <2>3. QED
    BY <1>2, <2>1, <2>2, StopType DEF TypeOK, Crash, sqs
<1>3. ASSUME NEW w \in Workers, NEW records \in SUBSET Msgs, Receive(w, records)
      PROVE  TypeOK'
  BY <1>3, DeliverType, FaultType DEF Receive
<1>4. ASSUME NEW w \in Workers, NEW m \in Msgs, ReceiveAgain(w, m)
      PROVE  TypeOK'
  <2>1. {m} \in SUBSET Msgs /\ \A n \in {m} : receives[n] < MaxReceive
    BY <1>4 DEF ReceiveAgain
  <2>2. QED
    BY <1>4, <2>1, DeliverType, FaultType DEF ReceiveAgain
<1>5. ASSUME NEW m \in Msgs, DeadLetter(m)
      PROVE  TypeOK'
  BY <1>5 DEF TypeOK, DeadLetter, table, invocation, record, history
<1>6. CASE Tick
  <2>1. timeLeft' \in [Workers -> 0..LambdaTimeout]
    BY <1>6, TimingAssumption DEF TypeOK, Tick
  <2>2. hidden' \in [Msgs -> 0..Visibility]
    BY <1>6, TimingAssumption DEF TypeOK, Tick
  <2>3. lease' \in [Keys -> -1..Lease]
    BY <1>6, TimingAssumption DEF TypeOK, Tick
  <2>4. QED
    BY <1>6, <2>1, <2>2, <2>3 DEF TypeOK, Tick, record, history
<1>7. CASE UNCHANGED vars
  BY <1>7 DEF TypeOK, vars, sqs, table, invocation, record, history
<1>8. QED
  BY <1>1, <1>2, <1>3, <1>4, <1>5, <1>6, <1>7 DEF Next

(* Every variable keeps its type in every behaviour: in particular the     *)
(* receive count stays within the redrive limit, no timer leaves its range *)
(* and an invocation has a current record exactly between claim and end.   *)
THEOREM TypeCorrect == Spec => []TypeOK
BY InitType, NextType, PTL DEF Spec

-----------------------------------------------------------------------------
(***************************************************************************)
(* Ownership: the lease of a claim covers the rest of the invocation that  *)
(* made it, which makes "one owner per key" inductive.                     *)
(***************************************************************************)

Ownership == LeaseCoversWork /\ OneOwner

(* A step that starts no work and leaves the table alone. *)
LEMMA QuietStep ==
  ASSUME Ownership, row' = row, lease' = lease,
         \A v \in Workers : pc'[v] \in Owning =>
           pc[v] \in Owning /\ cur'[v] = cur[v] /\ timeLeft'[v] = timeLeft[v]
  PROVE  Ownership'
BY DEF Ownership, LeaseCoversWork, OneOwner, Owns, KeyIn

(* A step of an owner that gives its key up and changes at most its row. *)
LEMMA LeavingStep ==
  ASSUME Ownership, NEW w \in Workers, pc[w] \in Owning, pc'[w] \notin Owning,
         KeyIn(w) \in Keys,
         \A v \in Workers \ {w} : pc'[v] = pc[v] /\ cur'[v] = cur[v],
         timeLeft' = timeLeft,
         \A v \in Workers : pc[v] \in Owning => KeyIn(v) \in Keys,
         \A k \in Keys \ {KeyIn(w)} : row'[k] = row[k] /\ lease'[k] = lease[k]
  PROVE  Ownership'
<1> SUFFICES ASSUME ~StoreOutages
             PROVE  Ownership'
  BY DEF Ownership, LeaseCoversWork, OneOwner
<1>1. ASSUME NEW v \in Workers, pc'[v] \in Owning
      PROVE  /\ v # w /\ pc[v] \in Owning /\ KeyIn(v)' = KeyIn(v)
             /\ KeyIn(v) \in Keys \ {KeyIn(w)}
  BY <1>1 DEF Ownership, OneOwner, Owns, KeyIn
<1>2. LeaseCoversWork'
  BY <1>1 DEF Ownership, LeaseCoversWork
<1>3. OneOwner'
  BY <1>1 DEF Ownership, OneOwner, Owns
<1>4. QED
  BY <1>2, <1>3 DEF Ownership

(* A claim: the key had no row, or an expired one, hence no owner. *)
LEMMA ClaimOwnership ==
  ASSUME TypeOK, Ownership, NEW w \in Workers, NEW m \in Msgs, Claim(w, m)
  PROVE  Ownership'
<1> SUFFICES ASSUME ~StoreOutages
             PROVE  Ownership'
  BY DEF Ownership, LeaseCoversWork, OneOwner
<1>1. /\ pc[w] = "next" /\ timeLeft' = timeLeft
      /\ \A v \in Workers \ {w} : pc'[v] = pc[v] /\ cur'[v] = cur[v]
  BY DEF Claim, TypeOK
<1>2. CASE ~Claimable(KeyOf[m])
  <2>1. pc'[w] = "inspect" /\ row' = row /\ lease' = lease
    BY <1>2 DEF Claim, Outage, table, TypeOK
  <2>2. \A v \in Workers : pc'[v] \in Owning => v # w
    BY <2>1 DEF Owning
  <2>3. QED
    BY <1>1, <2>1, <2>2, QuietStep
<1>3. CASE Claimable(KeyOf[m])
  <2> DEFINE k == KeyOf[m]
  <2>1. k \in Keys
    BY NamesAssumption
  <2>2. PutClaim(k) /\ pc'[w] = "analyze" /\ cur'[w] = m
    BY <1>3 DEF Claim, Outage, TypeOK
  <2>3. /\ row'[k] = "PROCESSING" /\ lease'[k] = Lease
        /\ \A j \in Keys \ {k} : row'[j] = row[j] /\ lease'[j] = lease[j]
    BY <2>1, <2>2 DEF PutClaim, TypeOK
  <2>4. ASSUME NEW v \in Workers, pc[v] \in Owning
        PROVE  KeyIn(v) \in Keys \ {k}
    <3>1. KeyIn(v) \in Keys
      BY <2>4, KeyInType
    <3>2. row[KeyIn(v)] = "PROCESSING" /\ timeLeft[v] <= lease[KeyIn(v)]
      BY <2>4 DEF Ownership, LeaseCoversWork
    <3>3. timeLeft[v] >= 0 /\ timeLeft[v] \in Int /\ lease[KeyIn(v)] \in Int
      BY <3>1, TimingAssumption DEF TypeOK
    <3>4. ~Claimable(KeyIn(v))
      BY <3>2, <3>3 DEF Claimable
    <3>5. QED
      BY <1>3, <3>1, <3>4
  <2>5. timeLeft[w] <= Lease
    BY TimingAssumption DEF TypeOK
  <2>6. KeyIn(w)' = k
    BY <2>2 DEF KeyIn
  <2>7. ASSUME NEW v \in Workers, v # w, pc'[v] \in Owning
        PROVE  pc[v] \in Owning /\ KeyIn(v)' = KeyIn(v) /\ KeyIn(v) \in Keys \ {k}
    BY <1>1, <2>4, <2>7 DEF KeyIn
  <2>8. LeaseCoversWork'
    BY <1>1, <2>3, <2>5, <2>6, <2>7 DEF Ownership, LeaseCoversWork
  <2>9. OneOwner'
    BY <2>6, <2>7 DEF Ownership, OneOwner, Owns
  <2>10. QED
    BY <2>8, <2>9 DEF Ownership
<1>4. QED
  BY <1>2, <1>3

(* Time passes: a living invocation and its lease lose the same. *)
LEMMA TickOwnership ==
  ASSUME TypeOK, Ownership, Tick
  PROVE  Ownership'
<1>1. ASSUME ~StoreOutages, NEW w \in Workers, pc'[w] \in Owning
      PROVE  row'[KeyIn(w)'] = "PROCESSING" /\ timeLeft'[w] <= lease'[KeyIn(w)']
  <2>1. pc[w] \in Owning /\ pc[w] # "idle" /\ KeyIn(w)' = KeyIn(w) /\ row' = row
    BY <1>1 DEF Tick, record, KeyIn, Owning
  <2>2. KeyIn(w) \in Keys
    BY <2>1, KeyInType
  <2>3. row[KeyIn(w)] = "PROCESSING" /\ timeLeft[w] <= lease[KeyIn(w)]
    BY <1>1, <2>1 DEF Ownership, LeaseCoversWork
  <2>4. timeLeft[w] > 0 /\ timeLeft'[w] = timeLeft[w] - 1
    BY <2>1 DEF Tick
  <2>5. timeLeft[w] \in Int /\ lease[KeyIn(w)] \in Int
    BY <2>2, TimingAssumption DEF TypeOK
  <2>6. lease[KeyIn(w)] >= 0
    BY <2>3, <2>4, <2>5
  <2>7. lease'[KeyIn(w)] = lease[KeyIn(w)] - 1
    BY <2>2, <2>6 DEF Tick
  <2>8. QED
    BY <2>1, <2>3, <2>4, <2>5, <2>7
<1>2. OneOwner'
  BY DEF Ownership, OneOwner, Owns, KeyIn, Tick, record
<1>3. QED
  BY <1>1, <1>2 DEF Ownership, LeaseCoversWork

(* Every step keeps leases longer than the work under them and owners unique. *)
LEMMA NextOwnership == TypeOK /\ Ownership /\ [Next]_vars => Ownership'
<1> SUFFICES ASSUME TypeOK, Ownership, [Next]_vars
             PROVE  Ownership'
  OBVIOUS
<1>1. ASSUME NEW w \in Workers, Step(w)
      PROVE  Ownership'
  <2>1. ASSUME NEW m \in Msgs, Discard(w, m)
        PROVE  Ownership'
    BY <2>1, QuietStep DEF Discard, table, record
  <2>2. ASSUME NEW m \in Msgs, Claim(w, m)
        PROVE  Ownership'
    BY <2>2, ClaimOwnership
  <2>3. CASE Inspect(w)
    BY <2>3, QuietStep DEF Inspect, FinishRecord, table, invocation, TypeOK, Owning
  <2>4. CASE Analyze(w)
    BY <2>4, QuietStep DEF Analyze, Goto, table, invocation, TypeOK, Owning
  <2>5. CASE Publish(w)
    BY <2>5, QuietStep DEF Publish, Goto, table, invocation, TypeOK, Owning
  <2>6. CASE Suppress(w)
    BY <2>6, QuietStep DEF Suppress, Goto, table, invocation, TypeOK, Owning
  <2>7. CASE Commit(w)
    BY <2>7, QuietStep DEF Commit, Goto, table, invocation, TypeOK, Owning
  <2>8. CASE Complete(w)
    <3>1. pc[w] \in Owning /\ timeLeft' = timeLeft
      BY <2>8 DEF Complete, Owning, invocation
    <3>2. /\ pc'[w] \notin Owning
          /\ \A v \in Workers \ {w} : pc'[v] = pc[v] /\ cur'[v] = cur[v]
      BY <2>8 DEF Complete, FinishRecord, TypeOK, Owning
    <3>3. \A k \in Keys \ {KeyIn(w)} : row'[k] = row[k] /\ lease'[k] = lease[k]
      BY <2>8 DEF Complete, MarkCompleted, table, TypeOK
    <3>4. QED
      BY <3>1, <3>2, <3>3, KeyInType, LeavingStep
  <2>9. CASE Release(w)
    <3>1. pc[w] \in Owning /\ timeLeft' = timeLeft
      BY <2>9 DEF Release, Owning, invocation
    <3>2. /\ pc'[w] \notin Owning
          /\ \A v \in Workers \ {w} : pc'[v] = pc[v] /\ cur'[v] = cur[v]
      BY <2>9 DEF Release, FinishRecord, TypeOK, Owning
    <3>3. \A k \in Keys \ {KeyIn(w)} : row'[k] = row[k] /\ lease'[k] = lease[k]
      BY <2>9 DEF Release, DeleteRow, table, TypeOK
    <3>4. QED
      BY <3>1, <3>2, <3>3, KeyInType, LeavingStep
  <2>10. CASE Return(w)
    BY <2>10, QuietStep DEF Return, Stop, table, TypeOK, Owning
  <2>11. QED
    BY <1>1, <2>1, <2>2, <2>3, <2>4, <2>5, <2>6, <2>7, <2>8, <2>9, <2>10 DEF Step
<1>2. ASSUME NEW w \in Workers, Crash(w)
      PROVE  Ownership'
  BY <1>2, QuietStep DEF Crash, Stop, table, TypeOK, Owning
<1>3. ASSUME NEW w \in Workers, NEW records \in SUBSET Msgs, Receive(w, records)
      PROVE  Ownership'
  BY <1>3, QuietStep DEF Receive, Deliver, table, record, TypeOK, Owning
<1>4. ASSUME NEW w \in Workers, NEW m \in Msgs, ReceiveAgain(w, m)
      PROVE  Ownership'
  BY <1>4, QuietStep DEF ReceiveAgain, Deliver, table, record, TypeOK, Owning
<1>5. ASSUME NEW m \in Msgs, DeadLetter(m)
      PROVE  Ownership'
  BY <1>5, QuietStep DEF DeadLetter, table, record, invocation
<1>6. CASE Tick
  BY <1>6, TickOwnership
<1>7. CASE UNCHANGED vars
  BY <1>7, QuietStep DEF vars, table, record, invocation
<1>8. QED
  BY <1>1, <1>2, <1>3, <1>4, <1>5, <1>6, <1>7 DEF Next

(* At the start nobody owns anything. *)
LEMMA InitOwnership == Init => Ownership
BY DEF Init, Ownership, LeaseCoversWork, OneOwner, Owns, Owning

(* While the idempotency table answers, no two invocations ever work on    *)
(* one key, whatever crashes, redeliveries and takeovers happen.           *)
THEOREM OneOwnerHolds == Spec => []OneOwner
<1>1. Spec => []Ownership
  BY TypeCorrect, InitOwnership, NextOwnership, PTL DEF Spec
<1>2. Ownership => OneOwner
  BY DEF Ownership
<1>3. QED
  BY <1>1, <1>2, PTL

(* While the idempotency table answers, the lease an invocation works      *)
(* under always has at least as long to run as the invocation itself.      *)
THEOREM LeaseCoversWorkHolds == Spec => []LeaseCoversWork
<1>1. Spec => []Ownership
  BY TypeCorrect, InitOwnership, NextOwnership, PTL DEF Spec
<1>2. Ownership => LeaseCoversWork
  BY DEF Ownership
<1>3. QED
  BY <1>1, <1>2, PTL

-----------------------------------------------------------------------------
(***************************************************************************)
(* Completed rows: only an owner writes a row, and an owner's row is       *)
(* PROCESSING.                                                             *)
(***************************************************************************)

(* No step takes a COMPLETED row away while the table answers. *)
LEMMA CompletedRowKept ==
  ASSUME TypeOK, Ownership, [Next]_vars, ~StoreOutages,
         NEW k \in Keys, row[k] = "COMPLETED"
  PROVE  row'[k] = "COMPLETED"
<1>1. CASE row' = row
  BY <1>1
<1>2. ASSUME NEW w \in Workers, NEW m \in Msgs, Claim(w, m)
      PROVE  row'[k] = "COMPLETED"
  <2>1. UNCHANGED table \/ (Claimable(KeyOf[m]) /\ PutClaim(KeyOf[m]))
    BY <1>2 DEF Claim
  <2>2. ~Claimable(k)
    BY DEF Claimable
  <2>3. QED
    BY <2>1, <2>2 DEF PutClaim, table, TypeOK
<1>3. ASSUME NEW w \in Workers, Complete(w)
      PROVE  row'[k] = "COMPLETED"
  BY <1>3 DEF Complete, MarkCompleted, table, TypeOK
<1>4. ASSUME NEW w \in Workers, Release(w)
      PROVE  row'[k] = "COMPLETED"
  <2>1. pc[w] \in Owning
    BY <1>4 DEF Release, Owning
  <2>2. KeyIn(w) # k
    BY <2>1 DEF Ownership, LeaseCoversWork
  <2>3. QED
    BY <1>4, <2>2 DEF Release, DeleteRow, table, TypeOK
<1>5. QED
  BY <1>1, <1>2, <1>3, <1>4
     DEF Next, Step, Discard, Inspect, Analyze, Publish, Suppress, Commit,
         Return, Crash, Receive, ReceiveAgain, Deliver, DeadLetter, Tick, vars, table

(* While the idempotency table answers, completed work is never claimed    *)
(* again nor forgotten by another invocation's release.                    *)
THEOREM CompletedStaysHolds == Spec => CompletedStays
<1> DEFINE Kept == ~StoreOutages =>
                     \A k \in Keys : row[k] = "COMPLETED" => row'[k] = "COMPLETED"
<1>1. TypeOK /\ Ownership /\ [Next]_vars => [Kept]_vars
  BY CompletedRowKept
<1>2. Spec => [](TypeOK /\ Ownership)
  BY TypeCorrect, InitOwnership, NextOwnership, PTL DEF Spec
<1>3. Spec => [][Kept]_vars
  BY <1>1, <1>2, PTL DEF Spec
<1>4. QED
  BY <1>3 DEF CompletedStays

-----------------------------------------------------------------------------
(***************************************************************************)
(* Duplicates: a report is "out" for a key once its row is COMPLETED or    *)
(* its owner has published it.  A destination that took the report more    *)
(* often than the replays explain would have taken it while it was out.    *)
(***************************************************************************)

ReportOut(k) ==
  \/ row[k] = "COMPLETED"
  \/ \E w \in Workers : Owns(w, k) /\ pc[w] \in {"commit", "complete"} /\ sent[w]

BoundFor(k) ==
  \A d \in Destinations :
    accepted[k][d] <= replays[k] + (IF ReportOut(k) THEN 1 ELSE 0)

OutBound == ~StoreOutages => \A k \in Keys : BoundFor(k)

(* The four ways a step may treat the account of one key. *)
LEMMA AccountStep ==
  ASSUME TypeOK, TypeOK', NEW k \in Keys, BoundFor(k),
         \/ /\ accepted'[k] = accepted[k] /\ replays'[k] = replays[k]
            /\ ReportOut(k) => ReportOut(k)'
         \/ accepted'[k] = accepted[k] /\ replays'[k] = replays[k] + 1
         \/ /\ ~ReportOut(k)
            /\ \A d \in Destinations : accepted'[k][d] <= accepted[k][d] + 1
            /\ \/ replays'[k] = replays[k] /\ ReportOut(k)'
               \/ replays'[k] = replays[k] + 1
  PROVE  BoundFor(k)'
<1>1. \A d \in Destinations : accepted[k][d] \in Nat /\ accepted'[k][d] \in Nat
  BY DEF TypeOK
<1>2. replays[k] \in Nat /\ replays'[k] \in Nat
  BY DEF TypeOK
<1>3. QED
  BY <1>1, <1>2 DEF BoundFor

(* A step after which every published owner is still one, or which leaves  *)
(* its key with a COMPLETED row, keeps reports out.                        *)
LEMMA OutKept ==
  ASSUME row' = row, NEW k \in Keys,
         \A v \in Workers : pc[v] \in {"commit", "complete"} /\ sent[v] =>
           pc'[v] \in {"commit", "complete"} /\ sent'[v] /\ cur'[v] = cur[v]
  PROVE  ReportOut(k) => ReportOut(k)'
BY DEF ReportOut, Owns, KeyIn, Owning

(* An owner that has not published has no report out. *)
LEMMA NotOutYet ==
  ASSUME Ownership, ~StoreOutages, NEW w \in Workers, pc[w] \in Owning,
         pc[w] \notin {"commit", "complete"}, NEW k \in Keys, KeyIn(w) = k
  PROVE  ~ReportOut(k)
BY DEF Ownership, OneOwner, LeaseCoversWork, Owns, ReportOut

(* A step of an invocation keeps the bound on accepted reports. *)
LEMMA StepOutBound ==
  ASSUME TypeOK, TypeOK', Ownership, OutBound, ~StoreOutages,
         NEW w \in Workers, Step(w), NEW k \in Keys
  PROVE  BoundFor(k)'
<1> USE DEF sqs, table, invocation, record, history
<1>1. BoundFor(k)
  BY DEF OutBound
<1>2. ASSUME NEW m \in Msgs, Discard(w, m)
      PROVE  BoundFor(k)'
  BY <1>1, <1>2, OutKept, AccountStep DEF Discard
<1>3. ASSUME NEW m \in Msgs, Claim(w, m)
      PROVE  BoundFor(k)'
  <2>1. KeyOf[m] \in Keys
    BY NamesAssumption
  <2>2. ReportOut(k) => ReportOut(k)'
    <3>1. \A v \in Workers : pc[v] \in {"commit", "complete"} /\ sent[v] =>
            pc'[v] \in {"commit", "complete"} /\ sent'[v] /\ cur'[v] = cur[v]
      BY <1>3 DEF Claim, TypeOK
    <3>2. row[k] = "COMPLETED" => row'[k] = "COMPLETED"
      BY <1>3, <2>1 DEF Claim, PutClaim, Claimable, TypeOK
    <3>3. QED
      BY <3>1, <3>2 DEF ReportOut, Owns, KeyIn, Owning
  <2>3. QED
    BY <1>1, <1>3, <2>2, AccountStep DEF Claim
<1>4. CASE Inspect(w)
  BY <1>1, <1>4, OutKept, AccountStep DEF Inspect, FinishRecord, TypeOK
<1>5. CASE Analyze(w)
  BY <1>1, <1>5, OutKept, AccountStep DEF Analyze, Goto, TypeOK
<1>6. CASE Publish(w)
  <2>1. pc[w] \in Owning /\ pc[w] \notin {"commit", "complete"}
    BY <1>6 DEF Publish, Owning
  <2>2. KeyIn(w) \in Keys
    BY <2>1, KeyInType
  <2>3. PICK took \in SUBSET Destinations :
          /\ accepted' = [accepted EXCEPT ![KeyIn(w)] =
                            [d \in Destinations |->
                               IF d \in took THEN @[d] + 1 ELSE @[d]]]
          /\ \/ /\ took = Destinations /\ NoFault /\ Goto(w, "commit")
                /\ sent' = [sent EXCEPT ![w] = TRUE]
                /\ UNCHANGED replays
             \/ /\ Fault /\ Goto(w, "release")
                /\ CountReplay(w, took # {})
                /\ UNCHANGED sent
    BY <1>6 DEF Publish
  <2>4. row' = row
    BY <1>6 DEF Publish
  <2>5. CASE KeyIn(w) # k
    <3>1. accepted'[k] = accepted[k] /\ replays'[k] = replays[k]
      BY <2>2, <2>3, <2>5 DEF CountReplay, TypeOK
    <3>2. ReportOut(k) => ReportOut(k)'
      BY <2>1, <2>3, <2>4, <2>5 DEF ReportOut, Owns, KeyIn, Goto, TypeOK, Owning
    <3>3. QED
      BY <1>1, <3>1, <3>2, AccountStep
  <2>6. CASE KeyIn(w) = k
    <3>1. ~ReportOut(k)
      BY <2>1, <2>6, NotOutYet
    <3>2. \A d \in Destinations :
            accepted'[k][d] = IF d \in took THEN accepted[k][d] + 1 ELSE accepted[k][d]
      BY <2>3, <2>6 DEF TypeOK
    <3>3. \A d \in Destinations : accepted'[k][d] <= accepted[k][d] + 1
      <4>1. \A d \in Destinations : accepted[k][d] \in Nat
        BY DEF TypeOK
      <4>2. QED
        BY <3>2, <4>1
    <3>4. CASE Goto(w, "commit") /\ sent' = [sent EXCEPT ![w] = TRUE] /\ UNCHANGED replays
      <4>1. ReportOut(k)'
        BY <2>6, <3>4 DEF ReportOut, Owns, KeyIn, Goto, TypeOK, Owning
      <4>2. QED
        BY <1>1, <3>1, <3>3, <3>4, <4>1, AccountStep
    <3>5. CASE took # {} /\ CountReplay(w, took # {})
      <4>1. replays'[k] = replays[k] + 1
        BY <2>6, <3>5 DEF CountReplay, TypeOK
      <4>2. QED
        BY <1>1, <3>1, <3>3, <4>1, AccountStep
    <3>6. CASE took = {} /\ CountReplay(w, took # {})
      <4>1. accepted'[k] = accepted[k]
        BY <3>2, <3>6 DEF TypeOK
      <4>2. replays' = replays
        BY <3>6 DEF CountReplay
      <4>3. QED
        BY <1>1, <3>1, <4>1, <4>2, AccountStep
    <3>7. QED
      BY <2>3, <3>4, <3>5, <3>6
  <2>7. QED
    BY <2>5, <2>6
<1>7. CASE Suppress(w)
  BY <1>1, <1>7, OutKept, AccountStep DEF Suppress, Goto, TypeOK
<1>8. CASE Commit(w)
  <2>1. CASE Goto(w, "complete") /\ UNCHANGED replays
    BY <1>1, <1>8, <2>1, OutKept, AccountStep DEF Commit, Goto, TypeOK
  <2>2. CASE Goto(w, "release") /\ CountReplay(w, TRUE) /\ KeyIn(w) = k
    <3>1. replays'[k] = replays[k] + 1
      BY <2>2 DEF CountReplay, TypeOK
    <3>2. QED
      BY <1>1, <1>8, <3>1, AccountStep DEF Commit
  <2>3. CASE Goto(w, "release") /\ CountReplay(w, TRUE) /\ KeyIn(w) # k
    <3>1. replays'[k] = replays[k]
      BY <2>3 DEF CountReplay, TypeOK
    <3>2. ReportOut(k) => ReportOut(k)'
      BY <1>8, <2>3 DEF Commit, ReportOut, Owns, KeyIn, Goto, TypeOK, Owning
    <3>3. QED
      BY <1>1, <1>8, <3>1, <3>2, AccountStep DEF Commit
  <2>4. QED
    BY <1>8, <2>1, <2>2, <2>3 DEF Commit
<1>9. CASE Complete(w)
  <2>1. KeyIn(w) \in Keys
    BY <1>9, KeyInType DEF Complete, Owning
  <2>2. MarkCompleted(KeyIn(w)) /\ replays' = replays /\ accepted' = accepted
    BY <1>9 DEF Complete, Outage
  <2>3. ReportOut(k) => ReportOut(k)'
    <3>1. CASE KeyIn(w) = k
      BY <2>1, <2>2, <3>1 DEF MarkCompleted, ReportOut, TypeOK
    <3>2. CASE KeyIn(w) # k
      BY <1>9, <2>1, <2>2, <3>2
         DEF Complete, FinishRecord, MarkCompleted, ReportOut, Owns, KeyIn, TypeOK, Owning
    <3>3. QED
      BY <3>1, <3>2
  <2>4. QED
    BY <1>1, <2>2, <2>3, AccountStep
<1>10. CASE Release(w)
  <2>1. pc[w] \in Owning /\ pc[w] \notin {"commit", "complete"}
    BY <1>10 DEF Release, Owning
  <2>2. KeyIn(w) \in Keys
    BY <2>1, KeyInType
  <2>3. ReportOut(k) => ReportOut(k)'
    <3>1. CASE KeyIn(w) = k
      BY <2>1, <3>1, NotOutYet
    <3>2. CASE KeyIn(w) # k
      BY <1>10, <2>1, <2>2, <3>2
         DEF Release, FinishRecord, DeleteRow, ReportOut, Owns, KeyIn, TypeOK, Owning
    <3>3. QED
      BY <3>1, <3>2
  <2>4. QED
    BY <1>1, <1>10, <2>3, AccountStep DEF Release
<1>11. CASE Return(w)
  BY <1>1, <1>11, OutKept, AccountStep DEF Return, Stop, TypeOK
<1>12. QED
  BY <1>2, <1>3, <1>4, <1>5, <1>6, <1>7, <1>8, <1>9, <1>10, <1>11 DEF Step

(* Every step keeps the bound on accepted reports. *)
LEMMA NextOutBound == TypeOK /\ TypeOK' /\ Ownership /\ OutBound /\ [Next]_vars => OutBound'
<1> SUFFICES ASSUME TypeOK, TypeOK', Ownership, OutBound, [Next]_vars, ~StoreOutages,
                    NEW k \in Keys
             PROVE  BoundFor(k)'
  BY DEF OutBound
<1> USE DEF sqs, table, invocation, record, history
<1>1. BoundFor(k)
  BY DEF OutBound
<1>2. ASSUME NEW w \in Workers, Step(w)
      PROVE  BoundFor(k)'
  BY <1>2, StepOutBound
<1>3. ASSUME NEW w \in Workers, Crash(w)
      PROVE  BoundFor(k)'
  <2> DEFINE lost == sent[w] /\ pc[w] \in {"commit", "complete"}
  <2>1. CASE lost /\ KeyIn(w) = k
    <3>1. replays'[k] = replays[k] + 1
      BY <1>3, <2>1 DEF Crash, CountReplay, TypeOK
    <3>2. QED
      BY <1>1, <1>3, <3>1, AccountStep DEF Crash
  <2>2. CASE ~lost \/ KeyIn(w) # k
    <3>1. replays'[k] = replays[k]
      BY <1>3, <2>2 DEF Crash, CountReplay, TypeOK
    <3>2. ReportOut(k) => ReportOut(k)'
      BY <1>3, <2>2 DEF Crash, Stop, ReportOut, Owns, KeyIn, TypeOK, Owning
    <3>3. QED
      BY <1>1, <1>3, <3>1, <3>2, AccountStep DEF Crash
  <2>3. QED
    BY <2>1, <2>2
<1>4. ASSUME NEW w \in Workers, NEW records \in SUBSET Msgs, Receive(w, records)
      PROVE  BoundFor(k)'
  BY <1>1, <1>4, OutKept, AccountStep DEF Receive, Deliver, TypeOK
<1>5. ASSUME NEW w \in Workers, NEW m \in Msgs, ReceiveAgain(w, m)
      PROVE  BoundFor(k)'
  BY <1>1, <1>5, OutKept, AccountStep DEF ReceiveAgain, Deliver, TypeOK
<1>6. ASSUME NEW m \in Msgs, DeadLetter(m)
      PROVE  BoundFor(k)'
  BY <1>1, <1>6, OutKept, AccountStep DEF DeadLetter
<1>7. CASE Tick
  BY <1>1, <1>7, OutKept, AccountStep DEF Tick
<1>8. CASE UNCHANGED vars
  BY <1>1, <1>8, OutKept, AccountStep DEF vars
<1>9. QED
  BY <1>2, <1>3, <1>4, <1>5, <1>6, <1>7, <1>8 DEF Next

(* At the start no report is out. *)
LEMMA InitOutBound == Init => OutBound
BY DEF Init, OutBound, BoundFor, ReportOut, Owns, Owning

(* While the idempotency table answers, a destination takes a key's report *)
(* at most once more than there were faults after the report was out.      *)
THEOREM DuplicatesHaveACauseHolds == Spec => []DuplicatesHaveACause
<1>1. Spec => [](TypeOK /\ Ownership)
  BY TypeCorrect, InitOwnership, NextOwnership, PTL DEF Spec
<1>2. Spec => []OutBound
  BY <1>1, InitOutBound, NextOutBound, PTL DEF Spec
<1>3. TypeOK /\ OutBound => DuplicatesHaveACause
  BY DEF OutBound, BoundFor, DuplicatesHaveACause, TypeOK
<1>4. QED
  BY <1>1, <1>2, <1>3, PTL
-----------------------------------------------------------------------------
(***************************************************************************)
(* Dead letters: what every receive of a message is paid for with.  A      *)
(* claim of the key costs the message at most two receives: the message is *)
(* visible again at most twice before the lease has run out, because one   *)
(* visibility timeout is longer than the lease.  Every claim but the last  *)
(* ends in a fault.                                                        *)
(***************************************************************************)

(* A record of an invocation stays hidden for as long as it can run, and   *)
(* only a PROCESSING row has a lease.                                      *)
Timely ==
  /\ \A w \in Workers :
       /\ pc[w] = "idle" => batch[w] = {} /\ failed[w] = {}
       /\ \A m \in batch[w] : timeLeft[w] < hidden[m]
  /\ \A k \in Keys : row[k] # "PROCESSING" => lease[k] = -1

(* A record an invocation will acknowledge when it returns. *)
Holding(m) == \E w \in Workers : m \in batch[w] \ failed[w]

(* A record that may yet be acknowledged, or get the claim. *)
Undecided(m) ==
  \E w \in Workers : m \in batch[w] \ failed[w] /\ ~(pc[w] = "inspect" /\ cur[w] = m)

Done(k) == row[k] = "COMPLETED"

(* The claim has not failed yet. *)
Working(k) == \E w \in Workers : Owns(w, k) /\ pc[w] # "release"

(* The claim has failed, and its lease is running. *)
Orphaned(k) == ~Done(k) /\ ~Working(k) /\ lease[k] >= 0

Free(k) == ~Done(k) /\ lease[k] < 0

(* The message comes back while this lease is running. *)
Again(m) == lease[KeyOf[m]] >= 0 /\ hidden[m] <= lease[KeyOf[m]]

Account(m) ==
  LET k == KeyOf[m]
  IN  /\ Done(k) => /\ receives[m] <= 2 * faults + 3
                    /\ ~Holding(m) => receives[m] <= 2 * faults + 2
      /\ Working(k) => /\ receives[m] <= 2 * faults + 2
                       /\ Again(m) => receives[m] <= 2 * faults + 1
      /\ Orphaned(k) => /\ receives[m] <= 2 * faults
                        /\ Again(m) => receives[m] < 2 * faults
      /\ Free(k) => /\ receives[m] <= 2 * faults + 1
                    /\ ~Undecided(m) => receives[m] <= 2 * faults

StackEvents == {m \in Msgs : KeyOf[m] \notin ChangeSetKeys}

Accounts == \A m \in StackEvents : msg[m] = "queued" => Account(m)

LEMMA TimelyInit == Init => Timely
BY DEF Init, Timely

(* A delivery hides its records for longer than the invocation may run. *)
LEMMA TimelyDeliver ==
  ASSUME TypeOK, Timely, NEW w \in Workers, NEW records \in SUBSET Msgs, Deliver(w, records)
  PROVE  Timely'
<1>1. /\ pc' = [pc EXCEPT ![w] = "next"] /\ batch' = [batch EXCEPT ![w] = records]
      /\ timeLeft' = [timeLeft EXCEPT ![w] = LambdaTimeout]
      /\ hidden' = [m \in Msgs |-> IF m \in records THEN Visibility ELSE hidden[m]]
      /\ UNCHANGED <<failed, row, lease>>
  BY DEF Deliver, table
<1>2. ASSUME NEW v \in Workers, NEW m \in batch'[v]
      PROVE  timeLeft'[v] < hidden'[m]
  <2>1. m \in Msgs /\ timeLeft'[v] <= LambdaTimeout
    BY <1>1, <1>2, TimingAssumption DEF TypeOK
  <2>2. CASE m \in records
    BY <1>1, <2>1, <2>2, TimingAssumption DEF TypeOK
  <2>3. CASE m \notin records
    BY <1>1, <1>2, <2>1, <2>3 DEF Timely, TypeOK
  <2> QED BY <2>2, <2>3
<1> QED BY <1>1, <1>2 DEF Timely, TypeOK

LEMMA TimelyTick ==
  ASSUME TypeOK, Timely, Tick
  PROVE  Timely'
<1>1. UNCHANGED <<pc, batch, failed, row>>
  BY DEF Tick
<1>2. ASSUME NEW v \in Workers, NEW m \in batch[v]
      PROVE  timeLeft'[v] < hidden'[m]
  <2>1. pc[v] # "idle" /\ m \in Msgs /\ timeLeft[v] < hidden[m]
    BY <1>2 DEF Timely, TypeOK
  <2>2. timeLeft[v] > 0 /\ timeLeft'[v] = timeLeft[v] - 1
        /\ hidden'[m] = IF hidden[m] > 0 THEN hidden[m] - 1 ELSE 0
    BY <2>1 DEF Tick
  <2>3. timeLeft[v] \in Nat /\ hidden[m] \in Nat
    BY <2>1, TimingAssumption DEF TypeOK
  <2> QED BY <2>1, <2>2, <2>3
<1>3. \A k \in Keys : row[k] # "PROCESSING" => lease'[k] = -1
  BY DEF Tick, Timely
<1> QED BY <1>1, <1>2, <1>3 DEF Timely

LEMMA TimelyStep == TypeOK /\ Timely /\ [Next]_vars => Timely'
<1> SUFFICES ASSUME TypeOK, Timely, [Next]_vars PROVE Timely'
  OBVIOUS
<1> USE DEF sqs, table, invocation, record, history
<1>1. ASSUME UNCHANGED <<hidden, timeLeft, batch, row, lease>>,
             \A v \in Workers : pc'[v] = "idle" => pc[v] = "idle" /\ failed'[v] = failed[v]
      PROVE  Timely'
  BY <1>1 DEF Timely
<1>2. ASSUME NEW w \in Workers, Inspect(w) PROVE Timely'
  BY <1>1, <1>2 DEF Inspect, FinishRecord, TypeOK
<1>3. ASSUME NEW w \in Workers, Analyze(w) \/ Publish(w) \/ Suppress(w) \/ Commit(w)
      PROVE  Timely'
  BY <1>1, <1>3 DEF Analyze, Publish, Suppress, Commit, Goto, TypeOK
<1>4. ASSUME NEW w \in Workers, NEW m \in Msgs, Discard(w, m) PROVE Timely'
  BY <1>1, <1>4 DEF Discard
<1>5. ASSUME NEW w \in Workers, NEW m \in Msgs, Claim(w, m) PROVE Timely'
  <2>1. /\ UNCHANGED <<hidden, timeLeft, batch, failed>>
        /\ \A v \in Workers : pc'[v] = "idle" => pc[v] = "idle"
    BY <1>5 DEF Claim, TypeOK
  <2>2. KeyOf[m] \in Keys
    BY NamesAssumption
  <2>3. \A k \in Keys : row'[k] # "PROCESSING" => lease'[k] = -1
    BY <1>5, <2>2 DEF Claim, PutClaim, Timely, TypeOK
  <2> QED BY <2>1, <2>3 DEF Timely
<1>6. ASSUME NEW w \in Workers, Complete(w) \/ Release(w) PROVE Timely'
  <2>1. /\ UNCHANGED <<hidden, timeLeft, batch>>
        /\ \A v \in Workers : pc'[v] = "idle" => pc[v] = "idle" /\ failed'[v] = failed[v]
    BY <1>6 DEF Complete, Release, FinishRecord, TypeOK
  <2>2. KeyIn(w) \in Keys
    BY <1>6, KeyInType DEF Complete, Release, Owning
  <2>3. \A k \in Keys : row'[k] # "PROCESSING" => lease'[k] = -1
    BY <1>6, <2>2 DEF Complete, Release, MarkCompleted, DeleteRow, Timely, TypeOK
  <2> QED BY <2>1, <2>3 DEF Timely
<1>7. ASSUME NEW w \in Workers, Return(w) \/ Crash(w) PROVE Timely'
  <2>1. Stop(w) /\ UNCHANGED <<hidden, row, lease>>
    BY <1>7 DEF Return, Crash
  <2> QED BY <2>1 DEF Stop, Timely, TypeOK
<1>8. ASSUME NEW w \in Workers, NEW records \in SUBSET Msgs, Receive(w, records)
      PROVE  Timely'
  BY <1>8, TimelyDeliver DEF Receive
<1>9. ASSUME NEW w \in Workers, NEW m \in Msgs, ReceiveAgain(w, m) PROVE Timely'
  BY <1>9, TimelyDeliver DEF ReceiveAgain
<1>10. ASSUME NEW m \in Msgs, DeadLetter(m) PROVE Timely'
  BY <1>1, <1>10 DEF DeadLetter
<1>11. CASE Tick
  BY <1>11, TimelyTick
<1>12. CASE UNCHANGED vars
  BY <1>1, <1>12 DEF vars
<1> QED BY <1>2, <1>3, <1>4, <1>5, <1>6, <1>7, <1>8, <1>9, <1>10, <1>11, <1>12 DEF Next, Step

(* The numbers an account is made of. *)
LEMMA AccountType ==
  ASSUME TypeOK, NEW m \in Msgs
  PROVE  /\ KeyOf[m] \in Keys /\ receives[m] \in Nat /\ faults \in Nat
         /\ hidden[m] \in Nat /\ lease[KeyOf[m]] \in Int /\ lease[KeyOf[m]] <= Lease
BY NamesAssumption, TimingAssumption, BoundsAssumption DEF TypeOK

(* A fault pays for two receives: the claim it ends, or one that may have  *)
(* been lost to it. *)
LEMMA FaultAccount ==
  ASSUME TypeOK, TypeOK', NEW m \in Msgs, Account(m), faults' = faults + 1,
         receives'[m] = receives[m], hidden'[m] = hidden[m],
         row'[KeyOf[m]] = row[KeyOf[m]], lease'[KeyOf[m]] = lease[KeyOf[m]]
  PROVE  Account(m)'
BY AccountType DEF Account, Done, Working, Orphaned, Free, Again

(* A step that leaves the message and its row alone, ends no claim of its  *)
(* key, and decides nothing about the message.                             *)
LEMMA QuietAccount ==
  ASSUME TypeOK, TypeOK', NEW m \in Msgs, Account(m), faults' = faults,
         receives'[m] = receives[m], hidden'[m] = hidden[m],
         row'[KeyOf[m]] = row[KeyOf[m]], lease'[KeyOf[m]] = lease[KeyOf[m]],
         Working(KeyOf[m])' <=> Working(KeyOf[m]),
         Done(KeyOf[m]) /\ Holding(m) => Holding(m)',
         Free(KeyOf[m]) /\ Undecided(m) => Undecided(m)'
  PROVE  Account(m)'
BY AccountType DEF Account, Done, Orphaned, Free, Again

(* An owner's row has a lease, so a key is in one of the four cases. *)
LEMMA WorkingHasLease ==
  ASSUME TypeOK, Ownership, ~StoreOutages, NEW w \in Workers, NEW k \in Keys, Owns(w, k)
  PROVE  /\ row[k] = "PROCESSING" /\ lease[k] >= 0
         /\ \A v \in Workers : Owns(v, k) => v = w
<1>1. row[k] = "PROCESSING" /\ timeLeft[w] <= lease[k]
  BY DEF Ownership, LeaseCoversWork, Owns
<1>2. timeLeft[w] \in Nat /\ lease[k] \in Int
  BY TimingAssumption DEF TypeOK
<1> QED BY <1>1, <1>2 DEF Ownership, OneOwner

(* A delivery costs a receive; the message is then hidden for longer than  *)
(* any lease runs.  A message that arrives while it is in flight is a      *)
(* fault.                                                                  *)
LEMMA DeliverAccount ==
  ASSUME TypeOK, TypeOK', Timely, NEW w \in Workers, NEW records \in SUBSET Msgs,
         Deliver(w, records), NEW m \in Msgs, Account(m), Ownership, ~StoreOutages,
         \/ faults' = faults + 1
         \/ faults' = faults /\ \A n \in records : Visible(n)
  PROVE  Account(m)'
<1> DEFINE k == KeyOf[m]
<1>1. /\ pc[w] = "idle" /\ pc' = [pc EXCEPT ![w] = "next"]
      /\ batch' = [batch EXCEPT ![w] = records]
      /\ hidden' = [n \in Msgs |-> IF n \in records THEN Visibility ELSE hidden[n]]
      /\ receives' = [n \in Msgs |-> IF n \in records THEN receives[n] + 1 ELSE receives[n]]
      /\ UNCHANGED <<row, lease, cur, failed>>
  BY DEF Deliver, table, record
<1>2. batch[w] = {} /\ failed[w] = {}
  BY <1>1 DEF Timely
<1>3. \A v \in Workers \ {w} : pc'[v] = pc[v] /\ batch'[v] = batch[v]
  BY <1>1 DEF TypeOK
<1>4. Working(k)' <=> Working(k)
  BY <1>1, <1>3 DEF Working, Owns, KeyIn, Owning, TypeOK
<1>5. (Holding(m) => Holding(m)') /\ (Undecided(m) => Undecided(m)')
  BY <1>1, <1>2, <1>3 DEF Holding, Undecided
<1>6. CASE m \notin records
  <2>1. receives'[m] = receives[m] /\ hidden'[m] = hidden[m]
    BY <1>1, <1>6
  <2> QED BY <1>1, <1>4, <1>5, <2>1, QuietAccount, FaultAccount
<1>7. CASE m \in records
  <2>1. receives'[m] = receives[m] + 1 /\ hidden'[m] = Visibility
    BY <1>1, <1>7
  <2>2. ~Again(m)'
    BY <1>1, <2>1, AccountType, TimingAssumption DEF Again
  <2>3. Holding(m)' /\ Undecided(m)'
    <3>1. m \in batch'[w] \ failed'[w] /\ pc'[w] = "next"
      BY <1>1, <1>2, <1>7 DEF TypeOK
    <3> QED BY <3>1 DEF Holding, Undecided
  <2>4. CASE faults' = faults + 1
    BY <1>1, <1>4, <2>1, <2>2, <2>4, AccountType DEF Account, Done, Orphaned, Free
  <2>5. CASE faults' = faults /\ Visible(m)
    <3>1. hidden[m] = 0
      BY <2>5 DEF Visible
    <3>2. ~Holding(m) /\ ~Undecided(m)
      BY <3>1, TimingAssumption DEF Timely, TypeOK, Holding, Undecided
    <3>3. lease[k] >= 0 => Again(m)
      BY <3>1 DEF Again
    <3>4. Done(k) => receives[m] <= 2 * faults + 2
      BY <3>2 DEF Account
    <3>5. Free(k) => receives[m] <= 2 * faults
      BY <3>2 DEF Account
    <3>6. Orphaned(k) => receives[m] < 2 * faults
      BY <3>3 DEF Account, Orphaned
    <3>7. Working(k) => receives[m] <= 2 * faults + 1
      BY <3>3, WorkingHasLease, AccountType DEF Account, Working
    <3> QED BY <1>1, <1>4, <2>1, <2>2, <2>3, <2>5, <3>4, <3>5, <3>6, <3>7, AccountType
            DEF Account, Done, Orphaned, Free
  <2> QED BY <1>7, <2>4, <2>5
<1> QED BY <1>6, <1>7

(* Time passes: a lease in force runs down with what its message waits. *)
LEMMA TickAccount ==
  ASSUME TypeOK, TypeOK', Ownership, ~StoreOutages, Tick, NEW m \in Msgs, Account(m)
  PROVE  Account(m)'
<1> DEFINE k == KeyOf[m]
<1>1. /\ UNCHANGED <<receives, row, pc, batch, cur, failed, faults>>
      /\ hidden'[m] = IF hidden[m] > 0 THEN hidden[m] - 1 ELSE 0
      /\ lease'[k] = IF lease[k] >= 0 THEN lease[k] - 1 ELSE -1
  BY AccountType DEF Tick, record
<1>2. Working(k)' <=> Working(k)
  BY <1>1 DEF Working, Owns, KeyIn
<1>3. (Holding(m)' <=> Holding(m)) /\ (Undecided(m)' <=> Undecided(m)) /\ (Done(k)' <=> Done(k))
  BY <1>1 DEF Holding, Undecided, Done
<1>4. Again(m)' => Again(m)
  BY <1>1, AccountType DEF Again
<1>5. Orphaned(k)' => Orphaned(k)
  BY <1>1, <1>2, <1>3, AccountType DEF Orphaned
<1>6. Free(k)' => Free(k) \/ Orphaned(k) \/ Working(k)
  BY <1>1, <1>3, AccountType DEF Free, Orphaned
<1>7. ~(Working(k) /\ Free(k)')
  <2> SUFFICES ASSUME NEW w \in Workers, Owns(w, k) PROVE ~(lease'[k] < 0)
    BY DEF Working, Free
  <2>1. timeLeft[w] <= lease[k] /\ timeLeft[w] > 0
    BY DEF Ownership, LeaseCoversWork, Owns, Owning, Tick
  <2>2. timeLeft[w] \in Nat /\ lease[k] \in Int
    BY AccountType, TimingAssumption DEF TypeOK
  <2> QED BY <1>1, <2>1, <2>2
<1> QED BY <1>1, <1>2, <1>3, <1>4, <1>5, <1>6, <1>7, AccountType DEF Account

(* A claim of a free key: the attempt may cost the message two receives. *)
LEMMA ClaimAccount ==
  ASSUME TypeOK, TypeOK', Timely, Ownership, ~StoreOutages, NEW w \in Workers, NEW n \in Msgs,
         Claim(w, n), NEW m \in Msgs, Account(m)
  PROVE  Account(m)'
<1> DEFINE k == KeyOf[m]
<1> USE DEF sqs, history
<1>1. /\ UNCHANGED <<hidden, receives, batch, failed, faults>> /\ pc[w] = "next"
      /\ cur' = [cur EXCEPT ![w] = n]
      /\ \/ Claimable(KeyOf[n]) /\ PutClaim(KeyOf[n]) /\ pc' = [pc EXCEPT ![w] = "analyze"]
         \/ ~Claimable(KeyOf[n]) /\ UNCHANGED table /\ pc' = [pc EXCEPT ![w] = "inspect"]
  BY DEF Claim, Outage, NoFault
<1>2. \A v \in Workers \ {w} : pc'[v] = pc[v] /\ cur'[v] = cur[v]
  BY <1>1 DEF TypeOK
<1>3. cur'[w] = n
  BY <1>1 DEF TypeOK
<1>4. CASE Claimable(k) /\ KeyOf[n] = k
  <2>1. Free(k)
    BY <1>4, AccountType DEF Claimable, Free, Done, Timely
  <2>2. row'[k] = "PROCESSING" /\ lease'[k] = Lease
    BY <1>1, <1>4, AccountType DEF PutClaim, TypeOK
  <2>3. Working(k)'
    BY <1>1, <1>3, <1>4 DEF Working, Owns, KeyIn, Owning, TypeOK
  <2> QED BY <1>1, <2>1, <2>2, <2>3, AccountType, TimingAssumption
          DEF Account, Done, Orphaned, Free
<1>5. CASE ~Claimable(k) \/ KeyOf[n] # k
  <2>1. row'[k] = row[k] /\ lease'[k] = lease[k]
    BY <1>1, <1>5, AccountType DEF PutClaim, table, TypeOK
  <2>2. ~(pc'[w] \in Owning /\ KeyOf[n] = k)
    BY <1>1, <1>5 DEF Owning, TypeOK
  <2>3. Working(k)' <=> Working(k)
    BY <1>1, <1>2, <1>3, <2>2 DEF Working, Owns, KeyIn, Owning
  <2>4. Free(k) => Claimable(k)
    BY AccountType DEF Free, Done, Claimable, TypeOK, Statuses
  <2>5. Free(k) => ~(pc'[w] = "inspect" /\ cur'[w] = m)
    BY <1>1, <1>3, <2>4 DEF TypeOK
  <2>6. Free(k) /\ Undecided(m) => Undecided(m)'
    BY <1>1, <1>2, <2>5 DEF Undecided
  <2>7. Holding(m) => Holding(m)'
    BY <1>1 DEF Holding
  <2> QED BY <1>1, <2>1, <2>3, <2>6, <2>7, QuietAccount
<1> QED BY <1>4, <1>5

(* Looking at the row of another invocation's claim decides for a retry    *)
(* only while that claim stands.                                           *)
LEMMA InspectAccount ==
  ASSUME TypeOK, TypeOK', ~StoreOutages, NEW w \in Workers, Inspect(w), NEW m \in Msgs, Account(m)
  PROVE  Account(m)'
<1> DEFINE k == KeyOf[m]
<1>1. /\ UNCHANGED <<hidden, receives, row, lease, batch, faults>>
      /\ pc[w] = "inspect" /\ pc' = [pc EXCEPT ![w] = "next"]
      /\ cur' = [cur EXCEPT ![w] = NoMsg]
      /\ failed' = [failed EXCEPT ![w] = IF ~ReadsComplete(KeyIn(w)) THEN @ \cup {cur[w]} ELSE @]
  BY DEF Inspect, Outage, NoFault, FinishRecord, sqs, table, invocation
<1>2. \A v \in Workers \ {w} : pc'[v] = pc[v] /\ cur'[v] = cur[v] /\ failed'[v] = failed[v]
  BY <1>1 DEF TypeOK
<1>3. pc'[w] = "next"
  BY <1>1 DEF TypeOK
<1>4. Working(k)' <=> Working(k)
  BY <1>1, <1>2, <1>3 DEF Working, Owns, KeyIn, Owning
<1>5. Done(k) /\ m \notin failed[w] => m \notin failed'[w]
  BY <1>1 DEF Done, ReadsComplete, KeyIn, TypeOK
<1>6. m \notin failed[w] /\ cur[w] # m => m \notin failed'[w]
  BY <1>1 DEF TypeOK
<1>7. Done(k) /\ Holding(m) => Holding(m)'
  BY <1>1, <1>2, <1>5 DEF Holding
<1>8. Undecided(m) => Undecided(m)'
  BY <1>1, <1>2, <1>3, <1>6 DEF Undecided
<1> QED BY <1>1, <1>4, <1>7, <1>8, QuietAccount

(* The analysis, the publish and the commit of a stack event: what does    *)
(* not go on is a fault.                                                   *)
LEMMA WorkAccount ==
  ASSUME TypeOK, TypeOK', NEW w \in Workers,
         Analyze(w) \/ Publish(w) \/ Suppress(w) \/ Commit(w),
         NEW m \in StackEvents, Account(m)
  PROVE  Account(m)'
<1> DEFINE k == KeyOf[m]
<1>1. /\ UNCHANGED <<hidden, receives, row, lease, batch, cur, failed>>
      /\ pc[w] \in Owning \ {"release"}
      /\ \/ faults' = faults + 1
         \/ faults' = faults /\ \E label \in Owning \ {"release"} : pc' = [pc EXCEPT ![w] = label]
         \/ /\ faults' = faults /\ pc' = [pc EXCEPT ![w] = "release"]
            /\ KeyIn(w) \in ChangeSetKeys
  BY DEF Analyze, Publish, Suppress, Commit, Goto, Fault, NoFault, Owning, sqs, table, invocation
<1>2. CASE faults' = faults + 1
  BY <1>1, <1>2, FaultAccount DEF StackEvents
<1>3. CASE faults' = faults
  <2>1. \A v \in Workers \ {w} : pc'[v] = pc[v]
    BY <1>1, <1>3, AccountType DEF TypeOK, StackEvents
  <2>2. pc'[w] \in Owning /\ (KeyIn(w) = k => pc'[w] # "release")
    BY <1>1, <1>3, AccountType DEF TypeOK, StackEvents, Owning
  <2>3. Working(k)' <=> Working(k)
    BY <1>1, <2>1, <2>2 DEF Working, Owns, KeyIn
  <2>4. Holding(m) => Holding(m)'
    BY <1>1 DEF Holding
  <2>5. Undecided(m) => Undecided(m)'
    BY <1>1, <2>1, <2>2 DEF Undecided, Owning
  <2> QED BY <1>1, <1>3, <2>3, <2>4, <2>5, QuietAccount DEF StackEvents
<1> QED BY <1>1, <1>2, <1>3

(* The end of a record under a claim: completed with what it has cost, or  *)
(* released after the fault that paid for it.                              *)
LEMMA EndAccount ==
  ASSUME TypeOK, TypeOK', Ownership, ~StoreOutages, NEW w \in Workers,
         Complete(w) \/ Release(w), NEW m \in Msgs, Account(m)
  PROVE  Account(m)'
<1> DEFINE k == KeyOf[m]
<1>1. /\ UNCHANGED <<hidden, receives, batch, faults>>
      /\ pc[w] \in Owning /\ pc' = [pc EXCEPT ![w] = "next"]
      /\ \/ pc[w] = "complete" /\ MarkCompleted(KeyIn(w)) /\ failed' = failed
         \/ /\ pc[w] = "release" /\ DeleteRow(KeyIn(w))
            /\ failed' = [failed EXCEPT ![w] = @ \cup {cur[w]}]
      /\ cur' = [cur EXCEPT ![w] = NoMsg]
  BY DEF Complete, Release, Outage, NoFault, FinishRecord, Owning, sqs, invocation, TypeOK
<1>2. /\ \A v \in Workers \ {w} : pc'[v] = pc[v] /\ cur'[v] = cur[v] /\ failed'[v] = failed[v]
      /\ pc'[w] = "next"
  BY <1>1 DEF TypeOK
<1>3. KeyIn(w) \in Keys
  BY <1>1, KeyInType
<1>4. CASE KeyIn(w) # k
  <2>1. row'[k] = row[k] /\ lease'[k] = lease[k]
    BY <1>1, <1>4, AccountType DEF MarkCompleted, DeleteRow, TypeOK
  <2>2. Working(k)' <=> Working(k)
    BY <1>2, <1>4 DEF Working, Owns, KeyIn, Owning
  <2>3. m \notin failed[w] => m \notin failed'[w]
    BY <1>1, <1>4 DEF KeyIn, TypeOK
  <2>4. (Holding(m) => Holding(m)') /\ (Undecided(m) => Undecided(m)')
    BY <1>1, <1>2, <2>3 DEF Holding, Undecided
  <2> QED BY <1>1, <2>1, <2>2, <2>4, QuietAccount
<1>5. CASE KeyIn(w) = k
  <2>1. row[k] = "PROCESSING" /\ lease[k] >= 0 /\ \A v \in Workers : Owns(v, k) => v = w
    BY <1>1, <1>3, <1>5, WorkingHasLease DEF Owns
  <2>2. ~Working(k)'
    BY <1>2, <2>1 DEF Working, Owns, KeyIn, Owning
  <2>3. CASE pc[w] = "complete"
    <3>1. Working(k)
      BY <1>1, <1>5, <2>3 DEF Working, Owns
    <3>2. Done(k)'
      BY <1>1, <1>3, <1>5, <2>3 DEF MarkCompleted, Done, TypeOK
    <3> QED BY <1>1, <2>2, <3>1, <3>2, AccountType DEF Account, Orphaned, Free
  <2>4. CASE pc[w] = "release"
    <3>1. Orphaned(k)
      BY <2>1, <2>4 DEF Orphaned, Working, Done
    <3>2. row'[k] = "none" /\ lease'[k] = -1
      BY <1>1, <1>3, <1>5, <2>4 DEF DeleteRow, TypeOK
    <3> QED BY <1>1, <2>2, <3>1, <3>2, AccountType DEF Account, Orphaned, Done
  <2> QED BY <1>1, <2>3, <2>4
<1> QED BY <1>4, <1>5

(* A message leaves the queue when it is acknowledged or moved away. *)
LEMMA MessageStep ==
  ASSUME TypeOK, [Next]_vars, NEW m \in Msgs, msg'[m] # msg[m]
  PROVE  /\ msg[m] = "queued" /\ msg'[m] # "queued"
         /\ msg'[m] = "dead" => DeadLetter(m)
<1> USE DEF sqs
<1>1. \/ \E w \in Workers : Return(w)
      \/ \E n \in Msgs : DeadLetter(n)
  BY DEF Next, Step, Discard, Claim, Inspect, Analyze, Publish, Suppress, Commit, Complete,
     Release, Crash, Receive, ReceiveAgain, Deliver, Tick, vars
<1>2. ASSUME NEW w \in Workers, Return(w)
      PROVE  msg[m] = "queued" /\ msg'[m] = "deleted"
  BY <1>2 DEF Return
<1>3. ASSUME NEW n \in Msgs, DeadLetter(n)
      PROVE  n = m /\ msg[m] = "queued" /\ msg'[m] = "dead"
  BY <1>3 DEF DeadLetter, Visible, TypeOK
<1> QED BY <1>1, <1>2, <1>3

LEMMA AccountsInit == Init => Accounts
<1> SUFFICES ASSUME Init, NEW m \in Msgs PROVE Account(m)
  BY DEF Accounts, StackEvents
<1>1. receives[m] = 0 /\ faults = 0 /\ KeyOf[m] \in Keys /\ lease[KeyOf[m]] = -1
  BY NamesAssumption DEF Init
<1>2. ~Working(KeyOf[m])
  BY DEF Init, Working, Owns, Owning
<1> QED BY <1>1, <1>2 DEF Account, Orphaned

LEMMA AccountsStep ==
  ASSUME TypeOK, TypeOK', Timely, Ownership, ~StoreOutages, Accounts, [Next]_vars
  PROVE  Accounts'
<1> SUFFICES ASSUME NEW m \in StackEvents, msg'[m] = "queued" PROVE Account(m)'
  BY DEF Accounts, StackEvents
<1>1. m \in Msgs /\ msg[m] = "queued" /\ Account(m)
  <2>1. m \in Msgs
    BY DEF StackEvents
  <2>2. msg[m] = "queued"
    BY <2>1, MessageStep
  <2> QED BY <2>1, <2>2 DEF Accounts
<1>2. ASSUME NEW w \in Workers, NEW n \in Msgs, Claim(w, n) PROVE Account(m)'
  BY <1>1, <1>2, ClaimAccount
<1>3. ASSUME NEW w \in Workers, Inspect(w) PROVE Account(m)'
  BY <1>1, <1>3, InspectAccount
<1>4. ASSUME NEW w \in Workers, Analyze(w) \/ Publish(w) \/ Suppress(w) \/ Commit(w)
      PROVE  Account(m)'
  BY <1>1, <1>4, WorkAccount
<1>5. ASSUME NEW w \in Workers, Complete(w) \/ Release(w) PROVE Account(m)'
  BY <1>1, <1>5, EndAccount
<1>6. ASSUME UNCHANGED <<hidden, receives, table, pc, batch, cur, failed, faults>>
      PROVE  Account(m)'
  BY <1>1, <1>6, QuietAccount DEF table, Working, Owns, KeyIn, Holding, Undecided
<1>7. ASSUME NEW w \in Workers, NEW n \in Msgs, Discard(w, n) PROVE Account(m)'
  BY <1>6, <1>7 DEF Discard, sqs, record
<1>8. ASSUME NEW w \in Workers, Return(w) PROVE Account(m)'
  <2>1. /\ UNCHANGED <<hidden, receives, row, lease, faults>>
        /\ pc[w] = "next" /\ pc'[w] = "idle" /\ m \notin batch[w] \ failed[w]
        /\ \A v \in Workers \ {w} : pc'[v] = pc[v] /\ cur'[v] = cur[v]
             /\ failed'[v] = failed[v] /\ batch'[v] = batch[v]
    BY <1>1, <1>8 DEF Return, Stop, table, TypeOK
  <2>2. Working(KeyOf[m])' <=> Working(KeyOf[m])
    BY <2>1 DEF Working, Owns, KeyIn, Owning
  <2>3. (Holding(m) => Holding(m)') /\ (Undecided(m) => Undecided(m)')
    BY <2>1 DEF Holding, Undecided
  <2> QED BY <1>1, <2>1, <2>2, <2>3, QuietAccount
<1>9. ASSUME NEW w \in Workers, Crash(w) PROVE Account(m)'
  BY <1>1, <1>9, FaultAccount DEF Crash, Fault, sqs, table
<1>10. ASSUME NEW w \in Workers, NEW records \in SUBSET Msgs, Receive(w, records)
       PROVE  Account(m)'
  BY <1>1, <1>10, DeliverAccount DEF Receive, NoFault
<1>11. ASSUME NEW w \in Workers, NEW n \in Msgs, ReceiveAgain(w, n) PROVE Account(m)'
  BY <1>1, <1>11, DeliverAccount DEF ReceiveAgain, Fault
<1>12. ASSUME NEW n \in Msgs, DeadLetter(n) PROVE Account(m)'
  BY <1>6, <1>12 DEF DeadLetter, invocation, record
<1>13. CASE Tick
  BY <1>1, <1>13, TickAccount
<1>14. CASE UNCHANGED vars
  BY <1>6, <1>14 DEF vars, sqs, invocation, record
<1> QED BY <1>2, <1>3, <1>4, <1>5, <1>7, <1>8, <1>9, <1>10, <1>11, <1>12, <1>13, <1>14
        DEF Next, Step

(* A message that is moved away has its receives accounted for. *)
LEMMA DeadLetterStep ==
  ASSUME TypeOK, TypeOK', Timely, Ownership, ~StoreOutages, Accounts, DeadLettersHaveCauses,
         [Next]_vars
  PROVE  DeadLettersHaveCauses'
<1> SUFFICES ASSUME NEW m \in StackEvents, msg'[m] = "dead"
             PROVE  2 * faults' + 2 >= MaxReceive
  BY DEF DeadLettersHaveCauses, StackEvents
<1>1. m \in Msgs
  BY DEF StackEvents
<1>2. faults' \in {faults, faults + 1} /\ faults \in Nat
  BY DEF Next, Step, Discard, Claim, Inspect, Analyze, Publish, Suppress, Commit, Complete,
     Release, Return, Crash, Receive, ReceiveAgain, DeadLetter, Tick, vars, Fault, NoFault, Outage,
     TypeOK
<1>3. CASE msg[m] = "dead"
  BY <1>1, <1>2, <1>3, BoundsAssumption DEF DeadLettersHaveCauses, StackEvents
<1>4. CASE msg[m] # "dead"
  <2>1. DeadLetter(m)
    BY <1>1, <1>4, MessageStep
  <2>2. hidden[m] = 0 /\ receives[m] = MaxReceive /\ Account(m)
    BY <2>1 DEF DeadLetter, Visible, Accounts
  <2>3. ~Holding(m) /\ ~Undecided(m)
    BY <1>1, <2>2, TimingAssumption DEF Timely, TypeOK, Holding, Undecided
  <2>4. receives[m] <= 2 * faults + 2
    BY <1>1, <2>2, <2>3, AccountType DEF Account, Orphaned, Free
  <2>5. MaxReceive <= 2 * faults + 2
    BY <2>2, <2>4
  <2>6. faults <= faults' /\ faults' \in Nat
    BY <1>2
  <2>7. \A a, b, n \in Nat : n <= 2 * a + 2 /\ a <= b => 2 * b + 2 >= n
    OBVIOUS
  <2>8. MaxReceive \in Nat
    BY BoundsAssumption
  <2> QED BY <1>2, <2>5, <2>6, <2>7, <2>8
<1> QED BY <1>3, <1>4

(* While the idempotency table answers, a stack event reaches the          *)
(* dead-letter queue only after enough faults to use up its receives: the  *)
(* backing off of one invocation from another's claim is never the cause,  *)
(* however many messages, invocations, keys and redeliveries there are.    *)
THEOREM DeadLettersHaveCausesHolds ==
  ASSUME ~StoreOutages
  PROVE  Spec => []DeadLettersHaveCauses
<1>1. Init => Accounts /\ DeadLettersHaveCauses
  BY AccountsInit DEF Init, DeadLettersHaveCauses
<1>2. TypeOK /\ TypeOK' /\ Timely /\ Ownership /\ Accounts /\ DeadLettersHaveCauses /\ [Next]_vars
        => Accounts' /\ DeadLettersHaveCauses'
  BY AccountsStep, DeadLetterStep
<1> QED BY <1>1, <1>2, TypeCorrect, TimelyInit, TimelyStep, InitOwnership, NextOwnership, PTL DEF Spec

(***************************************************************************)
(* No event is lost silently, failing calls of the idempotency table       *)
(* included - as long as the queue does not hand out a message that is in  *)
(* flight, which is where the code does lose one.                          *)
(***************************************************************************)

(* The record was answered without a failure by an invocation that has not *)
(* returned yet.                                                           *)
Passed(w, m) == m \in batch[w] \ (todo[w] \cup failed[w]) /\ cur[w] # m

Relevant(k) == {m \in Msgs \ Ignored : KeyOf[m] = k}

(* The message is acknowledged, or about to be. *)
Answered(m) == msg[m] = "deleted" \/ \E w \in Workers : Passed(w, m)

Inspecting(m) == \E w \in Workers : pc[w] = "inspect" /\ cur[w] = m

(* When a report is out: behind a commit, a completion, a COMPLETED row. *)
Delivered ==
  /\ CompletedIsDelivered
  /\ \A w \in Workers :
       /\ pc[w] = "commit" => \A d \in Destinations : accepted[KeyIn(w)][d] > 0
       /\ pc[w] = "complete" => Handled(KeyIn(w))

(* Every message is with one invocation at most, which does not outlive    *)
(* its visibility timeout.                                                 *)
Exclusive ==
  /\ \A w \in Workers :
       /\ pc[w] = "idle" => batch[w] = {}
       /\ todo[w] \subseteq batch[w] /\ failed[w] \subseteq batch[w]
       /\ cur[w] \in Msgs => cur[w] \in batch[w] \ (todo[w] \cup Ignored)
       /\ \A m \in batch[w] : msg[m] = "queued" /\ timeLeft[w] < hidden[m]
  /\ \A v, w \in Workers : v # w => batch[v] \cap batch[w] = {}

(* An event that is not handled has a message left that nobody answered;   *)
(* and when its row is gone and somebody is about to look at it, one that  *)
(* nobody is about to answer on the strength of that.                      *)
NoLossFor(k) ==
  ~Handled(k) =>
    /\ (\E m \in Relevant(k) : Answered(m)) => \E n \in Relevant(k) : ~Answered(n)
    /\ row[k] = "none" /\ (\E m \in Relevant(k) : Inspecting(m)) =>
         \E n \in Relevant(k) : ~Answered(n) /\ ~Inspecting(n)

NoLoss == \A k \in Keys : NoLossFor(k)

(***************************************************************************)
(* Reports are out                                                         *)
(***************************************************************************)

(* No step takes an accepted report, or a suppression, back. *)
LEMMA HandledStays ==
  ASSUME TypeOK, [Next]_vars, NEW k \in Keys
  PROVE  /\ \A d \in Destinations : accepted[k][d] > 0 => accepted'[k][d] > 0
         /\ Handled(k) => Handled(k)'
<1> USE DEF sqs, table, invocation, record, history
<1>1. suppressed \subseteq suppressed'
  BY DEF Next, Step, vars, Discard, Claim, Inspect, Analyze, Publish, Suppress, Commit,
         Complete, Release, Return, Crash, Receive, ReceiveAgain, Deliver, DeadLetter, Tick
<1>2. \A d \in Destinations : accepted[k][d] > 0 => accepted'[k][d] > 0
  <2>1. CASE accepted' = accepted
    BY <2>1
  <2>2. ASSUME NEW w \in Workers, Publish(w)
        PROVE  \A d \in Destinations : accepted[k][d] > 0 => accepted'[k][d] > 0
    <3>1. PICK took \in SUBSET Destinations :
            accepted' = [accepted EXCEPT ![KeyIn(w)] =
                           [d \in Destinations |->
                              IF d \in took THEN @[d] + 1 ELSE @[d]]]
      BY <2>2 DEF Publish
    <3>2. \A d \in Destinations : accepted[k][d] \in Nat
      BY DEF TypeOK
    <3>3. ASSUME NEW d \in Destinations
          PROVE  accepted'[k][d] \in {accepted[k][d], accepted[k][d] + 1}
      BY <3>1 DEF TypeOK
    <3> QED BY <3>2, <3>3
  <2> QED BY <2>1, <2>2
          DEF Next, Step, vars, Discard, Claim, Inspect, Analyze, Suppress, Commit,
              Complete, Release, Return, Crash, Receive, ReceiveAgain, Deliver, DeadLetter, Tick
<1> QED BY <1>1, <1>2 DEF Handled

(* A commit follows a publication, a completion what ended the analysis. *)
LEMMA ControlStep ==
  ASSUME TypeOK, [Next]_vars, NEW w \in Workers, pc'[w] \in {"commit", "complete"}
  PROVE  \/ pc[w] = pc'[w] /\ cur'[w] = cur[w]
         \/ pc'[w] = "commit" /\ Publish(w)
         \/ pc'[w] = "complete" /\ (Suppress(w) \/ Commit(w))
<1> USE DEF sqs, table, invocation, record, history, TypeOK
<1>1. CASE UNCHANGED vars
  BY <1>1 DEF vars
<1>2. ASSUME NEW v \in Workers, Step(v)
      PROVE  \/ pc[w] = pc'[w] /\ cur'[w] = cur[w]
             \/ pc'[w] = "commit" /\ Publish(w)
             \/ pc'[w] = "complete" /\ (Suppress(w) \/ Commit(w))
  <2>1. CASE v # w
    BY <1>2, <2>1 DEF Step, Discard, Claim, Inspect, Analyze, Publish, Suppress, Commit,
         Complete, Release, Return, Stop, Goto, FinishRecord
  <2>2. CASE v = w
    <3>1. \/ Publish(w) \/ Suppress(w) \/ Commit(w)
          \/ pc'[w] \notin {"commit", "complete"}
          \/ pc'[w] = pc[w] /\ cur'[w] = cur[w]
      BY <1>2, <2>2 DEF Step, Discard, Claim, Inspect, Analyze, Complete, Release, Return,
         Stop, Goto, FinishRecord
    <3>2. Publish(w) => pc'[w] \in {"commit", "release"}
      BY DEF Publish, Goto
    <3>3. Suppress(w) \/ Commit(w) => pc'[w] \in {"complete", "release"}
      BY DEF Suppress, Commit, Goto
    <3> QED BY <3>1, <3>2, <3>3
  <2> QED BY <2>1, <2>2
<1>3. ASSUME NEW v \in Workers, Crash(v) PROVE pc[w] = pc'[w] /\ cur'[w] = cur[w]
  BY <1>3 DEF Crash, Stop
<1>4. ASSUME NEW v \in Workers, NEW records \in SUBSET Msgs, Deliver(v, records)
      PROVE  pc[w] = pc'[w] /\ cur'[w] = cur[w]
  BY <1>4 DEF Deliver
<1>5. ASSUME NEW m \in Msgs, DeadLetter(m) PROVE pc[w] = pc'[w] /\ cur'[w] = cur[w]
  BY <1>5 DEF DeadLetter
<1>6. CASE Tick
  BY <1>6 DEF Tick
<1>7. ASSUME NEW v \in Workers, NEW m \in Msgs, ReceiveAgain(v, m)
      PROVE  pc[w] = pc'[w] /\ cur'[w] = cur[w]
  BY <1>4, <1>7 DEF ReceiveAgain
<1>8. ASSUME NEW v \in Workers, NEW records \in SUBSET Msgs, Receive(v, records)
      PROVE  pc[w] = pc'[w] /\ cur'[w] = cur[w]
  BY <1>4, <1>8 DEF Receive
<1> QED BY <1>1, <1>2, <1>3, <1>5, <1>6, <1>7, <1>8 DEF Next

LEMMA DeliveredInit == Init => Delivered
BY DEF Init, Delivered, CompletedIsDelivered

LEMMA DeliveredStep == TypeOK /\ Delivered /\ [Next]_vars => Delivered'
<1> SUFFICES ASSUME TypeOK, Delivered, [Next]_vars PROVE Delivered'
  OBVIOUS
<1> USE DEF sqs, table, invocation, record, history
<1>1. \A w \in Workers : pc[w] \in {"commit", "complete"} => KeyIn(w) \in Keys
  BY KeyInType DEF Owning
<1>2. ASSUME NEW w \in Workers, pc'[w] = "commit", NEW d \in Destinations
      PROVE  accepted'[KeyIn(w)'][d] > 0
  <2>1. CASE pc[w] = "commit" /\ cur'[w] = cur[w]
    <3>1. KeyIn(w)' = KeyIn(w) /\ KeyIn(w) \in Keys /\ accepted[KeyIn(w)][d] > 0
      BY <1>1, <2>1 DEF Delivered, KeyIn
    <3> QED BY <3>1, HandledStays
  <2>2. CASE Publish(w)
    <3>1. KeyIn(w) \in Keys /\ KeyIn(w)' = KeyIn(w)
      BY <2>2, KeyInType DEF Publish, Goto, Owning, KeyIn
    <3>2. pc'[w] = "commit" => accepted' = [accepted EXCEPT ![KeyIn(w)] =
                    [e \in Destinations |-> @[e] + 1]]
      <4>1. PICK took \in SUBSET Destinations :
              /\ accepted' = [accepted EXCEPT ![KeyIn(w)] =
                                [e \in Destinations |->
                                   IF e \in took THEN @[e] + 1 ELSE @[e]]]
              /\ took = Destinations \/ Goto(w, "release")
        BY <2>2 DEF Publish
      <4>2. took = Destinations
        BY <1>2, <4>1 DEF Goto, TypeOK
      <4> QED BY <4>1, <4>2
    <3>3. accepted'[KeyIn(w)][d] = accepted[KeyIn(w)][d] + 1
      BY <1>2, <3>1, <3>2 DEF TypeOK
    <3>4. accepted[KeyIn(w)][d] \in Nat
      BY <3>1 DEF TypeOK
    <3> QED BY <3>1, <3>3, <3>4
  <2> QED BY <1>2, <2>1, <2>2, ControlStep
<1>3. ASSUME NEW w \in Workers, pc'[w] = "complete"
      PROVE  Handled(KeyIn(w))'
  <2>1. CASE pc[w] = "complete" /\ cur'[w] = cur[w]
    <3>1. KeyIn(w)' = KeyIn(w) /\ KeyIn(w) \in Keys /\ Handled(KeyIn(w))
      BY <1>1, <2>1 DEF Delivered, KeyIn
    <3>2. Handled(KeyIn(w)) => suppressed' = suppressed' /\
            (KeyIn(w) \in suppressed' \/ \A d \in Destinations : accepted'[KeyIn(w)][d] > 0)
      BY <3>1, HandledStays DEF Handled
    <3> QED BY <3>1, <3>2 DEF Handled
  <2>2. CASE Suppress(w)
    BY <1>3, <2>2 DEF Suppress, Goto, TypeOK, Handled, KeyIn
  <2>3. CASE Commit(w)
    <3>1. /\ KeyIn(w)' = KeyIn(w) /\ accepted' = accepted
          /\ \A d \in Destinations : accepted[KeyIn(w)][d] > 0
      BY <2>3 DEF Commit, Goto, Delivered, KeyIn
    <3> QED BY <3>1 DEF Handled
  <2> QED BY <1>3, <2>1, <2>2, <2>3, ControlStep
<1>4. ASSUME NEW k \in Keys, row'[k] = "COMPLETED"
      PROVE  k \in suppressed' \/ \A d \in Destinations : accepted'[k][d] > 0
  <2>1. row[k] = "COMPLETED" \/ \E w \in Workers : Complete(w) /\ KeyIn(w) = k
    BY <1>4 DEF Next, Step, vars, Discard, Claim, Inspect, Analyze, Publish, Suppress, Commit,
         Complete, Release, Return, Crash, Receive, ReceiveAgain, Deliver, DeadLetter, Tick,
         PutClaim, DeleteRow, MarkCompleted, TypeOK
  <2>2. Handled(k)
    BY <2>1 DEF Delivered, CompletedIsDelivered, Handled, Complete
  <2> QED BY <2>2, HandledStays DEF Handled
<1> QED BY <1>2, <1>3, <1>4 DEF Delivered, CompletedIsDelivered

(* A COMPLETED row means the outcome is out, so deduplicating against it   *)
(* loses nothing - failing calls of the table included.                    *)
THEOREM CompletedIsDeliveredHolds == Spec => []CompletedIsDelivered
<1>1. Spec => []Delivered
  BY TypeCorrect, DeliveredInit, DeliveredStep, PTL DEF Spec
<1>2. Delivered => CompletedIsDelivered
  BY DEF Delivered
<1> QED BY <1>1, <1>2, PTL

(***************************************************************************)
(* One invocation per message                                              *)
(***************************************************************************)

LEMMA ExclusiveInit == Init => Exclusive
BY NamesAssumption DEF Init, Exclusive

(* Ending a record, or an invocation, keeps messages apart. *)
LEMMA FinishExclusive ==
  ASSUME TypeOK, Exclusive, NEW w \in Workers, NEW failure \in BOOLEAN,
         pc[w] \in Owning \cup {"inspect"}, FinishRecord(w, failure),
         UNCHANGED <<sqs, invocation>>
  PROVE  Exclusive'
<1>1. cur[w] \in Msgs /\ cur[w] \in batch[w]
  BY DEF TypeOK, Exclusive
<1>2. failed'[w] \subseteq batch[w] /\ \A v \in Workers \ {w} : failed'[v] = failed[v]
  BY <1>1 DEF FinishRecord, Exclusive, TypeOK
<1>3. /\ \A v \in Workers : pc'[v] = "idle" => pc[v] = "idle"
      /\ \A v \in Workers : cur'[v] \in {cur[v], NoMsg}
  BY DEF FinishRecord, TypeOK
<1> QED BY <1>2, <1>3, NamesAssumption DEF Exclusive, sqs, invocation

LEMMA GotoExclusive ==
  ASSUME TypeOK, Exclusive, NEW w \in Workers, NEW label \in PC \ {"idle"}, Goto(w, label),
         UNCHANGED <<sqs, invocation>>
  PROVE  Exclusive'
<1>1. \A v \in Workers : pc'[v] = "idle" => pc[v] = "idle"
  BY DEF Goto, TypeOK
<1> QED BY <1>1 DEF Exclusive, Goto, sqs, invocation

LEMMA DeliverExclusive ==
  ASSUME TypeOK, Exclusive, NEW w \in Workers, NEW records \in SUBSET Msgs,
         Deliver(w, records), \A m \in records : Visible(m)
  PROVE  Exclusive'
<1>1. /\ pc[w] = "idle" /\ pc' = [pc EXCEPT ![w] = "next"]
      /\ batch' = [batch EXCEPT ![w] = records] /\ todo' = [todo EXCEPT ![w] = records]
      /\ timeLeft' = [timeLeft EXCEPT ![w] = LambdaTimeout]
      /\ hidden' = [m \in Msgs |-> IF m \in records THEN Visibility ELSE hidden[m]]
      /\ UNCHANGED <<msg, cur, failed>>
  BY DEF Deliver, record
<1>2. cur[w] \notin Msgs /\ batch[w] = {} /\ failed[w] = {}
  BY <1>1 DEF TypeOK, Exclusive, Owning
<1>3. \A v \in Workers : batch[v] \cap records = {}
  BY DEF Visible, Exclusive, TypeOK
<1>4. \A v \in Workers \ {w} : batch'[v] = batch[v] /\ todo'[v] = todo[v]
        /\ timeLeft'[v] = timeLeft[v] /\ pc'[v] = pc[v]
  BY <1>1 DEF TypeOK
<1>5. batch'[w] = records /\ todo'[w] = records /\ timeLeft'[w] = LambdaTimeout /\ pc'[w] = "next"
  BY <1>1 DEF TypeOK
<1>6. ASSUME NEW v \in Workers, NEW m \in batch'[v]
      PROVE  msg'[m] = "queued" /\ timeLeft'[v] < hidden'[m]
  <2>1. CASE v = w
    BY <1>1, <1>5, <1>6, <2>1, TimingAssumption DEF Visible
  <2>2. CASE v # w
    <3>1. m \in batch[v] /\ m \notin records /\ m \in Msgs
      BY <1>3, <1>4, <1>6, <2>2 DEF TypeOK
    <3> QED BY <1>1, <1>4, <2>2, <3>1 DEF Exclusive
  <2> QED BY <2>1, <2>2
<1>7. \A v \in Workers :
        /\ pc'[v] = "idle" => batch'[v] = {}
        /\ todo'[v] \subseteq batch'[v] /\ failed'[v] \subseteq batch'[v]
        /\ cur'[v] \in Msgs => cur'[v] \in batch'[v] \ (todo'[v] \cup Ignored)
  BY <1>1, <1>2, <1>4, <1>5 DEF Exclusive
<1>8. \A u, v \in Workers : u # v => batch'[u] \cap batch'[v] = {}
  BY <1>3, <1>4, <1>5 DEF Exclusive
<1> QED BY <1>6, <1>7, <1>8 DEF Exclusive

LEMMA StopExclusive ==
  ASSUME TypeOK, Exclusive, NEW w \in Workers, Stop(w), hidden' = hidden,
         \A m \in Msgs : msg'[m] = msg[m] \/ m \in batch[w]
  PROVE  Exclusive'
<1>1. /\ batch'[w] = {} /\ todo'[w] = {} /\ failed'[w] = {} /\ cur'[w] \notin Msgs
      /\ \A v \in Workers \ {w} :
           /\ batch'[v] = batch[v] /\ todo'[v] = todo[v] /\ failed'[v] = failed[v]
           /\ cur'[v] = cur[v] /\ pc'[v] = pc[v] /\ timeLeft'[v] = timeLeft[v]
  BY NamesAssumption DEF Stop, TypeOK
<1>2. ASSUME NEW v \in Workers, NEW m \in batch'[v]
      PROVE  msg'[m] = "queued" /\ timeLeft'[v] < hidden'[m]
  <2>1. v # w /\ m \in batch[v] /\ m \in Msgs
    BY <1>1, <1>2 DEF TypeOK
  <2>2. msg'[m] = msg[m]
    BY <2>1 DEF Exclusive
  <2> QED BY <1>1, <2>1, <2>2 DEF Exclusive
<1>3. \A v \in Workers :
        /\ pc'[v] = "idle" => batch'[v] = {}
        /\ todo'[v] \subseteq batch'[v] /\ failed'[v] \subseteq batch'[v]
        /\ cur'[v] \in Msgs => cur'[v] \in batch'[v] \ (todo'[v] \cup Ignored)
  BY <1>1 DEF Exclusive
<1>4. \A u, v \in Workers : u # v => batch'[u] \cap batch'[v] = {}
  BY <1>1 DEF Exclusive
<1> QED BY <1>2, <1>3, <1>4 DEF Exclusive

LEMMA TickExclusive ==
  ASSUME TypeOK, Exclusive, Tick
  PROVE  Exclusive'
<1>1. UNCHANGED <<msg, pc, batch, todo, cur, failed>>
  BY DEF Tick, record
<1>2. ASSUME NEW v \in Workers, NEW m \in batch[v]
      PROVE  timeLeft'[v] < hidden'[m]
  <2>1. pc[v] # "idle" /\ m \in Msgs /\ timeLeft[v] < hidden[m]
    BY <1>2 DEF Exclusive, TypeOK
  <2>2. timeLeft[v] > 0 /\ timeLeft'[v] = timeLeft[v] - 1
        /\ hidden'[m] = IF hidden[m] > 0 THEN hidden[m] - 1 ELSE 0
    BY <2>1 DEF Tick
  <2>3. timeLeft[v] \in Nat /\ hidden[m] \in Nat
    BY <2>1, TimingAssumption DEF TypeOK
  <2> QED BY <2>1, <2>2, <2>3
<1> QED BY <1>1, <1>2 DEF Exclusive

LEMMA ExclusiveStep ==
  ~SqsDuplicates /\ TypeOK /\ Exclusive /\ [Next]_vars => Exclusive'
<1> SUFFICES ASSUME ~SqsDuplicates, TypeOK, Exclusive, [Next]_vars PROVE Exclusive'
  OBVIOUS
<1>0. UNCHANGED <<sqs, pc, invocation, cur, failed>> => Exclusive'
  BY DEF Exclusive, sqs, invocation
<1>1. CASE UNCHANGED vars
  BY <1>0, <1>1 DEF vars, record
<1>2. ASSUME NEW w \in Workers, NEW m \in Msgs, Discard(w, m) PROVE Exclusive'
  <2>1. UNCHANGED <<sqs, pc, timeLeft, batch, cur, failed>>
        /\ \A v \in Workers : todo'[v] \subseteq todo[v]
    BY <1>2 DEF Discard, record, TypeOK
  <2> QED BY <2>1 DEF Exclusive, sqs
<1>3. ASSUME NEW w \in Workers, NEW m \in Msgs, Claim(w, m) PROVE Exclusive'
  <2>1. /\ UNCHANGED <<sqs, timeLeft, batch, failed>>
        /\ todo' = [todo EXCEPT ![w] = @ \ {m}] /\ cur' = [cur EXCEPT ![w] = m]
        /\ m \in todo[w] \ Ignored
        /\ \A v \in Workers : pc'[v] = "idle" => pc[v] = "idle"
    BY <1>3 DEF Claim, TypeOK
  <2>2. m \in batch[w] \ (todo'[w] \cup Ignored)
    BY <2>1 DEF Exclusive, TypeOK
  <2>3. /\ cur'[w] = m /\ todo'[w] \subseteq todo[w]
        /\ \A v \in Workers \ {w} : todo'[v] = todo[v] /\ cur'[v] = cur[v]
    BY <2>1 DEF TypeOK
  <2> QED BY <2>1, <2>2, <2>3 DEF Exclusive, sqs
<1>4. ASSUME NEW w \in Workers, Inspect(w) PROVE Exclusive'
  BY <1>4, FinishExclusive DEF Inspect, ReadsComplete
<1>5. ASSUME NEW w \in Workers, Complete(w) \/ Release(w) PROVE Exclusive'
  BY <1>5, FinishExclusive DEF Complete, Release, Owning
<1>6. ASSUME NEW w \in Workers, Analyze(w) \/ Publish(w) \/ Suppress(w) \/ Commit(w)
      PROVE  Exclusive'
  <2>1. \E label \in PC \ {"idle"} : Goto(w, label)
    BY <1>6 DEF Analyze, Publish, Suppress, Commit, PC
  <2>2. UNCHANGED <<sqs, invocation>>
    BY <1>6 DEF Analyze, Publish, Suppress, Commit
  <2> QED BY <2>1, <2>2, GotoExclusive
<1>7. ASSUME NEW w \in Workers, Return(w) PROVE Exclusive'
  BY <1>7, StopExclusive DEF Return
<1>8. ASSUME NEW w \in Workers, Crash(w) PROVE Exclusive'
  BY <1>8, StopExclusive DEF Crash, sqs
<1>9. ASSUME NEW w \in Workers, NEW records \in SUBSET Msgs, Receive(w, records)
      PROVE  Exclusive'
  BY <1>9, DeliverExclusive DEF Receive
<1>10. ASSUME NEW m \in Msgs, DeadLetter(m) PROVE Exclusive'
  <2>1. msg' = [msg EXCEPT ![m] = "dead"] /\ hidden[m] = 0
        /\ UNCHANGED <<hidden, pc, invocation, cur, failed>>
    BY <1>10 DEF DeadLetter, Visible, record
  <2>2. \A v \in Workers : m \notin batch[v]
    BY <2>1 DEF Exclusive, TypeOK
  <2> QED BY <2>1, <2>2 DEF Exclusive, TypeOK, invocation
<1>11. CASE Tick
  BY <1>11, TickExclusive
<1> QED BY <1>1, <1>2, <1>3, <1>4, <1>5, <1>6, <1>7, <1>8, <1>9, <1>10, <1>11
        DEF Next, Step, ReceiveAgain

(***************************************************************************)
(* A message is left                                                       *)
(***************************************************************************)

LEMMA NoLossInit == Init => NoLoss
BY NamesAssumption DEF Init, NoLoss, NoLossFor, Relevant, Answered, Passed, Inspecting

(* A step that answers no message of the key, that lets nobody look at its *)
(* row anew, and that does not delete it, keeps the key's invariant.       *)
LEMMA KeyUntouched ==
  ASSUME NEW k \in Keys, NoLossFor(k), Handled(k) => Handled(k)',
         \A m \in Relevant(k) : Answered(m)' => Answered(m),
         \A m \in Relevant(k) : Inspecting(m)' => Inspecting(m),
         row'[k] = "none" => row[k] = "none"
  PROVE  NoLossFor(k)'
<1>1. Relevant(k)' = Relevant(k)
  BY DEF Relevant
<1> SUFFICES ASSUME ~Handled(k)'
             PROVE  /\ (\E m \in Relevant(k) : Answered(m)') => \E n \in Relevant(k) : ~Answered(n)'
                    /\ row'[k] = "none" /\ (\E m \in Relevant(k) : Inspecting(m)') =>
                         \E n \in Relevant(k) : ~Answered(n)' /\ ~Inspecting(n)'
  BY <1>1, Zenon DEF NoLossFor
<1> QED BY DEF NoLossFor

(* What the messages of one invocation look like to the others. *)
LEMMA OthersUntouched ==
  ASSUME NEW w \in Workers, NEW m \in Msgs,
         msg'[m] = "deleted" => msg[m] = "deleted" \/ Passed(w, m),
         \A v \in Workers \ {w} :
           /\ batch'[v] = batch[v] /\ todo'[v] = todo[v] /\ failed'[v] = failed[v]
           /\ cur'[v] = cur[v] /\ pc'[v] = pc[v],
         Passed(w, m)' => Passed(w, m),
         pc'[w] = "inspect" /\ cur'[w] = m => pc[w] = "inspect" /\ cur[w] = m
  PROVE  (Answered(m)' => Answered(m)) /\ (Inspecting(m)' => Inspecting(m))
BY DEF Answered, Inspecting, Passed

(* The end of a record that stays on the queue, or whose key is handled.   *)
LEMMA FinishNoLoss ==
  ASSUME TypeOK, TypeOK', [Next]_vars, Exclusive, NoLoss,
         NEW w \in Workers, NEW failure \in BOOLEAN, pc[w] \in Owning \cup {"inspect"},
         FinishRecord(w, failure), UNCHANGED <<sqs, invocation>>,
         NEW k \in Keys, row'[k] = "none" => row[k] = "none",
         KeyOf[cur[w]] # k \/ failure \/ Handled(k)
  PROVE  NoLossFor(k)'
<1>1. cur[w] \in Msgs /\ (Handled(k) => Handled(k)')
  BY HandledStays DEF TypeOK
<1>2. CASE Handled(k)
  BY <1>1, <1>2 DEF NoLossFor
<1>3. CASE KeyOf[cur[w]] # k \/ failure
  <2>1. /\ pc' = [pc EXCEPT ![w] = "next"] /\ cur' = [cur EXCEPT ![w] = NoMsg]
        /\ failed' = [failed EXCEPT ![w] = IF failure THEN @ \cup {cur[w]} ELSE @]
        /\ UNCHANGED <<msg, batch, todo>>
    BY DEF FinishRecord, sqs, invocation
  <2>2. ASSUME NEW m \in Relevant(k)
        PROVE  (Answered(m)' => Answered(m)) /\ (Inspecting(m)' => Inspecting(m))
    <3>1. m \in Msgs /\ KeyOf[m] = k
      BY DEF Relevant
    <3>2. Passed(w, m)' => Passed(w, m)
      BY <1>3, <2>1, <3>1 DEF Passed, TypeOK
    <3>3. \A v \in Workers \ {w} :
            /\ batch'[v] = batch[v] /\ todo'[v] = todo[v] /\ failed'[v] = failed[v]
            /\ cur'[v] = cur[v] /\ pc'[v] = pc[v]
      BY <2>1 DEF TypeOK
    <3>4. pc'[w] = "next" /\ msg' = msg
      BY <2>1 DEF TypeOK
    <3> QED BY <3>1, <3>2, <3>3, <3>4, OthersUntouched
  <2>3. NoLossFor(k)
    BY DEF NoLoss
  <2> QED BY <1>1, <2>2, <2>3, KeyUntouched
<1> QED BY <1>1, <1>2, <1>3

(* The record answered on the strength of a row that is gone: somebody     *)
(* else's message is still there.                                          *)
LEMMA InspectNoLoss ==
  ASSUME TypeOK, TypeOK', [Next]_vars, Exclusive, Delivered, NoLoss,
         NEW w \in Workers, Inspect(w), NEW k \in Keys
  PROVE  NoLossFor(k)'
<1>0. pc[w] = "inspect" /\ UNCHANGED <<sqs, table, invocation>> /\ row' = row
  BY DEF Inspect, table
<1>1. PICK failure \in BOOLEAN : FinishRecord(w, failure) /\ (~failure => ReadsComplete(KeyIn(w)))
  BY DEF Inspect, ReadsComplete
<1>2. cur[w] \in Msgs /\ cur[w] \notin Ignored /\ (Handled(k) => Handled(k)')
  BY <1>0, HandledStays DEF TypeOK, Exclusive
<1>3. CASE KeyOf[cur[w]] # k \/ failure \/ Handled(k)
  BY <1>0, <1>1, <1>3, FinishNoLoss
<1>4. CASE KeyOf[cur[w]] = k /\ ~failure /\ ~Handled(k)
  <2>1. row[k] = "none"
    BY <1>1, <1>4 DEF ReadsComplete, KeyIn, Delivered, CompletedIsDelivered, Handled
  <2>2. cur[w] \in Relevant(k) /\ Inspecting(cur[w])
    BY <1>0, <1>2, <1>4 DEF Relevant, Inspecting
  <2>3. PICK n \in Relevant(k) : ~Answered(n) /\ ~Inspecting(n)
    BY <1>4, <2>1, <2>2 DEF NoLoss, NoLossFor
  <2>4. n # cur[w] /\ n \in Msgs
    BY <2>2, <2>3 DEF Relevant
  <2>5. /\ pc' = [pc EXCEPT ![w] = "next"] /\ cur' = [cur EXCEPT ![w] = NoMsg]
        /\ failed' = failed /\ UNCHANGED <<msg, batch, todo>>
    BY <1>0, <1>1, <1>4 DEF FinishRecord, sqs, invocation, TypeOK
  <2>6. ~Answered(n)' /\ ~Inspecting(n)'
    <3>1. Passed(w, n)' => Passed(w, n)
      BY <2>4, <2>5 DEF Passed
    <3>2. \A v \in Workers \ {w} :
            /\ batch'[v] = batch[v] /\ todo'[v] = todo[v] /\ failed'[v] = failed[v]
            /\ cur'[v] = cur[v] /\ pc'[v] = pc[v]
      BY <2>5 DEF TypeOK
    <3>3. pc'[w] = "next" /\ msg' = msg
      BY <2>5 DEF TypeOK
    <3> QED BY <2>3, <2>4, <3>1, <3>2, <3>3, OthersUntouched
  <2>7. Relevant(k)' = Relevant(k)
    BY DEF Relevant
  <2> QED BY <2>6, <2>7 DEF NoLossFor
<1> QED BY <1>3, <1>4

(* The row is deleted: the record that gave it up stays on the queue.      *)
LEMMA ReleaseNoLoss ==
  ASSUME TypeOK, TypeOK', [Next]_vars, Exclusive, NoLoss,
         NEW w \in Workers, Release(w), NEW k \in Keys
  PROVE  NoLossFor(k)'
<1>0. pc[w] = "release" /\ UNCHANGED <<sqs, invocation>> /\ FinishRecord(w, TRUE)
      /\ cur[w] \in Msgs /\ cur[w] \in batch[w] \ Ignored /\ msg[cur[w]] = "queued"
  BY DEF Release, TypeOK, Exclusive, Owning
<1>1. CASE KeyOf[cur[w]] # k
  <2>1. row'[k] = row[k]
    BY <1>1 DEF Release, DeleteRow, KeyIn, TypeOK, table
  <2> QED BY <1>0, <1>1, <2>1, FinishNoLoss DEF Owning
<1>2. CASE KeyOf[cur[w]] = k
  <2>0. PICK n \in Msgs : n = cur[w]
    BY <1>0
  <2>1. /\ pc' = [pc EXCEPT ![w] = "next"] /\ cur' = [cur EXCEPT ![w] = NoMsg]
        /\ failed' = [failed EXCEPT ![w] = @ \cup {n}]
        /\ UNCHANGED <<msg, batch, todo>>
    BY <1>0, <2>0 DEF FinishRecord, sqs, invocation
  <2>2. n \in Relevant(k) /\ Relevant(k)' = Relevant(k)
    BY <1>0, <1>2, <2>0 DEF Relevant
  <2>3. \A v \in Workers \ {w} : n \notin batch[v] /\ cur[v] # n
    BY <1>0, <2>0 DEF Exclusive
  <2>4. ~Passed(w, n)' /\ \A v \in Workers \ {w} : ~Passed(v, n)'
    BY <2>1, <2>3 DEF Passed, TypeOK
  <2>5. ~Answered(n)'
    BY <1>0, <2>0, <2>1, <2>4 DEF Answered
  <2>6. ~Inspecting(n)'
    BY <2>1, <2>3 DEF Inspecting, TypeOK
  <2> QED BY <2>2, <2>5, <2>6 DEF NoLossFor
<1> QED BY <1>1, <1>2

LEMMA NoLossStep ==
  ~SqsDuplicates /\ TypeOK /\ TypeOK' /\ Exclusive /\ Delivered /\ NoLoss /\ [Next]_vars => NoLoss'
<1> SUFFICES ASSUME ~SqsDuplicates, TypeOK, TypeOK', Exclusive, Delivered, NoLoss, [Next]_vars,
                    NEW k \in Keys
             PROVE  NoLossFor(k)'
  BY DEF NoLoss
<1>0. NoLossFor(k) /\ (Handled(k) => Handled(k)')
  BY HandledStays DEF NoLoss
<1>a. ASSUME row'[k] = "none" => row[k] = "none", NEW w \in Workers,
             \A v \in Workers \ {w} :
               /\ batch'[v] = batch[v] /\ todo'[v] = todo[v] /\ failed'[v] = failed[v]
               /\ cur'[v] = cur[v] /\ pc'[v] = pc[v],
             \A m \in Relevant(k) :
               /\ msg'[m] = "deleted" => msg[m] = "deleted" \/ Passed(w, m)
               /\ Passed(w, m)' => Passed(w, m)
               /\ pc'[w] = "inspect" /\ cur'[w] = m => pc[w] = "inspect" /\ cur[w] = m
      PROVE  NoLossFor(k)'
  <2>1. \A m \in Relevant(k) : m \in Msgs
    BY DEF Relevant
  <2>2. \A m \in Relevant(k) : (Answered(m)' => Answered(m)) /\ (Inspecting(m)' => Inspecting(m))
    BY <1>a, <2>1, OthersUntouched
  <2> QED BY <1>0, <1>a, <2>2, KeyUntouched
<1>b. ASSUME UNCHANGED <<row, pc, batch, todo, cur, failed>>,
             \A m \in Msgs : msg'[m] = "deleted" => msg[m] = "deleted"
      PROVE  NoLossFor(k)'
  <2>1. \A m \in Relevant(k) : (Answered(m)' => Answered(m)) /\ (Inspecting(m)' => Inspecting(m))
    BY <1>b DEF Relevant, Answered, Inspecting, Passed
  <2> QED BY <1>0, <1>b, <2>1, KeyUntouched
<1>1. CASE UNCHANGED vars
  BY <1>1, <1>b DEF vars, sqs, table, invocation, record
<1>2. ASSUME NEW w \in Workers, NEW m \in Msgs, Discard(w, m) PROVE NoLossFor(k)'
  <2>1. /\ UNCHANGED <<row, pc, batch, cur, failed, msg>> /\ m \in Ignored
        /\ todo' = [todo EXCEPT ![w] = @ \ {m}]
    BY <1>2 DEF Discard, table, sqs, record
  <2>2. \A x \in Relevant(k) : Passed(w, x)' => Passed(w, x)
    BY <2>1 DEF Passed, Relevant, TypeOK
  <2>3. \A v \in Workers \ {w} : todo'[v] = todo[v]
    BY <2>1 DEF TypeOK
  <2> QED BY <1>a, <2>1, <2>2, <2>3
<1>3. ASSUME NEW w \in Workers, NEW m \in Msgs, Claim(w, m) PROVE NoLossFor(k)'
  <2>1. /\ UNCHANGED <<batch, failed, msg>> /\ m \in todo[w] \ Ignored /\ pc[w] = "next"
        /\ todo' = [todo EXCEPT ![w] = @ \ {m}] /\ cur' = [cur EXCEPT ![w] = m]
        /\ KeyOf[m] \in Keys
    BY <1>3, NamesAssumption DEF Claim, sqs
  <2>2. cur[w] \notin Msgs
    BY <2>1 DEF TypeOK, Owning
  <2>3. \A x \in Relevant(k) : Passed(w, x)' => Passed(w, x)
    BY <2>1, <2>2 DEF Passed, Relevant, TypeOK
  <2>4. \A v \in Workers \ {w} : todo'[v] = todo[v] /\ cur'[v] = cur[v] /\ pc'[v] = pc[v]
    BY <1>3, <2>1 DEF Claim, TypeOK
  <2>5. row'[k] = "none" => row[k] = "none"
    BY <1>3, <2>1 DEF Claim, PutClaim, table, TypeOK
  <2>6. CASE pc'[w] = "analyze" \/ KeyOf[m] # k
    <3>1. \A x \in Relevant(k) : ~(pc'[w] = "inspect" /\ cur'[w] = x)
      BY <2>1, <2>6 DEF Relevant, TypeOK
    <3> QED BY <1>a, <2>1, <2>3, <2>4, <2>5, <3>1
  <2>7. CASE pc'[w] # "analyze" /\ KeyOf[m] = k
    <3>1. ~Claimable(KeyOf[m]) /\ UNCHANGED table
      BY <1>3, <2>7 DEF Claim, TypeOK
    <3>2. row'[k] # "none"
      BY <2>7, <3>1 DEF Claimable, table
    <3>3. \A x \in Relevant(k) : Answered(x)' => Answered(x)
      BY <2>1, <2>3, <2>4 DEF Answered, Passed
    <3>4. Relevant(k)' = Relevant(k)
      BY DEF Relevant
    <3> QED BY <1>0, <3>2, <3>3, <3>4 DEF NoLossFor
  <2>8. pc'[w] \in {"analyze", "inspect"}
    BY <1>3 DEF Claim, TypeOK
  <2> QED BY <2>6, <2>7
<1>4. ASSUME NEW w \in Workers, Inspect(w) PROVE NoLossFor(k)'
  BY <1>4, InspectNoLoss
<1>5. ASSUME NEW w \in Workers, Complete(w) PROVE NoLossFor(k)'
  <2>1. /\ pc[w] = "complete" /\ UNCHANGED <<sqs, invocation>> /\ FinishRecord(w, FALSE)
        /\ pc[w] \in Owning \cup {"inspect"}
    BY <1>5 DEF Complete, Owning
  <2>2. KeyOf[cur[w]] = k => Handled(k)
    BY <2>1 DEF Delivered, KeyIn
  <2>3. row'[k] = "none" => row[k] = "none"
    BY <1>5 DEF Complete, MarkCompleted, table, TypeOK
  <2> QED BY <2>1, <2>2, <2>3, FinishNoLoss
<1>6. ASSUME NEW w \in Workers, Release(w) PROVE NoLossFor(k)'
  BY <1>6, ReleaseNoLoss
<1>7. ASSUME NEW w \in Workers, Analyze(w) \/ Publish(w) \/ Suppress(w) \/ Commit(w)
      PROVE  NoLossFor(k)'
  <2>1. /\ UNCHANGED <<row, msg, batch, todo, cur, failed>>
        /\ pc'[w] # "inspect" /\ \A v \in Workers \ {w} : pc'[v] = pc[v]
    BY <1>7 DEF Analyze, Publish, Suppress, Commit, Goto, table, sqs, invocation, TypeOK
  <2>2. \A x \in Relevant(k) : Passed(w, x)' => Passed(w, x)
    BY <2>1 DEF Passed
  <2> QED BY <1>a, <2>1, <2>2
<1>8. ASSUME NEW w \in Workers, Return(w) \/ Crash(w) PROVE NoLossFor(k)'
  <2>1. row' = row /\ Stop(w)
    BY <1>8 DEF Return, Crash, table
  <2>2. /\ batch'[w] = {} /\ pc'[w] = "idle"
        /\ \A v \in Workers \ {w} :
             /\ batch'[v] = batch[v] /\ todo'[v] = todo[v] /\ failed'[v] = failed[v]
             /\ cur'[v] = cur[v] /\ pc'[v] = pc[v]
    BY <2>1 DEF Stop, TypeOK
  <2>3. \A x \in Relevant(k) : msg'[x] = "deleted" => msg[x] = "deleted" \/ Passed(w, x)
    <3>1. CASE Crash(w)
      BY <3>1 DEF Crash, sqs
    <3>2. CASE Return(w)
      <4>1. pc[w] = "next" /\ todo[w] = {} /\ cur[w] \notin Msgs
        BY <3>2 DEF Return, TypeOK, Owning
      <4> QED BY <3>2, <4>1 DEF Return, Relevant, Passed
    <3> QED BY <1>8, <3>1, <3>2
  <2>4. \A x \in Relevant(k) : ~Passed(w, x)'
    BY <2>2 DEF Passed
  <2> QED BY <1>a, <2>1, <2>2, <2>3, <2>4
<1>9. ASSUME NEW w \in Workers, NEW records \in SUBSET Msgs, Receive(w, records)
      PROVE  NoLossFor(k)'
  <2>1. Deliver(w, records)
    BY <1>9 DEF Receive
  <2>2. /\ UNCHANGED <<row, msg, cur, failed>> /\ pc'[w] = "next" /\ batch'[w] = todo'[w]
        /\ \A v \in Workers \ {w} :
             batch'[v] = batch[v] /\ todo'[v] = todo[v] /\ pc'[v] = pc[v]
    BY <2>1 DEF Deliver, table, record, TypeOK
  <2>3. \A x \in Relevant(k) : ~Passed(w, x)'
    BY <2>2 DEF Passed
  <2> QED BY <1>a, <2>2, <2>3
<1>10. ASSUME NEW m \in Msgs, DeadLetter(m) PROVE NoLossFor(k)'
  <2>1. /\ UNCHANGED <<row, pc, batch, todo, cur, failed>>
        /\ \A x \in Msgs : msg'[x] = "deleted" => msg[x] = "deleted"
    BY <1>10 DEF DeadLetter, table, invocation, record, TypeOK
  <2> QED BY <1>b, <2>1
<1>11. CASE Tick
  BY <1>11, <1>b DEF Tick, record
<1> QED BY <1>1, <1>2, <1>3, <1>4, <1>5, <1>6, <1>7, <1>8, <1>9, <1>10, <1>11
        DEF Next, Step, ReceiveAgain

(* When a message has been acknowledged, its event was handled or another  *)
(* message with its key is still in the queue or in the dead-letter queue: *)
(* true of every interleaving, crash and table outage, if SQS hands out no *)
(* message that is in flight.                                              *)
THEOREM NoSilentLossHolds ==
  ASSUME ~SqsDuplicates
  PROVE  Spec => []NoSilentLoss
<1> DEFINE Inv == TypeOK /\ Exclusive /\ Delivered /\ NoLoss
<1>1. Init => Inv
  BY InitType, ExclusiveInit, DeliveredInit, NoLossInit
<1>2. Inv /\ [Next]_vars => Inv'
  BY NextType, ExclusiveStep, DeliveredStep, NoLossStep
<1>3. Inv => NoSilentLoss
  <2> SUFFICES ASSUME Inv, NEW m \in Msgs \ Ignored, msg[m] = "deleted", ~Handled(KeyOf[m])
               PROVE  \E n \in Msgs \ Ignored : KeyOf[n] = KeyOf[m] /\ msg[n] # "deleted"
    BY DEF NoSilentLoss
  <2>1. KeyOf[m] \in Keys /\ m \in Relevant(KeyOf[m]) /\ Answered(m)
    BY NamesAssumption DEF Relevant, Answered
  <2>2. PICK n \in Relevant(KeyOf[m]) : ~Answered(n)
    BY <2>1 DEF NoLoss, NoLossFor
  <2> QED BY <2>2 DEF Relevant, Answered
<1> HIDE DEF Inv
<1> QED BY <1>1, <1>2, <1>3, PTL DEF Spec
==============================================================================
