------------------------ MODULE ConfirmedState_proofs -------------------------
(***************************************************************************)
(* Proofs about ConfirmedState, for any invocations, number of operations  *)
(* and number of faults, with and without retention, and whatever          *)
(* inventories are too large: that the stored snapshot is always accounted *)
(* for by a report, and that it never goes back in time.                   *)
(***************************************************************************)
EXTENDS ConfirmedState, TLAPS

Labels == {"idle", "describe", "list", "load", "publish", "commit"}

(* Whatever is worked on was emitted, and a stack's life ends with its     *)
(* deletion.                                                               *)
TypeInv ==
  /\ TypeOK
  /\ \A w \in Workers : IF pc[w] = "idle" THEN ev[w] = 0 ELSE ev[w] \in Emitted
  /\ \A e \in Emitted : kind[e] = "DELETE" => e = Completed /\ ~Running

(* A row some outcome speaks of ... *)
Accounted(r) ==
  r.ev # 0 => \E p \in outcomes : p.ev = r.ev /\ (r.retired \/ p.after = r.seen)

(* ... whose event was diffed against another row once. *)
Departed(r) ==
  r.ev # 0 => \E p \in outcomes : p.ev = r.ev /\ p.before.ev # p.ev

Known(r) == Accounted(r) /\ Departed(r)

(* The row, every copy of it that was read, and every delta's start are    *)
(* known; what is about to be committed has its outcome.                   *)
KnownInv ==
  /\ Known(row)
  /\ \A w \in Workers : Known(before[w])
  /\ \A o \in outcomes : Known(o.before)
  /\ \A w \in Workers : pc[w] = "commit" =>
       \E o \in outcomes : o.ev = ev[w] /\ o.before = before[w] /\ o.after = seen[w]

(* A retired row belongs to the deletion, the last event there is. *)
RetiredInv == row.retired => row.ev \in Emitted /\ kind[row.ev] = "DELETE"

(***************************************************************************)
(* Types                                                                   *)
(***************************************************************************)

LEMMA SettingFacts ==
  ASSUME setting \in Settings
  PROVE  MaxOps \in Nat /\ MaxFaults \in Nat
BY ConfirmedStateAssumption DEF MaxOps, MaxFaults

(* Moments and the operations that ended before them. *)
LEMMA LiveFacts ==
  ASSUME setting \in Settings, live \in Moments
  PROVE  /\ Completed \in 0..MaxOps
         /\ Emitted \subseteq Events
         /\ Running => Completed < MaxOps /\ live + 1 \in Moments
                       /\ (live + 1) \div 2 = Completed + 1 /\ (live + 1) % 2 # 1
         /\ ~Running /\ Completed < MaxOps =>
              live + 1 \in Moments /\ (live + 1) \div 2 = Completed
BY SettingFacts DEF Completed, Emitted, Events, Running, Moments

(* Reading the template, or the resources, at some moment. *)
LEMMA ReadFacts ==
  ASSUME NEW t \in Contents, NEW m \in Moments
  PROVE  [t EXCEPT ![1] = m] \in Contents /\ [t EXCEPT ![2] = m] \in Contents
<1>1. PICK a \in Moments, b \in Moments : t = <<a, b>>
  BY DEF Contents
<1>2. [t EXCEPT ![1] = m] = <<m, b>> /\ [t EXCEPT ![2] = m] = <<a, m>>
  BY <1>1
<1> QED BY <1>2 DEF Contents

LEMMA ConstantRows ==
  ASSUME setting \in Settings
  PROVE  Nothing \in Contents /\ Absent \in Rows
<1>1. 0 \in Moments /\ 0 \in 0..MaxOps
  BY SettingFacts DEF Moments
<1>2. Nothing \in Contents
  BY <1>1 DEF Contents, Nothing
<1> QED BY <1>1, <1>2 DEF Rows, Absent

(* What keeps its type whatever an attempt does. *)
LEMMA FaultType ==
  ASSUME TypeOK, Fault \/ NoFault
  PROVE  faults' \in 0..setting.faults
BY SettingFacts DEF TypeOK, Fault, NoFault, MaxFaults

LEMMA TypeInit == Init => TypeInv
<1> SUFFICES ASSUME Init PROVE TypeInv
  OBVIOUS
<1>1. setting \in Settings /\ MaxOps \in Nat /\ MaxFaults \in Nat
  BY SettingFacts DEF Init
<1>2. Completed = 0 /\ Emitted = {} /\ 0 \in Moments /\ 0 \in 0..MaxOps /\ 0 \in 0..MaxFaults
  BY <1>1 DEF Init, Completed, Emitted, Moments
<1>3. Nothing \in Contents /\ Absent \in Rows
  BY <1>1, ConstantRows
<1>4. TypeOK
  BY <1>1, <1>2, <1>3 DEF Init, TypeOK
<1> QED BY <1>2, <1>4 DEF Init, TypeInv

(* Acting on the state of one invocation, or ending its attempt, keeps the *)
(* types, if the operands have theirs.                                     *)
LEMMA AttemptStep ==
  ASSUME TypeInv, NEW w \in Workers, UNCHANGED stack,
         NEW label \in Labels, NEW e \in Events \cup {0},
         NEW s \in Contents, NEW r \in Rows,
         pc' = [pc EXCEPT ![w] = label], ev' = [ev EXCEPT ![w] = e],
         seen' = [seen EXCEPT ![w] = s], before' = [before EXCEPT ![w] = r],
         IF label = "idle" THEN e = 0 ELSE e \in Emitted,
         handled' \subseteq Emitted, row' \in Rows, outcomes' \subseteq Outcomes,
         Fault \/ NoFault
  PROVE  TypeInv'
<1>1. /\ setting' = setting /\ kind' = kind /\ live' = live
      /\ Moments' = Moments /\ MaxOps' = MaxOps /\ MaxFaults' = MaxFaults
      /\ Completed' = Completed /\ Emitted' = Emitted /\ Events' = Events
      /\ Contents' = Contents /\ Rows' = Rows /\ Outcomes' = Outcomes
      /\ Running' = Running
  BY DEF stack, MaxOps, MaxFaults, Completed, Emitted, Events, Moments, Contents, Rows,
         Outcomes, Running
<1>2. faults' \in 0..MaxFaults
  BY FaultType DEF TypeInv, MaxFaults
<1>3. MaxOps \in Nat
  BY SettingFacts DEF TypeInv, TypeOK
<1>4. e \in 0..MaxOps
  BY <1>3 DEF Events
<1>5. TypeOK'
  BY <1>1, <1>2, <1>4 DEF TypeInv, TypeOK, Labels
<1>6. \A v \in Workers : IF pc'[v] = "idle" THEN ev'[v] = 0 ELSE ev'[v] \in Emitted
  BY DEF TypeInv, TypeOK
<1> QED BY <1>1, <1>5, <1>6 DEF TypeInv

(* The values an attempt ends with. *)
LEMMA IdleStep ==
  ASSUME TypeInv, NEW w \in Workers, UNCHANGED stack, Idle(w),
         handled' \subseteq Emitted, row' \in Rows, outcomes' \subseteq Outcomes,
         Fault \/ NoFault
  PROVE  TypeInv'
<1>1. "idle" \in Labels /\ 0 \in Events \cup {0} /\ Nothing \in Contents /\ Absent \in Rows
  BY ConstantRows DEF TypeInv, TypeOK, Labels
<1> QED BY <1>1, AttemptStep DEF Idle

(* Going on to another label. *)
LEMMA GotoStep ==
  ASSUME TypeInv, NEW w \in Workers, UNCHANGED stack, pc[w] # "idle",
         NEW label \in Labels \ {"idle"}, Goto(w, label),
         NEW s \in Contents, NEW r \in Rows,
         ev' = ev, seen' = [seen EXCEPT ![w] = s], before' = [before EXCEPT ![w] = r],
         handled' \subseteq Emitted, row' \in Rows, outcomes' \subseteq Outcomes,
         Fault \/ NoFault
  PROVE  TypeInv'
<1>1. ev[w] \in Emitted /\ ev' = [ev EXCEPT ![w] = ev[w]]
  BY DEF TypeInv, TypeOK
<1>2. ev[w] \in Events \cup {0}
  BY <1>1, LiveFacts DEF TypeInv, TypeOK
<1> QED BY <1>1, <1>2, AttemptStep DEF Goto

(* What the attempt at an event says and writes. *)
LEMMA AttemptFacts ==
  ASSUME TypeInv, NEW w \in Workers, pc[w] # "idle"
  PROVE  /\ ev[w] \in Emitted /\ ev[w] \in Events /\ ev[w] \in 0..MaxOps /\ ev[w] # 0
         /\ KindOf(w) \in Kinds \cup {"none"}
         /\ seen[w] \in Contents /\ before[w] \in Rows /\ row \in Rows
         /\ live \in Moments /\ handled \subseteq Emitted
         /\ row.ev \in Nat /\ MaxOps \in Nat
         /\ seen = [seen EXCEPT ![w] = seen[w]]
         /\ before = [before EXCEPT ![w] = before[w]]
<1>1. ev[w] \in Emitted
  BY DEF TypeInv
<1>2. MaxOps \in Nat /\ Emitted \subseteq Events
  BY SettingFacts, LiveFacts DEF TypeInv, TypeOK
<1>5. ev[w] \in Events
  BY <1>1, <1>2
<1>3. ev[w] \in Events /\ ev[w] \in 0..MaxOps /\ ev[w] # 0
  BY <1>2, <1>5 DEF Events
<1>4. row.ev \in Nat
  BY <1>2 DEF TypeInv, TypeOK, Rows
<1> QED BY <1>1, <1>2, <1>3, <1>4 DEF TypeInv, TypeOK, KindOf

LEMMA WriteType ==
  ASSUME TypeInv, NEW w \in Workers, pc[w] # "idle", Write(w)
  PROVE  row' \in Rows
<1>1. Absent \in Rows
  BY ConstantRows DEF TypeInv, TypeOK
<1>2. Retired(w) \in Rows /\ Snapshot(w) \in Rows
  BY AttemptFacts DEF Retired, Snapshot, Rows
<1> QED BY <1>1, <1>2, AttemptFacts DEF Write, DeleteRow, SaveRow

LEMMA OutcomeType ==
  ASSUME TypeInv, NEW w \in Workers, pc[w] # "idle", NEW r \in Rows, NEW b \in BOOLEAN
  PROVE  outcomes \cup {Outcome(w, r, b)} \subseteq Outcomes
BY AttemptFacts DEF Outcome, Outcomes, TypeInv, TypeOK

LEMMA TypeStep == TypeInv /\ [Next]_vars => TypeInv'
<1> SUFFICES ASSUME TypeInv, [Next]_vars PROVE TypeInv'
  OBVIOUS
<1>0. /\ row \in Rows /\ outcomes \subseteq Outcomes /\ handled \subseteq Emitted
      /\ setting \in Settings /\ live \in Moments /\ MaxOps \in Nat
  BY SettingFacts DEF TypeInv, TypeOK
<1>1. CASE UNCHANGED vars
  BY <1>1 DEF vars, stack, attempt, TypeInv, TypeOK, MaxOps, MaxFaults, Completed, Emitted,
              Events, Moments, Contents, Rows, Outcomes, Running
<1>2. ASSUME NEW k \in Kinds, StartOperation(k) PROVE TypeInv'
  <2>1. /\ setting' = setting /\ live' = live + 1 /\ Completed \in 0..MaxOps
        /\ live' \in Moments /\ Completed' = Completed /\ Completed < MaxOps
        /\ kind' = [kind EXCEPT ![Completed + 1] = k]
        /\ UNCHANGED <<handled, row, attempt, outcomes, faults>>
    BY <1>0, <1>2, LiveFacts DEF StartOperation, Completed
  <2>2. /\ Emitted' = Emitted /\ Events' = Events /\ Moments' = Moments
        /\ Contents' = Contents /\ Rows' = Rows /\ Outcomes' = Outcomes
        /\ MaxOps' = MaxOps /\ MaxFaults' = MaxFaults
    BY <2>1 DEF MaxOps, MaxFaults, Emitted, Events, Moments, Contents, Rows, Outcomes
  <2>3. TypeOK'
    BY <2>1, <2>2 DEF TypeInv, TypeOK, attempt
  <2>4. \A e \in Emitted : kind'[e] # "DELETE"
    BY <1>0, <1>2, <2>1, LiveFacts DEF TypeInv, TypeOK, StartOperation, Deleted, Emitted, Events
  <2> QED BY <2>1, <2>2, <2>3, <2>4 DEF TypeInv, attempt
<1>3. CASE FinishOperation
  <2>1. /\ UNCHANGED <<setting, kind, handled, row, attempt, outcomes, faults>>
        /\ live' \in Moments /\ Completed' = Completed + 1 /\ Running /\ ~Running'
        /\ Completed \in 0..MaxOps
    BY <1>0, <1>3, LiveFacts DEF FinishOperation, Completed, Running
  <2>2. /\ Events' = Events /\ Moments' = Moments
        /\ Contents' = Contents /\ Rows' = Rows /\ Outcomes' = Outcomes
        /\ MaxOps' = MaxOps /\ MaxFaults' = MaxFaults
    BY <2>1 DEF MaxOps, MaxFaults, Events, Moments, Contents, Rows, Outcomes
  <2>3. Emitted' = Emitted \cup {Completed'}
    BY <1>0, <2>1 DEF Emitted
  <2>4. TypeOK'
    BY <2>1, <2>2, <2>3 DEF TypeInv, TypeOK, attempt
  <2> QED BY <2>1, <2>3, <2>4 DEF TypeInv, attempt
<1>4. ASSUME NEW w \in Workers, NEW e \in Events, Take(w, e) PROVE TypeInv'
  <2> DEFINE label == IF kind[e] = "DELETE" THEN "load" ELSE "describe"
  <2>1. label \in Labels /\ label # "idle" /\ e \in Emitted
    BY <1>4 DEF Take, Labels
  <2>2. /\ seen[w] \in Contents /\ before[w] \in Rows
        /\ seen' = [seen EXCEPT ![w] = seen[w]] /\ before' = [before EXCEPT ![w] = before[w]]
    BY <1>4 DEF Take, TypeInv, TypeOK
  <2>3. /\ pc' = [pc EXCEPT ![w] = label] /\ ev' = [ev EXCEPT ![w] = e]
        /\ UNCHANGED <<stack, handled, row, outcomes, faults>>
    BY <1>4 DEF Take, Goto
  <2> HIDE DEF label
  <2> QED BY <1>0, <2>1, <2>2, <2>3, AttemptStep DEF NoFault
<1>5. ASSUME NEW w \in Workers, Describe(w) PROVE TypeInv'
  <2>1. /\ pc[w] = "describe" /\ NoFault
        /\ UNCHANGED <<stack, row, outcomes>>
    BY <1>5 DEF Describe
  <2>2. CASE Done(w)
    <3>1. handled' \subseteq Emitted
      BY <1>0, <2>1, <2>2, AttemptFacts DEF Done
    <3> QED BY <1>0, <2>1, <2>2, <3>1, IdleStep DEF Done
  <2>3. CASE /\ Goto(w, "list")
             /\ seen' = [seen EXCEPT ![w][1] = live]
             /\ UNCHANGED <<ev, before, handled>>
    <3>1. [seen[w] EXCEPT ![1] = live] \in Contents /\ before[w] \in Rows
          /\ before' = [before EXCEPT ![w] = before[w]]
      BY <2>1, <2>3, ReadFacts, AttemptFacts
    <3>2. seen' = [seen EXCEPT ![w] = [seen[w] EXCEPT ![1] = live]]
      BY <2>3
    <3>3. "list" \in Labels \ {"idle"}
      BY DEF Labels
    <3> QED BY <1>0, <2>1, <2>3, <3>1, <3>2, <3>3, GotoStep
  <2> QED BY <1>5, <2>2, <2>3 DEF Describe
<1>6. ASSUME NEW w \in Workers, ListResources(w) PROVE TypeInv'
  <2>1. /\ pc[w] = "list" /\ NoFault /\ Goto(w, "load")
        /\ seen' = [seen EXCEPT ![w] = [seen[w] EXCEPT ![2] = live]]
        /\ UNCHANGED <<stack, handled, row, ev, before, outcomes>>
    BY <1>6 DEF ListResources
  <2>2. [seen[w] EXCEPT ![2] = live] \in Contents /\ before[w] \in Rows
        /\ before' = [before EXCEPT ![w] = before[w]] /\ "load" \in Labels \ {"idle"}
    BY <2>1, ReadFacts, AttemptFacts DEF Labels
  <2> QED BY <1>0, <2>1, <2>2, GotoStep
<1>7. ASSUME NEW w \in Workers, Load(w) PROVE TypeInv'
  <2>1. pc[w] = "load" /\ NoFault /\ UNCHANGED <<stack, row>> /\ ev[w] \in Emitted
    BY <1>7, AttemptFacts DEF Load
  <2>2. CASE Done(w) /\ UNCHANGED outcomes
    <3>1. handled' \subseteq Emitted
      BY <1>0, <2>1, <2>2 DEF Done
    <3> QED BY <1>0, <2>1, <2>2, <3>1, IdleStep DEF Done
  <2>3. CASE /\ Goto(w, "publish") /\ before' = [before EXCEPT ![w] = row]
             /\ UNCHANGED <<ev, seen, handled, outcomes>>
    <3>1. "publish" \in Labels \ {"idle"} /\ seen[w] \in Contents
          /\ seen' = [seen EXCEPT ![w] = seen[w]]
      BY <2>1, <2>3, AttemptFacts DEF Labels
    <3> QED BY <1>0, <2>1, <2>3, <3>1, GotoStep
  <2>4. CASE /\ Goto(w, "commit") /\ before' = [before EXCEPT ![w] = row]
             /\ outcomes' = outcomes \cup {Outcome(w, row, FALSE)}
             /\ UNCHANGED <<ev, seen, handled>>
    <3>1. "commit" \in Labels \ {"idle"} /\ seen[w] \in Contents
          /\ seen' = [seen EXCEPT ![w] = seen[w]]
      BY <2>1, <2>4, AttemptFacts DEF Labels
    <3>2. outcomes' \subseteq Outcomes
      BY <1>0, <2>1, <2>4, OutcomeType
    <3> QED BY <1>0, <2>1, <2>4, <3>1, <3>2, GotoStep
  <2> QED BY <1>7, <2>2, <2>3, <2>4 DEF Load
<1>8. ASSUME NEW w \in Workers, Publish(w) PROVE TypeInv'
  <2>1. pc[w] = "publish" /\ UNCHANGED <<stack, handled, row>>
        /\ outcomes' = outcomes \cup {Outcome(w, before[w], TRUE)}
    BY <1>8 DEF Publish
  <2>2. before[w] \in Rows /\ before = [before EXCEPT ![w] = before[w]]
        /\ seen[w] \in Contents /\ seen = [seen EXCEPT ![w] = seen[w]]
    BY <2>1, AttemptFacts
  <2>3. outcomes' \subseteq Outcomes
    BY <2>1, <2>2, OutcomeType
  <2>4. CASE NoFault /\ Goto(w, "commit") /\ UNCHANGED <<ev, seen, before>>
    <3>1. "commit" \in Labels \ {"idle"}
      BY DEF Labels
    <3> QED BY <1>0, <2>1, <2>2, <2>3, <2>4, <3>1, GotoStep
  <2>5. CASE Fault /\ Idle(w)
    BY <1>0, <2>1, <2>3, <2>5, IdleStep
  <2> QED BY <1>8, <2>4, <2>5 DEF Publish
<1>9. ASSUME NEW w \in Workers, Commit(w) PROVE TypeInv'
  <2>1. pc[w] = "commit" /\ UNCHANGED <<stack, outcomes>> /\ ev[w] \in Emitted
    BY <1>9, AttemptFacts DEF Commit
  <2>2. Idle(w) /\ handled' \subseteq handled \cup {ev[w]} /\ (Fault \/ NoFault)
    BY <1>9 DEF Commit, Done
  <2>3. row' \in Rows
    <3>1. Write(w) \/ row' = row
      BY <1>9 DEF Commit
    <3> QED BY <1>0, <2>1, <3>1, WriteType
  <2>4. handled' \subseteq Emitted
    BY <1>0, <2>1, <2>2
  <2> QED BY <1>0, <2>1, <2>2, <2>3, <2>4, IdleStep
<1>10. ASSUME NEW w \in Workers, Fail(w) PROVE TypeInv'
  BY <1>0, <1>10, IdleStep DEF Fail
<1>11. ASSUME NEW e \in Events, Replay(e) PROVE TypeInv'
  <2>1. /\ UNCHANGED <<stack, row, attempt, outcomes>> /\ Fault /\ handled' \subseteq handled
    BY <1>11 DEF Replay
  <2>2. faults' \in 0..MaxFaults
    BY <2>1, FaultType DEF TypeInv, MaxFaults
  <2>3. /\ MaxFaults' = MaxFaults /\ Completed' = Completed /\ Emitted' = Emitted
        /\ Events' = Events /\ Moments' = Moments /\ Running' = Running
        /\ Contents' = Contents /\ Rows' = Rows /\ Outcomes' = Outcomes /\ MaxOps' = MaxOps
    BY <2>1 DEF stack, MaxOps, MaxFaults, Completed, Emitted, Events, Moments, Contents, Rows,
                Outcomes, Running
  <2> QED BY <2>1, <2>2, <2>3 DEF TypeInv, TypeOK, stack, attempt
<1> QED BY <1>1, <1>2, <1>3, <1>4, <1>5, <1>6, <1>7, <1>8, <1>9, <1>10, <1>11 DEF Next

(* Every variable keeps its type: the row is the item of an event, and     *)
(* only emitted events are acknowledged.                                   *)
THEOREM ConfirmedTypeCorrect == Spec => []TypeOK
<1>1. TypeInv => TypeOK
  BY DEF TypeInv
<1> QED BY <1>1, TypeInit, TypeStep, PTL DEF Spec

(***************************************************************************)
(* Accounting                                                              *)
(***************************************************************************)

LEMMA KnownInit == Init => KnownInv
BY DEF Init, KnownInv, Known, Accounted, Departed, Absent

(* What is known stays known, for outcomes are never taken back. *)
LEMMA KnownStays ==
  ASSUME outcomes \subseteq outcomes'
  PROVE  \A r : Known(r) =>
           /\ r.ev # 0 => \E p \in outcomes' : p.ev = r.ev /\ (r.retired \/ p.after = r.seen)
           /\ r.ev # 0 => \E p \in outcomes' : p.ev = r.ev /\ p.before.ev # p.ev
BY DEF Known, Accounted, Departed

(* A row that is about to be written has its outcome, and its event was    *)
(* diffed against another row: now, or when the row it was read was new.   *)
LEMMA CommittedIsKnown ==
  ASSUME TypeInv, KnownInv, NEW w \in Workers, pc[w] = "commit"
  PROVE  Known(Snapshot(w)) /\ Known(Retired(w))
<1>1. ev[w] # 0 /\ row \in Rows
  BY AttemptFacts
<1>2. PICK o \in outcomes : o.ev = ev[w] /\ o.before = before[w] /\ o.after = seen[w]
  BY DEF KnownInv
<1>3. \E p \in outcomes : p.ev = ev[w] /\ p.before.ev # p.ev
  <2>1. CASE before[w].ev # ev[w]
    BY <1>2, <2>1
  <2>2. CASE before[w].ev = ev[w]
    BY <1>1, <2>2 DEF KnownInv, Known, Departed
  <2> QED BY <2>1, <2>2
<1>4. /\ Snapshot(w).ev = ev[w] /\ Snapshot(w).seen = seen[w]
      /\ Retired(w).ev = ev[w] /\ Retired(w).retired
  BY <1>1 DEF Snapshot, Retired, Rows
<1> QED BY <1>2, <1>3, <1>4 DEF Known, Accounted, Departed

LEMMA KnownStep == TypeInv /\ KnownInv /\ [Next]_vars => KnownInv'
<1> SUFFICES ASSUME TypeInv, KnownInv, [Next]_vars PROVE KnownInv'
  OBVIOUS
<1>0. /\ pc \in [Workers -> Labels] /\ before \in [Workers -> Rows] /\ seen \in [Workers -> Contents]
      /\ ev \in [Workers -> 0..MaxOps]
  BY DEF TypeInv, TypeOK, Labels
<1> DEFINE KnownThen(r) ==
      /\ r.ev # 0 => \E p \in outcomes' : p.ev = r.ev /\ (r.retired \/ p.after = r.seen)
      /\ r.ev # 0 => \E p \in outcomes' : p.ev = r.ev /\ p.before.ev # p.ev
<1>a. ASSUME outcomes \subseteq outcomes', KnownThen(row'),
             \A v \in Workers : KnownThen(before'[v]),
             \A o \in outcomes' : KnownThen(o.before),
             \A v \in Workers : pc'[v] = "commit" =>
               \E o \in outcomes' : o.ev = ev'[v] /\ o.before = before'[v] /\ o.after = seen'[v]
      PROVE  KnownInv'
  BY <1>a DEF KnownInv, Known, Accounted, Departed
<1>b. outcomes \subseteq outcomes' => \A r : Known(r) => KnownThen(r)
  BY KnownStays
<1>c. KnownThen(Absent)
  BY DEF Absent
<1> HIDE DEF KnownThen
<1>d. /\ Known(row) /\ \A v \in Workers : Known(before[v])
      /\ \A o \in outcomes : Known(o.before)
      /\ \A v \in Workers : pc[v] = "commit" =>
           \E o \in outcomes : o.ev = ev[v] /\ o.before = before[v] /\ o.after = seen[v]
  BY DEF KnownInv
<1>1. ASSUME NEW w \in Workers, Idle(w), KnownThen(row'), outcomes \subseteq outcomes',
             \A o \in outcomes' : o \in outcomes \/ o.before = before[w]
      PROVE  KnownInv'
  <2>1. /\ pc' = [pc EXCEPT ![w] = "idle"] /\ before' = [before EXCEPT ![w] = Absent]
        /\ ev' = [ev EXCEPT ![w] = 0] /\ seen' = [seen EXCEPT ![w] = Nothing]
    BY <1>1 DEF Idle
  <2>2. \A v \in Workers : before'[v] \in {Absent, before[v]}
        /\ (pc'[v] = "commit" => v # w /\ pc[v] = "commit")
    BY <1>0, <2>1
  <2>3. \A v \in Workers : KnownThen(before'[v])
    BY <1>1, <1>b, <1>c, <1>d, <2>2
  <2>4. \A o \in outcomes' : KnownThen(o.before)
    BY <1>1, <1>b, <1>d
  <2>5. \A v \in Workers : v # w => ev'[v] = ev[v] /\ before'[v] = before[v] /\ seen'[v] = seen[v]
    BY <1>0, <2>1
  <2> QED BY <1>1, <1>a, <1>d, <2>2, <2>3, <2>4, <2>5
<1>2. ASSUME NEW w \in Workers, NEW r, Known(r), row' = row, outcomes \subseteq outcomes',
             before' = [before EXCEPT ![w] = r],
             \A v \in Workers \ {w} : pc'[v] = pc[v] /\ ev'[v] = ev[v] /\ seen'[v] = seen[v],
             \A o \in outcomes' : o \in outcomes \/ o.before = r,
             pc'[w] = "commit" =>
               \E o \in outcomes' : o.ev = ev'[w] /\ o.before = r /\ o.after = seen'[w]
      PROVE  KnownInv'
  <2>1. before'[w] = r /\ \A v \in Workers \ {w} : before'[v] = before[v]
    BY <1>0, <1>2
  <2>2. \A v \in Workers : KnownThen(before'[v])
    BY <1>2, <1>b, <1>d, <2>1
  <2>3. (\A o \in outcomes' : KnownThen(o.before)) /\ KnownThen(row')
    BY <1>2, <1>b, <1>d
  <2>4. \A v \in Workers : pc'[v] = "commit" =>
          \E o \in outcomes' : o.ev = ev'[v] /\ o.before = before'[v] /\ o.after = seen'[v]
    BY <1>2, <1>d, <2>1
  <2> QED BY <1>2, <1>a, <2>2, <2>3, <2>4
<1>3. CASE UNCHANGED <<row, attempt, outcomes>>
  BY <1>3 DEF attempt, KnownInv, Known, Accounted, Departed
<1>4. ASSUME NEW w \in Workers, NEW e \in Events, Take(w, e) PROVE KnownInv'
  <2>1. /\ before' = [before EXCEPT ![w] = before[w]] /\ UNCHANGED <<row, seen, outcomes>>
        /\ pc'[w] # "commit"
        /\ \A v \in Workers \ {w} : pc'[v] = pc[v] /\ ev'[v] = ev[v]
    BY <1>0, <1>4 DEF Take, Goto
  <2> QED BY <1>2, <1>d, <2>1
<1>5. ASSUME NEW w \in Workers, Describe(w) PROVE KnownInv'
  <2>1. CASE Done(w)
    BY <1>1, <1>5, <1>b, <1>d, <2>1 DEF Describe, Done
  <2>2. CASE /\ Goto(w, "list") /\ UNCHANGED <<ev, before>>
             /\ seen' = [seen EXCEPT ![w][1] = live]
    <3>1. /\ before' = [before EXCEPT ![w] = before[w]] /\ UNCHANGED <<row, outcomes>>
          /\ pc'[w] # "commit"
          /\ \A v \in Workers \ {w} : pc'[v] = pc[v] /\ ev'[v] = ev[v] /\ seen'[v] = seen[v]
      BY <1>0, <1>5, <2>2 DEF Describe, Goto
    <3> QED BY <1>2, <1>d, <3>1
  <2> QED BY <1>5, <2>1, <2>2 DEF Describe
<1>6. ASSUME NEW w \in Workers, ListResources(w) PROVE KnownInv'
  <2>1. /\ before' = [before EXCEPT ![w] = before[w]] /\ UNCHANGED <<row, outcomes>>
        /\ pc'[w] # "commit"
        /\ \A v \in Workers \ {w} : pc'[v] = pc[v] /\ ev'[v] = ev[v] /\ seen'[v] = seen[v]
    BY <1>0, <1>6 DEF ListResources, Goto
  <2> QED BY <1>2, <1>d, <2>1
<1>7. ASSUME NEW w \in Workers, Load(w) PROVE KnownInv'
  <2>1. row' = row
    BY <1>7 DEF Load
  <2>2. CASE Done(w) /\ UNCHANGED outcomes
    BY <1>1, <1>b, <1>d, <2>1, <2>2 DEF Done
  <2>3. CASE /\ Goto(w, "publish") /\ before' = [before EXCEPT ![w] = row]
             /\ UNCHANGED <<ev, seen, handled, outcomes>>
    <3>1. /\ pc'[w] # "commit"
          /\ \A v \in Workers \ {w} : pc'[v] = pc[v] /\ ev'[v] = ev[v] /\ seen'[v] = seen[v]
      BY <1>0, <2>3 DEF Goto
    <3> QED BY <1>2, <1>d, <2>1, <2>3, <3>1
  <2>4. CASE /\ Goto(w, "commit") /\ before' = [before EXCEPT ![w] = row]
             /\ outcomes' = outcomes \cup {Outcome(w, row, FALSE)}
             /\ UNCHANGED <<ev, seen, handled>>
    <3>1. \A v \in Workers \ {w} : pc'[v] = pc[v] /\ ev'[v] = ev[v] /\ seen'[v] = seen[v]
      BY <1>0, <2>4 DEF Goto
    <3>2. /\ Outcome(w, row, FALSE).ev = ev'[w] /\ Outcome(w, row, FALSE).before = row
          /\ Outcome(w, row, FALSE).after = seen'[w]
      BY <2>4 DEF Outcome
    <3> QED BY <1>2, <1>d, <2>1, <2>4, <3>1, <3>2
  <2> QED BY <1>7, <2>2, <2>3, <2>4 DEF Load
<1>8. ASSUME NEW w \in Workers, Publish(w) PROVE KnownInv'
  <2> DEFINE o == Outcome(w, before[w], TRUE)
  <2>1. /\ row' = row /\ outcomes' = outcomes \cup {o}
        /\ o.ev = ev[w] /\ o.before = before[w] /\ o.after = seen[w]
    BY <1>8 DEF Publish, Outcome
  <2> HIDE DEF o
  <2>2. CASE Idle(w)
    BY <1>1, <1>b, <1>d, <2>1, <2>2
  <2>3. CASE Goto(w, "commit") /\ UNCHANGED <<ev, seen, before>>
    <3>1. /\ before' = [before EXCEPT ![w] = before[w]]
          /\ \A v \in Workers \ {w} : pc'[v] = pc[v] /\ ev'[v] = ev[v] /\ seen'[v] = seen[v]
      BY <1>0, <2>3 DEF Goto
    <3>2. outcomes \subseteq outcomes' /\ Known(before[w])
          /\ \A p \in outcomes' : p \in outcomes \/ p.before = before[w]
      BY <1>d, <2>1
    <3>3. o \in outcomes' /\ o.ev = ev'[w] /\ o.before = before[w] /\ o.after = seen'[w]
      BY <2>1, <2>3
    <3> QED BY <1>2, <2>1, <3>1, <3>2, <3>3
  <2> QED BY <1>8, <2>2, <2>3 DEF Publish
<1>9. ASSUME NEW w \in Workers, Commit(w) PROVE KnownInv'
  <2>1. pc[w] = "commit" /\ Idle(w) /\ outcomes' = outcomes /\ (Write(w) \/ row' = row)
    BY <1>9 DEF Commit, Done
  <2>2. row' \in {row, Absent, Snapshot(w), Retired(w)}
    BY <2>1 DEF Write, DeleteRow, SaveRow
  <2>3. KnownThen(row')
    BY <1>b, <1>c, <1>d, <2>1, <2>2, CommittedIsKnown
  <2> QED BY <1>1, <2>1, <2>3
<1>10. ASSUME NEW w \in Workers, Fail(w) PROVE KnownInv'
  BY <1>1, <1>10, <1>b, <1>d DEF Fail
<1> QED BY <1>3, <1>4, <1>5, <1>6, <1>7, <1>8, <1>9, <1>10
        DEF Next, StartOperation, FinishOperation, Replay, vars

LEMMA AccountingHolds == Spec => [](TypeInv /\ KnownInv)
BY TypeInit, TypeStep, KnownInit, KnownStep, PTL DEF Spec

(* What the stored row says of an event is what a report of that event     *)
(* said, or was suppressed on purpose ("publish before commit").           *)
THEOREM CommitFollowsDecision == Spec => []CommittedWasDecided
<1>1. KnownInv => CommittedWasDecided
  BY DEF KnownInv, Known, Accounted, CommittedWasDecided
<1> QED BY <1>1, AccountingHolds, PTL

(* Every delta starts at a state an outcome has accounted for, or at none. *)
THEOREM DeltasAreAnchored == Spec => []DeltasStartAtKnownStates
<1>1. KnownInv => DeltasStartAtKnownStates
  BY DEF KnownInv, Known, Accounted, DeltasStartAtKnownStates
<1> QED BY <1>1, AccountingHolds, PTL

(* An event is diffed against its own snapshot only when it was diffed     *)
(* against another before: no first report of an event is a zero delta     *)
(* (the purpose of committing after publishing, in _deliver).              *)
THEOREM FirstReportHasTheDelta == Spec => []OwnSnapshotOnlyInReplays
<1>1. TypeInv /\ KnownInv => OwnSnapshotOnlyInReplays
  <2> SUFFICES ASSUME TypeInv, KnownInv, NEW o \in outcomes, o.before.ev = o.ev
               PROVE  \E p \in outcomes : p.ev = o.ev /\ p.before.ev # p.ev
    BY DEF OwnSnapshotOnlyInReplays
  <2>1. o.ev \in Events
    BY DEF TypeInv, TypeOK, Outcomes
  <2>2. o.ev # 0
    BY <2>1, SettingFacts DEF Events, TypeInv, TypeOK
  <2> QED BY <2>2 DEF KnownInv, Known, Departed
<1> QED BY <1>1, AccountingHolds, PTL

(***************************************************************************)
(* Steps of the row                                                        *)
(***************************************************************************)

(* Only a commit writes the row. *)
LEMMA OnlyCommitWrites ==
  ASSUME [Next]_vars, row' # row
  PROVE  \E w \in Workers : pc[w] = "commit" /\ Write(w) /\ Idle(w) /\ UNCHANGED stack
BY DEF Next, vars, StartOperation, FinishOperation, Take, Describe, ListResources, Load,
       Publish, Commit, Done, Fail, Replay

LEMMA RetiredInit == Init => RetiredInv
BY DEF Init, RetiredInv, Absent

LEMMA RetiredStep == TypeInv /\ RetiredInv /\ [Next]_vars => RetiredInv'
<1> SUFFICES ASSUME TypeInv, RetiredInv, [Next]_vars, row'.retired
             PROVE  row'.ev \in Emitted' /\ kind'[row'.ev] = "DELETE"
  BY DEF RetiredInv
<1>0. setting \in Settings /\ live \in Moments /\ kind \in [Events -> Kinds \cup {"none"}]
  BY DEF TypeInv, TypeOK
<1>1. /\ Emitted \subseteq Emitted'
      /\ \A e \in Emitted : kind'[e] = kind[e]
  <2>1. CASE UNCHANGED stack
    BY <2>1 DEF stack, Emitted, Completed
  <2>2. ASSUME NEW k \in Kinds, StartOperation(k)
        PROVE  Emitted \subseteq Emitted' /\ \A e \in Emitted : kind'[e] = kind[e]
    <3>1. Completed \in Nat /\ Completed' = Completed
      BY <1>0, <2>2, LiveFacts, SettingFacts DEF StartOperation, Completed
    <3>2. kind' = [kind EXCEPT ![Completed + 1] = k]
      BY <2>2 DEF StartOperation
    <3> QED BY <1>0, <3>1, <3>2 DEF Emitted
  <2>3. CASE FinishOperation
    <3>1. Completed \in Nat /\ Completed' = Completed + 1 /\ kind' = kind
      BY <1>0, <2>3, LiveFacts, SettingFacts DEF FinishOperation, Completed
    <3> QED BY <3>1 DEF Emitted
  <2> QED BY <2>1, <2>2, <2>3 DEF Next, vars, Take, Describe, ListResources, Load, Publish,
             Commit, Fail, Replay
<1>2. CASE row' = row
  BY <1>1, <1>2 DEF RetiredInv
<1>3. CASE row' # row
  <2>1. PICK w \in Workers : pc[w] = "commit" /\ Write(w) /\ UNCHANGED stack
    BY <1>3, OnlyCommitWrites
  <2>2. row \in Rows /\ ev[w] \in Emitted
    BY <2>1, AttemptFacts
  <2>3. KindOf(w) = "DELETE" /\ row'.ev = ev[w]
    <3>1. \/ row' \in {Absent, Snapshot(w)}
          \/ KindOf(w) = "DELETE" /\ row' = Retired(w)
      BY <1>3, <2>1 DEF Write, DeleteRow, SaveRow
    <3>2. ~Absent.retired /\ ~Snapshot(w).retired
      BY DEF Absent, Snapshot
    <3>3. Retired(w).ev = ev[w]
      BY <2>2 DEF Retired, Rows
    <3> QED BY <3>1, <3>2, <3>3
  <2> QED BY <1>1, <2>2, <2>3 DEF KindOf
<1> QED BY <1>2, <1>3

(* A retired snapshot stays retired until it is gone: no late event of the *)
(* deleted stack brings it back (store.delete, store.save).                *)
THEOREM RetirementIsFinal == Spec => RetiredStaysRetired
<1>1. Spec => [](TypeInv /\ RetiredInv)
  BY TypeInit, TypeStep, RetiredInit, RetiredStep, PTL DEF Spec
<1>2. ASSUME TypeInv, RetiredInv, [Next]_vars
      PROVE  [row.retired => row'.retired \/ row' = Absent]_vars
  <2> SUFFICES ASSUME row.retired, row' # row PROVE row'.retired \/ row' = Absent
    OBVIOUS
  <2>1. PICK w \in Workers : pc[w] = "commit" /\ Write(w)
    BY <1>2, OnlyCommitWrites
  <2>2. row \in Rows /\ ev[w] \in Emitted /\ row.ev \in Nat
    BY <1>2, <2>1, AttemptFacts
  <2>3. CASE KindOf(w) = "DELETE"
    BY <2>1, <2>2, <2>3 DEF Write, DeleteRow, Retired, Rows
  <2>4. CASE KindOf(w) # "DELETE"
    <3>1. row.ev = Completed /\ kind[row.ev] = "DELETE"
      BY <1>2 DEF RetiredInv, TypeInv
    <3>2. Completed \in Nat
      BY <1>2, LiveFacts, SettingFacts DEF TypeInv, TypeOK
    <3>3. ev[w] < row.ev
      BY <2>2, <2>4, <3>1, <3>2 DEF Emitted, KindOf
    <3> QED BY <2>1, <2>2, <2>4, <3>1, <3>2, <3>3 DEF Write, SaveRow, NotNewer, Emitted
  <2> QED BY <2>3, <2>4
<1> QED BY <1>1, <1>2, PTL DEF Spec, RetiredStaysRetired

(***************************************************************************)
(* Convergence                                                             *)
(***************************************************************************)

(* Operations only end, none follows a deletion, and what the ended ones   *)
(* were does not change.                                                   *)
LEMMA StackStep ==
  ASSUME TypeInv, [Next]_vars
  PROVE  /\ setting' = setting /\ live <= live' /\ {live, live'} \subseteq Nat
         /\ Completed <= Completed' /\ {Completed, Completed'} \subseteq Nat
         /\ \A e \in Emitted : e \in Emitted' /\ kind'[e] = kind[e]
         /\ Deleted => Deleted'
<1>0. /\ setting \in Settings /\ live \in Moments /\ kind \in [Events -> Kinds \cup {"none"}]
      /\ MaxOps \in Nat /\ live \in Nat /\ Completed \in Nat
  BY SettingFacts, LiveFacts DEF TypeInv, TypeOK, Moments
<1>1. CASE UNCHANGED stack
  BY <1>0, <1>1 DEF stack, Emitted, Completed, Deleted
<1>2. ASSUME NEW k \in Kinds, StartOperation(k)
      PROVE  /\ setting' = setting /\ live' = live + 1 /\ Completed' = Completed /\ ~Deleted
             /\ \A e \in Emitted : e \in Emitted' /\ kind'[e] = kind[e]
  <2>1. setting' = setting /\ live' = live + 1 /\ Completed' = Completed
    BY <1>0, <1>2, LiveFacts DEF StartOperation, Completed
  <2>2. kind' = [kind EXCEPT ![Completed + 1] = k]
    BY <1>2 DEF StartOperation
  <2> QED BY <1>0, <1>2, <2>1, <2>2 DEF Emitted, StartOperation
<1>3. CASE FinishOperation
  <2>1. setting' = setting /\ live' = live + 1 /\ Completed' = Completed + 1 /\ kind' = kind
    BY <1>0, <1>3, LiveFacts DEF FinishOperation, Completed
  <2>2. ~Deleted
    BY <1>0, <1>3 DEF FinishOperation, Deleted, TypeInv, Emitted
  <2> QED BY <1>0, <2>1, <2>2 DEF Emitted
<1>4. \/ UNCHANGED stack \/ FinishOperation
      \/ \E k \in Kinds : StartOperation(k)
  BY DEF Next, vars, Take, Describe, ListResources, Load, Publish, Commit, Fail, Replay
<1> QED BY <1>0, <1>1, <1>2, <1>3, <1>4

(* What an attempt has read, it has read since its operation ended. *)
ReadsSince(w) ==
  pc[w] # "idle" /\ KindOf(w) # "DELETE" =>
    /\ pc[w] # "describe" => 2 * ev[w] <= seen[w][1] /\ seen[w][1] <= live
    /\ pc[w] \notin {"describe", "list"} => 2 * ev[w] <= seen[w][2] /\ seen[w][2] <= live

(* The same of what is stored. *)
RowSince ==
  /\ row.ev <= Completed
  /\ row.ev # 0 /\ ~row.retired =>
       /\ 2 * row.ev <= row.seen[1] /\ row.seen[1] <= live
       /\ 2 * row.ev <= row.seen[2] /\ row.seen[2] <= live

(* While inventories fit, no acknowledged event is ahead of the row. *)
CaughtUp == TooLarge = {} /\ ~Deleted => \A e \in handled : e <= row.ev

ConvergeInv == (\A w \in Workers : ReadsSince(w)) /\ RowSince /\ CaughtUp

LEMMA ConvergeInit == Init => ConvergeInv
<1> SUFFICES ASSUME Init PROVE ConvergeInv
  OBVIOUS
<1>1. Completed = 0
  BY DEF Init, Completed
<1> QED BY <1>1 DEF Init, ConvergeInv, ReadsSince, RowSince, CaughtUp, Absent

LEMMA ReadsStep ==
  ASSUME TypeInv, [Next]_vars, NEW w \in Workers, ReadsSince(w)
  PROVE  ReadsSince(w)'
<1>0. /\ live <= live' /\ {live, live'} \subseteq Nat
      /\ \A e \in Emitted : e \in Emitted' /\ kind'[e] = kind[e]
  BY StackStep
<1>1. /\ pc \in [Workers -> Labels] /\ ev \in [Workers -> 0..MaxOps]
      /\ seen \in [Workers -> Contents] /\ Moments \subseteq Nat /\ live \in Moments
      /\ MaxOps \in Nat
  BY SettingFacts DEF TypeInv, TypeOK, Labels, Moments
<1>2. ASSUME pc[w] # "idle"
      PROVE  ev[w] \in Emitted /\ ev[w] \in Nat /\ 2 * ev[w] <= live
             /\ seen[w] = <<seen[w][1], seen[w][2]>>
             /\ seen[w][1] \in Nat /\ seen[w][2] \in Nat
  <2>1. ev[w] \in Emitted /\ ev[w] \in Nat
    BY <1>1, <1>2 DEF TypeInv
  <2>2. 2 * Completed <= live /\ Completed \in Nat
    BY <1>1 DEF Completed
  <2>3. ev[w] <= Completed
    BY <2>1, <2>2 DEF Emitted
  <2>4. 2 * ev[w] <= live
    BY <1>0, <2>1, <2>2, <2>3
  <2>5. seen[w] \in Contents
    BY <1>1
  <2>6. PICK a \in Moments, b \in Moments : seen[w] = <<a, b>>
    BY <2>5 DEF Contents
  <2> QED BY <1>1, <2>1, <2>4, <2>6
<1>3. CASE pc'[w] = pc[w] /\ ev'[w] = ev[w] /\ seen'[w] = seen[w]
  BY <1>0, <1>2, <1>3 DEF ReadsSince, KindOf
<1>4. CASE pc'[w] = "idle"
  BY <1>4 DEF ReadsSince
<1>5. CASE \E e \in Events : Take(w, e)
  <2>1. PICK e \in Emitted : /\ ev'[w] = e /\ kind' = kind
                             /\ pc'[w] = IF kind[e] = "DELETE" THEN "load" ELSE "describe"
    BY <1>1, <1>5 DEF Take, Goto, stack
  <2> QED BY <2>1 DEF ReadsSince, KindOf
<1>6. CASE Describe(w) /\ pc'[w] # "idle"
  <2>1. /\ pc[w] = "describe" /\ pc'[w] = "list" /\ ev' = ev /\ live' = live /\ kind' = kind
        /\ seen' = [seen EXCEPT ![w][1] = live]
    BY <1>1, <1>6 DEF Describe, Goto, Done, Idle, stack
  <2>2. seen'[w][1] = live
    BY <1>1, <1>2, <2>1
  <2> QED BY <1>0, <1>2, <2>1, <2>2 DEF ReadsSince
<1>7. CASE ListResources(w)
  <2>1. /\ pc[w] = "list" /\ pc'[w] = "load" /\ ev' = ev /\ live' = live /\ kind' = kind
        /\ seen' = [seen EXCEPT ![w][2] = live]
    BY <1>1, <1>7 DEF ListResources, Goto, stack
  <2>2. seen'[w][1] = seen[w][1] /\ seen'[w][2] = live
    BY <1>1, <1>2, <2>1
  <2> QED BY <1>0, <1>2, <2>1, <2>2 DEF ReadsSince, KindOf
<1>8. CASE (Load(w) \/ Publish(w)) /\ pc'[w] # "idle"
  <2>1. /\ pc[w] \in {"load", "publish"} /\ pc'[w] \in {"publish", "commit"}
        /\ ev' = ev /\ live' = live /\ kind' = kind /\ seen' = seen
    BY <1>1, <1>8 DEF Load, Publish, Goto, Done, Idle, stack
  <2> QED BY <2>1 DEF ReadsSince, KindOf
<1>9. \/ pc'[w] = pc[w] /\ ev'[w] = ev[w] /\ seen'[w] = seen[w]
      \/ pc'[w] = "idle" \/ \E e \in Events : Take(w, e)
      \/ Describe(w) \/ ListResources(w) \/ Load(w) \/ Publish(w)
  <2>1. ASSUME NEW v \in Workers, v # w,
               \/ \E e \in Events : Take(v, e)
               \/ Describe(v) \/ ListResources(v) \/ Load(v) \/ Publish(v)
               \/ Commit(v) \/ Fail(v)
        PROVE  pc'[w] = pc[w] /\ ev'[w] = ev[w] /\ seen'[w] = seen[w]
    BY <1>1, <2>1 DEF Take, Describe, ListResources, Load, Publish, Commit, Fail, Done, Idle, Goto
  <2>2. Commit(w) \/ Fail(w) => pc'[w] = "idle"
    BY <1>1 DEF Commit, Fail, Done, Idle
  <2> QED BY <2>1, <2>2 DEF Next, vars, attempt, StartOperation, FinishOperation, Replay
<1> QED BY <1>3, <1>4, <1>5, <1>6, <1>7, <1>8, <1>9

LEMMA RowSinceStep ==
  ASSUME TypeInv, \A w \in Workers : ReadsSince(w), RowSince, [Next]_vars
  PROVE  RowSince'
<1>0. /\ live <= live' /\ {live, live'} \subseteq Nat
      /\ Completed <= Completed' /\ {Completed, Completed'} \subseteq Nat
  BY StackStep
<1>1. CASE row' = row
  <2>1. row.ev \in Nat /\ row.seen[1] \in Nat /\ row.seen[2] \in Nat
    BY SettingFacts DEF TypeInv, TypeOK, Rows, Contents, Moments
  <2> QED BY <1>0, <1>1, <2>1 DEF RowSince
<1>2. CASE row' # row
  <2>1. PICK w \in Workers : pc[w] = "commit" /\ Write(w) /\ Idle(w) /\ UNCHANGED stack
    BY <1>2, OnlyCommitWrites
  <2>2. /\ ev[w] \in Emitted /\ row \in Rows /\ live' = live /\ Completed' = Completed
    BY <2>1, AttemptFacts DEF stack, Completed
  <2>3. ev[w] <= Completed
    BY <2>2, <1>0 DEF Emitted
  <2>4. \/ row' = Absent
        \/ row' = Retired(w)
        \/ row' = Snapshot(w) /\ KindOf(w) # "DELETE"
    BY <1>2, <2>1 DEF Write, DeleteRow, SaveRow
  <2>5. CASE row' = Absent
    BY <1>0, <2>5 DEF Absent, RowSince
  <2>6. CASE row' = Retired(w)
    <3>1. row'.ev = ev[w] /\ row'.retired
      BY <2>2, <2>6 DEF Retired, Rows
    <3> QED BY <2>2, <2>3, <3>1 DEF RowSince
  <2>7. CASE row' = Snapshot(w) /\ KindOf(w) # "DELETE"
    <3>1. row'.ev = ev[w] /\ row'.seen = seen[w]
      BY <2>7 DEF Snapshot
    <3> QED BY <2>1, <2>2, <2>3, <2>7, <3>1 DEF RowSince, ReadsSince
  <2> QED BY <2>4, <2>5, <2>6, <2>7
<1> QED BY <1>1, <1>2

(* An event is acknowledged when it is stale, or once the row is at least  *)
(* as new; and the row goes back only for a deletion or an oversized       *)
(* inventory.                                                              *)
LEMMA CaughtUpStep ==
  ASSUME TypeInv, CaughtUp, [Next]_vars
  PROVE  CaughtUp'
<1> SUFFICES ASSUME TooLarge = {}, ~Deleted, NEW e \in handled'
             PROVE  e <= row'.ev
  BY StackStep DEF CaughtUp, TooLarge
<1>1. /\ \A f \in handled : f <= row.ev
      /\ handled \subseteq Nat /\ row.ev \in Nat
  <2>1. Emitted \subseteq Nat
    BY DEF Emitted
  <2> QED BY <2>1, SettingFacts DEF CaughtUp, TypeInv, TypeOK, Rows
<1>2. ASSUME NEW w \in Workers, pc[w] # "idle"
      PROVE  ev[w] \in Nat /\ KindOf(w) # "DELETE"
  <2>1. ev[w] \in Emitted /\ ev[w] \in Nat
    BY <1>2, AttemptFacts
  <2>2. Completed \in Nat
    BY StackStep
  <2> QED BY <2>1, <2>2 DEF Deleted, KindOf, TypeInv, Emitted
<1>3. row.ev <= row'.ev
  <2>1. ASSUME row' # row PROVE row.ev <= row'.ev
    <3>1. PICK w \in Workers : pc[w] = "commit" /\ Write(w)
      BY <2>1, OnlyCommitWrites
    <3>2. row' = Snapshot(w) /\ row.ev <= ev[w]
      BY <1>2, <2>1, <3>1 DEF Write, SaveRow, NotNewer
    <3> QED BY <3>2 DEF Snapshot
  <2> QED BY <1>1, <2>1
<1>4. CASE e \in handled
  <2>1. row'.ev \in Nat
    <3>1. row' \in Rows'
      BY TypeStep DEF TypeInv, TypeOK
    <3> QED BY <3>1, TypeStep, StackStep, SettingFacts DEF Rows, TypeInv, TypeOK, MaxOps
  <2> QED BY <1>1, <1>3, <1>4, <2>1
<1>5. CASE e \notin handled
  <2>1. PICK w \in Workers : /\ pc[w] # "idle" /\ e = ev[w] /\ Done(w)
                             /\ Describe(w) \/ Load(w) \/ Commit(w)
    BY <1>5 DEF Next, vars, StartOperation, FinishOperation, Take, Describe, ListResources, Load,
               Publish, Commit, Done, Fail, Replay
  <2>2. ev[w] \in Nat /\ KindOf(w) # "DELETE"
    BY <1>2, <2>1
  <2>3. CASE Describe(w)
    <3>1. ev[w] \notin handled /\ handled' # handled
      BY <1>5, <2>1
    <3> QED BY <2>3, <3>1 DEF Describe
  <2>4. CASE Load(w)
    <3>1. row' = row /\ ev[w] < row.ev
      BY <1>5, <2>1, <2>4 DEF Load, Stale
    <3> QED BY <1>1, <2>1, <2>2, <3>1
  <2>5. CASE Commit(w)
    <3>1. Write(w) \/ (row' = row /\ row.ev = ev[w])
      BY <2>5 DEF Commit
    <3>2. CASE Write(w)
      <4>1. row' = IF row.ev <= ev[w] THEN Snapshot(w) ELSE row
        BY <2>2, <3>2 DEF Write, SaveRow, NotNewer
      <4> QED BY <1>1, <2>1, <2>2, <4>1 DEF Snapshot
    <3> QED BY <1>1, <2>1, <3>1, <3>2
  <2> QED BY <2>1, <2>3, <2>4, <2>5
<1> QED BY <1>4, <1>5

(* When every event has been handled, in whatever order, by however many   *)
(* invocations at once and however often, the row holds the stack as its   *)
(* last operation left it, if inventories fit the table.                   *)
THEOREM RowConverges == Spec => []Converged
<1>1. Spec => [](TypeInv /\ RetiredInv)
  BY TypeInit, TypeStep, RetiredInit, RetiredStep, PTL DEF Spec
<1>2. TypeInv /\ ConvergeInv /\ [Next]_vars => ConvergeInv'
  BY ReadsStep, RowSinceStep, CaughtUpStep DEF ConvergeInv
<1>3. Spec => []ConvergeInv
  BY <1>1, <1>2, ConvergeInit, PTL DEF Spec
<1>4. TypeInv /\ RetiredInv /\ ConvergeInv => Converged
  <2> SUFFICES ASSUME TypeInv, RetiredInv, ConvergeInv,
                      TooLarge = {}, Quiet, Completed > 0, ~Deleted
               PROVE  row = [ev |-> Completed, seen |-> <<live, live>>, retired |-> FALSE]
    BY DEF Converged
  <2>1. live \in Nat /\ Completed \in Nat /\ row \in Rows /\ MaxOps \in Nat /\ row.ev \in Nat
    BY SettingFacts, LiveFacts DEF TypeInv, TypeOK, Moments, Rows
  <2>2. Completed \in handled /\ live = 2 * Completed
    BY <2>1 DEF Quiet, Running, Completed, Emitted
  <2>3. row.ev = Completed
    BY <2>1, <2>2 DEF ConvergeInv, CaughtUp, RowSince
  <2>4. ~row.retired
    BY <2>3 DEF RetiredInv, Deleted
  <2>5. /\ row.seen = <<row.seen[1], row.seen[2]>>
        /\ row.seen[1] \in Nat /\ row.seen[2] \in Nat
    BY <2>1 DEF Rows, Contents, Moments
  <2>6. row.seen[1] = live /\ row.seen[2] = live
    BY <2>1, <2>2, <2>3, <2>4, <2>5 DEF ConvergeInv, RowSince
  <2> QED BY <2>1, <2>3, <2>4, <2>5, <2>6 DEF Rows
<1> QED BY <1>1, <1>3, <1>4, PTL

(***************************************************************************)
(* Baselines                                                               *)
(***************************************************************************)

(* An event is not diffed against the snapshot of a later one. *)
ForwardInv ==
  /\ \A w \in Workers : pc[w] \in {"publish", "commit"} => before[w].ev <= ev[w]
  /\ \A o \in outcomes : o.before.ev <= o.ev

LEMMA ForwardInit == Init => ForwardInv
BY DEF Init, ForwardInv

(* An outcome is recorded when the row is loaded, or later with the row    *)
(* that was loaded.                                                        *)
LEMMA ForwardStep == TypeInv /\ ForwardInv /\ [Next]_vars => ForwardInv'
<1> SUFFICES ASSUME TypeInv, ForwardInv, [Next]_vars PROVE ForwardInv'
  OBVIOUS
<1>0. /\ pc \in [Workers -> Labels] /\ ev \in [Workers -> 0..MaxOps]
      /\ before \in [Workers -> Rows]
  BY DEF TypeInv, TypeOK, Labels
<1>1. CASE UNCHANGED <<attempt, outcomes>>
  BY <1>1 DEF ForwardInv, attempt
<1>2. ASSUME NEW w \in Workers, UNCHANGED outcomes,
             pc'[w] \notin {"publish", "commit"},
             \A v \in Workers \ {w} : pc'[v] = pc[v] /\ ev'[v] = ev[v] /\ before'[v] = before[v]
      PROVE  ForwardInv'
  BY <1>2 DEF ForwardInv
<1>3. ASSUME NEW w \in Workers, Load(w), ~Stale(w) PROVE ForwardInv'
  <2>1. /\ ev' = ev /\ before' = [before EXCEPT ![w] = row]
        /\ outcomes' \subseteq outcomes \cup {Outcome(w, row, FALSE)}
        /\ \E label : pc' = [pc EXCEPT ![w] = label]
    BY <1>3 DEF Load, Goto
  <2>2. row.ev <= ev[w]
    BY <1>3, AttemptFacts DEF Load, Stale
  <2> QED BY <1>0, <2>1, <2>2 DEF ForwardInv, Outcome
<1>4. ASSUME NEW w \in Workers, Publish(w) PROVE ForwardInv'
  <2>1. /\ outcomes' = outcomes \cup {Outcome(w, before[w], TRUE)}
        /\ before[w].ev <= ev[w]
    BY <1>4 DEF Publish, ForwardInv
  <2>2. \/ \E label : pc' = [pc EXCEPT ![w] = label] /\ UNCHANGED <<ev, before>>
        \/ Idle(w)
    BY <1>4 DEF Publish, Goto
  <2> QED BY <1>0, <2>1, <2>2 DEF ForwardInv, Outcome, Idle
<1>5. ASSUME NEW w \in Workers, Idle(w), UNCHANGED outcomes PROVE ForwardInv'
  BY <1>0, <1>2, <1>5 DEF Idle
<1>6. ASSUME NEW w \in Workers, NEW e \in Events, Take(w, e) PROVE ForwardInv'
  BY <1>0, <1>2, <1>6 DEF Take, Goto
<1>7. ASSUME NEW w \in Workers,
             Describe(w) \/ ListResources(w) \/ Load(w) \/ Commit(w) \/ Fail(w)
      PROVE  ForwardInv'
  <2>1. CASE Idle(w) /\ UNCHANGED outcomes
    BY <1>5, <2>1
  <2>2. CASE Load(w) /\ ~Stale(w)
    BY <1>3, <2>2
  <2>3. CASE Describe(w) /\ Goto(w, "list") /\ UNCHANGED <<ev, before>>
    BY <1>0, <1>2, <2>3 DEF Describe, Goto
  <2>4. CASE ListResources(w)
    BY <1>0, <1>2, <2>4 DEF ListResources, Goto
  <2> QED BY <1>7, <2>1, <2>2, <2>3, <2>4 DEF Describe, Load, Commit, Fail, Done
<1> QED BY <1>1, <1>4, <1>6, <1>7 DEF Next, vars, StartOperation, FinishOperation, Replay

(* An acknowledged event has moved the row on from where its report        *)
(* started, so that no later report starts there (_is_stale_event, and     *)
(* Analyzer.commit before the claim is completed).                         *)
THEOREM BaselinesMoveOn == Spec => []BaselineUsedOnce
<1>1. Spec => [](TypeInv /\ RetiredInv)
  BY TypeInit, TypeStep, RetiredInit, RetiredStep, PTL DEF Spec
<1>2. TypeInv /\ ConvergeInv /\ [Next]_vars => ConvergeInv'
  BY ReadsStep, RowSinceStep, CaughtUpStep DEF ConvergeInv
<1>3. Spec => [](TypeInv /\ ConvergeInv /\ ForwardInv)
  BY <1>1, <1>2, ConvergeInit, ForwardInit, ForwardStep, PTL DEF Spec
<1>4. TypeInv /\ ConvergeInv /\ ForwardInv => BaselineUsedOnce
  <2> SUFFICES ASSUME TypeInv, ConvergeInv, ForwardInv, TooLarge = {}, ~Deleted,
                      NEW p \in outcomes, p.ev \in handled, p.ev # row.ev,
                      p.before.ev = row.ev
               PROVE  FALSE
    BY DEF BaselineUsedOnce
  <2>1. p.ev <= row.ev
    BY DEF ConvergeInv, CaughtUp
  <2>2. row.ev <= p.ev
    BY DEF ForwardInv
  <2>3. row.ev \in Nat /\ p.ev \in Nat
    BY SettingFacts DEF TypeInv, TypeOK, Rows, Outcomes, Events
  <2> QED BY <2>1, <2>2, <2>3
<1> QED BY <1>3, <1>4, PTL
==============================================================================
