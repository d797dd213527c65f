------------------------------ MODULE StackWalk_proofs ------------------------------
(***************************************************************************)
(* Proofs about StackWalk, for any tree of stacks, depth limit, number of  *)
(* operations and failing reads.                                           *)
(***************************************************************************)
EXTENDS StackWalk, SequenceTheorems, TLAPS

(* The innermost call of _collect is replaced, the ones around it stay. *)
Retopped(f) ==
  /\ frames' \in Seq(Frames) /\ Len(frames') = Len(frames) /\ f \in Frames
  /\ \A i \in DOMAIN frames : frames'[i] = IF i = Len(frames) THEN f ELSE frames[i]

LEMMA TopFrame ==
  ASSUME TypeOK, Walking
  PROVE  /\ Len(frames) \in Nat \ {0} /\ DOMAIN frames = 1..Len(frames)
         /\ Len(frames) \in DOMAIN frames /\ frames \in Seq(Frames)
         /\ Top \in Frames /\ Top.todo \subseteq Own(Nested, Top.stack)
<1>1. frames \in Seq(Frames) /\ frames # <<>>
  BY DEF TypeOK
<1>2. Len(frames) \in Nat \ {0} /\ DOMAIN frames = 1..Len(frames)
  BY <1>1
<1> QED BY <1>1, <1>2 DEF TypeOK, Top

(* Replacing the top frame by a frame is just that. *)
LEMMA Retop ==
  ASSUME TypeOK, Walking, NEW f \in Frames, frames' = [frames EXCEPT ![Len(frames)] = f]
  PROVE  Retopped(f)
BY TopFrame DEF Retopped

(* The read of a template. *)
LEMMA ReadTemplateFrames ==
  ASSUME TypeOK, ReadTemplate
  PROVE  \E f \in Frames :
           /\ Retopped(f)
           /\ f.stack = Top.stack /\ f.depth = Top.depth /\ f.phase = "list" /\ f.todo = Top.todo
           /\ f.template = IF Estimating /\ Top.depth = 0 THEN changeSet.proposal
                                                         ELSE Own(wanted, Top.stack)
<1> DEFINE t == IF Estimating /\ Top.depth = 0 THEN changeSet.proposal
                                               ELSE Own(wanted, Top.stack)
           f == [Top EXCEPT !.template = t, !.phase = "list"]
<1>1. Top \in Frames /\ Walking /\ Len(frames) \in DOMAIN frames
  BY TopFrame DEF ReadTemplate
<1>2. t \in SUBSET Slots
  BY DEF TypeOK, Own
<1>3. frames' = [frames EXCEPT ![Len(frames)] = f]
  BY <1>1 DEF ReadTemplate, Top
<1> HIDE DEF t
<1>4. /\ f \in Frames /\ f.stack = Top.stack /\ f.depth = Top.depth /\ f.phase = "list"
      /\ f.todo = Top.todo /\ f.template = t
  BY <1>1, <1>2 DEF Frames
<1> HIDE DEF f
<1>5. Retopped(f)
  BY <1>1, <1>3, <1>4, Retop
<1> QED BY <1>4, <1>5 DEF t

(* The read of a resource list. *)
LEMMA ListResourcesFrames ==
  ASSUME TypeOK, ListResources
  PROVE  \E f \in Frames :
           /\ Retopped(f)
           /\ f.stack = Top.stack /\ f.depth = Top.depth /\ f.phase = "children"
           /\ f.template = Top.template
           /\ f.todo = IF rollup /\ ~TooDeep(Top.depth)
                       THEN Own(present \ absent, Top.stack) \cap Nested \cap Named ELSE {}
<1> DEFINE todo == IF rollup /\ ~TooDeep(Top.depth)
                   THEN Own(present \ absent, Top.stack) \cap Nested \cap Named ELSE {}
           f == [Top EXCEPT !.phase = "children", !.todo = todo]
<1>1. Top \in Frames /\ Walking /\ Len(frames) \in DOMAIN frames
  BY TopFrame DEF ListResources
<1>2. todo \in SUBSET Nested
  OBVIOUS
<1>3. frames' = [frames EXCEPT ![Len(frames)] = f]
  BY <1>1 DEF ListResources, Top
<1> HIDE DEF todo
<1>4. /\ f \in Frames /\ f.stack = Top.stack /\ f.depth = Top.depth /\ f.phase = "children"
      /\ f.todo = todo /\ f.template = Top.template
  BY <1>1, <1>2 DEF Frames
<1> HIDE DEF f
<1>5. Retopped(f)
  BY <1>1, <1>3, <1>4, Retop
<1> QED BY <1>4, <1>5 DEF todo

(* A call for a nested stack, innermost from now on. *)
Entered(f, r) ==
  /\ f \in Frames /\ frames' \in Seq(Frames)
  /\ Len(frames') = Len(frames) + 1 /\ DOMAIN frames' = 1..(Len(frames) + 1)
  /\ \A i \in DOMAIN frames : frames'[i] = IF i = Len(frames) THEN f ELSE frames[i]
  /\ frames'[Len(frames) + 1].stack = Child[r]
  /\ frames'[Len(frames) + 1].depth = Top.depth + 1
  /\ frames'[Len(frames) + 1].phase = "template"
  /\ frames'[Len(frames) + 1].template = {} /\ frames'[Len(frames) + 1].todo = {}

LEMMA DescendFrames ==
  ASSUME TypeOK, NEW r \in Nested, Descend(r)
  PROVE  /\ Child[r] \in Children
         /\ \E f \in Frames :
              /\ f.stack = Top.stack /\ f.depth = Top.depth /\ f.phase = Top.phase
              /\ f.template = Top.template /\ f.todo = Top.todo \ {r}
              /\ \/ Retopped(f) /\ gaps' = gaps \cup {r}
                 \/ Entered(f, r) /\ gaps' = gaps
<1> DEFINE n == Len(frames)
           f == [Top EXCEPT !.todo = @ \ {r}]
           rest == [frames EXCEPT ![n] = f]
           new == Frame(Child[r], Top.depth + 1)
<1>1. /\ Top \in Frames /\ Walking /\ n \in Nat \ {0} /\ n \in DOMAIN frames
      /\ frames \in Seq(Frames) /\ DOMAIN frames = 1..n
  BY TopFrame DEF Descend
<1>2. /\ f \in Frames /\ f.stack = Top.stack /\ f.depth = Top.depth /\ f.phase = Top.phase
      /\ f.template = Top.template /\ f.todo = Top.todo \ {r}
  BY <1>1 DEF Frames
<1>3. [frames EXCEPT ![Len(frames)].todo = @ \ {r}] = rest
  BY <1>1 DEF Top
<1> HIDE DEF f
<1>4. /\ rest \in Seq(Frames) /\ Len(rest) = n
      /\ \A i \in 1..n : rest[i] = IF i = n THEN f ELSE frames[i]
  BY <1>1, <1>2
<1>5. Child[r] \in Children
  BY SlotsAssumption
<1>6. /\ new \in Frames /\ new.stack = Child[r] /\ new.depth = Top.depth + 1
      /\ new.phase = "template" /\ new.template = {} /\ new.todo = {}
  BY <1>1, <1>5 DEF Frame, Frames, Stacks
<1>7. ASSUME frames' = Append(rest, new) PROVE Entered(f, r)
  <2> HIDE DEF rest, new
  <2>1. /\ Append(rest, new) \in Seq(Frames) /\ Len(Append(rest, new)) = Len(rest) + 1
        /\ Append(rest, new)[Len(rest) + 1] = new
        /\ \A i \in 1..Len(rest) : Append(rest, new)[i] = rest[i]
    BY <1>4, <1>6, AppendProperties
  <2>2. /\ frames' \in Seq(Frames) /\ Len(frames') = n + 1 /\ frames'[n + 1] = new
        /\ \A i \in 1..n : frames'[i] = rest[i]
    BY <1>4, <1>7, <2>1
  <2>3. DOMAIN frames' = 1..(n + 1)
    BY <2>2
  <2>4. \A i \in 1..n : frames'[i] = IF i = n THEN f ELSE frames[i]
    BY <1>4, <2>2
  <2> HIDE DEF n
  <2>5. \A i \in DOMAIN frames : frames'[i] = IF i = n THEN f ELSE frames[i]
    BY <1>1, <2>4
  <2> QED BY <1>2, <1>6, <2>2, <2>3, <2>5 DEF Entered, n
<1>8. ASSUME frames' = rest PROVE Retopped(f)
  BY <1>1, <1>2, <1>8, Retop
<1>9. \/ frames' = Append(rest, new) /\ gaps' = gaps
      \/ frames' = rest /\ gaps' = gaps \cup {r}
  BY <1>3 DEF Descend, GapOfUnreadable
<1> QED BY <1>2, <1>5, <1>7, <1>8, <1>9

LEMMA AscendFrames ==
  ASSUME TypeOK, Ascend
  PROVE  /\ frames' \in Seq(Frames) /\ Len(frames') = Len(frames) - 1 /\ Len(frames') > 0
         /\ \A i \in DOMAIN frames' : i \in DOMAIN frames /\ frames'[i] = frames[i]
         /\ DOMAIN frames' = 1..(Len(frames) - 1)
BY TopFrame DEF Ascend, Below

LEMMA CollectFrames ==
  ASSUME NEW kind, NEW s \in Stacks, Collect(kind, s)
  PROVE  /\ frames' \in Seq(Frames) /\ Len(frames') = 1 /\ DOMAIN frames' = {1}
         /\ frames'[1].stack = s /\ frames'[1].depth = 0 /\ frames'[1].phase = "template"
         /\ frames'[1].template = {} /\ frames'[1].todo = {}
<1>1. Frame(s, 0) \in Frames
  BY DEF Frame, Frames
<1>2. frames' = <<Frame(s, 0)>>
  BY DEF Collect
<1>3. frames' \in Seq(Frames) /\ Len(frames') = 1 /\ DOMAIN frames' = {1} /\ frames'[1] = Frame(s, 0)
  BY <1>1, <1>2
<1> QED BY <1>3 DEF Frame

LEMMA InitType == Init => TypeOK
<1> SUFFICES ASSUME Init PROVE TypeOK
  OBVIOUS
<1>1. wanted \subseteq Slots /\ Root \in Stacks
  BY DEF Init, Templates, Stacks
<1>2. live \subseteq Stacks
  BY SlotsAssumption DEF Init, Stacks
<1>3. due \subseteq [stack : Stacks, delete : BOOLEAN]
  <2>1. \A s \in live : [stack |-> s, delete |-> FALSE] \in [stack : Stacks, delete : BOOLEAN]
    BY <1>2
  <2> QED BY <2>1 DEF Init
<1>4. saved \in [Stacks -> Snapshots] /\ changeSet \in [status : Statuses, proposal : SUBSET Own(Slots, Root)]
  BY DEF Init, NoSnapshot, Snapshots, Statuses
<1>5. frames \in Seq(Frames) /\ frames = <<>> /\ ~Walking /\ walk = NoWalk
  BY DEF Init, Walking, NoWalk
<1>6. 0 \in 0..MaxOperations /\ 0 \in 0..MaxErrors
  BY SlotsAssumption
<1>7. walk \in [kind : {"none", "confirmed", "estimate"}, stack : Stacks,
                  status : {"collecting", "done"}]
  BY <1>1, <1>5 DEF NoWalk
<1>8. {wanted, before, target, present} \subseteq SUBSET Slots /\ absent \subseteq Nested
  BY <1>1 DEF Init
<1>9. \A i \in DOMAIN frames : frames[i].todo \subseteq Own(Nested, frames[i].stack)
  BY <1>5
<1> QED BY <1>1, <1>2, <1>3, <1>4, <1>5, <1>6, <1>7, <1>8, <1>9 DEF Init, TypeOK

(* The world's steps leave the walk alone. *)
LEMMA WorldType ==
  ASSUME TypeOK, WorldNext
  PROVE  TypeOK'
<1>1. ASSUME UNCHANGED <<rollup, maxDepth, walk, frames, collected, gaps, errors, saved>>,
             {wanted', before', target', present'} \subseteq SUBSET Slots,
             absent' \subseteq Nested, live' \subseteq Stacks, gone' \subseteq Children, touched' \subseteq Stacks,
             operating' \in BOOLEAN, operations' \in 0..MaxOperations,
             due' \subseteq [stack : Stacks, delete : BOOLEAN],
             changeSet' \in [status : Statuses, proposal : SUBSET Own(Slots, Root)],
             torn' \in BOOLEAN
      PROVE  TypeOK'
  BY <1>1 DEF TypeOK, Walking
<1> USE DEF WorldStep, world
<1>2. CASE Begin
  <2>1. PICK w \in Templates \ {{}} :
          wanted' = w /\ target' = w
          /\ touched' = {Root} \cup {s \in Stacks : Own(w, s) # Own(wanted, s)}
    BY <1>2 DEF Begin
  <2>2. operations' \in 0..MaxOperations
    BY <1>2, SlotsAssumption DEF Begin, TypeOK
  <2> QED BY <1>1, <1>2, <2>1, <2>2 DEF Begin, Templates, TypeOK, Stacks
<1>3. CASE RollBack
  BY <1>1, <1>3 DEF RollBack, TypeOK
<1>4. CASE Finish
  <2>1. \A s \in touched \cap (live \cup gone) :
          [stack |-> s, delete |-> s \in gone] \in [stack : Stacks, delete : BOOLEAN]
    BY DEF TypeOK
  <2>2. due' \subseteq [stack : Stacks, delete : BOOLEAN]
    BY <1>4, <2>1 DEF Finish, TypeOK
  <2> QED BY <1>1, <1>4, <2>2 DEF Finish, TypeOK
<1>5. ASSUME NEW r \in Slots PROVE r[1] \in Stacks /\ (r \in Nested => Child[r] \in Children)
  BY SlotsAssumption
<1>6. ASSUME NEW r \in Slots, Create(r) PROVE TypeOK'
  BY <1>1, <1>5, <1>6 DEF Create, TypeOK
<1>7. ASSUME NEW r \in Slots, Name(r) PROVE TypeOK'
  BY <1>1, <1>5, <1>7 DEF Name, TypeOK, Stacks
<1>8. ASSUME NEW r \in Slots, Delete(r) PROVE TypeOK'
  <2>1. PICK child \in SUBSET Children :
          /\ live' = live \ child /\ gone' = gone \cup child
          /\ touched' = touched \cup {r[1]} \cup child
    BY <1>5, <1>8 DEF Delete
  <2> QED BY <1>1, <1>5, <1>8, <2>1 DEF Delete, TypeOK, Stacks
<1>10. ASSUME NEW r \in Slots, Vanish(r) PROVE TypeOK'
  BY <1>1, <1>5, <1>10 DEF Vanish, TypeOK
<1>9. CASE Propose \/ Computed
  BY <1>1, <1>9 DEF Propose, Computed, TypeOK, Statuses
<1> QED BY <1>2, <1>3, <1>4, <1>6, <1>7, <1>8, <1>9, <1>10 DEF WorldNext

LEMMA WalkType ==
  ASSUME TypeOK, WalkNext
  PROVE  TypeOK'
<1> USE DEF WalkStep, world
<1>1. ASSUME UNCHANGED <<world, rollup, maxDepth>>, errors' \in 0..MaxErrors,
             due' \subseteq [stack : Stacks, delete : BOOLEAN],
             changeSet' \in [status : Statuses, proposal : SUBSET Own(Slots, Root)],
             torn' \in BOOLEAN, saved' \in [Stacks -> Snapshots],
             walk' \in [kind : {"none", "confirmed", "estimate"}, stack : Stacks,
                        status : {"collecting", "done"}],
             frames' \in Seq(Frames), Walking' <=> frames' # <<>>,
             \A i \in DOMAIN frames' : frames'[i].todo \subseteq Own(Nested, frames'[i].stack),
             collected' \subseteq Slots, gaps' \subseteq Nested
      PROVE  TypeOK'
  BY <1>1 DEF TypeOK
<1>2. ASSUME NEW kind \in {"confirmed", "estimate"}, NEW s \in Stacks, Collect(kind, s)
      PROVE  /\ walk' \in [kind : {"none", "confirmed", "estimate"}, stack : Stacks,
                           status : {"collecting", "done"}]
             /\ frames' \in Seq(Frames) /\ (Walking' <=> frames' # <<>>)
             /\ \A i \in DOMAIN frames' : frames'[i].todo \subseteq Own(Nested, frames'[i].stack)
             /\ collected' \subseteq Slots /\ gaps' \subseteq Nested /\ torn' \in BOOLEAN
  <2>1. /\ frames' \in Seq(Frames) /\ Len(frames') = 1 /\ DOMAIN frames' = {1}
        /\ frames'[1].todo = {}
    BY <1>2, CollectFrames
  <2> QED BY <1>2, <2>1 DEF Collect, Walking
<1>3. NoSnapshot \in Snapshots
  BY DEF NoSnapshot, Snapshots
<1>4. ASSUME NEW e \in due, TakeEvent(e) PROVE TypeOK'
  <2>1. e.stack \in Stacks
    BY DEF TypeOK
  <2>2. due' \subseteq due /\ UNCHANGED <<changeSet, errors, world, rollup, maxDepth>>
    BY <1>4 DEF TakeEvent
  <2>3. CASE Collect("confirmed", e.stack) /\ UNCHANGED saved
    <3> HIDE DEF WalkStep, world
    <3> QED BY <1>1, <1>2, <2>1, <2>2, <2>3 DEF TypeOK
  <2>4. CASE UNCHANGED <<walk, frames, collected, gaps, torn>>
             /\ (saved' = saved \/ saved' = [saved EXCEPT ![e.stack] = NoSnapshot])
    BY <1>3, <2>1, <2>2, <2>4 DEF TypeOK, Walking
  <2> QED BY <1>4, <2>3, <2>4 DEF TakeEvent
<1>5. CASE TakeChangeSet
  <2>1. Root \in Stacks
    BY DEF Stacks
  <2>2. changeSet' \in [status : Statuses, proposal : SUBSET Own(Slots, Root)]
    BY <1>5 DEF TakeChangeSet, TypeOK, Statuses
  <2>3. Collect("estimate", Root) /\ UNCHANGED <<due, errors, saved, world, rollup, maxDepth>>
    BY <1>5 DEF TakeChangeSet
  <2> QED BY <1>1, <1>2, <2>1, <2>2, <2>3 DEF TypeOK
<1>6. ASSUME Walking, UNCHANGED <<world, rollup, maxDepth, due, changeSet, torn, errors, saved, walk>>,
             frames' \in Seq(Frames), frames' # <<>>,
             \A i \in DOMAIN frames' : frames'[i].todo \subseteq Own(Nested, frames'[i].stack),
             collected' \subseteq Slots, gaps' \subseteq Nested
      PROVE  TypeOK'
  BY <1>6 DEF TypeOK, Walking
<1>7. ASSUME Walking, NEW f, Retopped(f), f.todo \subseteq Own(Nested, f.stack)
      PROVE  /\ frames' \in Seq(Frames) /\ frames' # <<>>
             /\ \A i \in DOMAIN frames' : frames'[i].todo \subseteq Own(Nested, frames'[i].stack)
  BY <1>7, TopFrame DEF Retopped, TypeOK
<1>8. CASE ReadTemplate
  <2>1. PICK f \in Frames : Retopped(f) /\ f.stack = Top.stack /\ f.todo = Top.todo
    BY <1>8, ReadTemplateFrames
  <2>2. Walking /\ f.todo \subseteq Own(Nested, f.stack)
    BY <1>8, <2>1, TopFrame DEF ReadTemplate
  <2> QED BY <1>6, <1>7, <1>8, <2>1, <2>2 DEF ReadTemplate, TypeOK
<1>9. CASE ListResources
  <2>1. PICK f \in Frames :
          /\ Retopped(f) /\ f.stack = Top.stack
          /\ f.todo = IF rollup /\ ~TooDeep(Top.depth)
                      THEN Own(present \ absent, Top.stack) \cap Nested \cap Named ELSE {}
    BY <1>9, ListResourcesFrames
  <2>2. Walking /\ f.todo \subseteq Own(Nested, f.stack) /\ Top.template \subseteq Slots
    BY <1>9, <2>1, TopFrame DEF ListResources, Frames, Own
  <2>3. collected' \subseteq Slots
    BY <1>9, <2>2 DEF ListResources, TypeOK, Keeps
  <2>4. gaps' \subseteq Nested
    BY <1>9 DEF ListResources, TypeOK, GapsAt
  <2>5. UNCHANGED <<world, rollup, maxDepth, due, changeSet, torn, errors, saved, walk>>
    BY <1>9 DEF ListResources
  <2>6. /\ frames' \in Seq(Frames) /\ frames' # <<>>
        /\ \A i \in DOMAIN frames' : frames'[i].todo \subseteq Own(Nested, frames'[i].stack)
    BY <1>7, <2>1, <2>2
  <2> HIDE DEF WalkStep, world
  <2> QED BY <1>6, <2>2, <2>3, <2>4, <2>5, <2>6
<1>10. ASSUME NEW r \in Nested, Descend(r) PROVE TypeOK'
  <2>1. PICK f \in Frames :
          /\ f.stack = Top.stack /\ f.todo = Top.todo \ {r}
          /\ Retopped(f) \/ Entered(f, r)
    BY <1>10, DescendFrames
  <2>2. /\ Walking /\ f.todo \subseteq Own(Nested, f.stack)
        /\ Len(frames) \in Nat \ {0} /\ DOMAIN frames = 1..Len(frames)
    BY <1>10, <2>1, TopFrame DEF Descend
  <2>3. gaps' \subseteq Nested
    BY <1>10 DEF Descend, GapOfUnreadable, TypeOK
  <2>4. UNCHANGED <<world, rollup, maxDepth, due, changeSet, torn, errors, saved, walk, collected>>
    BY <1>10 DEF Descend
  <2>5. CASE Retopped(f)
    BY <1>6, <1>7, <2>2, <2>3, <2>4, <2>5 DEF TypeOK
  <2>6. CASE Entered(f, r)
    <3>1. \A i \in DOMAIN frames' : i \in DOMAIN frames \/ i = Len(frames) + 1
      BY <2>2, <2>6 DEF Entered
    <3>2. \A i \in DOMAIN frames' : frames'[i].todo \subseteq Own(Nested, frames'[i].stack)
      BY <2>2, <2>6, <3>1 DEF Entered, TypeOK
    <3>3. frames' \in Seq(Frames) /\ frames' # <<>>
      BY <2>2, <2>6 DEF Entered
    <3> QED BY <1>6, <2>2, <2>3, <2>4, <3>2, <3>3 DEF TypeOK
  <2> QED BY <2>1, <2>5, <2>6
<1>11. CASE Ascend
  <2>1. /\ frames' \in Seq(Frames) /\ Len(frames') > 0
        /\ \A i \in DOMAIN frames' : i \in DOMAIN frames /\ frames'[i] = frames[i]
    BY <1>11, AscendFrames
  <2> QED BY <1>6, <1>11, <2>1 DEF Ascend, TypeOK
<1>12. CASE Report
  <2>1. walk' = [walk EXCEPT !.status = "done"] /\ frames' = <<>> /\ ~Walking'
    BY <1>12 DEF Report, Walking, TypeOK
  <2>2. saved' \in [Stacks -> Snapshots]
    BY <1>12 DEF Report, TypeOK, Snapshots
  <2> QED BY <1>1, <1>12, <2>1, <2>2 DEF Report, TypeOK
<1>13. CASE ReadFails
  <2>1. walk' = NoWalk /\ frames' = <<>> /\ ~Walking' /\ Root \in Stacks
    BY <1>13 DEF ReadFails, Walking, NoWalk, Stacks
  <2>5. \A i \in DOMAIN frames' : frames'[i].todo \subseteq Own(Nested, frames'[i].stack)
    BY <2>1
  <2>6. walk' \in [kind : {"none", "confirmed", "estimate"}, stack : Stacks,
                   status : {"collecting", "done"}]
    BY <2>1 DEF NoWalk
  <2>2. due' \subseteq [stack : Stacks, delete : BOOLEAN]
    <3>1. [stack |-> walk.stack, delete |-> FALSE] \in [stack : Stacks, delete : BOOLEAN]
      BY DEF TypeOK
    <3> QED BY <1>13, <3>1 DEF ReadFails, TypeOK
  <2>3. errors' \in 0..MaxErrors
    BY <1>13, SlotsAssumption DEF ReadFails, TypeOK
  <2>4. changeSet' \in [status : Statuses, proposal : SUBSET Own(Slots, Root)]
    BY <1>13 DEF ReadFails, TypeOK, Statuses
  <2>7. UNCHANGED <<world, rollup, maxDepth, saved>> /\ collected' = {} /\ gaps' = {} /\ torn' = FALSE
    BY <1>13 DEF ReadFails
  <2>8. frames' \in Seq(Frames) /\ (Walking' <=> frames' # <<>>)
    BY <2>1
  <2>9. saved' \in [Stacks -> Snapshots]
    BY <2>7 DEF TypeOK
  <2> HIDE DEF WalkStep, world
  <2> QED BY <1>1, <2>2, <2>3, <2>4, <2>5, <2>6, <2>7, <2>8, <2>9
<1> QED BY <1>4, <1>5, <1>8, <1>9, <1>10, <1>11, <1>12, <1>13 DEF WalkNext

LEMMA NextType == TypeOK /\ [Next]_vars => TypeOK'
<1>1. TypeOK /\ UNCHANGED vars => TypeOK'
  BY DEF TypeOK, Walking, vars, world
<1> QED BY <1>1, WorldType, WalkType DEF Next

(* Every variable keeps its type: in particular calls wait only for nested *)
(* stacks of their own stack, and gaps are nested stacks.                  *)
THEOREM WalkTypeCorrect == Spec => []TypeOK
BY InitType, NextType, PTL DEF Spec

(***************************************************************************)
(* CloudFormation's side: what exists belongs to a stack that is there,    *)
(* and only stacks an operation has touched differ from their templates.   *)
(***************************************************************************)

(* A stack other than the root is there exactly while the slot it is in    *)
(* exists and has an ARN.                                                  *)
Rooted ==
  /\ Root \in live
  /\ \A r \in present : r[1] \in live
  /\ \A s \in live \ {Root} : \E q \in present \cap Nested : Child[q] = s

(* Nothing that exists, or is to be, lies in a deleted stack; what a roll  *)
(* back would restore does not either, as long as there can be one.        *)
NotGone ==
  /\ \A r \in (present \cup target) \cap Nested : Child[r] \notin gone
  /\ operating /\ ~Ready /\ target # before =>
       \A r \in before \cap Nested : Child[r] \notin gone

(* A stack that was not touched has what its template says, now and after  *)
(* a roll back, and lists no nested stack as one that does not exist.      *)
Untouched ==
  /\ operating => Root \in touched
  /\ operating /\ target # before =>
       \A s \in Stacks \ touched : Own(before, s) = Own(wanted, s)
  /\ \A s \in Stacks \ touched : Own(present, s) \subseteq wanted
  /\ \A r \in present \cap absent : r[1] \in touched

Settled == ~operating => present = target /\ touched = {} /\ Ready

World == Rooted /\ NotGone /\ Untouched /\ Settled /\ target \subseteq wanted

(* A stack that is there is not deleted, and one that is not is empty.     *)
LEMMA LiveOrGone ==
  ASSUME TypeOK, World
  PROVE  /\ live \cap gone = {}
         /\ \A s \in Stacks : s \notin live => Own(present, s) = {}
         /\ \A r \in Nested : r \notin present => Own(present, Child[r]) = {}
<1>1. live \cap gone = {}
  BY SlotsAssumption DEF TypeOK, World, Rooted, NotGone
<1>2. \A s \in Stacks : s \notin live => Own(present, s) = {}
  BY DEF World, Rooted, Own
<1>3. ASSUME NEW r \in Nested, r \notin present PROVE Own(present, Child[r]) = {}
  <2> SUFFICES ASSUME NEW x \in present, x[1] = Child[r] PROVE FALSE
    BY DEF Own
  <2>1. Child[r] \in live \ {Root}
    BY SlotsAssumption DEF World, Rooted
  <2>2. PICK q \in present \cap Nested : Child[q] = Child[r]
    BY <2>1 DEF World, Rooted
  <2> QED BY <1>3, <2>2, SlotsAssumption
<1> QED BY <1>1, <1>2, <1>3

LEMMA InitWorld == Init => World
<1> SUFFICES ASSUME Init PROVE World
  OBVIOUS
<1>1. /\ present = wanted /\ target = wanted /\ gone = {} /\ ~operating /\ touched = {} /\ absent = {}
      /\ live = {Root} \cup {Child[r] : r \in wanted \cap Nested} /\ WellFormed(wanted)
  BY DEF Init, Templates
<1>2. Rooted
  BY <1>1 DEF Rooted, WellFormed
<1>3. Ready
  BY <1>1 DEF Ready
<1> QED BY <1>1, <1>2, <1>3 DEF World, NotGone, Untouched, Settled, Own

LEMMA BeginWorld == TypeOK /\ World /\ Begin => World'
<1> SUFFICES ASSUME TypeOK, World, Begin PROVE World'
  OBVIOUS
<1>1. PICK w \in Templates \ {{}} :
        /\ \A r \in w \cap Nested : Child[r] \notin gone
        /\ wanted' = w /\ target' = w
        /\ touched' = {Root} \cup {s \in Stacks : Own(w, s) # Own(wanted, s)}
  BY DEF Begin
<1>2. /\ ~operating /\ operating' /\ before' = wanted /\ wanted = target
      /\ UNCHANGED <<present, absent, live, gone>>
  BY DEF Begin
<1>3. present = wanted /\ present \cap absent = {}
  BY <1>2 DEF World, Settled, Ready
<1>4. Rooted'
  BY <1>2 DEF World, Rooted
<1>5. NotGone'
  BY <1>1, <1>2, <1>3 DEF World, NotGone
<1>6. \A s \in Stacks \ touched' : Own(wanted, s) = Own(w, s)
  BY <1>1
<1>7. Untouched'
  BY <1>1, <1>2, <1>3, <1>6 DEF Untouched, Own
<1> QED BY <1>1, <1>2, <1>4, <1>5, <1>7 DEF World, Settled

LEMMA CreateWorld == \A r \in Slots : TypeOK /\ World /\ Create(r) => World'
<1> SUFFICES ASSUME NEW r \in Slots, TypeOK, World, Create(r) PROVE World'
  OBVIOUS
<1>1. /\ operating /\ r \in target /\ r[1] \in live
      /\ present' = present \cup {r} /\ touched' = touched \cup {r[1]}
      /\ absent' = absent \ {r}
      /\ UNCHANGED <<wanted, before, target, live, gone, operating>>
  BY DEF Create
<1>2. Rooted'
  BY <1>1 DEF World, Rooted
<1>3. Ready => Ready'
  BY <1>1 DEF Ready
<1>4. NotGone'
  BY <1>1, <1>3 DEF World, NotGone
<1>5. \A s \in Stacks \ touched' : s \notin touched /\ Own(present', s) = Own(present, s)
  BY <1>1 DEF Own
<1>6. Untouched'
  BY <1>1, <1>5 DEF World, Untouched
<1> QED BY <1>1, <1>2, <1>4, <1>6 DEF World, Settled

LEMMA NameWorld == \A r \in Slots : TypeOK /\ World /\ Name(r) => World'
<1> SUFFICES ASSUME NEW r \in Slots, TypeOK, World, Name(r) PROVE World'
  OBVIOUS
<1>1. /\ operating /\ r \in present \cap Nested
      /\ live' = live \cup {Child[r]} /\ touched' = touched \cup {Child[r]}
      /\ UNCHANGED <<wanted, before, target, present, absent, gone, operating>>
  BY DEF Name
<1>2. Rooted'
  BY <1>1 DEF World, Rooted
<1>3. Ready => Ready'
  BY <1>1 DEF Ready
<1>4. NotGone'
  BY <1>1, <1>3 DEF World, NotGone
<1>5. Untouched'
  BY <1>1 DEF World, Untouched
<1> QED BY <1>1, <1>2, <1>4, <1>5 DEF World, Settled

LEMMA VanishWorld == \A r \in Slots : TypeOK /\ World /\ Vanish(r) => World'
<1> SUFFICES ASSUME NEW r \in Slots, TypeOK, World, Vanish(r) PROVE World'
  OBVIOUS
<1>1. /\ operating /\ (Ready => r \notin target)
      /\ absent' = absent \cup {r} /\ touched' = touched \cup {r[1]}
      /\ UNCHANGED <<wanted, before, target, present, live, gone, operating>>
  BY DEF Vanish
<1>2. Rooted'
  BY <1>1 DEF World, Rooted
<1>3. Ready => Ready'
  BY <1>1 DEF Ready
<1>4. NotGone'
  BY <1>1, <1>3 DEF World, NotGone
<1>5. Untouched'
  BY <1>1 DEF World, Untouched
<1> QED BY <1>1, <1>2, <1>4, <1>5 DEF World, Settled

LEMMA DeleteWorld == \A r \in Slots : TypeOK /\ World /\ Delete(r) => World'
<1> SUFFICES ASSUME NEW r \in Slots, TypeOK, World, Delete(r) PROVE World'
  OBVIOUS
<1> DEFINE child == IF r \in Nested THEN {Child[r]} \cap live ELSE {}
<1>1. /\ operating /\ Ready /\ r \in present \ target
      /\ absent' \subseteq absent
      /\ r \in Nested => Own(present, Child[r]) = {}
      /\ present' = present \ {r} /\ live' = live \ child /\ gone' = gone \cup child
      /\ touched' = touched \cup {r[1]} \cup child
      /\ UNCHANGED <<wanted, before, target, operating>>
  BY DEF Delete
<1>2. \A q \in Nested : Child[q] \in child => q = r
  BY SlotsAssumption
<1>3. Root \notin child /\ \A q \in present : q[1] \notin child
  BY <1>1, SlotsAssumption DEF Own
<1>4. r \in Nested => Child[r] \notin live'
  BY <1>1
<1> HIDE DEF child
<1>5. Rooted'
  <2>1. ASSUME NEW s \in live' \ {Root} PROVE \E q \in present' \cap Nested : Child[q] = s
    <3>1. PICK q \in present \cap Nested : Child[q] = s
      BY <1>1 DEF World, Rooted
    <3> QED BY <1>1, <1>4, <3>1
  <2> QED BY <1>1, <1>3, <2>1 DEF World, Rooted
<1>6. Ready'
  BY <1>1, <1>2 DEF Ready
<1>7. NotGone'
  BY <1>1, <1>2, <1>6 DEF World, NotGone
<1>8. Untouched'
  BY <1>1 DEF World, Untouched, Own
<1> QED BY <1>1, <1>5, <1>7, <1>8 DEF World, Settled

LEMMA RollBackWorld == TypeOK /\ World /\ RollBack => World'
<1> SUFFICES ASSUME TypeOK, World, RollBack PROVE World'
  OBVIOUS
<1>1. /\ operating /\ ~Ready /\ target # before /\ target' = before
      /\ wanted' = IF before = {} THEN wanted ELSE before
      /\ UNCHANGED <<before, present, absent, live, gone, operating, touched>>
  BY DEF RollBack
<1>2. Rooted'
  BY <1>1 DEF World, Rooted
<1>3. NotGone'
  BY <1>1 DEF World, NotGone
<1>4. ASSUME NEW s \in Stacks \ touched PROVE Own(present, s) \subseteq wanted'
  <2>1. Own(present, s) \subseteq Own(wanted, s) /\ Own(wanted, s) = Own(before, s)
    BY <1>1 DEF World, Untouched, Own
  <2> QED BY <1>1, <2>1 DEF Own
<1>5. Untouched'
  BY <1>1, <1>4 DEF World, Untouched
<1> QED BY <1>1, <1>2, <1>3, <1>5 DEF World, Settled

LEMMA FinishWorld == TypeOK /\ World /\ Finish => World'
<1> SUFFICES ASSUME TypeOK, World, Finish PROVE World'
  OBVIOUS
<1>1. /\ Ready /\ present = target /\ ~operating' /\ touched' = {}
      /\ UNCHANGED <<wanted, target, present, absent, live, gone>>
  BY DEF Finish
<1> QED BY <1>1 DEF World, Rooted, NotGone, Untouched, Settled, Ready, Own

LEMMA NextWorld == TypeOK /\ World /\ [Next]_vars => World'
<1>1. World /\ UNCHANGED world => World'
  BY DEF World, Rooted, NotGone, Untouched, Settled, Ready, world
<1>2. WalkNext \/ Propose \/ Computed \/ UNCHANGED vars => UNCHANGED world
  BY DEF WalkNext, TakeEvent, TakeChangeSet, ReadTemplate, ListResources, Descend, Ascend,
         Report, ReadFails, WalkStep, Propose, Computed, vars
<1> QED BY <1>1, <1>2, BeginWorld, CreateWorld, NameWorld, VanishWorld, DeleteWorld, RollBackWorld,
           FinishWorld DEF Next, WorldNext

(***************************************************************************)
(* The walk's side: the calls in progress.                                 *)
(***************************************************************************)

(* The first call is for the stack of the walk, others for nested stacks,  *)
(* and each has only what is its own stack's.                              *)
Placed(f, i, s) ==
  /\ f.depth = i - 1
  /\ IF i = 1 THEN f.stack = s ELSE f.stack \in Children
  /\ f.template \subseteq Own(Slots, f.stack)

Shape ==
  /\ \A i \in DOMAIN frames : Placed(frames[i], i, walk.stack)
  /\ walk.kind = "none" => ~Walking
  /\ Estimating => changeSet.status = "taken"
  /\ rollup \/ Estimating => walk.stack = Root
  /\ ~rollup => /\ gaps = {} /\ Len(frames) <= 1
                /\ \A i \in DOMAIN frames : frames[i].todo = {}

LEMMA InitShape == Init => Shape
<1>1. Init => frames = <<>> /\ ~Walking /\ ~Estimating /\ walk.stack = Root /\ gaps = {}
  BY DEF Init, Walking, NoWalk, Estimating
<1> QED BY <1>1 DEF Shape

(* A new walk. *)
LEMMA CollectShape ==
  ASSUME NEW kind, NEW s \in Stacks, Collect(kind, s), UNCHANGED rollup, kind # "none",
         rollup \/ kind = "estimate" => s = Root,
         kind = "estimate" => changeSet'.status = "taken"
  PROVE  Shape'
<1>1. /\ walk' = [kind |-> kind, stack |-> s, status |-> "collecting"] /\ gaps' = {}
  BY DEF Collect
<1>2. /\ Len(frames') = 1 /\ DOMAIN frames' = {1} /\ frames'[1].todo = {}
      /\ frames'[1].depth = 0 /\ frames'[1].stack = s /\ frames'[1].template = {}
  BY CollectFrames
<1>3. \A i \in DOMAIN frames' : Placed(frames'[i], i, walk'.stack)
  BY <1>1, <1>2 DEF Placed
<1> QED BY <1>1, <1>2, <1>3 DEF Shape, Estimating

(* A step of the walk that replaces the innermost call. *)
LEMMA RetoppedShape ==
  ASSUME TypeOK, Shape, Walking, NEW f, Retopped(f), f.stack = Top.stack, f.depth = Top.depth,
         f.template \subseteq Own(Slots, f.stack), UNCHANGED <<walk, changeSet, rollup>>,
         ~rollup => gaps' = gaps /\ f.todo = {}
  PROVE  Shape'
<1>1. /\ Len(frames) \in DOMAIN frames /\ Top = frames[Len(frames)]
      /\ DOMAIN frames' = DOMAIN frames /\ Len(frames') = Len(frames)
      /\ \A i \in DOMAIN frames : frames'[i] = IF i = Len(frames) THEN f ELSE frames[i]
  BY TopFrame DEF Retopped, Top
<1>2. Placed(f, Len(frames), walk.stack)
  BY <1>1 DEF Shape, Placed
<1>3. \A i \in DOMAIN frames' : Placed(frames'[i], i, walk'.stack)
  BY <1>1, <1>2 DEF Shape
<1> QED BY <1>1, <1>3 DEF Shape, Walking, Estimating

LEMMA DescendShape == \A r \in Nested : TypeOK /\ Shape /\ Descend(r) => Shape'
<1> SUFFICES ASSUME NEW r \in Nested, TypeOK, Shape, Descend(r) PROVE Shape'
  OBVIOUS
<1> DEFINE n == Len(frames)
<1>1. PICK f \in Frames :
        /\ f.stack = Top.stack /\ f.depth = Top.depth /\ f.phase = Top.phase
        /\ f.template = Top.template /\ f.todo = Top.todo \ {r}
        /\ \/ Retopped(f) /\ gaps' = gaps \cup {r}
           \/ Entered(f, r) /\ gaps' = gaps
  BY DescendFrames
<1>2. /\ Walking /\ r \in Top.todo /\ UNCHANGED <<walk, changeSet, rollup>>
      /\ n \in Nat \ {0} /\ DOMAIN frames = 1..n /\ n \in DOMAIN frames /\ Top = frames[n]
      /\ Child[r] \in Children
  BY TopFrame, DescendFrames DEF Descend, WalkStep, Top
<1>3. rollup /\ Placed(Top, n, walk.stack)
  BY <1>2 DEF Shape
<1>4. f.template \subseteq Own(Slots, f.stack) /\ Placed(f, n, walk.stack)
  BY <1>1, <1>3 DEF Placed
<1>5. CASE Retopped(f)
  BY <1>1, <1>2, <1>3, <1>4, <1>5, RetoppedShape
<1>6. CASE Entered(f, r)
  <2>1. \A i \in DOMAIN frames' : i \in DOMAIN frames \/ i = n + 1
    BY <1>2, <1>6 DEF Entered
  <2>2. Top.depth = n - 1
    BY <1>3 DEF Placed
  <2>3. Placed(frames'[n + 1], n + 1, walk.stack)
    BY <1>2, <1>6, <2>2 DEF Entered, Placed
  <2>4. \A i \in DOMAIN frames : Placed(frames'[i], i, walk.stack)
    BY <1>4, <1>6 DEF Entered, Shape
  <2>5. \A i \in DOMAIN frames' : Placed(frames'[i], i, walk'.stack)
    BY <1>2, <2>1, <2>3, <2>4
  <2> QED BY <1>2, <1>3, <2>5 DEF Shape, Walking, Estimating
<1> QED BY <1>1, <1>5, <1>6

LEMMA WorldStepsShape == TypeOK /\ Shape /\ WorldNext => Shape'
<1>1. WorldNext => UNCHANGED <<rollup, walk, frames, gaps>>
  BY DEF WorldNext, Begin, RollBack, Finish, Create, Name, Vanish, Delete, Propose, Computed, WorldStep
<1>2. WorldNext => UNCHANGED changeSet \/ changeSet.status \in {"none", "CREATE_PENDING"}
  BY DEF WorldNext, Begin, RollBack, Finish, Create, Name, Vanish, Delete, Propose, Computed, WorldStep
<1> QED BY <1>1, <1>2 DEF Shape, Estimating, Walking

LEMMA WalkStepsShape == TypeOK /\ Shape /\ WalkNext => Shape'
<1> SUFFICES ASSUME TypeOK, Shape, WalkNext PROVE Shape'
  OBVIOUS
<1>1. ASSUME NEW e \in due, TakeEvent(e) PROVE Shape'
  <2>1. e.stack \in Stacks /\ UNCHANGED <<rollup, changeSet>>
    BY <1>1 DEF TypeOK, TakeEvent, WalkStep
  <2>2. CASE UNCHANGED <<walk, frames, gaps>>
    BY <2>1, <2>2 DEF Shape, Walking, Estimating
  <2>3. CASE (~rollup \/ e.stack = Root) /\ Collect("confirmed", e.stack)
    BY <2>1, <2>3, CollectShape
  <2> QED BY <1>1, <2>2, <2>3 DEF TakeEvent
<1>2. CASE TakeChangeSet
  <2>1. Root \in Stacks /\ Collect("estimate", Root) /\ UNCHANGED rollup
    BY <1>2 DEF TakeChangeSet, WalkStep, Stacks
  <2>2. changeSet'.status = "taken"
    BY <1>2 DEF TakeChangeSet, TypeOK
  <2> QED BY <2>1, <2>2, CollectShape
<1>3. Walking => Placed(Top, Len(frames), walk.stack) /\ (~rollup => Top.todo = {})
  BY TopFrame DEF Shape, Top
<1>4. CASE ReadTemplate
  <2>1. PICK f \in Frames :
          /\ Retopped(f)
          /\ f.stack = Top.stack /\ f.depth = Top.depth /\ f.phase = "list" /\ f.todo = Top.todo
          /\ f.template = IF Estimating /\ Top.depth = 0 THEN changeSet.proposal
                                                        ELSE Own(wanted, Top.stack)
    BY <1>4, ReadTemplateFrames
  <2>2. Walking /\ UNCHANGED <<walk, changeSet, rollup, gaps>>
    BY <1>4 DEF ReadTemplate, WalkStep
  <2>3. Own(wanted, Top.stack) \subseteq Own(Slots, Top.stack)
    BY DEF TypeOK, Own
  <2>4. Estimating /\ Top.depth = 0 => Top.stack = Root
    BY <1>3, <2>2, TopFrame DEF Shape, Placed
  <2>5. changeSet.proposal \subseteq Own(Slots, Root)
    BY DEF TypeOK
  <2>6. f.template \subseteq Own(Slots, f.stack)
    BY <2>1, <2>3, <2>4, <2>5
  <2> QED BY <1>3, <2>1, <2>2, <2>6, RetoppedShape
<1>5. CASE ListResources
  <2>1. PICK f \in Frames :
          /\ Retopped(f) /\ f.stack = Top.stack /\ f.depth = Top.depth
          /\ f.template = Top.template /\ (~rollup => f.todo = {})
    BY <1>5, ListResourcesFrames
  <2>2. Walking /\ UNCHANGED <<walk, changeSet, rollup>> /\ (~rollup => gaps' = gaps)
    BY <1>5 DEF ListResources, WalkStep
  <2> QED BY <1>3, <2>1, <2>2, RetoppedShape DEF Placed
<1>6. ASSUME NEW r \in Nested, Descend(r) PROVE Shape'
  BY <1>6, DescendShape
<1>7. CASE Ascend
  <2>1. /\ Len(frames') = Len(frames) - 1 /\ Len(frames) \in Nat
        /\ \A i \in DOMAIN frames' : i \in DOMAIN frames /\ frames'[i] = frames[i]
    BY <1>7, AscendFrames, TopFrame DEF Ascend
  <2>2. UNCHANGED <<walk, changeSet, rollup, gaps>>
    BY <1>7 DEF Ascend, WalkStep
  <2>3. \A i \in DOMAIN frames' : Placed(frames'[i], i, walk'.stack)
    BY <2>1, <2>2 DEF Shape
  <2> QED BY <2>1, <2>2, <2>3 DEF Shape, Walking, Estimating
<1>8. CASE Report
  <2>1. /\ frames' = <<>> /\ ~Walking' /\ walk'.kind = walk.kind /\ walk'.stack = walk.stack
        /\ UNCHANGED <<changeSet, rollup, gaps>>
    BY <1>8 DEF Report, WalkStep, Walking, TypeOK
  <2> QED BY <2>1 DEF Shape, Estimating
<1>9. CASE ReadFails
  <2>1. frames' = <<>> /\ ~Walking' /\ ~Estimating' /\ walk'.stack = Root /\ gaps' = {}
    BY <1>9 DEF ReadFails, Walking, Estimating, NoWalk
  <2> QED BY <2>1 DEF Shape
<1> QED BY <1>1, <1>2, <1>4, <1>5, <1>6, <1>7, <1>8, <1>9 DEF WalkNext

LEMMA NextShape == TypeOK /\ Shape /\ [Next]_vars => Shape'
<1>1. Shape /\ UNCHANGED vars => Shape'
  BY DEF Shape, Walking, Estimating, vars
<1> QED BY <1>1, WorldStepsShape, WalkStepsShape DEF Next

(***************************************************************************)
(* What a walk has collected, as long as the world stood still.            *)
(***************************************************************************)

Quiet == walk.kind # "none" /\ ~torn /\ ~operating

(* Where the contents of a stack are, or where they will come from. *)
Seen(s) == Own(present, s) \subseteq collected
Ahead(s) == \E i \in DOMAIN frames : frames[i].stack = s /\ frames[i].phase # "children"
Waiting(r) == \E i \in DOMAIN frames : r \in frames[i].todo

(* A template that was read has what the list will confirm. *)
TemplatesRead ==
  \A i \in DOMAIN frames : frames[i].phase = "list" =>
    IF Estimating /\ i = 1 THEN frames[i].template = changeSet.proposal
                           ELSE Own(present, frames[i].stack) \subseteq frames[i].template

(* The first stack of the walk has been listed, or is about to be. *)
ProposalListed ==
  /\ changeSet.proposal \subseteq collected
  /\ rollup => \A r \in changeSet.proposal \cap Nested : r \in gaps \/ Child[r] \in live \/ r \in absent

FirstListed ==
  \/ Ahead(walk.stack)
  \/ ~Estimating /\ Seen(walk.stack)
  \/ Estimating /\ ProposalListed

(* A nested stack that was come upon is a gap, or waits, or is entered, or *)
(* has been listed.                                                        *)
Accounted(r) == r \in gaps \/ Waiting(r) \/ Ahead(Child[r]) \/ Seen(Child[r])
NoneForgotten == rollup => \A r \in collected \cap present \cap Nested : Accounted(r)

(* A confirmed walk collects what exists, without roll-up of one stack. *)
Holds == IF rollup THEN present ELSE Own(present, walk.stack)
OnlyExisting == ~Estimating => collected \subseteq Holds

WalkInv == Quiet => TemplatesRead /\ FirstListed /\ NoneForgotten /\ OnlyExisting

LEMMA InitWalk == Init => WalkInv
BY DEF Init, WalkInv, Quiet, NoWalk

(* What happens elsewhere tears the walk or does not concern it. *)
LEMMA WorldStepsWalk == TypeOK /\ Shape /\ WalkInv /\ WorldNext => WalkInv'
<1> SUFFICES ASSUME TypeOK, Shape, WalkInv, WorldNext PROVE WalkInv'
  OBVIOUS
<1>1. CASE WorldStep
  BY <1>1 DEF WorldStep, WalkInv, Quiet
<1>2. CASE Propose \/ Computed
  <2>1. /\ UNCHANGED <<world, rollup, walk, frames, collected, gaps, torn>>
        /\ changeSet'.proposal = changeSet.proposal \/ changeSet.status = "none"
    BY <1>2 DEF Propose, Computed, TypeOK
  <2>2. Estimating => changeSet'.proposal = changeSet.proposal
    BY <2>1 DEF Shape
  <2> QED BY <2>1, <2>2 DEF WalkInv, Quiet, TemplatesRead, FirstListed, ProposalListed,
             NoneForgotten, Accounted, OnlyExisting, Holds, Seen, Ahead, Waiting, Estimating, world
<1> QED BY <1>1, <1>2 DEF WorldNext, Begin, RollBack, Finish, Create, Name, Vanish, Delete

(* A new walk has its first stack ahead and nothing behind. *)
LEMMA CollectWalk ==
  ASSUME NEW kind, NEW s \in Stacks, Collect(kind, s)
  PROVE  WalkInv'
<1>1. walk'.stack = s /\ collected' = {}
  BY DEF Collect
<1>2. DOMAIN frames' = {1} /\ frames'[1].stack = s /\ frames'[1].phase = "template"
  BY CollectFrames
<1>3. Ahead(walk.stack)'
  BY <1>1, <1>2 DEF Ahead
<1>4. TemplatesRead'
  BY <1>2 DEF TemplatesRead
<1> QED BY <1>1, <1>3, <1>4 DEF WalkInv, FirstListed, NoneForgotten, OnlyExisting

(* A template is read. *)
LEMMA ReadTemplateWalk == TypeOK /\ World /\ Shape /\ WalkInv /\ ReadTemplate => WalkInv'
<1> SUFFICES ASSUME TypeOK, World, Shape, WalkInv, ReadTemplate, Quiet PROVE WalkInv'
  BY DEF ReadTemplate, WalkStep, world, WalkInv, Quiet
<1>1. PICK f \in Frames :
        /\ Retopped(f)
        /\ f.stack = Top.stack /\ f.depth = Top.depth /\ f.phase = "list" /\ f.todo = Top.todo
        /\ f.template = IF Estimating /\ Top.depth = 0 THEN changeSet.proposal
                                                      ELSE Own(wanted, Top.stack)
  BY ReadTemplateFrames
<1>2. /\ Walking /\ Top.phase = "template"
      /\ UNCHANGED <<wanted, present, absent, live, rollup, changeSet, walk, collected, gaps>>
  BY DEF ReadTemplate, WalkStep, world
<1>3. /\ Len(frames) \in DOMAIN frames /\ Top = frames[Len(frames)] /\ DOMAIN frames' = DOMAIN frames
      /\ \A i \in DOMAIN frames : frames'[i] = IF i = Len(frames) THEN f ELSE frames[i]
      /\ Len(frames) \in Nat
  BY <1>1, <1>2, TopFrame DEF Retopped, Top
<1>4. Own(present, Top.stack) \subseteq Own(wanted, Top.stack)
  BY DEF Quiet, World, Settled, Own
<1>5. Top.depth = 0 <=> Len(frames) = 1
  <2>1. Placed(Top, Len(frames), walk.stack)
    BY <1>3 DEF Shape
  <2>2. Top.depth = Len(frames) - 1
    BY <2>1 DEF Placed
  <2> QED BY <1>3, <2>2
<1>6. TemplatesRead /\ FirstListed /\ NoneForgotten /\ OnlyExisting
  BY DEF WalkInv
<1>7. ASSUME NEW i \in DOMAIN frames', frames'[i].phase = "list"
      PROVE  IF Estimating /\ i = 1 THEN frames'[i].template = changeSet.proposal
             ELSE Own(present, frames'[i].stack) \subseteq frames'[i].template
  <2>1. CASE i = Len(frames)
    BY <1>1, <1>3, <1>4, <1>5, <2>1
  <2>2. CASE i # Len(frames)
    BY <1>3, <1>6, <1>7, <2>2 DEF TemplatesRead
  <2> QED BY <2>1, <2>2
<1>8. TemplatesRead'
  BY <1>2, <1>7 DEF TemplatesRead, Estimating
<1>9. \A s : Ahead(s) => Ahead(s)'
  BY <1>1, <1>3 DEF Ahead
<1>10. \A r : Waiting(r) => Waiting(r)'
  BY <1>1, <1>3 DEF Waiting
<1>11. \A s : Seen(s) => Seen(s)'
  BY <1>2 DEF Seen
<1>12. FirstListed'
  BY <1>2, <1>6, <1>9, <1>11 DEF FirstListed, ProposalListed, Estimating
<1>13. NoneForgotten'
  BY <1>2, <1>6, <1>9, <1>10, <1>11 DEF NoneForgotten, Accounted
<1>14. OnlyExisting'
  BY <1>2, <1>6 DEF OnlyExisting, Holds, Estimating
<1> QED BY <1>8, <1>12, <1>13, <1>14 DEF WalkInv

(* A resource list is read: what the stack holds is collected, and its     *)
(* nested stacks wait or are gaps.                                         *)
LEMMA ListResourcesWalk == TypeOK /\ World /\ Shape /\ WalkInv /\ ListResources => WalkInv'
<1> SUFFICES ASSUME TypeOK, World, Shape, WalkInv, ListResources, Quiet PROVE WalkInv'
  BY DEF ListResources, WalkStep, world, WalkInv, Quiet
<1> PICK st \in Stacks : st = Top.stack
  BY TopFrame DEF ListResources, Frames
<1> DEFINE n == Len(frames)
           kept == Keeps(Top.template, Own(present, st))
           nested == Own(present, st) \cap Nested
           found == GapsAt(Top.template, Own(present \cup absent, st), nested, Top.depth)
           first == Estimating /\ n = 1
<1>0. present \ absent = present /\ \A r \in present \cap Nested : Child[r] \in live
  BY DEF Quiet, World, Settled, Ready
<1>1. PICK f \in Frames :
        /\ Retopped(f) /\ f.stack = st /\ f.phase = "children"
        /\ f.todo = IF rollup /\ ~TooDeep(Top.depth)
                    THEN nested \cap Named ELSE {}
  BY <1>0, ListResourcesFrames
<1>2. /\ Walking /\ Top.phase = "list" /\ UNCHANGED <<present, absent, live, rollup, changeSet, walk>>
      /\ collected' = collected \cup kept
      /\ gaps' = IF rollup THEN gaps \cup found ELSE gaps
  BY <1>0 DEF ListResources, WalkStep, world
<1>3. /\ n \in DOMAIN frames /\ Top = frames[n] /\ DOMAIN frames' = DOMAIN frames
      /\ \A i \in DOMAIN frames : frames'[i] = IF i = n THEN f ELSE frames[i]
      /\ n \in Nat \ {0} /\ DOMAIN frames = 1..n /\ st \in Stacks
  BY <1>1, <1>2, TopFrame DEF Retopped, Top, Frames
<1>4. TemplatesRead /\ FirstListed /\ NoneForgotten /\ OnlyExisting
  BY DEF WalkInv
<1>5. /\ Top.template \subseteq Own(Slots, st)
      /\ IF n = 1 THEN st = walk.stack ELSE st \in Children /\ rollup
  BY <1>3 DEF Shape, Placed
<1>6. IF first THEN Top.template = changeSet.proposal /\ kept = Top.template
               ELSE Own(present, st) \subseteq kept
  BY <1>2, <1>3, <1>4 DEF TemplatesRead, Keeps
<1>7. kept \subseteq Own(Slots, st) /\ (~Estimating => kept \subseteq Own(present, st))
  BY <1>5 DEF Keeps
<1>9. ASSUME rollup, NEW r \in Own(present, st) \cap Nested PROVE r \in gaps' \/ r \in f.todo
  <2>1. r \in Named
    BY <1>0 DEF Own, Named
  <2>2. TooDeep(Top.depth) => r \in found
    BY DEF GapsAt
  <2>3. ~TooDeep(Top.depth) => r \in f.todo
    BY <1>1, <1>9, <2>1
  <2> QED BY <1>2, <1>9, <2>2, <2>3
<1>10. first /\ rollup => \A r \in changeSet.proposal \cap Nested : r \in gaps' \/ Child[r] \in live \/ r \in absent
  <2> SUFFICES ASSUME first, rollup, NEW r \in changeSet.proposal \cap Nested, r \notin gaps',
                      r \notin absent
               PROVE  Child[r] \in live
    OBVIOUS
  <2>1. r \notin found /\ r \in Top.template
    BY <1>2, <1>6
  <2>2. r \in Own(present \cup absent, st)
    BY <2>1 DEF GapsAt
  <2> QED BY <1>0, <2>2 DEF Own
<1>11. gaps \subseteq gaps' /\ (\A r \in Nested : Child[r] \in Children) /\ Root \notin Children
  BY <1>2, SlotsAssumption
<1> HIDE DEF n, kept, found
<1>12. \A s : Seen(s) => Seen(s)'
  BY <1>2 DEF Seen
<1>13. ~first => Seen(st)'
  BY <1>2, <1>6 DEF Seen
<1>14. \A s : Ahead(s) => Ahead(s)' \/ s = st
  BY <1>1, <1>3 DEF Ahead
<1>15. \A r \in f.todo : Waiting(r)'
  BY <1>3 DEF Waiting
<1>16. \A r : Waiting(r) => Waiting(r)' \/ r \in Top.todo
  BY <1>3 DEF Waiting
<1>17. Top.todo \subseteq Own(Nested, st)
  BY <1>2, TopFrame
<1>18. TemplatesRead'
  BY <1>1, <1>2, <1>3, <1>4 DEF TemplatesRead, Estimating
<1>19. FirstListed'
  <2>1. CASE Ahead(walk.stack) /\ ~Ahead(walk.stack)'
    <3>1. st = walk.stack
      BY <1>2, <1>14, <2>1 DEF Ahead
    <3>2. n = 1
      BY <1>5, <1>11, <3>1 DEF Shape
    <3>3. CASE Estimating
      BY <1>2, <1>6, <1>10, <3>2, <3>3 DEF FirstListed, ProposalListed, Estimating
    <3>4. CASE ~Estimating
      BY <1>2, <1>13, <3>1, <3>4 DEF FirstListed, Estimating
    <3> QED BY <3>3, <3>4
  <2>2. CASE ~Ahead(walk.stack)
    BY <1>2, <1>4, <1>11, <1>12, <2>2 DEF FirstListed, ProposalListed, Estimating
  <2>3. CASE Ahead(walk.stack)'
    BY <1>2, <2>3 DEF FirstListed, Ahead
  <2> QED BY <2>1, <2>2, <2>3
<1>20. NoneForgotten'
  <2> SUFFICES ASSUME rollup, NEW r \in collected' \cap present \cap Nested PROVE Accounted(r)'
    BY <1>2 DEF NoneForgotten
  <2>1. r[1] = st => Accounted(r)'
    <3>1. r[1] = st => r \in Own(present, st) \cap Nested
      BY DEF Own
    <3> QED BY <1>9, <1>15, <3>1 DEF Accounted
  <2>2. CASE r \in kept
    BY <1>7, <2>1, <2>2 DEF Own
  <2>3. CASE r \in collected
    <3>1. Accounted(r)
      BY <1>4, <2>3 DEF NoneForgotten
    <3>2. Waiting(r) => Accounted(r)'
      BY <1>16, <1>17, <2>1 DEF Accounted, Own
    <3>3. ASSUME Ahead(Child[r]) PROVE Accounted(r)'
      <4>1. CASE Child[r] = st
        <5>1. ~first
          BY <1>5, <1>11, <4>1 DEF Shape
        <5> QED BY <1>13, <4>1, <5>1 DEF Accounted
      <4> QED BY <1>14, <3>3, <4>1 DEF Accounted
    <3> QED BY <1>11, <1>12, <3>1, <3>2, <3>3 DEF Accounted
  <2> QED BY <1>2, <2>2, <2>3
<1>21. OnlyExisting'
  <2>1. ~rollup => st = walk.stack
    BY <1>5
  <2>2. ~Estimating => kept \subseteq Holds
    BY <1>7, <2>1 DEF Holds, Own
  <2> QED BY <1>2, <1>4, <2>2 DEF OnlyExisting, Holds, Estimating
<1> QED BY <1>18, <1>19, <1>20, <1>21 DEF WalkInv

(* A nested stack no longer waits: it is entered, or a gap. *)
LEMMA DescendWalk == \A r \in Nested : TypeOK /\ Shape /\ WalkInv /\ Descend(r) => WalkInv'
<1> SUFFICES ASSUME NEW r \in Nested, TypeOK, Shape, WalkInv, Descend(r), Quiet PROVE WalkInv'
  BY DEF Descend, WalkStep, world, WalkInv, Quiet
<1>1. PICK f \in Frames :
        /\ f.stack = Top.stack /\ f.depth = Top.depth /\ f.phase = Top.phase
        /\ f.template = Top.template /\ f.todo = Top.todo \ {r}
        /\ \/ Retopped(f) /\ gaps' = gaps \cup {r}
           \/ Entered(f, r) /\ gaps' = gaps
  BY DescendFrames
<1>2. /\ Walking /\ Top.phase = "children"
      /\ UNCHANGED <<present, absent, live, rollup, changeSet, walk, collected>>
      /\ Len(frames) \in DOMAIN frames /\ Top = frames[Len(frames)]
      /\ DOMAIN frames = 1..Len(frames) /\ Len(frames) \in Nat
  BY TopFrame DEF Descend, WalkStep, world, Top
<1>3. /\ \A i \in DOMAIN frames : i \in DOMAIN frames' /\ frames'[i] = IF i = Len(frames) THEN f ELSE frames[i]
      /\ \A i \in DOMAIN frames' : i \notin DOMAIN frames => frames'[i].phase = "template"
      /\ r \in gaps' \/ Ahead(Child[r])'
      /\ gaps \subseteq gaps'
  <2>1. CASE Retopped(f) /\ gaps' = gaps \cup {r}
    BY <1>2, <2>1 DEF Retopped
  <2>2. CASE Entered(f, r) /\ gaps' = gaps
    BY <1>2, <2>2 DEF Entered, Ahead
  <2> QED BY <1>1, <2>1, <2>2
<1>4. TemplatesRead /\ FirstListed /\ NoneForgotten /\ OnlyExisting
  BY DEF WalkInv
<1>5. TemplatesRead'
  BY <1>1, <1>2, <1>3, <1>4 DEF TemplatesRead, Estimating
<1>6. \A s : Ahead(s) => Ahead(s)'
  BY <1>1, <1>2, <1>3 DEF Ahead
<1>7. \A q : Waiting(q) => Waiting(q)' \/ q = r
  BY <1>1, <1>2, <1>3 DEF Waiting
<1>8. \A s : Seen(s) => Seen(s)'
  BY <1>2 DEF Seen
<1>9. FirstListed'
  BY <1>2, <1>3, <1>4, <1>6, <1>8 DEF FirstListed, ProposalListed, Estimating
<1>10. NoneForgotten'
  BY <1>2, <1>3, <1>4, <1>6, <1>7, <1>8 DEF NoneForgotten, Accounted
<1>11. OnlyExisting'
  BY <1>2, <1>4 DEF OnlyExisting, Holds, Estimating
<1> QED BY <1>5, <1>9, <1>10, <1>11 DEF WalkInv

(* A call that is over leaves nothing behind. *)
LEMMA ReturnWalk ==
  ASSUME TypeOK, Shape, WalkInv, Walking, Top.phase = "children", Top.todo = {},
         UNCHANGED <<present, absent, live, operating, rollup, changeSet, collected, gaps, torn>>,
         walk'.kind = walk.kind, walk'.stack = walk.stack,
         \A i \in DOMAIN frames' : i \in DOMAIN frames /\ frames'[i] = frames[i],
         DOMAIN frames \ DOMAIN frames' = {Len(frames)}
  PROVE  WalkInv'
<1> SUFFICES ASSUME Quiet PROVE WalkInv'
  BY DEF WalkInv, Quiet
<1>1. TemplatesRead /\ FirstListed /\ NoneForgotten /\ OnlyExisting
  BY DEF WalkInv
<1>2. Top = frames[Len(frames)]
  BY DEF Top
<1>3. TemplatesRead'
  BY <1>1 DEF TemplatesRead, Estimating
<1>4. \A s : Ahead(s) => Ahead(s)'
  BY <1>2 DEF Ahead
<1>5. \A r : Waiting(r) => Waiting(r)'
  BY <1>2 DEF Waiting
<1>6. \A s : Seen(s) => Seen(s)'
  BY DEF Seen
<1>7. FirstListed'
  BY <1>1, <1>4, <1>6 DEF FirstListed, ProposalListed, Estimating
<1>8. NoneForgotten'
  BY <1>1, <1>4, <1>5, <1>6 DEF NoneForgotten, Accounted
<1>9. OnlyExisting'
  BY <1>1 DEF OnlyExisting, Holds, Estimating
<1> QED BY <1>3, <1>7, <1>8, <1>9 DEF WalkInv

LEMMA WalkStepsWalk == TypeOK /\ World /\ Shape /\ WalkInv /\ WalkNext => WalkInv'
<1> SUFFICES ASSUME TypeOK, World, Shape, WalkInv, WalkNext PROVE WalkInv'
  OBVIOUS
<1>1. ASSUME NEW e \in due, TakeEvent(e) PROVE WalkInv'
  <2>1. CASE Collect("confirmed", e.stack)
    BY <2>1, CollectWalk DEF TypeOK
  <2>2. CASE UNCHANGED <<walk, frames, collected, gaps, torn>>
    <3>1. UNCHANGED <<present, absent, live, operating, rollup, changeSet>>
      BY <1>1 DEF TakeEvent, WalkStep, world
    <3> QED BY <2>2, <3>1 DEF WalkInv, Quiet, TemplatesRead, FirstListed, ProposalListed,
               NoneForgotten, Accounted, OnlyExisting, Holds, Seen, Ahead, Waiting, Estimating
  <2> QED BY <1>1, <2>1, <2>2 DEF TakeEvent
<1>2. CASE TakeChangeSet
  BY <1>2, CollectWalk DEF TakeChangeSet, Stacks
<1>3. CASE Ascend
  <2>1. /\ \A i \in DOMAIN frames' : i \in DOMAIN frames /\ frames'[i] = frames[i]
        /\ DOMAIN frames' = 1..(Len(frames) - 1) /\ DOMAIN frames = 1..Len(frames)
        /\ Len(frames) \in Nat \ {0}
    BY <1>3, AscendFrames, TopFrame DEF Ascend
  <2>2. DOMAIN frames \ DOMAIN frames' = {Len(frames)}
    BY <2>1
  <2> QED BY <1>3, <2>1, <2>2, ReturnWalk DEF Ascend, WalkStep, world
<1>4. CASE Report
  <2>1. /\ DOMAIN frames = 1..Len(frames) /\ Len(frames) = 1 /\ DOMAIN frames' = {}
        /\ walk'.kind = walk.kind /\ walk'.stack = walk.stack
    BY <1>4, TopFrame DEF Report, TypeOK
  <2>2. DOMAIN frames \ DOMAIN frames' = {Len(frames)}
    BY <2>1
  <2> QED BY <1>4, <2>1, <2>2, ReturnWalk DEF Report, WalkStep, world
<1>5. CASE ReadFails
  BY <1>5 DEF ReadFails, NoWalk, WalkInv, Quiet
<1> QED BY <1>1, <1>2, <1>3, <1>4, <1>5, ReadTemplateWalk, ListResourcesWalk, DescendWalk
        DEF WalkNext

LEMMA NextWalk == TypeOK /\ World /\ Shape /\ WalkInv /\ [Next]_vars => WalkInv'
<1>1. WalkInv /\ UNCHANGED vars => WalkInv'
  BY DEF WalkInv, Quiet, TemplatesRead, FirstListed, ProposalListed, NoneForgotten, Accounted,
         OnlyExisting, Holds, Seen, Ahead, Waiting, Estimating, vars, world
<1> QED BY <1>1, WorldStepsWalk, WalkStepsWalk DEF Next

(***************************************************************************)
(* A quiet walk is exact.                                                  *)
(***************************************************************************)

(* What is under some nested stacks. *)
LEMMA UnderProperties ==
  ASSUME NEW nested \in SUBSET Nested
  PROVE  /\ \A r \in nested : Child[r] \in Under(nested)
         /\ Closed(Under(nested))
         /\ \A T \in SUBSET Stacks :
              Closed(T) /\ {Child[r] : r \in nested} \subseteq T => Under(nested) \subseteq T
<1>1. \A r \in Nested : Child[r] \in Stacks
  BY SlotsAssumption DEF Stacks
<1>2. \A r \in nested : Child[r] \in Under(nested)
  BY <1>1 DEF Under
<1>3. ASSUME NEW r \in Nested, r[1] \in Under(nested) PROVE Child[r] \in Under(nested)
  BY <1>1, <1>3 DEF Under, Closed
<1>4. Closed(Under(nested))
  BY <1>3 DEF Closed
<1> QED BY <1>2, <1>4 DEF Under

(* Nothing is in progress any more: no call has a read or a child left. *)
Exhausted == (\A s : ~Ahead(s)) /\ (\A r : ~Waiting(r))

LEMMA NoFrameExhausted ==
  ASSUME TypeOK, ~Walking
  PROVE  Exhausted
<1>1. frames = <<>>
  BY DEF TypeOK
<1> QED BY <1>1 DEF Exhausted, Ahead, Waiting

(* The nested stacks that exist were come upon from the root down, so each *)
(* was listed or lies under a gap: otherwise take one that is in none of   *)
(* the others that were not.                                               *)
LEMMA RolledUpExact ==
  ASSUME TypeOK, World, Shape, WalkInv, Quiet, Exhausted, rollup, ~Estimating
  PROVE  present \ collected \subseteq Inside(present, gaps)
<1> DEFINE missed == {t \in Children : ~Seen(t) /\ t \notin Under(gaps)}
<1>1. /\ Seen(Root)
      /\ \A r \in collected \cap present \cap Nested : r \in gaps \/ Seen(Child[r])
  BY DEF WalkInv, FirstListed, NoneForgotten, Accounted, Exhausted, Shape
<1>2. /\ \A r \in gaps : Child[r] \in Under(gaps)
      /\ \A r \in Nested : r[1] \in Under(gaps) => Child[r] \in Under(gaps)
  BY UnderProperties DEF TypeOK, Closed
<1>3. missed = {}
  <2> SUFFICES ASSUME missed # {} PROVE FALSE
    OBVIOUS
  <2>1. PICK t \in missed : \A r \in Nested : Child[r] = t => r[1] \notin missed
    BY TreeAssumption
  <2>2. PICK x \in present : x[1] = t
    BY <2>1 DEF Seen, Own
  <2>3. t \in live \ {Root}
    BY <2>1, <2>2, SlotsAssumption DEF World, Rooted
  <2>4. PICK q \in present \cap Nested : Child[q] = t
    BY <2>3 DEF World, Rooted
  <2>5. q[1] \notin missed /\ q[1] \in Stacks
    BY <2>1, <2>4, SlotsAssumption
  <2>6. q[1] \notin Under(gaps)
    BY <1>2, <2>1, <2>4
  <2>7. Seen(q[1])
    BY <1>1, <2>5, <2>6 DEF Stacks
  <2>8. q \in collected
    BY <2>4, <2>7 DEF Seen, Own
  <2>9. q \in gaps \/ Seen(t)
    BY <1>1, <2>4, <2>8
  <2> QED BY <1>2, <2>1, <2>4, <2>9
<1>4. ASSUME NEW x \in present, x \notin collected PROVE x[1] \in Under(gaps)
  <2>1. x[1] \in Stacks
    BY SlotsAssumption DEF TypeOK
  <2>2. ~Seen(x[1])
    BY <1>4 DEF Seen, Own
  <2> QED BY <1>1, <1>3, <2>1, <2>2 DEF Stacks
<1> QED BY <1>4 DEF Inside

LEMMA WalkExact ==
  ASSUME TypeOK, World, Shape, WalkInv, Quiet, Exhausted, ~Estimating
  PROVE  collected \subseteq Holds /\ Holds \ collected \subseteq Inside(present, gaps)
<1>1. collected \subseteq Holds
  BY DEF WalkInv, OnlyExisting
<1>2. CASE rollup
  BY <1>1, <1>2, RolledUpExact DEF Holds
<1>3. CASE ~rollup
  <2>1. Seen(walk.stack)
    BY DEF WalkInv, FirstListed, Exhausted
  <2> QED BY <1>1, <1>3, <2>1 DEF Holds, Seen
<1> QED BY <1>2, <1>3

LEMMA QuietExact ==
  ASSUME TypeOK, World, Shape, WalkInv
  PROVE  QuietInventoryIsExact
<1> SUFFICES ASSUME walk.kind = "confirmed", ~Walking, ~torn, ~operating
             PROVE  collected \subseteq Holds /\ Holds \ collected \subseteq Inside(present, gaps)
  BY DEF QuietInventoryIsExact, Holds
<1> QED BY NoFrameExhausted, WalkExact DEF Quiet, Estimating

(* What is listed or lies under a gap is closed under nesting.             *)
LEMMA ProposalCovered ==
  ASSUME TypeOK, World, Shape, WalkInv
  PROVE  EstimateCoversProposal
<1> SUFFICES ASSUME Estimating, ~Walking, ~torn, ~operating
             PROVE  /\ changeSet.proposal \subseteq collected
                    /\ rollup =>
                         LET nested == changeSet.proposal \cap Nested
                         IN  /\ Inside(present, nested) \subseteq collected \cup Inside(present, gaps)
                             /\ \A r \in nested : r \in gaps \/ Child[r] \in live \/ r \in absent
  BY DEF EstimateCoversProposal
<1>1. /\ changeSet.proposal \subseteq collected
      /\ rollup => \A r \in changeSet.proposal \cap Nested : r \in gaps \/ Child[r] \in live \/ r \in absent
      /\ rollup => \A r \in collected \cap present \cap Nested : r \in gaps \/ Seen(Child[r])
  BY NoFrameExhausted DEF WalkInv, Quiet, Estimating, FirstListed, ProposalListed, NoneForgotten,
     Accounted, Exhausted
<1>2. ASSUME rollup
      PROVE  Inside(present, changeSet.proposal \cap Nested) \subseteq collected \cup Inside(present, gaps)
  <2> DEFINE C == {t \in Stacks : Seen(t) \/ t \in Under(gaps)}
             nested == changeSet.proposal \cap Nested
  <2>1. /\ \A r \in gaps : Child[r] \in Under(gaps)
        /\ \A r \in Nested : r[1] \in Under(gaps) => Child[r] \in Under(gaps)
    BY UnderProperties DEF TypeOK, Closed
  <2>2. ASSUME NEW r \in Nested, r \in present => r \in collected PROVE Child[r] \in C
    <3>1. Child[r] \in Stacks
      BY SlotsAssumption DEF Stacks
    <3>2. CASE r \notin present
      BY <3>1, <3>2, LiveOrGone DEF Seen
    <3>3. CASE r \in present
      BY <1>1, <1>2, <2>1, <2>2, <3>1, <3>3
    <3> QED BY <3>2, <3>3
  <2>3. Closed(C)
    <3> SUFFICES ASSUME NEW r \in Nested, r[1] \in C PROVE Child[r] \in C
      BY DEF Closed
    <3>1. CASE r[1] \in Under(gaps)
      BY <2>1, <3>1, SlotsAssumption DEF Stacks
    <3>2. CASE Seen(r[1])
      BY <2>2, <3>2 DEF Seen, Own
    <3> QED BY <3>1, <3>2
  <2>4. {Child[r] : r \in nested} \subseteq C
    BY <1>1, <2>2
  <2>5. Under(nested) \subseteq C
    BY <2>3, <2>4, UnderProperties
  <2>6. ASSUME NEW x \in present, x[1] \in C PROVE x \in collected \cup Inside(present, gaps)
    BY <2>6 DEF Seen, Own, Inside
  <2> QED BY <2>5, <2>6 DEF Inside
<1> QED BY <1>1, <1>2

(***************************************************************************)
(* Snapshots: accurate, or something will be done about it.                *)
(***************************************************************************)

(* An event of the stack waits, or the operation in progress will emit one. *)
Stale(s) == (\E e \in due : e.stack = s) \/ s \in touched \cap (live \cup gone)

Confirming(s) == Walking /\ walk.kind = "confirmed" /\ walk.stack = s

(* slots and gaps account for what the stack holds. *)
Accounts(s, slots, named) ==
  IF rollup THEN slots \subseteq present /\ present \ slots \subseteq Inside(present, named)
            ELSE slots = Own(present, s) /\ named = {}

(* Without roll-up the walk of a stack that nothing touches is of that     *)
(* stack alone, whatever happens to others meanwhile.                      *)
Reads(f, s) ==
  /\ f.phase # "children" => collected = {}
  /\ f.phase = "list" => Own(present, s) \subseteq f.template
  /\ f.phase = "children" => collected = Own(present, s)

Undisturbed(s) ==
  IF rollup THEN ~torn /\ ~operating ELSE \A i \in DOMAIN frames : Reads(frames[i], s)

Snapshot(s) == Accounts(s, saved[s].slots, saved[s].gaps)

(* With roll-up nested stacks have no snapshot of their own. *)
Covered(s) == (rollup /\ s # Root) \/ Snapshot(s) \/ Stale(s) \/ Confirming(s)

Fresh ==
  /\ \A e \in due : e.delete => e.stack \in gone
  /\ rollup => \A s \in Stacks \ {Root} : saved[s] = NoSnapshot
  /\ \A s \in Stacks : Covered(s)
  /\ \A s \in Stacks : Confirming(s) => Stale(s) \/ Undisturbed(s)

LEMMA InitFresh == Init => Fresh
<1> SUFFICES ASSUME Init PROVE Fresh
  OBVIOUS
<1>1. TypeOK /\ World
  BY InitType, InitWorld
<1>2. /\ saved = [s \in Stacks |-> NoSnapshot] /\ ~Walking /\ present = wanted
      /\ due = IF wanted = {} THEN {} ELSE {[stack |-> s, delete |-> FALSE] : s \in live}
  BY DEF Init, NoWalk, Walking
<1>3. ASSUME NEW s \in Stacks PROVE Covered(s)
  <2>1. saved[s].slots = {} /\ saved[s].gaps = {}
    BY <1>2 DEF NoSnapshot
  <2>2. CASE present = {}
    BY <2>1, <2>2 DEF Covered, Snapshot, Accounts, Own
  <2>3. CASE present # {} /\ s \in live
    <3>1. [stack |-> s, delete |-> FALSE] \in due
      BY <1>2, <2>3
    <3> QED BY <3>1 DEF Covered, Stale
  <2>4. CASE s \notin live
    <3>1. Own(present, s) = {} /\ s # Root
      BY <1>1, <2>4, LiveOrGone DEF World, Rooted
    <3> QED BY <2>1, <3>1 DEF Covered, Snapshot, Accounts
  <2> QED BY <2>2, <2>3, <2>4
<1>4. \A e \in due : ~e.delete
  BY <1>2
<1> QED BY <1>2, <1>3, <1>4 DEF Fresh, Confirming

(* What a step of the world does to a stack, it will tell. *)
Telling ==
  \A s \in Stacks :
    /\ Stale(s) => Stale(s)'
    /\ Stale(s)' \/ (~rollup /\ Own(present', s) = Own(present, s)) \/ (rollup /\ s # Root)

LEMMA TellingFresh ==
  ASSUME TypeOK, World, Shape, Fresh, Telling,
         UNCHANGED <<rollup, walk, frames, collected, saved>>,
         \A e \in due' : e.delete => e.stack \in gone'
  PROVE  Fresh'
<1>1. \A s \in Stacks : Confirming(s)' <=> Confirming(s)
  BY DEF Confirming, Walking
<1>2. \A s \in Stacks : ~rollup /\ Own(present', s) = Own(present, s) /\ Snapshot(s) => Snapshot(s)'
  BY DEF Snapshot, Accounts
<1>3. ASSUME NEW s \in Stacks PROVE Covered(s)'
  <2>1. Covered(s)
    BY DEF Fresh
  <2> QED BY <1>1, <1>2, <2>1 DEF Covered, Telling
<1>4. ASSUME NEW s \in Stacks, Confirming(s)' PROVE Stale(s)' \/ Undisturbed(s)'
  <2>1. Stale(s) \/ Undisturbed(s)
    BY <1>1, <1>4 DEF Fresh
  <2>2. ~rollup /\ Own(present', s) = Own(present, s) /\ Undisturbed(s) => Undisturbed(s)'
    BY DEF Undisturbed, Reads
  <2>3. rollup => s = Root \/ Stale(s)'
    BY <1>1, <1>4 DEF Confirming, Shape
  <2> QED BY <2>1, <2>2, <2>3 DEF Telling
<1> QED BY <1>3, <1>4 DEF Fresh

LEMMA WorldStepsFresh == TypeOK /\ World /\ Shape /\ Fresh /\ WorldNext => Fresh'
<1> SUFFICES ASSUME TypeOK, World, Shape, Fresh, WorldNext PROVE Fresh'
  OBVIOUS
<1>1. UNCHANGED <<rollup, walk, frames, collected, saved>>
  BY DEF WorldNext, Begin, RollBack, Finish, Create, Name, Vanish, Delete, Propose, Computed, WorldStep
<1>2. Root \in live /\ (operating => Root \in touched)
  BY DEF World, Rooted, Untouched
<1>3. \A e \in due : e.delete => e.stack \in gone
  BY DEF Fresh
<1>4. ASSUME UNCHANGED due, touched \subseteq touched', live \cup gone \subseteq live' \cup gone',
             Root \in touched', gone \subseteq gone',
             \A s \in Stacks : Own(present', s) = Own(present, s) \/ s \in touched' \cap (live' \cup gone')
      PROVE  Fresh'
  <2>1. Telling
    BY <1>2, <1>4 DEF Telling, Stale
  <2> QED BY <1>1, <1>3, <1>4, <2>1, TellingFresh
<1>5. CASE Begin
  <2>1. touched = {} /\ Root \in touched' /\ UNCHANGED <<present, live, gone, due>>
    BY <1>5 DEF Begin, World, Settled
  <2> QED BY <1>4, <2>1
<1>6. CASE RollBack
  BY <1>2, <1>4, <1>6 DEF RollBack
<1>7. CASE Finish
  <2>1. /\ operating /\ UNCHANGED <<present, live, gone>>
        /\ due' = due \cup {[stack |-> s, delete |-> s \in gone] : s \in touched \cap (live \cup gone)}
    BY <1>7 DEF Finish
  <2>2. ASSUME NEW s \in touched \cap (live \cup gone) PROVE \E e \in due' : e.stack = s
    <3>1. [stack |-> s, delete |-> s \in gone] \in due'
      BY <2>1
    <3> QED BY <3>1
  <2>3. \A s \in Stacks : Stale(s) => Stale(s)'
    BY <2>1, <2>2 DEF Stale
  <2>4. Telling
    BY <1>2, <2>1, <2>2, <2>3 DEF Telling, Stale
  <2>5. \A e \in due' : e.delete => e.stack \in gone'
    <3>1. ASSUME NEW s PROVE [stack |-> s, delete |-> s \in gone].delete => s \in gone
      OBVIOUS
    <3>2. \A e \in due' : e \in due \/ (e.delete => e.stack \in gone)
      BY <2>1, <3>1
    <3> QED BY <1>3, <2>1, <3>2
  <2> QED BY <1>1, <2>4, <2>5, TellingFresh
<1>8. ASSUME NEW r \in Slots, Create(r) PROVE Fresh'
  <2>1. /\ operating /\ r[1] \in live /\ present' = present \cup {r} /\ touched' = touched \cup {r[1]}
        /\ UNCHANGED <<live, gone, due>>
    BY <1>8 DEF Create
  <2>2. \A s \in Stacks : s # r[1] => Own(present', s) = Own(present, s)
    BY <2>1 DEF Own
  <2> QED BY <1>2, <1>4, <2>1, <2>2
<1>9. ASSUME NEW r \in Slots, Name(r) PROVE Fresh'
  BY <1>2, <1>4, <1>9 DEF Name
<1>12. ASSUME NEW r \in Slots, Vanish(r) PROVE Fresh'
  BY <1>2, <1>4, <1>12 DEF Vanish
<1>10. ASSUME NEW r \in Slots, Delete(r) PROVE Fresh'
  <2>1. PICK child :
          /\ live' = live \ child /\ gone' = gone \cup child
          /\ touched' = touched \cup {r[1]} \cup child
    BY <1>10 DEF Delete
  <2>2. /\ operating /\ r \in present /\ present' = present \ {r} /\ UNCHANGED due
    BY <1>10 DEF Delete
  <2>3. r[1] \in live
    BY <2>2 DEF World, Rooted
  <2>4. \A s \in Stacks : s # r[1] => Own(present', s) = Own(present, s)
    BY <2>2 DEF Own
  <2>5. \A s \in Stacks : Own(present', s) = Own(present, s) \/ s \in touched' \cap (live' \cup gone')
    BY <2>1, <2>3, <2>4
  <2> QED BY <1>2, <1>4, <2>1, <2>2, <2>5
<1>11. CASE Propose \/ Computed
  <2>1. UNCHANGED <<rollup, maxDepth, world, due, walk, frames, collected, torn, saved>>
    BY <1>11 DEF Propose, Computed
  <2> QED BY <2>1 DEF Fresh, Covered, Snapshot, Accounts, Stale, Confirming, Walking, Undisturbed,
             Reads, world
<1> QED BY <1>5, <1>6, <1>7, <1>8, <1>9, <1>10, <1>11, <1>12 DEF WorldNext

(* A step of the walk that leaves events and snapshots alone. *)
LEMMA ReadingFresh ==
  ASSUME TypeOK, Fresh, UNCHANGED <<rollup, world, due, walk, saved>>,
         \A s \in Stacks : Confirming(s) /\ Undisturbed(s) => Stale(s) \/ Undisturbed(s)'
  PROVE  Fresh'
<1>1. \A s \in Stacks : (Stale(s)' <=> Stale(s)) /\ (Confirming(s)' <=> Confirming(s))
                        /\ (Snapshot(s)' <=> Snapshot(s))
  BY DEF Stale, Confirming, Walking, Snapshot, Accounts, world
<1>2. \A s \in Stacks : Covered(s)'
  BY <1>1 DEF Fresh, Covered
<1>3. \A s \in Stacks : Confirming(s)' => Stale(s)' \/ Undisturbed(s)'
  BY <1>1 DEF Fresh
<1> QED BY <1>2, <1>3 DEF Fresh, world

LEMMA OnlyFrame ==
  ASSUME TypeOK, Shape, Walking, ~rollup, NEW f, Retopped(f)
  PROVE  DOMAIN frames' = {1} /\ frames'[1] = f /\ Top = frames[1] /\ 1 \in DOMAIN frames
<1>1. Len(frames) = 1 /\ DOMAIN frames = {1}
  BY TopFrame DEF Shape
<1>2. Top = frames[1]
  BY <1>1 DEF Top
<1> QED BY <1>1, <1>2 DEF Retopped

(* The walk of one stack: its template is in force, unless an event of the *)
(* stack is still to come.                                                 *)
LEMMA ReadTemplateFresh == TypeOK /\ World /\ Shape /\ Fresh /\ ReadTemplate => Fresh'
<1> SUFFICES ASSUME TypeOK, World, Shape, Fresh, ReadTemplate PROVE Fresh'
  OBVIOUS
<1>1. PICK f \in Frames :
        /\ Retopped(f) /\ f.stack = Top.stack /\ f.phase = "list"
        /\ f.template = IF Estimating /\ Top.depth = 0 THEN changeSet.proposal
                                                      ELSE Own(wanted, Top.stack)
  BY ReadTemplateFrames
<1>2. /\ Walking /\ Top.phase = "template" /\ UNCHANGED <<rollup, due, walk, saved, collected, torn>>
      /\ UNCHANGED world
  BY DEF ReadTemplate, WalkStep
<1>3. ASSUME NEW s \in Stacks, Confirming(s), Undisturbed(s), ~Stale(s) PROVE Undisturbed(s)'
  <2>1. CASE rollup
    BY <1>2, <1>3, <2>1 DEF Undisturbed, world
  <2>2. CASE ~rollup
    <3>1. DOMAIN frames' = {1} /\ frames'[1] = f /\ Top = frames[1] /\ 1 \in DOMAIN frames
      BY <1>1, <1>2, <2>2, OnlyFrame
    <3>2. Top.stack = s /\ ~Estimating /\ collected = {}
      BY <1>2, <1>3, <2>2, <3>1 DEF Confirming, Shape, Placed, Undisturbed, Reads, Estimating
    <3>3. Own(present, s) \subseteq Own(wanted, s)
      BY <1>3, LiveOrGone DEF Stale, World, Untouched, Own
    <3>4. UNCHANGED <<present, collected>>
      BY <1>2 DEF world
    <3>5. Reads(f, s)'
      BY <1>1, <3>2, <3>3, <3>4 DEF Reads
    <3> QED BY <1>2, <2>2, <3>1, <3>5 DEF Undisturbed
  <2> QED BY <2>1, <2>2
<1> QED BY <1>2, <1>3, ReadingFresh

LEMMA ListResourcesFresh == TypeOK /\ World /\ Shape /\ Fresh /\ ListResources => Fresh'
<1> SUFFICES ASSUME TypeOK, World, Shape, Fresh, ListResources PROVE Fresh'
  OBVIOUS
<1>1. PICK f \in Frames : Retopped(f) /\ f.phase = "children"
  BY ListResourcesFrames
<1>2. /\ Walking /\ Top.phase = "list" /\ UNCHANGED <<rollup, due, walk, saved, torn, world>>
      /\ collected' = collected \cup Keeps(Top.template, Own(present \ absent, Top.stack))
  BY DEF ListResources, WalkStep
<1>3. ASSUME NEW s \in Stacks, Confirming(s), Undisturbed(s), ~Stale(s) PROVE Undisturbed(s)'
  <2>1. CASE rollup
    BY <1>2, <1>3, <2>1 DEF Undisturbed, world
  <2>2. CASE ~rollup
    <3>1. DOMAIN frames' = {1} /\ frames'[1] = f /\ Top = frames[1] /\ 1 \in DOMAIN frames
      BY <1>1, <1>2, <2>2, OnlyFrame
    <3>2. /\ Top.stack = s /\ ~Estimating /\ collected = {}
          /\ Own(present, s) \subseteq Top.template
      BY <1>2, <1>3, <2>2, <3>1 DEF Confirming, Shape, Placed, Undisturbed, Reads, Estimating
    <3>5. Own(present \ absent, s) = Own(present, s)
      BY <1>3, LiveOrGone DEF Stale, World, Untouched, Own
    <3>3. collected' = Own(present, s) /\ UNCHANGED present
      BY <1>2, <3>2, <3>5 DEF Keeps, world
    <3>4. Reads(f, s)'
      BY <1>1, <3>3 DEF Reads
    <3> QED BY <1>2, <2>2, <3>1, <3>4 DEF Undisturbed
  <2> QED BY <2>1, <2>2
<1> QED BY <1>2, <1>3, ReadingFresh

(* Only with roll-up are nested stacks walked into. *)
LEMMA NestingFresh ==
  ASSUME TypeOK, Shape, Fresh, Ascend \/ \E r \in Nested : Descend(r)
  PROVE  Fresh'
<1>1. /\ Walking /\ UNCHANGED <<rollup, due, walk, saved, torn, world>>
      /\ Len(frames) > 1 \/ Top.todo # {}
  BY DEF Ascend, Descend, WalkStep
<1>2. rollup
  BY <1>1, TopFrame DEF Shape, Top
<1>3. \A s \in Stacks : Undisturbed(s) => Undisturbed(s)'
  BY <1>1, <1>2 DEF Undisturbed, world
<1> QED BY <1>1, <1>3, ReadingFresh

(* The snapshot of a stack that is not to be walked again is exact. *)
LEMMA ReportFresh == TypeOK /\ World /\ Shape /\ WalkInv /\ Fresh /\ Report => Fresh'
<1> SUFFICES ASSUME TypeOK, World, Shape, WalkInv, Fresh, Report PROVE Fresh'
  OBVIOUS
<1>1. /\ Walking /\ Len(frames) = 1 /\ Top.phase = "children" /\ Top.todo = {}
      /\ UNCHANGED <<rollup, due, world>> /\ walk' = [walk EXCEPT !.status = "done"]
      /\ saved' = IF walk.kind = "confirmed"
                  THEN [saved EXCEPT ![walk.stack] = [slots |-> collected, gaps |-> gaps]]
                  ELSE saved
  BY DEF Report, WalkStep, Committed
<1>2. UNCHANGED <<present, live, gone, touched>>
  BY <1>1 DEF world
<1>3. walk.stack \in Stacks /\ (rollup => walk.stack = Root)
  BY DEF TypeOK, Shape
<1>4. \A s \in Stacks : (Stale(s)' <=> Stale(s)) /\ ~Confirming(s)'
  BY <1>1, <1>2 DEF Stale, Confirming, Walking, TypeOK
<1>5. \A s \in Stacks : ~Confirming(s) => saved'[s] = saved[s]
  BY <1>1 DEF Confirming, TypeOK
<1>6. ASSUME NEW s \in Stacks, ~Confirming(s) PROVE Covered(s)'
  <2>1. Snapshot(s) => Snapshot(s)'
    BY <1>1, <1>2, <1>5, <1>6 DEF Snapshot, Accounts
  <2> QED BY <1>1, <1>4, <1>6, <2>1 DEF Fresh, Covered
<1>7. ASSUME NEW s \in Stacks, Confirming(s), Undisturbed(s) PROVE Covered(s)'
  <2>1. saved'[s].slots = collected /\ saved'[s].gaps = gaps /\ walk.stack = s /\ ~Estimating
    BY <1>1, <1>7 DEF Confirming, TypeOK, Estimating
  <2>2. DOMAIN frames = {1} /\ Top = frames[1]
    BY <1>1, TopFrame DEF Top
  <2>3. CASE rollup
    <3>1. Exhausted
      BY <1>1, <2>2 DEF Exhausted, Ahead, Waiting
    <3>2. Quiet
      BY <1>7, <2>3 DEF Undisturbed, Quiet, Confirming
    <3>3. collected \subseteq present /\ present \ collected \subseteq Inside(present, gaps)
      BY <2>1, <2>3, <3>1, <3>2, WalkExact DEF Holds
    <3> QED BY <1>1, <1>2, <2>1, <2>3, <3>3 DEF Covered, Snapshot, Accounts
  <2>4. CASE ~rollup
    <3>1. collected = Own(present, s) /\ gaps = {}
      BY <1>1, <1>7, <2>2, <2>4 DEF Undisturbed, Reads, Shape
    <3> QED BY <1>1, <1>2, <2>1, <2>4, <3>1 DEF Covered, Snapshot, Accounts
  <2> QED BY <2>3, <2>4
<1>8. \A s \in Stacks : Covered(s)'
  BY <1>4, <1>6, <1>7 DEF Fresh, Covered
<1>9. rollup => \A s \in Stacks \ {Root} : saved'[s] = NoSnapshot
  BY <1>3, <1>5 DEF Fresh, Confirming
<1> QED BY <1>1, <1>2, <1>4, <1>8, <1>9 DEF Fresh

(* The message of a failed walk comes back. *)
LEMMA ReadFailsFresh == TypeOK /\ Fresh /\ ReadFails => Fresh'
<1> SUFFICES ASSUME TypeOK, Fresh, ReadFails PROVE Fresh'
  OBVIOUS
<1>1. /\ Walking /\ UNCHANGED <<rollup, world, saved>> /\ ~Walking'
      /\ due' = IF walk.kind = "confirmed"
                THEN due \cup {[stack |-> walk.stack, delete |-> FALSE]} ELSE due
  BY DEF ReadFails, WalkStep, Walking, NoWalk
<1>2. UNCHANGED <<present, live, gone, touched>>
  BY <1>1 DEF world
<1>3. \A s \in Stacks : Confirming(s) => Stale(s)'
  <2>1. walk.kind = "confirmed" => [stack |-> walk.stack, delete |-> FALSE] \in due'
    BY <1>1
  <2> QED BY <2>1 DEF Confirming, Stale
<1>4. \A s \in Stacks : (Stale(s) => Stale(s)') /\ (Snapshot(s) => Snapshot(s)') /\ ~Confirming(s)'
  BY <1>1, <1>2 DEF Stale, Snapshot, Accounts, Confirming
<1>5. \A s \in Stacks : Covered(s)'
  BY <1>1, <1>3, <1>4 DEF Fresh, Covered
<1>6. \A e \in due' : e.delete => e.stack \in gone'
  BY <1>1, <1>2 DEF Fresh
<1> QED BY <1>1, <1>4, <1>5, <1>6 DEF Fresh

(* An event is ignored, retires its stack's snapshot or begins a walk. *)
LEMMA TakeEventFresh == \A e \in due : TypeOK /\ World /\ Fresh /\ TakeEvent(e) => Fresh'
<1> SUFFICES ASSUME NEW e \in due, TypeOK, World, Fresh, TakeEvent(e) PROVE Fresh'
  OBVIOUS
<1>1. /\ ~Walking /\ due' = due \ {e} /\ UNCHANGED <<rollup, world>> /\ e.stack \in Stacks
      /\ UNCHANGED <<present, live, gone, touched, operating>>
  BY DEF TakeEvent, WalkStep, TypeOK, world
<1>2. \A s \in Stacks : ~Confirming(s) /\ (s # e.stack => (Stale(s) => Stale(s)'))
  BY <1>1 DEF Confirming, Stale
<1>3. \A d \in due' : d.delete => d.stack \in gone'
  BY <1>1 DEF Fresh
<1>4. CASE rollup /\ e.stack # Root /\ UNCHANGED <<walk, saved>>
  <2>1. \A s \in Stacks : (Snapshot(s) => Snapshot(s)') /\ ~Confirming(s)'
    BY <1>1, <1>2, <1>4 DEF Snapshot, Accounts, Confirming, Walking
  <2>2. \A s \in Stacks : Covered(s)'
    BY <1>1, <1>2, <1>4, <2>1 DEF Fresh, Covered
  <2> QED BY <1>1, <1>3, <1>4, <2>1, <2>2 DEF Fresh
<1>5. CASE /\ (~rollup \/ e.stack = Root) /\ e.delete /\ UNCHANGED walk
           /\ saved' = [saved EXCEPT ![e.stack] = NoSnapshot]
  <2>1. e.stack \in gone
    BY <1>5 DEF Fresh
  <2>2. ~rollup /\ Own(present, e.stack) = {}
    BY <1>1, <1>5, <2>1, LiveOrGone, SlotsAssumption DEF TypeOK
  <2>3. Snapshot(e.stack)'
    BY <1>1, <1>5, <2>2 DEF Snapshot, Accounts, NoSnapshot, TypeOK
  <2>4. \A s \in Stacks : (s # e.stack /\ Snapshot(s) => Snapshot(s)') /\ ~Confirming(s)'
    BY <1>1, <1>2, <1>5 DEF Snapshot, Accounts, Confirming, Walking, TypeOK
  <2>5. \A s \in Stacks : Covered(s)'
    BY <1>1, <1>2, <2>3, <2>4 DEF Fresh, Covered
  <2> QED BY <1>1, <1>3, <2>2, <2>4, <2>5 DEF Fresh
<1>6. CASE (~rollup \/ e.stack = Root) /\ Collect("confirmed", e.stack) /\ UNCHANGED saved
  <2>1. walk' = [kind |-> "confirmed", stack |-> e.stack, status |-> "collecting"]
        /\ collected' = {} /\ torn' = FALSE
    BY <1>6 DEF Collect
  <2>2. \A s \in Stacks : (Snapshot(s) => Snapshot(s)') /\ (Confirming(s)' <=> s = e.stack)
    BY <1>1, <1>6, <2>1 DEF Snapshot, Accounts, Confirming, Walking
  <2>3. \A s \in Stacks : Covered(s)'
    BY <1>1, <1>2, <2>2 DEF Fresh, Covered
  <2>4. Stale(e.stack)' \/ Undisturbed(e.stack)'
    <3>1. CASE rollup
      <4>1. operating => Root \in touched \cap live
        BY DEF World, Rooted, Untouched
      <4> QED BY <1>1, <1>6, <2>1, <3>1, <4>1 DEF Undisturbed, Stale
    <3>2. CASE ~rollup
      <4>1. DOMAIN frames' = {1} /\ frames'[1].phase = "template"
        BY <1>1, <1>6, CollectFrames
      <4> QED BY <1>1, <2>1, <3>2, <4>1 DEF Undisturbed, Reads
    <3> QED BY <3>1, <3>2
  <2> QED BY <1>1, <1>3, <1>6, <2>2, <2>3, <2>4 DEF Fresh
<1> QED BY <1>4, <1>5, <1>6 DEF TakeEvent

LEMMA TakeChangeSetFresh == TypeOK /\ Fresh /\ TakeChangeSet => Fresh'
<1> SUFFICES ASSUME TypeOK, Fresh, TakeChangeSet PROVE Fresh'
  OBVIOUS
<1>1. /\ ~Walking /\ UNCHANGED <<rollup, world, due, saved>> /\ walk'.kind = "estimate"
      /\ UNCHANGED <<present, live, gone, touched>>
  BY DEF TakeChangeSet, Collect, WalkStep, world
<1>2. \A s \in Stacks : /\ ~Confirming(s) /\ ~Confirming(s)'
                        /\ (Stale(s) => Stale(s)') /\ (Snapshot(s) => Snapshot(s)')
  BY <1>1 DEF Confirming, Stale, Snapshot, Accounts
<1>3. \A s \in Stacks : Covered(s)'
  BY <1>1, <1>2 DEF Fresh, Covered
<1> QED BY <1>1, <1>2, <1>3 DEF Fresh

LEMMA NextFresh == TypeOK /\ World /\ Shape /\ WalkInv /\ Fresh /\ [Next]_vars => Fresh'
<1>1. Fresh /\ UNCHANGED vars => Fresh'
  BY DEF Fresh, Covered, Snapshot, Accounts, Stale, Confirming, Walking, Undisturbed, Reads,
         vars, world
<1> QED BY <1>1, WorldStepsFresh, TakeEventFresh, TakeChangeSetFresh, ReadTemplateFresh,
           ListResourcesFresh, NestingFresh, ReportFresh, ReadFailsFresh DEF Next, WalkNext

(* At rest nothing is stale and nothing is walked. *)
LEMMA FreshAtRest ==
  ASSUME TypeOK, World, Fresh
  PROVE  CountedOnce
<1> SUFFICES ASSUME AtRest
             PROVE  /\ UNION {saved[s].slots : s \in Stacks} \subseteq present
                    /\ \A s, t \in Stacks : s # t => saved[s].slots \cap saved[t].slots = {}
                    /\ present \subseteq
                         UNION {saved[s].slots \cup Inside(present, saved[s].gaps) : s \in Stacks}
  BY DEF CountedOnce
<1>1. \A s \in Stacks : (rollup /\ s # Root) \/ Snapshot(s)
  BY DEF AtRest, World, Settled, Fresh, Covered, Stale, Confirming
<1>2. \A x \in present : x[1] \in Stacks
  BY SlotsAssumption DEF TypeOK
<1>3. CASE rollup
  <2>1. /\ saved[Root].slots \subseteq present
        /\ present \subseteq saved[Root].slots \cup Inside(present, saved[Root].gaps)
    BY <1>1, <1>3 DEF Snapshot, Accounts, Stacks
  <2>2. \A s \in Stacks \ {Root} : saved[s].slots = {}
    BY <1>3 DEF Fresh, NoSnapshot
  <2> QED BY <2>1, <2>2 DEF Stacks
<1>4. CASE ~rollup
  <2>1. \A s \in Stacks : saved[s].slots = Own(present, s)
    BY <1>1, <1>4 DEF Snapshot, Accounts
  <2> QED BY <1>2, <2>1 DEF Own
<1> QED BY <1>3, <1>4

WalkIInv == TypeOK /\ World /\ Shape /\ WalkInv /\ Fresh

LEMMA InvariantHolds == Spec => []WalkIInv
<1>1. Init => WalkIInv
  BY InitType, InitWorld, InitShape, InitWalk, InitFresh DEF WalkIInv
<1>2. WalkIInv /\ [Next]_vars => WalkIInv'
  BY NextType, NextWorld, NextShape, NextWalk, NextFresh DEF WalkIInv
<1> QED BY <1>1, <1>2, PTL DEF Spec

(* An inventory taken while nothing moved misses only what lies under the  *)
(* gaps it names, and has nothing that does not exist: for any tree of     *)
(* stacks, any depth limit, and whatever failed before.                    *)
THEOREM QuietInventoryIsExactHolds == Spec => []QuietInventoryIsExact
<1>1. WalkIInv => QuietInventoryIsExact
  BY QuietExact DEF WalkIInv
<1> QED BY <1>1, InvariantHolds, PTL

(* The estimate of a change set accounts for all the root is to hold, and  *)
(* for what lies under its nested stacks; one that is neither walked nor a *)
(* gap is listed as deleted.                                               *)
THEOREM EstimateCoversProposalHolds == Spec => []EstimateCoversProposal
<1>1. WalkIInv => EstimateCoversProposal
  BY ProposalCovered DEF WalkIInv
<1> QED BY <1>1, InvariantHolds, PTL

(* When every event has been dealt with, the snapshots hold each existing  *)
(* resource once: a walk torn by an operation is followed by that          *)
(* operation's event, which replaces what it saved.                        *)
THEOREM CountedOnceHolds == Spec => []CountedOnce
<1>1. WalkIInv => CountedOnce
  BY FreshAtRest DEF WalkIInv
<1> QED BY <1>1, InvariantHolds, PTL
==============================================================================
