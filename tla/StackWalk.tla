------------------------------- MODULE StackWalk -------------------------------
(***************************************************************************)
(* Collection of what a stack holds, nested stacks included, while         *)
(* CloudFormation goes on working on it.                                   *)
(*                                                                         *)
(* Source: src/src/analyzer/analyzer.py (_collect and its callers), cfn.py *)
(* (the reads), changeset.py.                                              *)
(*                                                                         *)
(* A walk makes one read after another: templates and resource lists of    *)
(* one inventory are of different moments.  A slot is a stack and a        *)
(* logical ID in it, which is what a path of the code amounts to; wanted   *)
(* are the slots of the templates in force, present the existing ones.     *)
(***************************************************************************)
EXTENDS Integers, Sequences, FiniteSets

CONSTANTS
  Root, Children, \* the stacks
  Slots,          \* pairs of a stack and a logical ID
  Child,          \* the slots of nested stacks -> that stack
  Depths,         \* values considered of MaxNestedDepth
  MaxOperations,  \* bound: operations on the stack
  MaxErrors       \* bound: failed reads

Stacks == {Root} \cup Children
Nested == DOMAIN Child
Own(slots, s) == {r \in slots : r[1] = s}

ASSUME SlotsAssumption ==
  /\ Root \notin Children
  /\ Slots \subseteq Stacks \X {r[2] : r \in Slots}
  /\ Nested \subseteq Slots
  /\ \A r, q \in Nested : Child[r] \in Children /\ (Child[r] = Child[q] => r = q)
  /\ Depths \subseteq Nat /\ {MaxOperations, MaxErrors} \subseteq Nat

(* No stack is nested in itself, however indirectly: of any nested stacks, *)
(* one is in none of the others.                                           *)
ASSUME TreeAssumption ==
  \A T \in SUBSET Children \ {{}} :
    \E t \in T : \A r \in Nested : Child[r] = t => r[1] \notin T

VARIABLES
  rollup, maxDepth, \* configuration
  wanted,     \* slots of the templates in force
  before,     \* ... before the operation
  target,     \* slots the operation is to leave
  present,    \* slots that exist
  absent,     \* nested slots listed with a status that says they do not
  live,       \* stacks with an ARN that are not deleted
  gone,       \* deleted stacks
  operating,  \* an operation is in progress
  operations, \* operations so far
  touched,    \* the stacks it is about
  due,        \* terminal events that wait: [stack, delete]
  changeSet   \* the change set: its status and proposal

world == <<wanted, before, target, present, absent, live, gone, operating, operations,
           touched>>

VARIABLES
  walk,      \* what is being collected, or the outcome of the last walk
  frames,    \* the calls of _collect in progress, innermost last
  collected, \* slots collected so far
  gaps,      \* nested stacks recorded as not covered
  torn,      \* the world changed during or after the walk
  errors,    \* failed reads so far
  saved      \* the snapshot of each stack: slots and gaps

vars == <<rollup, maxDepth, world, due, changeSet, walk, frames, collected, gaps,
          torn, errors, saved>>

NoWalk == [kind |-> "none", stack |-> Root, status |-> "done"]
Walking == walk.status = "collecting"
NoSnapshot == [slots |-> {}, gaps |-> {}]

(* A template's nested stacks come with a template of their own. *)
WellFormed(slots) ==
  \A r \in slots : r[1] # Root => \E q \in slots \cap Nested : Child[q] = r[1]

Templates == {w \in SUBSET Slots : WellFormed(w)}

(* The stack is yet to be created, or the events of a deployment wait. *)
Init ==
  /\ rollup \in BOOLEAN /\ maxDepth \in Depths
  /\ wanted \in Templates /\ before = wanted /\ target = wanted /\ present = wanted
  /\ live = {Root} \cup {Child[r] : r \in wanted \cap Nested} /\ gone = {} /\ absent = {}
  /\ operating = FALSE /\ operations = 0 /\ touched = {}
  /\ due = IF wanted = {} THEN {} ELSE {[stack |-> s, delete |-> FALSE] : s \in live}
  /\ changeSet = [status |-> "none", proposal |-> {}]
  /\ walk = NoWalk /\ frames = <<>> /\ collected = {} /\ gaps = {}
  /\ torn = FALSE /\ errors = 0
  /\ saved = [s \in Stacks |-> NoSnapshot]

(***************************************************************************)
(* CloudFormation                                                          *)
(***************************************************************************)

WorldStep ==
  /\ torn' = (walk.kind # "none")
  /\ UNCHANGED <<rollup, maxDepth, changeSet, walk, frames, collected, gaps, errors, saved>>

(* The creation or an update of the stack and of its nested stacks begins. *)
(* A deleted nested stack does not come back: what follows it is another.  *)
Begin ==
  /\ ~operating /\ operations < MaxOperations /\ wanted = target
  /\ operating' = TRUE /\ operations' = operations + 1
  /\ before' = wanted
  /\ \E w \in Templates \ {{}} :
       /\ \A r \in w \cap Nested : Child[r] \notin gone
       /\ wanted' = w /\ target' = w
       /\ touched' = {Root} \cup {s \in Stacks : Own(w, s) # Own(wanted, s)}
  /\ UNCHANGED <<present, absent, live, gone, due>>
  /\ WorldStep

Create(r) ==
  /\ operating
  /\ r \in target \ present /\ r[1] \in live
  /\ present' = present \cup {r} /\ absent' = absent \ {r}
  /\ touched' = touched \cup {r[1]}
  /\ UNCHANGED <<wanted, before, target, live, gone, operating, operations, due>>
  /\ WorldStep

(* A nested stack gets its ARN after its slot appears in the list. *)
Name(r) ==
  /\ operating
  /\ r \in (present \cap Nested) \ absent /\ Child[r] \notin live
  /\ live' = live \cup {Child[r]}
  /\ touched' = touched \cup {Child[r]}
  /\ UNCHANGED <<wanted, before, target, present, absent, gone, operating, operations, due>>
  /\ WorldStep

Ready ==
  /\ target \subseteq present \ absent
  /\ \A r \in target \cap Nested : Child[r] \in live

(* A nested stack shows CREATE_FAILED until the roll back removes it, or   *)
(* DELETE_IN_PROGRESS in the clean-up.  (A resource of another kind that   *)
(* is listed with such a status is treated as one that is not listed.)     *)
Vanish(r) ==
  /\ operating
  /\ r \in (present \cap Nested) \ absent
  /\ IF Ready THEN r \notin target ELSE r \in target \ before
  /\ absent' = absent \cup {r}
  /\ touched' = touched \cup {r[1]}
  /\ UNCHANGED <<wanted, before, target, present, live, gone, operating, operations, due>>
  /\ WorldStep

(* The clean-up after an update, or after its roll back.  The list may go  *)
(* on showing the nested stack, as DELETE_COMPLETE.                        *)
Delete(r) ==
  /\ operating /\ Ready
  /\ r \in present \ target
  /\ r \in Nested => r \in absent /\ Own(present, Child[r]) = {}
  /\ present' = present \ {r} /\ absent' \in {absent, absent \ {r}}
  /\ LET child == IF r \in Nested THEN {Child[r]} \cap live ELSE {}
     IN  /\ live' = live \ child
         /\ gone' = gone \cup child
         /\ touched' = touched \cup {r[1]} \cup child
  /\ UNCHANGED <<wanted, before, target, operating, operations, due>>
  /\ WorldStep

(* The template of a creation stays in force when it is rolled back. *)
RollBack ==
  /\ operating /\ ~Ready /\ target # before
  /\ target' = before
  /\ wanted' = IF before = {} THEN wanted ELSE before
  /\ UNCHANGED <<before, present, absent, live, gone, operating, operations, touched, due>>
  /\ WorldStep

(* Every stack that was touched has an event of its own. *)
Finish ==
  /\ operating /\ Ready /\ present = target
  /\ operating' = FALSE /\ touched' = {} /\ before' = wanted
  /\ due' = due \cup {[stack |-> s, delete |-> s \in gone] : s \in touched \cap (live \cup gone)}
  /\ UNCHANGED <<wanted, target, present, absent, live, gone, operations>>
  /\ WorldStep

(* A change set of the root stack is created, computed and may fail. *)
Propose ==
  /\ ~operating /\ changeSet.status = "none"
  /\ \E p \in SUBSET Own(Slots, Root) :
       changeSet' = [status |-> "CREATE_PENDING", proposal |-> p]
  /\ UNCHANGED <<world, rollup, maxDepth, due, walk, frames, collected, gaps, torn,
                 errors, saved>>

Computed ==
  /\ changeSet.status = "CREATE_PENDING"
  /\ \E status \in {"CREATE_COMPLETE", "FAILED"} :
       changeSet' = [changeSet EXCEPT !.status = status]
  /\ UNCHANGED <<world, rollup, maxDepth, due, walk, frames, collected, gaps, torn,
                 errors, saved>>

(***************************************************************************)
(* The walk                                                                *)
(***************************************************************************)

WalkStep == UNCHANGED <<world, rollup, maxDepth>>

Top == frames[Len(frames)]
Below == SubSeq(frames, 1, Len(frames) - 1)

(* template are the slots of a stack's template once it is read; todo the  *)
(* nested stacks that are still to be walked into.                         *)
Frame(s, depth) ==
  [stack |-> s, depth |-> depth, phase |-> "template", template |-> {}, todo |-> {}]

Collect(kind, s) ==
  /\ walk' = [kind |-> kind, stack |-> s, status |-> "collecting"]
  /\ frames' = <<Frame(s, 0)>>
  /\ collected' = {} /\ gaps' = {} /\ torn' = FALSE

(* analyze, _analyze_deletion: nested stacks are their root's business, a  *)
(* deleted stack is retired, others are walked.                            *)
TakeEvent(e) ==
  /\ ~Walking
  /\ e \in due
  /\ due' = due \ {e}
  /\ \/ /\ rollup /\ e.stack # Root
        /\ UNCHANGED <<walk, frames, collected, gaps, torn, saved>>
     \/ /\ ~rollup \/ e.stack = Root
        /\ e.delete
        /\ saved' = [saved EXCEPT ![e.stack] = NoSnapshot]
        /\ UNCHANGED <<walk, frames, collected, gaps, torn>>
     \/ /\ ~rollup \/ e.stack = Root
        /\ ~e.delete
        /\ Collect("confirmed", e.stack)
        /\ UNCHANGED saved
  /\ UNCHANGED <<changeSet, errors>>
  /\ WalkStep

(* analyze_change_set, once the change set is computed. *)
TakeChangeSet ==
  /\ ~Walking
  /\ changeSet.status = "CREATE_COMPLETE"
  /\ changeSet' = [changeSet EXCEPT !.status = "taken"]
  /\ Collect("estimate", Root)
  /\ UNCHANGED <<due, errors, saved>>
  /\ WalkStep

Estimating == walk.kind = "estimate"

(* get_template, get_change_set_template *)
ReadTemplate ==
  /\ Walking /\ Top.phase = "template"
  /\ LET template == IF Estimating /\ Top.depth = 0 THEN changeSet.proposal
                                                    ELSE Own(wanted, Top.stack)
     IN  frames' = [frames EXCEPT ![Len(frames)] =
                      [@ EXCEPT !.template = template, !.phase = "list"]]
  /\ UNCHANGED <<due, changeSet, walk, collected, gaps, torn, errors, saved>>
  /\ WalkStep

(* Mutant of Keeps: the template alone is believed. *)
KeepsAll(template, existing) == template

(* filter_by_existing: what the template says and the list confirms; of a  *)
(* change set, all it says.                                                *)
Keeps(template, existing) == IF Estimating THEN template ELSE template \cap existing

TooDeep(depth) == depth >= maxDepth

(* The nested slots whose summary has an ARN (physical_id), if listed. *)
Named == {r \in Nested : Child[r] \in live \cup gone}

(* Mutant of GapsAt: nothing says that the deeper stacks were not walked. *)
GapsOmitted(template, listed, nested, depth) == {}

(* The gaps: nested stacks of a change set that have no ARN in the list,   *)
(* whatever status it shows, and those below the depth limit.              *)
GapsAt(template, listed, nested, depth) ==
  (IF Estimating THEN (template \cap Nested) \ (listed \cap Named) ELSE {})
    \cup (IF TooDeep(depth) THEN nested ELSE {})

(* list_resources, and what is made of the list: a stack that is listed as *)
(* absent is not walked into.                                              *)
ListResources ==
  /\ Walking /\ Top.phase = "list"
  /\ LET listed == Own(present \cup absent, Top.stack)
         existing == Own(present \ absent, Top.stack)
         nested == existing \cap Nested
     IN  /\ collected' = collected \cup Keeps(Top.template, existing)
         /\ gaps' = IF rollup THEN gaps \cup GapsAt(Top.template, listed, nested, Top.depth)
                              ELSE gaps
         /\ frames' = [frames EXCEPT ![Len(frames)] =
              [@ EXCEPT !.phase = "children",
                        !.todo = IF rollup /\ ~TooDeep(Top.depth) THEN nested \cap Named ELSE {}]]
  /\ UNCHANGED <<due, changeSet, walk, torn, errors, saved>>
  /\ WalkStep

(* Mutant of GapOfUnreadable: the gap is noted under the prefix of the child. *)
GapUnderChild(r) == {<<Child[r], r[2]>>}

GapOfUnreadable(r) == {r}

(* describe_stack of a child: walk into it, or note that it is not found.  *)
Descend(r) ==
  /\ Walking /\ Top.phase = "children" /\ r \in Top.todo
  /\ LET rest == [frames EXCEPT ![Len(frames)].todo = @ \ {r}]
     IN  \/ /\ frames' = Append(rest, Frame(Child[r], Top.depth + 1))
            /\ UNCHANGED gaps
         \/ /\ Child[r] \in gone
            /\ frames' = rest
            /\ gaps' = gaps \cup GapOfUnreadable(r)
  /\ UNCHANGED <<due, changeSet, walk, collected, torn, errors, saved>>
  /\ WalkStep

Ascend ==
  /\ Walking /\ Top.phase = "children" /\ Top.todo = {} /\ Len(frames) > 1
  /\ frames' = Below
  /\ UNCHANGED <<due, changeSet, walk, collected, gaps, torn, errors, saved>>
  /\ WalkStep

(* Mutant of Committed: an estimate becomes the stack's snapshot. *)
CommittedAlways(kind) == TRUE

(* The inventory of a change set is never persisted. *)
Committed(kind) == kind = "confirmed"

(* The walk is over, its inventory reported and committed. *)
Report ==
  /\ Walking /\ Len(frames) = 1 /\ Top.phase = "children" /\ Top.todo = {}
  /\ frames' = <<>>
  /\ walk' = [walk EXCEPT !.status = "done"]
  /\ saved' = IF Committed(walk.kind)
              THEN [saved EXCEPT ![walk.stack] = [slots |-> collected, gaps |-> gaps]]
              ELSE saved
  /\ UNCHANGED <<due, changeSet, collected, gaps, torn, errors>>
  /\ WalkStep

(* A read fails: nothing is persisted and the message comes back. *)
ReadFails ==
  /\ Walking
  /\ errors < MaxErrors
  /\ errors' = errors + 1
  /\ walk' = NoWalk /\ frames' = <<>> /\ collected' = {} /\ gaps' = {} /\ torn' = FALSE
  /\ due' = IF walk.kind = "confirmed"
            THEN due \cup {[stack |-> walk.stack, delete |-> FALSE]} ELSE due
  /\ changeSet' = IF Estimating THEN [changeSet EXCEPT !.status = "CREATE_COMPLETE"]
                                ELSE changeSet
  /\ UNCHANGED saved
  /\ WalkStep

WorldNext ==
  \/ Begin \/ RollBack \/ Finish
  \/ \E r \in Slots : Create(r) \/ Name(r) \/ Vanish(r) \/ Delete(r)
  \/ Propose \/ Computed

WalkNext ==
  \/ \E e \in due : TakeEvent(e)
  \/ TakeChangeSet
  \/ ReadTemplate \/ ListResources \/ Ascend \/ Report \/ ReadFails
  \/ \E r \in Nested : Descend(r)

Next == WorldNext \/ WalkNext

Spec == Init /\ [][Next]_vars

(***************************************************************************)
(* Properties                                                              *)
(***************************************************************************)

Statuses == {"none", "CREATE_PENDING", "CREATE_COMPLETE", "FAILED", "taken"}
Snapshots == [slots : SUBSET Slots, gaps : SUBSET Nested]
Frames == [stack : Stacks, depth : Nat, phase : {"template", "list", "children"},
           template : SUBSET Slots, todo : SUBSET Nested]

(* Every variable keeps its type. *)
TypeOK ==
  /\ rollup \in BOOLEAN /\ maxDepth \in Depths
  /\ {wanted, before, target, present} \subseteq SUBSET Slots
  /\ absent \subseteq Nested
  /\ live \subseteq Stacks /\ gone \subseteq Children /\ touched \subseteq Stacks
  /\ operating \in BOOLEAN /\ operations \in 0..MaxOperations
  /\ due \subseteq [stack : Stacks, delete : BOOLEAN]
  /\ changeSet \in [status : Statuses, proposal : SUBSET Own(Slots, Root)]
  /\ walk \in [kind : {"none", "confirmed", "estimate"}, stack : Stacks,
               status : {"collecting", "done"}]
  /\ frames \in Seq(Frames) /\ (Walking <=> frames # <<>>)
  /\ \A i \in DOMAIN frames : frames[i].todo \subseteq Own(Nested, frames[i].stack)
  /\ collected \subseteq Slots /\ gaps \subseteq Nested
  /\ torn \in BOOLEAN /\ errors \in 0..MaxErrors
  /\ saved \in [Stacks -> Snapshots]

(* The stacks that nested are, and all that is nested in them. *)
Closed(T) == \A r \in Nested : r[1] \in T => Child[r] \in T
Under(nested) ==
  {s \in Stacks : \A T \in SUBSET Stacks :
                    Closed(T) /\ {Child[r] : r \in nested} \subseteq T => s \in T}

(* The slots of the stack that nested is, and of those nested in it. *)
Inside(slots, nested) == {r \in slots : r[1] \in Under(nested)}

(* An inventory that was taken while nothing moved has exactly what the    *)
(* stack holds, but for what lies in nested stacks it names as gaps        *)
(* ("an omitted component would quietly understate the total").            *)
QuietInventoryIsExact ==
  walk.kind = "confirmed" /\ ~Walking /\ ~torn /\ ~operating =>
    LET holds == IF rollup THEN present ELSE Own(present, walk.stack)
    IN  /\ collected \subseteq holds
        /\ holds \ collected \subseteq Inside(present, gaps)

AtRest == ~operating /\ due = {} /\ ~Walking

(* However reads and operations interleaved and failed: when every event   *)
(* has been dealt with, the snapshots together hold each existing resource *)
(* once (or name the nested stack it is in as a gap) and nothing else.     *)
CountedOnce ==
  AtRest =>
    /\ UNION {saved[s].slots : s \in Stacks} \subseteq present
    /\ \A s, t \in Stacks : s # t => saved[s].slots \cap saved[t].slots = {}
    /\ present \subseteq UNION {saved[s].slots \cup Inside(present, saved[s].gaps) : s \in Stacks}

(* The estimate of a change set has everything the root stack is to hold,  *)
(* and what its nested stacks hold, or a gap in the place of what it has   *)
(* not: a nested stack that is in neither is one which the list still      *)
(* shows, with its ARN, as deleted.                                        *)
EstimateCoversProposal ==
  Estimating /\ ~Walking /\ ~torn /\ ~operating =>
    /\ changeSet.proposal \subseteq collected
    /\ rollup =>
         LET nested == changeSet.proposal \cap Nested
         IN  /\ Inside(present, nested) \subseteq collected \cup Inside(present, gaps)
             /\ \A r \in nested : r \in gaps \/ Child[r] \in live \/ r \in absent

(* changeset.py: "the estimate is produced the same way a confirmed report *)
(* is - resolve the template, price it, diff against the stored snapshot". *)
(* What the change set removes is not in the estimate.                     *)
EstimateIsOfProposal ==
  Estimating /\ ~Walking /\ ~torn =>
    collected \subseteq changeSet.proposal
                          \cup Inside(Slots, changeSet.proposal \cap Nested)
==============================================================================
