----------------------------- MODULE StackLedger ------------------------------
(***************************************************************************)
(* What the confirmed reports of one stack add up to: each operation's     *)
(* priced inventory is diffed against the stored one, the delta reported   *)
(* or suppressed, and the inventory stored for the next operation.         *)
(*                                                                         *)
(* Source: src/src/state/diff.py (diff_snapshots, diff_deletion,           *)
(* StackDelta), src/src/state/models.py (SnapshotResource, total_of),      *)
(* money in src/src/pricing/models.py, and the decisions of                *)
(* _analyze_current_state and _analyze_deletion in                         *)
(* src/src/analyzer/analyzer.py.  Events are taken one after the other and *)
(* delivered: ConfirmedState is about their interleavings and failures.    *)
(*                                                                         *)
(* Amounts are whole numbers of a unit of which UnitsPerCent make a cent.  *)
(***************************************************************************)
EXTENDS Integers, FiniteSets, Functions

CONSTANTS
  Ids,           \* logical IDs
  ResourceSets,  \* each the priced resources one stack may hold
  NoPhysicalId,  \* the physical ID is not known
  NoHistory,     \* load returned None
  UnitsPerCent,
  Threshold,     \* NotifyThreshold, 0 when everything is reported
  TooLarge,      \* sets of resources that do not fit MAX_ITEM_BYTES
  MaxOps         \* bound: operations of the stack

Resources == UNION ResourceSets

(* cost is the discounted monthly_cost; print stands for fingerprint (the  *)
(* query keys and quantities of the components); retain and keepOld are    *)
(* DeletionPolicy and UpdateReplacePolicy Retain.                          *)
ASSUME ResourcesAssumption ==
  \A r \in Resources :
    /\ DOMAIN r = {"phys", "print", "cost", "priced", "retain", "keepOld"}
    /\ r.cost \in Nat
    /\ r.priced \in BOOLEAN
    /\ ~r.priced => r.cost = 0
    /\ r.retain \in BOOLEAN
    /\ r.keepOld \in BOOLEAN

SnapshotsOf(some) == UNION {[S -> some] : S \in SUBSET Ids}
Snapshots == SnapshotsOf(Resources)
Empty == [i \in {} |-> {}]

ASSUME LedgerAssumption ==
  /\ IsFiniteSet(Ids)
  /\ NoHistory \notin Snapshots
  /\ UnitsPerCent \in Nat \ {0}
  /\ Threshold \in Nat
  /\ TooLarge \subseteq SUBSET Ids
  /\ MaxOps \in Nat

VARIABLES
  resources,   \* what this stack may hold
  ops,         \* operations so far
  deleted,     \* the stack is gone
  history,     \* the stored snapshot
  delta,       \* the last delta computed
  opening,     \* ledger: the stack's cost when tracking (re)started
  reported,    \* ledger: net change reported since
  suppressed,  \* ledger: net change below the threshold since
  outliving    \* ledger: cost that CloudFormation left behind since

ledger == <<opening, reported, suppressed, outliving>>
vars == <<resources, ops, deleted, history, delta, ledger>>

Actions == {"CREATE", "UPDATE", "ROLLBACK", "DELETE"}

(***************************************************************************)
(* Money                                                                   *)
(***************************************************************************)

(* money: whole cents, half away from zero. *)
Money(x) ==
  LET up(y) == (2 * y + UnitsPerCent) \div (2 * UnitsPerCent)
  IN  IF x >= 0 THEN up(x) ELSE -up(-x)

(* Mutant of Counted: a discount of more than 100%. *)
CountedOverDiscounted(r) == IF r.priced THEN -r.cost ELSE 0

(* Only priced resources count in a total (is_priced). *)
Counted(r) == IF r.priced THEN r.cost ELSE 0

(* total_of, discounted, over some of a snapshot's resources. *)
TotalOf(snapshot, ids) == SumFunction([i \in ids |-> Counted(snapshot[i])])

MonthlyCost(snapshot) ==
  IF snapshot = NoHistory THEN 0 ELSE TotalOf(snapshot, DOMAIN snapshot)

(***************************************************************************)
(* The diff                                                                *)
(***************************************************************************)

(* _is_replacement: destroyed and recreated under the same logical ID. *)
IsReplacement(prior, resource) ==
  /\ NoPhysicalId \notin {prior.phys, resource.phys}
  /\ prior.phys # resource.phys

LeftBehind(prior, resource) == IsReplacement(prior, resource) /\ resource.keepOld

(* Mutant of Differs: a changed price or discount is no change. *)
DiffersInShape(prior, resource) ==
  prior.print # resource.print \/ IsReplacement(prior, resource)

Differs(prior, resource) ==
  \/ prior.print # resource.print
  \/ Money(prior.cost) # Money(resource.cost)
  \/ IsReplacement(prior, resource)

(* Mutant of Gone: resources of the current inventory are not skipped. *)
GoneOrNot(prior, after) == DOMAIN prior

Gone(prior, after) == DOMAIN prior \ DOMAIN after

(* diff_snapshots: no history and no creation make a baseline; otherwise   *)
(* each logical ID is classed by its prior and its current resource.       *)
DiffSnapshots(before, after, action) ==
  LET baseline == before = NoHistory /\ action # "CREATE"
      prior == IF before = NoHistory THEN Empty ELSE before
      both == DOMAIN prior \cap DOMAIN after
      gone == Gone(prior, after)
      behind == {i \in both : LeftBehind(prior[i], after[i])}
      moved == {i \in both \ behind : Differs(prior[i], after[i])}
      unless(ids) == IF baseline THEN {} ELSE ids
  IN  [action |-> IF baseline THEN "BASELINE" ELSE action,
       before |-> before,
       after |-> after,
       added |-> unless((DOMAIN after \ DOMAIN prior) \cup behind),
       removed |-> unless({i \in gone : ~prior[i].retain}),
       changed |-> unless(moved),
       retained |-> unless(behind \cup {i \in gone : prior[i].retain}),
       unchanged |-> unless(both \ (behind \cup moved))]

(* diff_deletion *)
DiffDeletion(before) == DiffSnapshots(before, Empty, "DELETE")

ChangedMonthly(d) ==
  SumFunction([i \in d.changed |-> Counted(d.after[i]) - Counted(d.before[i])])

NetMonthly(d) ==
  TotalOf(d.after, d.added) - TotalOf(d.before, d.removed) + ChangedMonthly(d)

RetainedMonthly(d) == TotalOf(d.before, d.retained)

(* What the totals say the net change should be. *)
Expected(d) == MonthlyCost(d.after) - MonthlyCost(d.before) + RetainedMonthly(d)

(* StackDelta.reconciles *)
Reconciles(d) ==
  IF d.action = "BASELINE" THEN NetMonthly(d) = 0
                           ELSE Money(NetMonthly(d)) = Money(Expected(d))

(***************************************************************************)
(* Operations of the stack, analyzed and delivered one after the other     *)
(***************************************************************************)

Magnitude(x) == IF x < 0 THEN -x ELSE x

(* The notification threshold hides neither baselines nor failed checks. *)
Suppressed(d) ==
  /\ Threshold > 0 /\ Magnitude(NetMonthly(d)) < Threshold
  /\ d.action # "BASELINE"
  /\ Reconciles(d)

(* What really outlives the operation in CloudFormation: the physical      *)
(* resource of a logical ID that was dropped under DeletionPolicy Retain   *)
(* or replaced under UpdateReplacePolicy Retain.                           *)
Survivors(before, after) ==
  {i \in DOMAIN before :
     IF i \in DOMAIN after
     THEN /\ before[i].phys # after[i].phys
          /\ {before[i].phys, after[i].phys} \cap {NoPhysicalId} = {}
          /\ after[i].keepOld
     ELSE before[i].retain}

Book(d) ==
  IF d.action = "BASELINE"
  THEN /\ opening' = MonthlyCost(d.after)
       /\ reported' = 0
       /\ suppressed' = 0
       /\ outliving' = 0
  ELSE /\ outliving' = outliving +
            (IF d.before = NoHistory THEN 0
             ELSE TotalOf(d.before, Survivors(d.before, d.after)))
       /\ IF Suppressed(d)
          THEN suppressed' = suppressed + NetMonthly(d) /\ UNCHANGED reported
          ELSE reported' = reported + NetMonthly(d) /\ UNCHANGED suppressed
       /\ UNCHANGED opening

Init ==
  /\ resources \in ResourceSets
  /\ ops = 0
  /\ deleted = FALSE
  /\ history = NoHistory
  /\ delta = DiffSnapshots(Empty, Empty, "UPDATE")
  /\ opening = 0
  /\ reported = 0
  /\ suppressed = 0
  /\ outliving = 0

(* _analyze_current_state: diff, decide, and store the inventory whatever  *)
(* was decided; one that is too large ends the history instead.            *)
Deploy(action, after) ==
  /\ ops < MaxOps /\ ~deleted
  /\ action = "CREATE" => ops = 0
  /\ ops' = ops + 1
  /\ delta' = DiffSnapshots(history, after, action)
  /\ history' = IF DOMAIN after \in TooLarge THEN NoHistory ELSE after
  /\ Book(delta')
  /\ UNCHANGED <<resources, deleted>>

(* _analyze_deletion: always reported; without history the cost is unknown *)
(* and the delta empty.  The snapshot is retired, not lost.                *)
Teardown ==
  /\ ops < MaxOps /\ ~deleted
  /\ ops' = ops + 1
  /\ deleted' = TRUE
  /\ delta' = DiffDeletion(IF history = NoHistory THEN Empty ELSE history)
  /\ reported' = reported + NetMonthly(delta')
  /\ outliving' = outliving +
       TotalOf(delta'.before, Survivors(delta'.before, Empty))
  /\ UNCHANGED <<resources, history, opening, suppressed>>

Next ==
  \/ \E action \in {"CREATE", "UPDATE", "ROLLBACK"}, after \in SnapshotsOf(resources) :
       Deploy(action, after)
  \/ Teardown

Spec == Init /\ [][Next]_vars

(***************************************************************************)
(* Properties                                                              *)
(***************************************************************************)

(* Every variable keeps its type. *)
TypeOK ==
  /\ resources \in ResourceSets
  /\ ops \in 0..MaxOps
  /\ deleted \in BOOLEAN
  /\ history \in Snapshots \cup {NoHistory}
  /\ delta.action \in Actions \cup {"BASELINE"}
  /\ delta.before \in Snapshots \cup {NoHistory}
  /\ delta.after \in Snapshots
  /\ opening \in Nat
  /\ {reported, suppressed} \subseteq Int
  /\ outliving \in Nat

Classes(d) == <<d.added, d.removed, d.changed, d.retained, d.unchanged>>
Prior(d) == IF d.before = NoHistory THEN Empty ELSE d.before

(* The diff neither loses nor double-counts a resource: a logical ID of    *)
(* either inventory is in exactly one class, except that a replacement     *)
(* whose old resource keeps billing is both an addition and retained; and  *)
(* nothing that is retained is booked as a saving.                         *)
EveryResourceOnce ==
  delta.action # "BASELINE" =>
    /\ UNION {Classes(delta)[c] : c \in 1..5} =
         DOMAIN Prior(delta) \cup DOMAIN delta.after
    /\ \A c, d \in 1..5 : c < d =>
         \A i \in Classes(delta)[c] \cap Classes(delta)[d] :
           /\ c = 1 /\ d = 4
           /\ i \in DOMAIN Prior(delta) \cap DOMAIN delta.after
           /\ LeftBehind(Prior(delta)[i], delta.after[i])

WholeCents == \A r \in resources : r.cost % UnitsPerCent = 0

(* Over any sequence of operations the reports add up to the bill: what    *)
(* was reported or suppressed since tracking started is the change of the  *)
(* stack's cost plus the cost of what outlives it.  (Prices in whole       *)
(* cents; DriftIsBounded is about the others.)                             *)
LedgerBalances ==
  WholeCents /\ history # NoHistory =>
    reported + suppressed =
      (IF deleted THEN 0 ELSE MonthlyCost(history)) - opening + outliving

(* A delta misses less than a cent per resource it calls unchanged. *)
DriftIsBounded ==
  delta.action # "BASELINE" =>
    LET missed == Magnitude(Expected(delta) - NetMonthly(delta))
    IN  missed <= Cardinality(delta.unchanged) * (UnitsPerCent - 1)

(* "If this is ever false, the diff has lost or double-counted a resource" *)
(* (StackDelta.reconciles): it did neither, so it is never false.          *)
DeltaReconciles == Reconciles(delta)
==============================================================================
