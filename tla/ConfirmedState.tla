--------------------------- MODULE ConfirmedState ----------------------------
(***************************************************************************)
(* The confirmed snapshot of one CloudFormation stack: how the analyzer    *)
(* reads the live stack, diffs it against the stored snapshot, publishes   *)
(* the report and only then commits the new snapshot.                      *)
(*                                                                         *)
(* Source: src/src/analyzer/analyzer.py (analyze, _analyze_deletion,       *)
(* _analyze_current_state, commit), src/src/state/store.py                 *)
(* (DynamoStateStore), _deliver in src/src/runtime/handlers.py.            *)
(* CloudFormation is external: it runs one operation of the stack after    *)
(* the other and emits an event at the end of each.                        *)
(*                                                                         *)
(* Events are named by the number of their operation, which also orders    *)
(* their eventTime (operations of one stack end in different seconds).     *)
(* Content is the moment it was read at: 2n is the stack as operation n    *)
(* left it, 2n + 1 the stack while operation n + 1 is changing it.         *)
(***************************************************************************)
EXTENDS Integers, FiniteSets

CONSTANTS
  Workers,      \* invocations that process events of the stack
  Settings      \* the configurations considered, with the bounds of each

ASSUME ConfirmedStateAssumption ==
  \A s \in Settings :
    /\ {s.ops, s.faults} \subseteq Nat
    /\ s.tooLarge \subseteq 0..2*s.ops
    /\ s.retention \in BOOLEAN

VARIABLES
  setting,   \* one of the Settings
  kind,      \* kind[e]: the action of operation e, "none" before it starts
  live,      \* the stack's content now
  handled,   \* events acknowledged
  row,       \* the stack's item in the state table
  pc, ev, seen, before,  \* what each invocation does, and has read
  outcomes,  \* history: reports accepted and changes suppressed
  faults     \* failed or repeated attempts so far

attempt == <<pc, ev, seen, before>>
stack == <<setting, kind, live>>
vars == <<stack, handled, row, attempt, outcomes, faults>>

MaxOps == setting.ops        \* bound: operations of the stack
MaxFaults == setting.faults  \* bound: failed or repeated attempts

(* Moments at which the inventory is over MAX_ITEM_BYTES. *)
TooLarge == setting.tooLarge

(* retention_days > 0: rows are retired instead of deleted. *)
Retention == setting.retention

Events == 1..MaxOps
Moments == 0..2*MaxOps
Kinds == {"CREATE", "UPDATE", "DELETE"}

(* Template and resource list are two reads. *)
Contents == Moments \X Moments
Nothing == <<0, 0>>

(* ev = 0 is the absent item: load returns None. *)
Rows == [ev : 0..MaxOps, seen : Contents, retired : BOOLEAN]
Absent == [ev |-> 0, seen |-> Nothing, retired |-> FALSE]

Outcomes == [ev : Events, before : Rows, after : Contents, reported : BOOLEAN]

Init ==
  /\ setting \in Settings
  /\ kind = [e \in Events |-> "none"]
  /\ live = 0
  /\ handled = {}
  /\ row = Absent
  /\ pc = [w \in Workers |-> "idle"]
  /\ ev = [w \in Workers |-> 0]
  /\ seen = [w \in Workers |-> Nothing]
  /\ before = [w \in Workers |-> Absent]
  /\ outcomes = {}
  /\ faults = 0

(***************************************************************************)
(* CloudFormation                                                          *)
(***************************************************************************)

Running == live % 2 = 1
Completed == live \div 2
Emitted == 1..Completed
Deleted == Completed > 0 /\ kind[Completed] = "DELETE"

(* A stack older than the installation starts with an UPDATE or a DELETE;  *)
(* rollbacks are updates: neither is a CREATE.                             *)
StartOperation(k) ==
  /\ ~Running /\ Completed < MaxOps /\ ~Deleted
  /\ k = "CREATE" => Completed = 0
  /\ kind' = [kind EXCEPT ![Completed + 1] = k]
  /\ live' = live + 1
  /\ UNCHANGED <<setting, handled, row, attempt, outcomes, faults>>

(* The terminal status is reached and its event emitted. *)
FinishOperation ==
  /\ Running
  /\ live' = live + 1
  /\ UNCHANGED <<setting, kind, handled, row, attempt, outcomes, faults>>

(***************************************************************************)
(* Attempts to process an event                                            *)
(***************************************************************************)

Fault == faults < MaxFaults /\ faults' = faults + 1
NoFault == UNCHANGED faults

KindOf(w) == kind[ev[w]]

Idle(w) ==
  /\ pc' = [pc EXCEPT ![w] = "idle"]
  /\ ev' = [ev EXCEPT ![w] = 0]
  /\ seen' = [seen EXCEPT ![w] = Nothing]
  /\ before' = [before EXCEPT ![w] = Absent]

Done(w) == Idle(w) /\ handled' = handled \cup {ev[w]}

Goto(w, label) == pc' = [pc EXCEPT ![w] = label]

(* Mutant of Take: an event that is not terminal is processed too. *)
TakeEarly(w, e) ==
  /\ pc[w] = "idle" /\ e \in Events \ handled
  /\ \A v \in Workers : ev[v] # e
  /\ ev' = [ev EXCEPT ![w] = e]
  /\ Goto(w, IF kind[e] = "DELETE" THEN "load" ELSE "describe")
  /\ UNCHANGED <<stack, handled, row, seen, before, outcomes, faults>>

(* The claim lets one invocation at a time work on an event.               *)
Take(w, e) ==
  /\ pc[w] = "idle" /\ e \in Emitted \ handled
  /\ \A v \in Workers : ev[v] # e
  /\ ev' = [ev EXCEPT ![w] = e]
  /\ Goto(w, IF kind[e] = "DELETE" THEN "load" ELSE "describe")
  /\ UNCHANGED <<stack, handled, row, seen, before, outcomes, faults>>

(* describe_stack and get_template.  A deleted stack may no longer be      *)
(* found: the event is then skipped and nothing is persisted.              *)
Describe(w) ==
  /\ pc[w] = "describe" /\ NoFault
  /\ \/ /\ Goto(w, "list")
        /\ seen' = [seen EXCEPT ![w][1] = live]
        /\ UNCHANGED <<ev, before, handled>>
     \/ Deleted /\ Done(w)
  /\ UNCHANGED <<stack, row, outcomes>>

ListResources(w) ==
  /\ pc[w] = "list" /\ NoFault
  /\ Goto(w, "load")
  /\ seen' = [seen EXCEPT ![w][2] = live]
  /\ UNCHANGED <<stack, handled, row, ev, before, outcomes>>

(* _is_stale_event: the stored snapshot belongs to a later event.          *)
Stale(w) == ev[w] < row.ev

(* A first sighting that is not a creation: diff_snapshots answers BASELINE. *)
Baseline(w) == row.ev = 0 /\ KindOf(w) # "CREATE"

Outcome(w, old, reported) ==
  [ev |-> ev[w], before |-> old, after |-> seen[w], reported |-> reported]

(* Load, diff and decide: skip a stale event, suppress a change below the  *)
(* threshold (never a baseline or a deletion), publish the rest.           *)
Load(w) ==
  /\ pc[w] = "load" /\ NoFault
  /\ \/ /\ Stale(w) /\ Done(w)
        /\ UNCHANGED outcomes
     \/ /\ ~Stale(w) /\ Goto(w, "publish")
        /\ before' = [before EXCEPT ![w] = row]
        /\ UNCHANGED <<ev, seen, handled, outcomes>>
     \/ /\ ~Stale(w) /\ ~Baseline(w) /\ KindOf(w) # "DELETE"
        /\ Goto(w, "commit")
        /\ before' = [before EXCEPT ![w] = row]
        /\ outcomes' = outcomes \cup {Outcome(w, row, FALSE)}
        /\ UNCHANGED <<ev, seen, handled>>
  /\ UNCHANGED <<stack, row>>

(* Mutant of NotNewer: unconditional writes. *)
AnyAge(w) == TRUE

(* ConditionExpression of put, retirement and hard delete:                 *)
(* attribute_not_exists(eventTime) OR eventTime <= :eventTime.             *)
NotNewer(w) == row.ev <= ev[w]

Retired(w) == [row EXCEPT !.ev = ev[w], !.retired = TRUE]
Snapshot(w) == [ev |-> ev[w], seen |-> seen[w], retired |-> FALSE]

(* DynamoStateStore.delete; without history there is nothing to retire.    *)
DeleteRow(w) ==
  row' = IF before[w].ev # 0 /\ NotNewer(w)
         THEN IF Retention THEN Retired(w) ELSE Absent
         ELSE row

(* DynamoStateStore.save: an inventory over the limit hard-deletes the row *)
(* unconditionally; a newer row makes the put a no-op.                     *)
SaveRow(w) ==
  row' = IF seen[w][2] \in TooLarge THEN Absent
         ELSE IF NotNewer(w) THEN Snapshot(w) ELSE row

Write(w) == IF KindOf(w) = "DELETE" THEN DeleteRow(w) ELSE SaveRow(w)

(* Mutant of Publish: the snapshot is saved before the report is out. *)
PublishAfterSave(w) ==
  /\ pc[w] = "publish"
  /\ \/ /\ NoFault /\ Goto(w, "commit")
        /\ outcomes' = outcomes \cup {Outcome(w, before[w], TRUE)}
        /\ UNCHANGED <<row, ev, seen, before>>
     \/ Fault /\ Write(w) /\ Idle(w) /\ UNCHANGED outcomes
  /\ UNCHANGED <<stack, handled>>

(* SNS accepts the report; the call may raise although it did.             *)
Publish(w) ==
  /\ pc[w] = "publish"
  /\ outcomes' = outcomes \cup {Outcome(w, before[w], TRUE)}
  /\ \/ NoFault /\ Goto(w, "commit") /\ UNCHANGED <<ev, seen, before>>
     \/ Fault /\ Idle(w)
  /\ UNCHANGED <<stack, handled, row>>

(* Analyzer.commit.  A failed put that left the row at this very event     *)
(* counts as committed; any other failed write is raised, applied or not.  *)
Commit(w) ==
  /\ pc[w] = "commit"
  /\ \/ NoFault /\ Write(w) /\ Done(w)
     \/ Fault /\ Write(w) /\ Idle(w) /\ UNCHANGED handled
     \/ /\ Fault /\ KindOf(w) # "DELETE" /\ seen[w][2] \notin TooLarge
        /\ row.ev = ev[w] /\ Done(w) /\ UNCHANGED row
  /\ UNCHANGED <<stack, outcomes>>

(* A read fails, the publish is refused, the write is refused, or the      *)
(* invocation dies: the event stays on the queue.                          *)
Fail(w) ==
  /\ pc[w] # "idle" /\ Fault /\ Idle(w)
  /\ UNCHANGED <<stack, handled, row, outcomes>>

(* The invocation died, or its completion was not recorded, after the      *)
(* commit: the event is processed again once the lease has expired.        *)
Replay(e) ==
  /\ e \in handled /\ Fault
  /\ handled' = handled \ {e}
  /\ UNCHANGED <<stack, row, attempt, outcomes>>

Next ==
  \/ \E k \in Kinds : StartOperation(k)
  \/ FinishOperation
  \/ \E w \in Workers, e \in Events : Take(w, e)
  \/ \E w \in Workers :
       \/ Describe(w) \/ ListResources(w) \/ Load(w) \/ Publish(w)
       \/ Commit(w) \/ Fail(w)
  \/ \E e \in Events : Replay(e)

Spec == Init /\ [][Next]_vars

(***************************************************************************)
(* Properties                                                              *)
(***************************************************************************)

(* Every variable keeps its type. *)
TypeOK ==
  /\ setting \in Settings
  /\ kind \in [Events -> Kinds \cup {"none"}]
  /\ live \in Moments
  /\ handled \subseteq Emitted
  /\ row \in Rows
  /\ pc \in [Workers -> {"idle", "describe", "list", "load", "publish", "commit"}]
  /\ ev \in [Workers -> 0..MaxOps]
  /\ seen \in [Workers -> Contents]
  /\ before \in [Workers -> Rows]
  /\ outcomes \subseteq Outcomes
  /\ faults \in 0..MaxFaults

(* "Confirmed state advances only after every configured publisher accepts *)
(* it" (README, Publish before commit): what the row says of an event is   *)
(* what a report of that event said, or was suppressed on purpose.         *)
CommittedWasDecided ==
  row.ev # 0 =>
    \E o \in outcomes : o.ev = row.ev /\ (row.retired \/ o.after = row.seen)

(* "A publish failure can be retried against the original baseline instead *)
(* of recomputing a zero delta" (_deliver): an event is diffed against its *)
(* own snapshot only when a report against another one is already out.     *)
OwnSnapshotOnlyInReplays ==
  \A o \in outcomes : o.before.ev = o.ev =>
    \E p \in outcomes : p.ev = o.ev /\ p.before.ev # p.ev

(* Every delta starts at a state that an outcome of an earlier event has   *)
(* accounted for, or at no history at all.                                 *)
DeltasStartAtKnownStates ==
  \A o \in outcomes : o.before.ev # 0 =>
    \E p \in outcomes :
      /\ p.ev = o.before.ev
      /\ o.before.retired \/ p.after = o.before.seen

(* Two reports start at the same snapshot, and so both show what moved     *)
(* since, only if their events are processed at the same time: an event    *)
(* that is acknowledged has moved the row on from where its report         *)
(* started, and the next load cannot start there again (inventories that   *)
(* fit the table, and until a deletion, after which events may be skipped).*)
BaselineUsedOnce ==
  TooLarge = {} /\ ~Deleted =>
    \A p \in outcomes : p.ev \in handled /\ p.ev # row.ev => p.before.ev # row.ev

Quiet ==
  ~Running /\ handled = Emitted /\ \A w \in Workers : pc[w] = "idle"

(* When every event has been handled, in whatever order, concurrently and  *)
(* however often, the row holds the stack as its last operation left it    *)
(* (inventories that fit the table; another one leaves no row behind, and  *)
(* a late older event may then put its own there).                         *)
Converged ==
  TooLarge = {} /\ Quiet /\ Completed > 0 /\ ~Deleted =>
    row = [ev |-> Completed, seen |-> <<live, live>>, retired |-> FALSE]

(* A retired snapshot stays retired: no late event of the stack turns it   *)
(* back into a row that never expires.                                     *)
RetiredStaysRetired ==
  [][row.retired => row'.retired \/ row' = Absent]_vars
==============================================================================
