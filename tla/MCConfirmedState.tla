--------------------------- MODULE MCConfirmedState --------------------------
(* Small instances of ConfirmedState for TLC. *)
EXTENDS ConfirmedState, TLC

(* Many operations under retention; and repeated failures without, where   *)
(* an inventory is too large to store.                                     *)
LongAndHard ==
  { [ops |-> 3, faults |-> 1, tooLarge |-> {}, retention |-> TRUE],
    [ops |-> 2, faults |-> 2, tooLarge |-> {2}, retention |-> FALSE],
    [ops |-> 3, faults |-> 0, tooLarge |-> {2}, retention |-> TRUE] }

WorkerSymmetry == Permutations(Workers)
==============================================================================
