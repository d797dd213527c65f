---------------------------- MODULE MCStackLedger -----------------------------
(* Small instances of StackLedger for TLC. *)
EXTENDS StackLedger

CONSTANTS p1, p2

Resource(phys, print, cost, retain, keepOld) ==
  [phys |-> phys, print |-> print, cost |-> cost, priced |-> TRUE,
   retain |-> retain, keepOld |-> keepOld]

Unpriced == [Resource(p1, "none", 0, TRUE, FALSE) EXCEPT !.priced = FALSE]

(* Whole cents: resized, repriced, replaced, retained, unpriced, without  *)
(* physical ID.                                                            *)
ManyResources ==
  { Resource(p1, "small", 4, FALSE, FALSE),
    Resource(p1, "small", 8, TRUE, FALSE),
    Resource(p1, "large", 8, FALSE, FALSE),
    Resource(p2, "small", 4, FALSE, FALSE),
    Resource(p2, "large", 12, TRUE, TRUE),
    Resource(NoPhysicalId, "large", 12, FALSE, TRUE),
    Unpriced }

(* A resource whose price moves by quarters of a cent, kept or replaced. *)
QuarterCents ==
  {Resource(p1, "small", c, FALSE, FALSE) : c \in {1, 2, 5}}
    \cup {Resource(p2, "small", 3, TRUE, TRUE), Unpriced}

Stacks == {ManyResources, QuarterCents}
==============================================================================
