----------------------------- MODULE MCPriceCache -----------------------------
(* A small instance of PriceCache for TLC: two regions, three days. *)
EXTENDS PriceCache, TLC

CONSTANTS a1, a2, b1, compute, storage, cheap, dear

Entry(rule, key, price) == [rule |-> rule, key |-> key, price |-> price]

TwoRules == <<{compute}, {compute, storage}>>

(* Region a: a collision on day 1, a product withdrawn on day 2.           *)
(* Region b: one rule without match on day 1, two rules sharing a key.     *)
ThreeDays ==
  << (0 :> {Entry(compute, a1, cheap), Entry(compute, a2, cheap)}
      @@ 1 :> {Entry(compute, a1, cheap), Entry(compute, a1, dear)}
      @@ 2 :> {Entry(compute, a1, dear)}),
     (0 :> {Entry(compute, b1, cheap), Entry(storage, b1, cheap)}
      @@ 1 :> {Entry(compute, b1, cheap)}
      @@ 2 :> {Entry(compute, b1, dear), Entry(storage, b1, dear)}) >>

Interchangeable == Permutations(Syncs) \cup Permutations(Readers)
==============================================================================
