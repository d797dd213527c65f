-------------------------- MODULE StackLedger_proofs --------------------------
(***************************************************************************)
(* The diff of StackLedger loses no resource and counts none twice, and    *)
(* the reports of a stack add up to its bill, for every set of logical     *)
(* IDs, every inventory and every sequence of operations.                  *)
(*                                                                         *)
(* Totals are sums over inventories of any size.  What the sums compute is *)
(* shown by induction over sets: a set of naturals that has 0 and, with n, *)
(* n + 1 has all (NaturalsReached); a set of subsets of S that has each    *)
(* one whose smaller ones it has, has S (SubsetsReached).                  *)
(***************************************************************************)
EXTENDS StackLedger, FiniteSetTheorems, WellFoundedInduction, TLAPS

(***************************************************************************)
(* Induction, and sums                                                     *)
(***************************************************************************)

(* The element a sum adds first: any. *)
PickOf(s) == CHOOSE x \in s : TRUE

(* A set that is not empty has a first element. *)
LEMMA PickIsMember ==
  ASSUME NEW s, s # {}
  PROVE  PickOf(s) \in s
  BY Zenon DEF PickOf

(* g has the sum of fun over each subset of S. *)
Accumulates(fun, S, g) ==
  g = [s \in SUBSET S |->
         IF s = {} THEN 0 ELSE fun[PickOf(s)] + g[s \ {PickOf(s)}]]

(* The sum of the library is the accumulated one. *)
LEMMA SumIsAccumulated ==
  ASSUME NEW fun, NEW S
  PROVE  SumFunctionOnSet(fun, S) = (CHOOSE g : Accumulates(fun, S, g))[S]
  BY Zenon DEF SumFunctionOnSet, FoldFunctionOnSet, MapThenFoldSet, Accumulates, PickOf

(* Induction over the naturals: the least one missed would have a          *)
(* predecessor that is not.                                                *)
LEMMA NaturalsReached ==
  ASSUME NEW Reached, 0 \in Reached,
         \A n \in Nat : n \in Reached => n + 1 \in Reached
  PROVE  Nat \subseteq Reached
<1> DEFINE missed == Nat \ Reached
<1> SUFFICES ASSUME missed # {}
             PROVE  FALSE
  OBVIOUS
<1> DEFINE less == {p \in Nat \X Nat : p[1] < p[2]}
<1>1. PICK n \in missed : \A m \in missed : ~ (<<m, n>> \in less)
  <2>1. missed \subseteq Nat
    OBVIOUS
  <2>2. IsWellFoundedOn(less, Nat)
    BY NatLessThanWellFounded DEF OpToRel
  <2> HIDE DEF missed, less
  <2> QED
    BY <2>1, <2>2, WFMin
<1>2. n \in Nat /\ n # 0 /\ n - 1 \in Nat
  OBVIOUS
<1>3. n - 1 \notin missed
  <2>1. n - 1 < n
    BY <1>2
  <2>2. <<n - 1, n>> \in less
    BY <1>2, <2>1
  <2> QED
    BY <1>1, <2>2
<1> QED
  BY <1>2, <1>3

(* Induction over the subsets of a finite set, by their size. *)
LEMMA SubsetsReached ==
  ASSUME NEW S, IsFiniteSet(S), NEW Reached,
         \A T \in SUBSET S : (\A x \in T : T \ {x} \in Reached) => T \in Reached
  PROVE  S \in Reached
<1> DEFINE sizes == {n \in Nat : \A T \in SUBSET S : Cardinality(T) <= n => T \in Reached}
<1>0. \A T \in SUBSET S : IsFiniteSet(T) /\ Cardinality(T) \in Nat
  BY FS_Subset, FS_CardinalityType
<1>1. 0 \in sizes
  <2> SUFFICES ASSUME NEW T \in SUBSET S, Cardinality(T) <= 0
               PROVE  T \in Reached
    OBVIOUS
  <2>1. T = {}
    BY <1>0, FS_EmptySet
  <2> QED
    BY <2>1
<1>2. ASSUME NEW n \in Nat, n \in sizes
      PROVE  n + 1 \in sizes
  <2> SUFFICES ASSUME NEW T \in SUBSET S, Cardinality(T) <= n + 1
               PROVE  T \in Reached
    BY <1>2
  <2>1. ASSUME NEW x \in T
        PROVE  T \ {x} \in Reached
    <3>1. Cardinality(T \ {x}) = Cardinality(T) - 1
      BY <1>0, FS_RemoveElement
    <3>2. Cardinality(T \ {x}) <= n
      BY <1>0, <3>1
    <3> QED
      BY <1>2, <3>2
  <2> QED
    BY <2>1
<1> HIDE DEF sizes
<1>3. Nat \subseteq sizes
  BY <1>1, <1>2, NaturalsReached
<1> QED
  BY <1>0, <1>3 DEF sizes

(* Sums over the subsets of a finite set exist: those over subsets of at   *)
(* most n + 1 elements are made of those over at most n.                   *)
LEMMA AccumulatorExists ==
  ASSUME NEW fun, NEW S, IsFiniteSet(S)
  PROVE  \E g : Accumulates(fun, S, g)
<1> DEFINE upTo(n) == {s \in SUBSET S : Cardinality(s) <= n}
           fills(n, g) ==
             g = [s \in upTo(n) |->
                    IF s = {} THEN 0 ELSE fun[PickOf(s)] + g[s \ {PickOf(s)}]]
           reached == {n \in Nat : \E g : fills(n, g)}
<1>0. \A T \in SUBSET S : IsFiniteSet(T) /\ Cardinality(T) \in Nat
  BY FS_Subset, FS_CardinalityType
<1>1. 0 \in reached
  <2>1. \A s \in upTo(0) : s = {}
    BY <1>0, FS_EmptySet
  <2>2. fills(0, [s \in upTo(0) |-> 0])
    BY <2>1
  <2> QED
    BY <2>2
<1>2. ASSUME NEW n \in Nat, n \in reached
      PROVE  n + 1 \in reached
  <2>1. PICK g : fills(n, g)
    BY <1>2
  <2> DEFINE h == [s \in upTo(n + 1) |->
                     IF s = {} THEN 0 ELSE fun[PickOf(s)] + g[s \ {PickOf(s)}]]
  <2>2. ASSUME NEW s \in upTo(n + 1), s # {}
        PROVE  h[s \ {PickOf(s)}] = g[s \ {PickOf(s)}]
    <3> DEFINE t == s \ {PickOf(s)}
    <3>1. Cardinality(t) = Cardinality(s) - 1
      BY <1>0, <2>2, PickIsMember, FS_RemoveElement
    <3>2. t \in upTo(n) /\ t \in upTo(n + 1)
      BY <1>0, <3>1
    <3> HIDE DEF t, upTo
    <3>3. h[t] = IF t = {} THEN 0 ELSE fun[PickOf(t)] + g[t \ {PickOf(t)}]
      BY <3>2
    <3>4. g[t] = IF t = {} THEN 0 ELSE fun[PickOf(t)] + g[t \ {PickOf(t)}]
      BY <3>2, <2>1
    <3> QED
      BY <3>3, <3>4 DEF t
  <2>3. fills(n + 1, h)
    <3> HIDE DEF upTo
    <3> QED
      BY <2>2
  <2>4. \E f : fills(n + 1, f)
    <3> HIDE DEF fills, h
    <3> QED
      BY <2>3
  <2> HIDE DEF fills
  <2> QED
    BY <2>4
<1>3. Cardinality(S) \in reached
  <2> HIDE DEF reached
  <2>1. Nat \subseteq reached
    BY <1>1, <1>2, NaturalsReached
  <2> QED
    BY <1>0, <2>1
<1>4. PICK g : fills(Cardinality(S), g)
  BY <1>3
<1>5. upTo(Cardinality(S)) = SUBSET S
  BY FS_Subset
<1> QED
  BY <1>4, <1>5 DEF Accumulates

(* Accumulated over a larger set, the sum over a subset is the same. *)
LEMMA AccumulatorsAgree ==
  ASSUME NEW fun, NEW S, NEW T \in SUBSET S, IsFiniteSet(T),
         NEW g, Accumulates(fun, S, g),
         NEW h, Accumulates(fun, T, h)
  PROVE  g[T] = h[T]
<1> DEFINE same == {U \in SUBSET T : g[U] = h[U]}
<1>1. ASSUME NEW U \in SUBSET T, \A x \in U : U \ {x} \in same
      PROVE  U \in same
  <2>1. g[U] = IF U = {} THEN 0 ELSE fun[PickOf(U)] + g[U \ {PickOf(U)}]
    BY DEF Accumulates
  <2>2. h[U] = IF U = {} THEN 0 ELSE fun[PickOf(U)] + h[U \ {PickOf(U)}]
    BY DEF Accumulates
  <2>3. U # {} => g[U \ {PickOf(U)}] = h[U \ {PickOf(U)}]
    BY <1>1, PickIsMember
  <2> QED
    BY <2>1, <2>2, <2>3
<1> HIDE DEF same
<1>2. T \in same
  <2>1. \A U \in SUBSET T : (\A x \in U : U \ {x} \in same) => U \in same
    BY <1>1
  <2> QED
    BY <2>1, SubsetsReached
<1> QED
  BY <1>2 DEF same

(* The sum of nothing. *)
LEMMA SumOfNone ==
  ASSUME NEW fun
  PROVE  SumFunctionOnSet(fun, {}) = 0
<1> DEFINE g == CHOOSE g : Accumulates(fun, {}, g)
<1>1. Accumulates(fun, {}, g)
  BY AccumulatorExists, FS_EmptySet
<1> HIDE DEF g
<1>2. g[{}] = 0
  BY <1>1 DEF Accumulates
<1> QED
  BY <1>2, SumIsAccumulated DEF g

(* The element picked, and the rest. *)
LEMMA SumOfPicked ==
  ASSUME NEW fun, NEW S, IsFiniteSet(S), S # {}
  PROVE  SumFunctionOnSet(fun, S) =
           fun[PickOf(S)] + SumFunctionOnSet(fun, S \ {PickOf(S)})
<1> DEFINE rest == S \ {PickOf(S)}
           g == CHOOSE g : Accumulates(fun, S, g)
           h == CHOOSE h : Accumulates(fun, rest, h)
<1>1. Accumulates(fun, S, g)
  BY AccumulatorExists
<1>2. IsFiniteSet(rest)
  BY FS_Subset
<1>3. Accumulates(fun, rest, h)
  <2> HIDE DEF rest
  <2> QED
    BY <1>2, AccumulatorExists
<1>4. SumFunctionOnSet(fun, S) = g[S] /\ SumFunctionOnSet(fun, rest) = h[rest]
  BY SumIsAccumulated
<1> HIDE DEF g, h
<1>5. g[S] = fun[PickOf(S)] + g[rest]
  BY <1>1 DEF Accumulates
<1>6. g[rest] = h[rest]
  <2>1. rest \in SUBSET S
    OBVIOUS
  <2> HIDE DEF rest
  <2> QED
    BY <1>1, <1>2, <1>3, <2>1, AccumulatorsAgree
<1> QED
  BY <1>4, <1>5, <1>6

(* Sums of integers are integers. *)
LEMMA SumIsAnInteger ==
  ASSUME NEW fun, NEW S, IsFiniteSet(S), \A i \in S : fun[i] \in Int
  PROVE  SumFunctionOnSet(fun, S) \in Int
<1> DEFINE summed == {T \in SUBSET S : SumFunctionOnSet(fun, T) \in Int}
<1>1. ASSUME NEW T \in SUBSET S, \A x \in T : T \ {x} \in summed
      PROVE  T \in summed
  <2>1. IsFiniteSet(T)
    BY FS_Subset
  <2>2. T # {} => /\ PickOf(T) \in T
                  /\ SumFunctionOnSet(fun, T) =
                       fun[PickOf(T)] + SumFunctionOnSet(fun, T \ {PickOf(T)})
    BY <2>1, PickIsMember, SumOfPicked
  <2> QED
    BY <1>1, <2>2, SumOfNone
<1> HIDE DEF summed
<1>2. S \in summed
  <2>1. \A T \in SUBSET S : (\A x \in T : T \ {x} \in summed) => T \in summed
    BY <1>1
  <2> QED
    BY <2>1, SubsetsReached
<1> QED
  BY <1>2 DEF summed

(* Sums of naturals are naturals. *)
LEMMA SumIsNatural ==
  ASSUME NEW fun, NEW S, IsFiniteSet(S), \A i \in S : fun[i] \in Nat
  PROVE  SumFunctionOnSet(fun, S) \in Nat
<1> DEFINE summed == {T \in SUBSET S : SumFunctionOnSet(fun, T) \in Nat}
<1>1. ASSUME NEW T \in SUBSET S, \A x \in T : T \ {x} \in summed
      PROVE  T \in summed
  <2>1. IsFiniteSet(T)
    BY FS_Subset
  <2>2. T # {} => /\ PickOf(T) \in T
                  /\ SumFunctionOnSet(fun, T) =
                       fun[PickOf(T)] + SumFunctionOnSet(fun, T \ {PickOf(T)})
    BY <2>1, PickIsMember, SumOfPicked
  <2> QED
    BY <1>1, <2>2, SumOfNone
<1> HIDE DEF summed
<1>2. S \in summed
  <2>1. \A T \in SUBSET S : (\A x \in T : T \ {x} \in summed) => T \in summed
    BY <1>1
  <2> QED
    BY <2>1, SubsetsReached
<1> QED
  BY <1>2 DEF summed

(* Whichever element is taken first, the sum is the same. *)
LEMMA SumOfOneMore ==
  ASSUME NEW fun, NEW S, IsFiniteSet(S), \A i \in S : fun[i] \in Int,
         NEW x \in S
  PROVE  SumFunctionOnSet(fun, S) = fun[x] + SumFunctionOnSet(fun, S \ {x})
<1> DEFINE sum(T) == SumFunctionOnSet(fun, T)
           open == {T \in SUBSET S : \A y \in T : sum(T) = fun[y] + sum(T \ {y})}
<1>1. ASSUME NEW T \in SUBSET S, \A y \in T : T \ {y} \in open
      PROVE  T \in open
  <2> SUFFICES ASSUME NEW y \in T
               PROVE  sum(T) = fun[y] + sum(T \ {y})
    OBVIOUS
  <2> DEFINE z == PickOf(T)
             T1 == T \ {y}
             T2 == T \ {z}
             rest == T \ {y, z}
  <2>0. /\ IsFiniteSet(T) /\ IsFiniteSet(T1) /\ IsFiniteSet(T2) /\ IsFiniteSet(rest)
        /\ T1 \in SUBSET S /\ T2 \in SUBSET S /\ rest \in SUBSET S
    BY FS_Subset
  <2>1. z \in T
    BY PickIsMember
  <2>2. sum(T) = fun[z] + sum(T2)
    BY <2>0, SumOfPicked
  <2>3. CASE z = y
    BY <2>2, <2>3
  <2>4. CASE z # y
    <3>1. T1 \in open /\ T2 \in open
      BY <1>1, <2>1
    <3>2. T1 \ {z} = rest /\ T2 \ {y} = rest /\ z \in T1 /\ y \in T2
      BY <2>1, <2>4
    <3>3. sum(T1) = fun[z] + sum(rest) /\ sum(T2) = fun[y] + sum(rest)
      <4> HIDE DEF z, T1, T2, rest, sum
      <4> QED
        BY <3>1, <3>2
    <3>4. sum(rest) \in Int /\ fun[y] \in Int /\ fun[z] \in Int
      <4>1. sum(rest) \in Int
        <5> HIDE DEF rest
        <5> QED
          BY <2>0, SumIsAnInteger
      <4> QED
        BY <2>1, <4>1
    <3> HIDE DEF z, T1, T2, rest, sum
    <3>5. sum(T) = fun[y] + sum(T1)
      BY <2>2, <3>3, <3>4
    <3> QED
      BY <3>5 DEF T1
  <2> QED
    BY <2>3, <2>4
<1> HIDE DEF open
<1>2. S \in open
  <2>1. \A T \in SUBSET S : (\A y \in T : T \ {y} \in open) => T \in open
    BY <1>1
  <2> QED
    BY <2>1, SubsetsReached
<1> QED
  BY <1>2 DEF open

(* Equal terms have equal sums. *)
LEMMA SumsAgree ==
  ASSUME NEW f, NEW g, NEW S, IsFiniteSet(S), \A i \in S : f[i] = g[i]
  PROVE  SumFunctionOnSet(f, S) = SumFunctionOnSet(g, S)
<1> DEFINE same == {T \in SUBSET S : SumFunctionOnSet(f, T) = SumFunctionOnSet(g, T)}
<1>1. ASSUME NEW T \in SUBSET S, \A x \in T : T \ {x} \in same
      PROVE  T \in same
  <2>1. IsFiniteSet(T)
    BY FS_Subset
  <2>2. T # {} =>
          /\ PickOf(T) \in T
          /\ SumFunctionOnSet(f, T) = f[PickOf(T)] + SumFunctionOnSet(f, T \ {PickOf(T)})
          /\ SumFunctionOnSet(g, T) = g[PickOf(T)] + SumFunctionOnSet(g, T \ {PickOf(T)})
    BY <2>1, PickIsMember, SumOfPicked
  <2> QED
    BY <1>1, <2>2, SumOfNone
<1> HIDE DEF same
<1>2. S \in same
  <2>1. \A T \in SUBSET S : (\A x \in T : T \ {x} \in same) => T \in same
    BY <1>1
  <2> QED
    BY <2>1, SubsetsReached
<1> QED
  BY <1>2 DEF same

(* The sum over two disjoint sets. *)
LEMMA SumOfDisjoint ==
  ASSUME NEW f, NEW A, NEW B, IsFiniteSet(A), IsFiniteSet(B), A \cap B = {},
         \A i \in A \cup B : f[i] \in Int
  PROVE  SumFunctionOnSet(f, A \cup B) = SumFunctionOnSet(f, A) + SumFunctionOnSet(f, B)
<1> DEFINE sum(T) == SumFunctionOnSet(f, T)
           split == {T \in SUBSET B : sum(A \cup T) = sum(A) + sum(T)}
<1>1. ASSUME NEW T \in SUBSET B, \A x \in T : T \ {x} \in split
      PROVE  T \in split
  <2>1. IsFiniteSet(T) /\ IsFiniteSet(A \cup T)
    BY FS_Subset, FS_Union
  <2>2. CASE T = {}
    <3>1. sum(T) = 0 /\ sum(A) \in Int
      BY <2>2, SumOfNone, SumIsAnInteger
    <3>a. A \cup T = A
      BY <2>2
    <3>b. sum(A \cup T) = sum(A)
      BY Zenon, <3>a
    <3> HIDE DEF sum
    <3>2. sum(A \cup T) = sum(A) + sum(T)
      BY <3>1, <3>b
    <3> QED
      BY <3>2 DEF split
  <2>3. CASE T # {}
    <3>1. PICK x : x \in T
      BY <2>3
    <3> DEFINE rest == T \ {x}
    <3>2. sum(T) = f[x] + sum(rest)
      BY <2>1, <3>1, SumOfOneMore
    <3>3. sum(A \cup T) = f[x] + sum((A \cup T) \ {x})
      BY <2>1, <3>1, SumOfOneMore
    <3>a. (A \cup T) \ {x} = A \cup rest
      BY <3>1
    <3>4. sum((A \cup T) \ {x}) = sum(A \cup rest)
      BY Zenon, <3>a
    <3>5. sum(A \cup rest) = sum(A) + sum(rest)
      BY <1>1, <3>1
    <3>6. /\ sum(A) \in Int /\ f[x] \in Int
      BY <3>1, SumIsAnInteger
    <3>7. sum(rest) \in Int
      <4>1. IsFiniteSet(rest) /\ rest \subseteq B
        BY <2>1, FS_RemoveElement
      <4> HIDE DEF rest
      <4> QED
        BY <4>1, SumIsAnInteger
    <3> HIDE DEF sum, rest
    <3>8. sum(A \cup T) = sum(A) + sum(T)
      BY <3>2, <3>3, <3>4, <3>5, <3>6, <3>7
    <3> QED
      BY <3>8 DEF split
  <2> QED
    BY <2>2, <2>3
<1> HIDE DEF split
<1>2. B \in split
  <2>1. \A T \in SUBSET B : (\A x \in T : T \ {x} \in split) => T \in split
    BY <1>1
  <2> QED
    BY <2>1, SubsetsReached
<1> QED
  BY <1>2 DEF split

(* The sum of differences is the difference of the sums. *)
LEMMA SumOfDifferences ==
  ASSUME NEW f, NEW g, NEW h, NEW S, IsFiniteSet(S),
         \A i \in S : f[i] \in Int /\ g[i] \in Int /\ h[i] = f[i] - g[i]
  PROVE  SumFunctionOnSet(h, S) = SumFunctionOnSet(f, S) - SumFunctionOnSet(g, S)
<1> DEFINE sum(k, T) == SumFunctionOnSet(k, T)
           equal == {T \in SUBSET S : sum(h, T) = sum(f, T) - sum(g, T)}
<1>1. ASSUME NEW T \in SUBSET S, \A x \in T : T \ {x} \in equal
      PROVE  T \in equal
  <2>1. IsFiniteSet(T)
    BY FS_Subset
  <2>2. CASE T = {}
    BY <2>2, SumOfNone
  <2>3. CASE T # {}
    <3>1. PICK x : x \in T
      BY <2>3
    <3> DEFINE rest == T \ {x}
    <3>0. IsFiniteSet(rest) /\ rest \subseteq S
      BY <2>1, FS_RemoveElement
    <3>2. /\ sum(f, T) = f[x] + sum(f, rest)
          /\ sum(g, T) = g[x] + sum(g, rest)
          /\ sum(h, T) = h[x] + sum(h, rest)
      BY <2>1, <3>1, SumOfOneMore
    <3>3. sum(h, rest) = sum(f, rest) - sum(g, rest)
      BY <1>1, <3>1
    <3>4. sum(f, rest) \in Int /\ sum(g, rest) \in Int
      <4> HIDE DEF rest
      <4> QED
        BY <3>0, SumIsAnInteger
    <3>5. f[x] \in Int /\ g[x] \in Int /\ h[x] = f[x] - g[x]
      BY <3>1
    <3> HIDE DEF sum, rest
    <3>6. sum(h, T) = sum(f, T) - sum(g, T)
      BY <3>2, <3>3, <3>4, <3>5
    <3> QED
      BY <3>6 DEF equal
  <2> QED
    BY <2>2, <2>3
<1> HIDE DEF equal
<1>2. S \in equal
  <2>1. \A T \in SUBSET S : (\A x \in T : T \ {x} \in equal) => T \in equal
    BY <1>1
  <2> QED
    BY <2>1, SubsetsReached
<1> QED
  BY <1>2 DEF equal

(* Bounds on the terms bound the sum. *)
LEMMA SumIsBounded ==
  ASSUME NEW f, NEW S, IsFiniteSet(S), NEW low \in Int, NEW high \in Int,
         \A i \in S : f[i] \in low..high
  PROVE  SumFunctionOnSet(f, S) \in (Cardinality(S) * low)..(Cardinality(S) * high)
<1> DEFINE sum(T) == SumFunctionOnSet(f, T)
           within == {T \in SUBSET S :
                        sum(T) \in (Cardinality(T) * low)..(Cardinality(T) * high)}
<1>1. ASSUME NEW T \in SUBSET S, \A x \in T : T \ {x} \in within
      PROVE  T \in within
  <2>1. IsFiniteSet(T)
    BY FS_Subset
  <2>2. CASE T = {}
    <3>1. Cardinality(T) = 0 /\ sum(T) = 0
      BY <2>2, SumOfNone, FS_EmptySet
    <3> QED
      BY <3>1
  <2>3. CASE T # {}
    <3>1. PICK x : x \in T
      BY <2>3
    <3> DEFINE rest == T \ {x}
               n == Cardinality(rest)
    <3>0. n \in Nat /\ Cardinality(T) = n + 1
      <4>1. /\ IsFiniteSet(rest)
            /\ Cardinality(rest) = Cardinality(T) - 1
        BY <2>1, <3>1, FS_RemoveElement
      <4>2. Cardinality(T) \in Nat
        BY <2>1, FS_CardinalityType
      <4> HIDE DEF rest
      <4>3. Cardinality(rest) \in Nat
        BY <4>1, FS_CardinalityType
      <4> QED
        BY <4>1, <4>2, <4>3
    <3>2. sum(T) = f[x] + sum(rest)
      BY <2>1, <3>1, SumOfOneMore
    <3>3. sum(rest) \in (n * low)..(n * high)
      BY <1>1, <3>1
    <3>4. f[x] \in low..high
      BY <3>1
    <3> HIDE DEF sum, rest, n
    <3>5. (n + 1) * low = n * low + low /\ (n + 1) * high = n * high + high
      BY <3>0
    <3>6. n * low \in Int /\ n * high \in Int
      BY <3>0
    <3>7. sum(T) \in (Cardinality(T) * low)..(Cardinality(T) * high)
      BY <3>0, <3>2, <3>3, <3>4, <3>5, <3>6
    <3> QED
      BY <3>7 DEF within
  <2> QED
    BY <2>2, <2>3
<1> HIDE DEF within
<1>2. S \in within
  <2>1. \A T \in SUBSET S : (\A x \in T : T \ {x} \in within) => T \in within
    BY <1>1
  <2> QED
    BY <2>1, SubsetsReached
<1> QED
  BY <1>2 DEF within

(***************************************************************************)
(* The diff                                                                *)
(***************************************************************************)

(* The last delta is the diff of two inventories, or of none and one. *)
DeltaIsADiff ==
  /\ resources \in ResourceSets
  /\ history \in Snapshots \cup {NoHistory}
  /\ \E before \in Snapshots \cup {NoHistory}, after \in Snapshots :
       \E action \in Actions : delta = DiffSnapshots(before, after, action)

(* The empty inventory is an inventory. *)
LEMMA EmptyIsASnapshot == Empty \in Snapshots
<1>1. Empty \in [{} -> Resources]
  BY DEF Empty
<1>2. {} \in SUBSET Ids
  OBVIOUS
<1> QED
  BY <1>1, <1>2 DEF Snapshots, SnapshotsOf

(* Inventories of one stack are inventories. *)
LEMMA SnapshotsOfOneStack ==
  ASSUME NEW some \in ResourceSets
  PROVE  SnapshotsOf(some) \subseteq Snapshots
<1>1. some \subseteq Resources
  BY DEF Resources
<1>2. ASSUME NEW S \in SUBSET Ids
      PROVE  [S -> some] \subseteq [S -> Resources]
  BY <1>1
<1> QED
  BY <1>2 DEF Snapshots, SnapshotsOf

(* Whatever diff_snapshots is given, each logical ID lands in one class. *)
LEMMA DiffClassesEachOnce ==
  ASSUME NEW before \in Snapshots \cup {NoHistory},
         NEW after \in Snapshots,
         NEW action \in Actions,
         delta = DiffSnapshots(before, after, action)
  PROVE  EveryResourceOnce
<1> DEFINE old == IF before = NoHistory THEN Empty ELSE before
           both == DOMAIN old \cap DOMAIN after
           gone == DOMAIN old \ DOMAIN after
           behind == {i \in both : LeftBehind(old[i], after[i])}
           moved == {i \in both \ behind : Differs(old[i], after[i])}
<1>1. SUFFICES ASSUME delta.action # "BASELINE"
               PROVE  EveryResourceOnce
  BY DEF EveryResourceOnce
<1>2. delta.before = before /\ delta.after = after
  BY DEF DiffSnapshots
<1>3. Prior(delta) = old
  BY <1>2 DEF Prior
<1>4. ~(before = NoHistory /\ action # "CREATE")
  BY <1>1 DEF DiffSnapshots
<1>5. /\ delta.added = (DOMAIN after \ DOMAIN old) \cup behind
      /\ delta.removed = {i \in gone : ~old[i].retain}
      /\ delta.changed = moved
      /\ delta.retained = behind \cup {i \in gone : old[i].retain}
      /\ delta.unchanged = both \ (behind \cup moved)
  BY <1>4 DEF DiffSnapshots, Gone
<1> DEFINE once == Classes(delta)
<1>6. /\ once[1] = (DOMAIN after \ DOMAIN old) \cup behind
      /\ once[2] = {i \in gone : ~old[i].retain}
      /\ once[3] = moved
      /\ once[4] = behind \cup {i \in gone : old[i].retain}
      /\ once[5] = both \ (behind \cup moved)
  BY <1>5 DEF Classes
<1> HIDE DEF once
<1>7. UNION {once[c] : c \in 1..5} =
        once[1] \cup once[2] \cup once[3] \cup once[4] \cup once[5]
  OBVIOUS
<1>8. once[1] \cup once[2] \cup once[3] \cup once[4] \cup once[5]
        = DOMAIN old \cup DOMAIN after
  BY <1>6
<1>9. ASSUME NEW c \in 1..5, NEW d \in 1..5, c < d,
             NEW i \in once[c] \cap once[d]
      PROVE  /\ c = 1 /\ d = 4
             /\ i \in both
             /\ LeftBehind(old[i], after[i])
  <2>1. c \in {1, 2, 3, 4} /\ d \in {2, 3, 4, 5}
    BY <1>9
  <2>2. i \in once[c] /\ i \in once[d]
    OBVIOUS
  <2> QED
    BY <1>6, <1>9, <2>1, <2>2
<1> HIDE DEF old
<1> QED
  BY <1>2, <1>3, <1>7, <1>8, <1>9 DEF EveryResourceOnce, once

(* EveryResourceOnce, over every sequence of operations: each report's     *)
(* delta classes every logical ID of the two inventories it compares       *)
(* exactly once (diff_snapshots).                                          *)
THEOREM EveryResourceOnceHolds == Spec => []EveryResourceOnce
<1>1. Init => DeltaIsADiff
  BY EmptyIsASnapshot DEF Init, DeltaIsADiff, Actions
<1>2. DeltaIsADiff /\ [Next]_vars => DeltaIsADiff'
  <2> SUFFICES ASSUME DeltaIsADiff, [Next]_vars
               PROVE  DeltaIsADiff'
    OBVIOUS
  <2>1. ASSUME NEW action \in {"CREATE", "UPDATE", "ROLLBACK"},
               NEW after \in SnapshotsOf(resources),
               Deploy(action, after)
        PROVE  DeltaIsADiff'
    <3>1. after \in Snapshots
      BY SnapshotsOfOneStack DEF DeltaIsADiff
    <3> QED
      BY <2>1, <3>1 DEF DeltaIsADiff, Deploy, Actions
  <2>2. ASSUME Teardown
        PROVE  DeltaIsADiff'
    BY <2>2, EmptyIsASnapshot DEF DeltaIsADiff, Teardown, DiffDeletion, Actions
  <2>3. CASE UNCHANGED vars
    BY <2>3 DEF DeltaIsADiff, vars
  <2> QED
    BY <2>1, <2>2, <2>3 DEF Next
<1>3. DeltaIsADiff => EveryResourceOnce
  BY DiffClassesEachOnce DEF DeltaIsADiff
<1> QED
  BY <1>1, <1>2, <1>3, PTL DEF Spec

(***************************************************************************)
(* Totals                                                                  *)
(***************************************************************************)

(* What each resource counts. *)
Costs(snapshot) == [i \in DOMAIN snapshot |-> Counted(snapshot[i])]

(* Costs are natural numbers, whether or not the resource is priced. *)
LEMMA CostIsCounted ==
  ASSUME NEW r \in Resources
  PROVE  /\ Counted(r) = r.cost
         /\ r.cost \in Nat
BY ResourcesAssumption DEF Counted

(* An inventory has finitely many resources. *)
LEMMA SnapshotIsFinite ==
  ASSUME NEW snapshot \in Snapshots
  PROVE  /\ IsFiniteSet(DOMAIN snapshot)
         /\ \A i \in DOMAIN snapshot : snapshot[i] \in Resources
<1>1. PICK S \in SUBSET Ids : snapshot \in [S -> Resources]
  BY DEF Snapshots, SnapshotsOf
<1> QED
  BY <1>1, LedgerAssumption, FS_Subset

(* total_of is the sum of the costs. *)
LEMMA TotalIsSum ==
  ASSUME NEW snapshot \in Snapshots, NEW ids \in SUBSET DOMAIN snapshot
  PROVE  TotalOf(snapshot, ids) = SumFunctionOnSet(Costs(snapshot), ids)
<1> DEFINE some == [i \in ids |-> Counted(snapshot[i])]
<1>1. IsFiniteSet(ids)
  BY SnapshotIsFinite, FS_Subset
<1>2. \A i \in ids : some[i] = Costs(snapshot)[i]
  BY DEF Costs
<1>3. DOMAIN some = ids
  OBVIOUS
<1>4. TotalOf(snapshot, ids) = SumFunctionOnSet(some, ids)
  BY Zenon, <1>3 DEF TotalOf, SumFunction
<1> HIDE DEF some
<1>5. SumFunctionOnSet(some, ids) = SumFunctionOnSet(Costs(snapshot), ids)
  BY <1>1, <1>2, SumsAgree
<1> QED
  BY <1>4, <1>5

(* No resource has a negative cost. *)
LEMMA CostsAreNatural ==
  ASSUME NEW snapshot \in Snapshots
  PROVE  \A i \in DOMAIN snapshot : Costs(snapshot)[i] \in Nat
BY SnapshotIsFinite, CostIsCounted DEF Costs

(* No total is negative. *)
LEMMA TotalIsNatural ==
  ASSUME NEW snapshot \in Snapshots, NEW ids \in SUBSET DOMAIN snapshot
  PROVE  TotalOf(snapshot, ids) \in Nat
<1>1. IsFiniteSet(ids)
  BY SnapshotIsFinite, FS_Subset
<1>2. \A i \in ids : Costs(snapshot)[i] \in Nat
  BY CostsAreNatural
<1> DEFINE total == SumFunctionOnSet(Costs(snapshot), ids)
<1>3. total \in Nat
  BY <1>1, <1>2, SumIsNatural
<1> QED
  BY <1>3, TotalIsSum

(* The total of no resources. *)
LEMMA TotalOfNothing ==
  ASSUME NEW snapshot
  PROVE  TotalOf(snapshot, {}) = 0
<1>1. DOMAIN [i \in {} |-> Counted(snapshot[i])] = {}
  OBVIOUS
<1> QED
  BY Zenon, <1>1, SumOfNone DEF TotalOf, SumFunction

(* total_of over two parts of an inventory. *)
LEMMA TotalOfParts ==
  ASSUME NEW snapshot \in Snapshots,
         NEW A \in SUBSET DOMAIN snapshot, NEW B \in SUBSET DOMAIN snapshot,
         A \cap B = {}
  PROVE  TotalOf(snapshot, A \cup B) = TotalOf(snapshot, A) + TotalOf(snapshot, B)
<1>1. IsFiniteSet(A) /\ IsFiniteSet(B)
  BY SnapshotIsFinite, FS_Subset
<1>2. \A i \in A \cup B : Costs(snapshot)[i] \in Int
  BY CostsAreNatural
<1>3. SumFunctionOnSet(Costs(snapshot), A \cup B)
        = SumFunctionOnSet(Costs(snapshot), A) + SumFunctionOnSet(Costs(snapshot), B)
  BY <1>1, <1>2, SumOfDisjoint
<1>4. A \cup B \in SUBSET DOMAIN snapshot
  OBVIOUS
<1>5. TotalOf(snapshot, A \cup B) = SumFunctionOnSet(Costs(snapshot), A \cup B)
  BY Zenon, <1>4, TotalIsSum
<1>6. /\ TotalOf(snapshot, A) = SumFunctionOnSet(Costs(snapshot), A)
      /\ TotalOf(snapshot, B) = SumFunctionOnSet(Costs(snapshot), B)
  BY TotalIsSum
<1> QED
  BY Zenon, <1>3, <1>5, <1>6

(* The difference of two inventories over logical IDs that both have. *)
LEMMA DifferenceOfTotals ==
  ASSUME NEW old \in Snapshots, NEW new \in Snapshots,
         NEW ids \in SUBSET (DOMAIN old \cap DOMAIN new)
  PROVE  SumFunction([i \in ids |-> Counted(new[i]) - Counted(old[i])])
           = TotalOf(new, ids) - TotalOf(old, ids)
<1> DEFINE change == [i \in ids |-> Counted(new[i]) - Counted(old[i])]
<1>1. IsFiniteSet(ids)
  BY SnapshotIsFinite, FS_Subset
<1>2. \A i \in ids : /\ Costs(new)[i] \in Int /\ Costs(old)[i] \in Int
                     /\ change[i] = Costs(new)[i] - Costs(old)[i]
  BY CostsAreNatural DEF Costs
<1>3. DOMAIN change = ids
  OBVIOUS
<1>4. SumFunction(change) = SumFunctionOnSet(change, ids)
  BY Zenon, <1>3 DEF SumFunction
<1> HIDE DEF change
<1>5. SumFunctionOnSet(change, ids)
        = SumFunctionOnSet(Costs(new), ids) - SumFunctionOnSet(Costs(old), ids)
  BY <1>1, <1>2, SumOfDifferences
<1>6. /\ TotalOf(new, ids) = SumFunctionOnSet(Costs(new), ids)
      /\ TotalOf(old, ids) = SumFunctionOnSet(Costs(old), ids)
  BY TotalIsSum
<1> QED
  BY <1>4, <1>5, <1>6 DEF change

(***************************************************************************)
(* Rounding                                                                *)
(***************************************************************************)

(* money rounds to whole cents: less than half a cent up or down. *)
LEMMA MoneyIsNear ==
  ASSUME NEW x \in Nat
  PROVE  /\ Money(x) \in Int
         /\ 2 * UnitsPerCent * Money(x) <= 2 * x + UnitsPerCent
         /\ 2 * x + UnitsPerCent < 2 * UnitsPerCent * Money(x) + 2 * UnitsPerCent
<1> DEFINE a == 2 * x + UnitsPerCent
           b == 2 * UnitsPerCent
<1>1. a \in Nat /\ b \in Nat \ {0}
  BY LedgerAssumption
<1>2. Money(x) = a \div b
  BY DEF Money
<1> HIDE DEF a, b
<1>3. /\ a \div b \in Int
      /\ b * (a \div b) <= a
      /\ a < b * (a \div b) + b
  BY <1>1
<1> QED
  BY <1>2, <1>3, LedgerAssumption DEF a, b

(* Two amounts that show the same are less than a cent apart, and equal if *)
(* they are whole cents.                                                   *)
LEMMA SameMoneyIsNear ==
  ASSUME NEW x \in Nat, NEW y \in Nat, Money(x) = Money(y)
  PROVE  /\ x - y \in (-(UnitsPerCent - 1))..(UnitsPerCent - 1)
         /\ x % UnitsPerCent = 0 /\ y % UnitsPerCent = 0 => x = y
<1> DEFINE b == UnitsPerCent
           m == 2 * b * Money(x)
<1>1. b \in Nat \ {0}
  BY LedgerAssumption
<1>2. /\ m \in Int
      /\ m <= 2 * x + b /\ 2 * x + b < m + 2 * b
      /\ m <= 2 * y + b /\ 2 * y + b < m + 2 * b
  BY <1>1, MoneyIsNear
<1> HIDE DEF m, b
<1>3. x - y \in (-(b - 1))..(b - 1)
  BY <1>1, <1>2
<1>4. ASSUME x % b = 0, y % b = 0
      PROVE  x = y
  <2> DEFINE p == x \div b
             q == y \div b
  <2>1. p \in Int /\ q \in Int /\ x = b * p /\ y = b * q
    BY <1>1, <1>4
  <2> HIDE DEF p, q
  <2>2. x - y = b * (p - q)
    BY <1>1, <2>1
  <2>3. CASE p = q
    BY <2>1, <2>3
  <2>4. CASE p > q
    <3>1. b * (p - q) >= b
      BY <1>1, <2>1, <2>4
    <3> QED
      BY <1>1, <1>3, <2>2, <3>1
  <2>5. CASE p < q
    <3>1. b * (q - p) >= b
      BY <1>1, <2>1, <2>5
    <3>2. b * (p - q) = -(b * (q - p))
      BY <1>1, <2>1
    <3> QED
      BY <1>1, <1>3, <2>1, <2>2, <3>1, <3>2
  <2> QED
    BY <2>1, <2>3, <2>4, <2>5
<1> QED
  BY <1>3, <1>4 DEF b

(***************************************************************************)
(* What a delta adds up to                                                 *)
(***************************************************************************)

(* What the totals move by over the resources a delta calls unchanged: a   *)
(* price may move within its cent.                                         *)
Drift(d) == TotalOf(d.after, d.unchanged) - TotalOf(Prior(d), d.unchanged)

(* What a delta compares with is an inventory, if an empty one. *)
LEMMA PriorIsASnapshot ==
  ASSUME NEW before \in Snapshots \cup {NoHistory}
  PROVE  (IF before = NoHistory THEN Empty ELSE before) \in Snapshots
BY EmptyIsASnapshot

(* The net change of a delta is the change of the totals and what is       *)
(* retained, less the drift of what is unchanged (StackDelta.net_monthly   *)
(* against total_of).                                                      *)
LEMMA NetIsChange ==
  ASSUME NEW before \in Snapshots \cup {NoHistory},
         NEW after \in Snapshots,
         NEW action \in Actions,
         NEW d, d = DiffSnapshots(before, after, action),
         d.action # "BASELINE"
  PROVE  /\ NetMonthly(d) \in Int
         /\ Drift(d) \in Int
         /\ RetainedMonthly(d) \in Nat
         /\ Expected(d) - NetMonthly(d) = Drift(d)
<1> DEFINE old == IF before = NoHistory THEN Empty ELSE before
           both == DOMAIN old \cap DOMAIN after
           gone == DOMAIN old \ DOMAIN after
           new == DOMAIN after \ DOMAIN old
           behind == {i \in both : LeftBehind(old[i], after[i])}
           moved == {i \in both \ behind : Differs(old[i], after[i])}
           same == both \ (behind \cup moved)
           dropped == {i \in gone : ~old[i].retain}
           kept == {i \in gone : old[i].retain}
<1>1. /\ d.before = before /\ d.after = after
      /\ d.added = new \cup behind
      /\ d.removed = dropped
      /\ d.changed = moved
      /\ d.retained = behind \cup kept
      /\ d.unchanged = same
  BY DEF DiffSnapshots, Gone
<1>2. Prior(d) = old
  BY <1>1 DEF Prior
<1>3. old \in Snapshots /\ after \in Snapshots
  BY PriorIsASnapshot
<1>4. /\ new \in SUBSET DOMAIN after
      /\ {behind, moved, same} \subseteq SUBSET DOMAIN after
      /\ {behind, moved, same, dropped, kept} \subseteq SUBSET DOMAIN old
  OBVIOUS
<1>5. /\ DOMAIN after = (new \cup behind) \cup (moved \cup same)
      /\ new \cap behind = {} /\ moved \cap same = {}
      /\ (new \cup behind) \cap (moved \cup same) = {}
  OBVIOUS
<1>6. /\ DOMAIN old = (dropped \cup (behind \cup kept)) \cup (moved \cup same)
      /\ behind \cap kept = {} /\ dropped \cap (behind \cup kept) = {}
      /\ (dropped \cup (behind \cup kept)) \cap (moved \cup same) = {}
  OBVIOUS
<1>7. before = NoHistory =>
        /\ old = Empty
        /\ dropped = {} /\ behind \cup kept = {} /\ moved = {} /\ same = {}
  <2>1. DOMAIN Empty = {}
    BY DEF Empty
  <2> QED
    BY <2>1
<1>8. before # NoHistory => old = before
  OBVIOUS
<1> HIDE DEF old, both, gone, new, behind, moved, same, dropped, kept
<1>9. TotalOf(after, DOMAIN after) =
        TotalOf(after, new \cup behind) + (TotalOf(after, moved) + TotalOf(after, same))
  <2>1. TotalOf(after, moved \cup same) = TotalOf(after, moved) + TotalOf(after, same)
    BY <1>3, <1>4, <1>5, TotalOfParts
  <2>2. TotalOf(after, (new \cup behind) \cup (moved \cup same)) =
          TotalOf(after, new \cup behind) + TotalOf(after, moved \cup same)
    BY <1>3, <1>4, <1>5, TotalOfParts
  <2> QED
    BY Zenon, <1>5, <2>1, <2>2
<1>10. TotalOf(old, DOMAIN old) =
         (TotalOf(old, dropped) + TotalOf(old, behind \cup kept))
           + (TotalOf(old, moved) + TotalOf(old, same))
  <2>1. TotalOf(old, moved \cup same) = TotalOf(old, moved) + TotalOf(old, same)
    BY <1>3, <1>4, <1>5, TotalOfParts
  <2>2. TotalOf(old, dropped \cup (behind \cup kept)) =
          TotalOf(old, dropped) + TotalOf(old, behind \cup kept)
    BY <1>3, <1>4, <1>6, TotalOfParts
  <2>3. TotalOf(old, (dropped \cup (behind \cup kept)) \cup (moved \cup same)) =
          TotalOf(old, dropped \cup (behind \cup kept)) + TotalOf(old, moved \cup same)
    BY <1>3, <1>4, <1>6, TotalOfParts
  <2> QED
    BY Zenon, <1>6, <2>1, <2>2, <2>3
<1>11. /\ TotalOf(after, new \cup behind) \in Nat
       /\ TotalOf(after, moved) \in Nat /\ TotalOf(after, same) \in Nat
       /\ TotalOf(old, dropped) \in Nat /\ TotalOf(old, behind \cup kept) \in Nat
       /\ TotalOf(old, moved) \in Nat /\ TotalOf(old, same) \in Nat
  BY <1>3, <1>4, TotalIsNatural
<1>12. ChangedMonthly(d) = TotalOf(after, moved) - TotalOf(old, moved)
  <2>1. CASE before = NoHistory
    <3>1. d.changed = {}
      BY <1>1, <1>7, <2>1
    <3>2. ChangedMonthly(d) = 0
      <4>1. DOMAIN [i \in d.changed |-> Counted(d.after[i]) - Counted(d.before[i])] = {}
        BY <3>1
      <4> QED
        BY Zenon, <4>1, SumOfNone DEF ChangedMonthly, SumFunction
    <3>3. TotalOf(after, moved) = 0 /\ TotalOf(old, moved) = 0
      BY Zenon, <1>7, <2>1, TotalOfNothing
    <3> QED
      BY <3>2, <3>3
  <2>2. CASE before # NoHistory
    <3>1. moved \in SUBSET (DOMAIN old \cap DOMAIN after)
      BY <1>4
    <3>2. SumFunction([i \in moved |-> Counted(after[i]) - Counted(old[i])])
            = TotalOf(after, moved) - TotalOf(old, moved)
      BY <1>3, <3>1, DifferenceOfTotals
    <3> QED
      BY Zenon, <1>1, <1>8, <2>2, <3>2 DEF ChangedMonthly
  <2> QED
    BY <2>1, <2>2
<1>13. /\ TotalOf(d.before, d.removed) = TotalOf(old, dropped)
       /\ TotalOf(d.before, d.retained) = TotalOf(old, behind \cup kept)
       /\ MonthlyCost(d.before) = TotalOf(old, DOMAIN old)
  <2>1. CASE before = NoHistory
    <3>1. MonthlyCost(d.before) = 0
      BY <1>1, <2>1 DEF MonthlyCost
    <3>2. DOMAIN old = {}
      BY <1>7, <2>1 DEF Empty
    <3> QED
      BY Zenon, <1>1, <1>7, <2>1, <3>1, <3>2, TotalOfNothing
  <2>2. CASE before # NoHistory
    BY Zenon, <1>1, <1>8, <2>2 DEF MonthlyCost
  <2> QED
    BY <2>1, <2>2
<1>14. MonthlyCost(d.after) = TotalOf(after, DOMAIN after)
  BY <1>1, LedgerAssumption DEF MonthlyCost
<1>15. NetMonthly(d) = TotalOf(after, new \cup behind) - TotalOf(old, dropped)
                         + (TotalOf(after, moved) - TotalOf(old, moved))
  BY Zenon, <1>1, <1>12, <1>13 DEF NetMonthly
<1>16. Drift(d) = TotalOf(after, same) - TotalOf(old, same)
  BY Zenon, <1>1, <1>2 DEF Drift
<1>17. Expected(d) = TotalOf(after, DOMAIN after) - TotalOf(old, DOMAIN old)
                       + TotalOf(old, behind \cup kept)
  BY Zenon, <1>13, <1>14 DEF Expected, RetainedMonthly
<1>18. RetainedMonthly(d) = TotalOf(old, behind \cup kept)
  BY <1>13 DEF RetainedMonthly
<1> QED
  BY <1>9, <1>10, <1>11, <1>15, <1>16, <1>17, <1>18

(* The resources a delta compares. *)
Compared(d) ==
  {d.after[i] : i \in DOMAIN d.after} \cup {Prior(d)[i] : i \in DOMAIN Prior(d)}

(* The drift is less than a cent for each unchanged resource, and none     *)
(* where costs are whole cents.                                            *)
LEMMA DriftIsSmall ==
  ASSUME NEW before \in Snapshots \cup {NoHistory},
         NEW after \in Snapshots,
         NEW action \in Actions,
         NEW d, d = DiffSnapshots(before, after, action),
         d.action # "BASELINE"
  PROVE  /\ Cardinality(d.unchanged) \in Nat
         /\ Drift(d) \in (-(Cardinality(d.unchanged) * (UnitsPerCent - 1)))..
                           (Cardinality(d.unchanged) * (UnitsPerCent - 1))
         /\ (\A r \in Compared(d) : r.cost % UnitsPerCent = 0) => Drift(d) = 0
<1> DEFINE old == Prior(d)
           same == d.unchanged
           change == [i \in same |-> Counted(after[i]) - Counted(old[i])]
           n == Cardinality(same)
           u == UnitsPerCent - 1
<1>1. old \in Snapshots /\ d.after = after
  BY PriorIsASnapshot DEF DiffSnapshots, Prior
<1>2. \A i \in same : /\ i \in DOMAIN old \cap DOMAIN after
                      /\ ~Differs(old[i], after[i])
  BY DEF DiffSnapshots, Prior
<1>3. IsFiniteSet(same) /\ n \in Nat
  <2>1. IsFiniteSet(same)
    BY <1>1, <1>2, SnapshotIsFinite, FS_Subset
  <2> QED
    BY <2>1, FS_CardinalityType
<1> HIDE DEF old
<1>4. Drift(d) = SumFunction(change)
  <2>1. same \in SUBSET (DOMAIN old \cap DOMAIN after)
    BY <1>2
  <2>2. SumFunction(change) = TotalOf(after, same) - TotalOf(old, same)
    <3> HIDE DEF same
    <3> QED
      BY <1>1, <2>1, DifferenceOfTotals
  <2> QED
    BY <1>1, <2>2 DEF Drift, old
<1>5. SumFunction(change) = SumFunctionOnSet(change, same)
  <2>1. DOMAIN change = same
    OBVIOUS
  <2> QED
    BY Zenon, <2>1 DEF SumFunction
<1>6. ASSUME NEW i \in same
      PROVE  /\ old[i].cost \in Nat /\ after[i].cost \in Nat
             /\ change[i] = after[i].cost - old[i].cost
             /\ Money(after[i].cost) = Money(old[i].cost)
  <2>1. old[i] \in Resources /\ after[i] \in Resources
    BY <1>1, <1>2, SnapshotIsFinite
  <2>2. /\ Counted(old[i]) = old[i].cost /\ Counted(after[i]) = after[i].cost
        /\ old[i].cost \in Nat /\ after[i].cost \in Nat
    BY <2>1, CostIsCounted
  <2> QED
    BY <1>2, <2>2 DEF Differs
<1>7. \A i \in same : change[i] \in (-u)..u
  BY <1>6, SameMoneyIsNear
<1>8. u \in Nat
  BY LedgerAssumption
<1>9. ASSUME \A r \in Compared(d) : r.cost % UnitsPerCent = 0
      PROVE  \A i \in same : change[i] = 0
  <2> SUFFICES ASSUME NEW i \in same
               PROVE  change[i] = 0
    OBVIOUS
  <2>1. after[i].cost % UnitsPerCent = 0 /\ old[i].cost % UnitsPerCent = 0
    BY <1>1, <1>2, <1>9 DEF old, Compared
  <2> QED
    BY <1>6, <2>1, SameMoneyIsNear
<1> HIDE DEF same, change, n, u
<1>10. SumFunctionOnSet(change, same) \in (n * (-u))..(n * u)
  BY <1>3, <1>7, <1>8, SumIsBounded DEF n
<1>11. n * (-u) = -(n * u)
  BY <1>3, <1>8
<1>12. (\A i \in same : change[i] = 0) => SumFunctionOnSet(change, same) = 0
  <2> SUFFICES ASSUME \A i \in same : change[i] = 0
               PROVE  SumFunctionOnSet(change, same) = 0
    OBVIOUS
  <2>1. SumFunctionOnSet(change, same) \in (n * 0)..(n * 0)
    BY <1>3, SumIsBounded DEF n
  <2> QED
    BY <1>3, <2>1
<1>13. Drift(d) \in (-(n * u))..(n * u)
  BY <1>4, <1>5, <1>10, <1>11
<1>14. (\A i \in same : change[i] = 0) => Drift(d) = 0
  BY <1>4, <1>5, <1>12
<1> QED
  BY <1>3, <1>9, <1>13, <1>14 DEF n, u, same

(***************************************************************************)
(* The ledger                                                              *)
(***************************************************************************)

(* What CloudFormation leaves behind is what the diff calls retained.      *)
LEMMA SurvivorsAreRetained ==
  ASSUME NEW before \in Snapshots \cup {NoHistory},
         NEW after \in Snapshots,
         NEW action \in Actions,
         NEW d, d = DiffSnapshots(before, after, action),
         d.action # "BASELINE"
  PROVE  RetainedMonthly(d) =
           IF before = NoHistory THEN 0 ELSE TotalOf(before, Survivors(before, after))
<1>1. CASE before = NoHistory
  <2>1. d.retained = {}
    BY <1>1 DEF DiffSnapshots, Gone, Empty
  <2> QED
    BY Zenon, <1>1, <2>1, TotalOfNothing DEF RetainedMonthly
<1>2. CASE before # NoHistory
  <2>1. d.before = before
    BY DEF DiffSnapshots
  <2>2. d.retained = Survivors(before, after)
    BY <1>2 DEF DiffSnapshots, Gone, Survivors, LeftBehind, IsReplacement
  <2> QED
    BY Zenon, <1>2, <2>1, <2>2 DEF RetainedMonthly
<1> QED
  BY <1>1, <1>2

(* The net change is an integer, also of a baseline. *)
LEMMA NetIsAnInteger ==
  ASSUME NEW before \in Snapshots \cup {NoHistory},
         NEW after \in Snapshots,
         NEW action \in Actions,
         NEW d, d = DiffSnapshots(before, after, action)
  PROVE  NetMonthly(d) \in Int
<1>1. CASE d.action # "BASELINE"
  BY <1>1, NetIsChange
<1>2. CASE d.action = "BASELINE"
  <2>1. d.added = {} /\ d.removed = {} /\ d.changed = {}
    BY <1>2 DEF DiffSnapshots, Actions
  <2>2. DOMAIN [i \in d.changed |-> Counted(d.after[i]) - Counted(d.before[i])] = {}
    BY <2>1
  <2>3. ChangedMonthly(d) = 0
    BY Zenon, <2>2, SumOfNone DEF ChangedMonthly, SumFunction
  <2>4. TotalOf(d.after, d.added) = 0 /\ TotalOf(d.before, d.removed) = 0
    BY Zenon, <2>1, TotalOfNothing
  <2> QED
    BY <2>3, <2>4 DEF NetMonthly
<1> QED
  BY <1>1, <1>2

(* No inventory has a negative cost. *)
LEMMA MonthlyCostIsNatural ==
  ASSUME NEW snapshot \in Snapshots \cup {NoHistory}
  PROVE  MonthlyCost(snapshot) \in Nat
BY TotalIsNatural DEF MonthlyCost

(* The ledger, with what it needs to go on: nothing is booked before the   *)
(* first operation, and the stored inventory is one of this stack.         *)
LedgerInv ==
  /\ TypeOK
  /\ DeltaIsADiff
  /\ history \in SnapshotsOf(resources) \cup {NoHistory}
  /\ ops = 0 => /\ history = NoHistory
                /\ opening = 0 /\ reported = 0 /\ suppressed = 0 /\ outliving = 0
  /\ LedgerBalances

(* Nothing has been booked yet. *)
LEMMA LedgerInvInit == Init => LedgerInv
<1> SUFFICES ASSUME Init PROVE LedgerInv
  OBVIOUS
<1>1. DeltaIsADiff
  BY EmptyIsASnapshot DEF Init, DeltaIsADiff, Actions
<1>2. TypeOK
  <2>1. Empty # NoHistory
    BY EmptyIsASnapshot, LedgerAssumption
  <2>2. /\ delta.action = "UPDATE"
        /\ delta.before = Empty /\ delta.after = Empty
    BY <2>1 DEF Init, DiffSnapshots
  <2>3. MaxOps \in Nat
    BY LedgerAssumption
  <2>4. /\ delta.before \in Snapshots \cup {NoHistory} /\ delta.after \in Snapshots
        /\ delta.action \in Actions \cup {"BASELINE"}
    BY <2>2, EmptyIsASnapshot DEF Actions
  <2>5. /\ resources \in ResourceSets /\ deleted \in BOOLEAN /\ history = NoHistory
        /\ opening = 0 /\ reported = 0 /\ suppressed = 0 /\ outliving = 0
    BY DEF Init
  <2>6. ops \in 0..MaxOps
    BY <2>3 DEF Init
  <2>7. history \in Snapshots \cup {NoHistory}
    BY <2>5
  <2>8. opening \in Nat /\ {reported, suppressed} \subseteq Int /\ outliving \in Nat
    BY <2>5
  <2> QED
    BY <2>4, <2>5, <2>6, <2>7, <2>8 DEF TypeOK
<1>3. LedgerBalances
  BY DEF Init, LedgerBalances
<1> QED
  BY <1>1, <1>2, <1>3 DEF Init, LedgerInv

(* Costs of one stack's inventories, in whole cents if all its prices are. *)
LEMMA CentsOfOneStack ==
  ASSUME WholeCents, NEW snapshot \in SnapshotsOf(resources)
  PROVE  \A i \in DOMAIN snapshot : snapshot[i].cost % UnitsPerCent = 0
<1>1. PICK S \in SUBSET Ids : snapshot \in [S -> resources]
  BY DEF SnapshotsOf
<1> QED
  BY <1>1 DEF WholeCents

(* In whole cents NetMonthly of a delta between two inventories of the     *)
(* stack is the change of its total and what outlives the operation.       *)
LEMMA NetInWholeCents ==
  ASSUME WholeCents, resources \in ResourceSets,
         NEW before \in SnapshotsOf(resources) \cup {NoHistory},
         NEW after \in SnapshotsOf(resources),
         NEW action \in Actions,
         NEW d, d = DiffSnapshots(before, after, action),
         d.action # "BASELINE"
  PROVE  NetMonthly(d) =
           MonthlyCost(after) - MonthlyCost(before)
             + (IF before = NoHistory THEN 0
                ELSE TotalOf(before, Survivors(before, after)))
<1>1. before \in Snapshots \cup {NoHistory} /\ after \in Snapshots
  BY SnapshotsOfOneStack
<1>2. d.before = before /\ d.after = after
  BY DEF DiffSnapshots
<1>3. \A r \in Compared(d) : r.cost % UnitsPerCent = 0
  <2>1. \A i \in DOMAIN d.after : d.after[i].cost % UnitsPerCent = 0
    BY <1>2, CentsOfOneStack
  <2>2. \A i \in DOMAIN Prior(d) : Prior(d)[i].cost % UnitsPerCent = 0
    <3>1. CASE before = NoHistory
      BY <1>2, <3>1 DEF Prior, Empty
    <3>2. CASE before # NoHistory
      BY <1>2, <3>2, CentsOfOneStack DEF Prior
    <3> QED
      BY <3>1, <3>2
  <2> QED
    BY <2>1, <2>2 DEF Compared
<1>4. Drift(d) = 0
  BY <1>1, <1>3, DriftIsSmall
<1>5. /\ NetMonthly(d) \in Int /\ RetainedMonthly(d) \in Nat
      /\ Expected(d) - NetMonthly(d) = Drift(d)
  BY <1>1, NetIsChange
<1>6. MonthlyCost(before) \in Nat /\ MonthlyCost(after) \in Nat
  BY <1>1, MonthlyCostIsNatural
<1>7. Expected(d) = MonthlyCost(after) - MonthlyCost(before) + RetainedMonthly(d)
  BY Zenon, <1>2 DEF Expected
<1>8. NetMonthly(d) = MonthlyCost(after) - MonthlyCost(before) + RetainedMonthly(d)
  <2> DEFINE net == NetMonthly(d)
             expected == Expected(d)
  <2>1. net \in Int /\ expected \in Int /\ expected - net = 0
    BY <1>4, <1>5, <1>6, <1>7
  <2>2. net = expected
    <3> HIDE DEF net, expected
    <3> QED
      BY <2>1
  <2> QED
    BY Zenon, <1>7, <2>2
<1>9. RetainedMonthly(d) =
        IF before = NoHistory THEN 0 ELSE TotalOf(before, Survivors(before, after))
  BY <1>1, SurvivorsAreRetained
<1> QED
  BY Zenon, <1>8, <1>9

(* What outlives an operation was there before it. *)
LEMMA SurvivorsAreOld ==
  ASSUME NEW before, NEW after
  PROVE  Survivors(before, after) \in SUBSET DOMAIN before
BY DEF Survivors

(* A baseline opens the ledger; any other delta moves the bill and the     *)
(* books by the same amount.                                               *)
LEMMA DeployKeepsLedger ==
  ASSUME LedgerInv,
         NEW action \in {"CREATE", "UPDATE", "ROLLBACK"},
         NEW after \in SnapshotsOf(resources),
         Deploy(action, after)
  PROVE  LedgerInv'
<1> DEFINE d == DiffSnapshots(history, after, action)
           net == NetMonthly(d)
           left == IF history = NoHistory THEN 0
                   ELSE TotalOf(history, Survivors(history, after))
<1>1. /\ resources \in ResourceSets /\ after \in Snapshots /\ action \in Actions
      /\ history \in Snapshots \cup {NoHistory}
      /\ history \in SnapshotsOf(resources) \cup {NoHistory}
  BY SnapshotsOfOneStack DEF LedgerInv, TypeOK, Actions
<1>2. /\ delta' = d /\ resources' = resources /\ deleted' = deleted /\ deleted = FALSE
      /\ ops' = ops + 1 /\ ops < MaxOps /\ (action = "CREATE" => ops = 0)
      /\ history' = (IF DOMAIN after \in TooLarge THEN NoHistory ELSE after)
      /\ Book(d)
  BY DEF Deploy, LedgerInv, TypeOK
<1>3. /\ d.before = history /\ d.after = after
      /\ d.action \in Actions \cup {"BASELINE"}
      /\ d.action = "BASELINE" <=> (history = NoHistory /\ action # "CREATE")
  BY <1>1 DEF DiffSnapshots, Actions
<1>4. net \in Int
  BY <1>1, NetIsAnInteger
<1>5. left \in Nat
  BY <1>1, SurvivorsAreOld, TotalIsNatural
<1>6. MonthlyCost(after) \in Nat /\ MonthlyCost(history) \in Nat
  BY <1>1, MonthlyCostIsNatural
<1>7. WholeCents /\ d.action # "BASELINE" =>
        net = MonthlyCost(after) - MonthlyCost(history) + left
  BY <1>1, NetInWholeCents
<1> HIDE DEF d
<1>8. /\ opening \in Nat /\ reported \in Int /\ suppressed \in Int /\ outliving \in Nat
      /\ ops \in Nat /\ MaxOps \in Nat
  BY LedgerAssumption DEF LedgerInv, TypeOK
<1>9. CASE d.action = "BASELINE"
  <2>1. /\ opening' = MonthlyCost(after) /\ reported' = 0
        /\ suppressed' = 0 /\ outliving' = 0
    BY Zenon, <1>2, <1>3, <1>9 DEF Book
  <2> QED
    <3>1. TypeOK'
      <4>1. ops' \in 0..MaxOps /\ history' \in Snapshots \cup {NoHistory}
        BY <1>1, <1>2, <1>8
      <4> QED
        <5>1. opening' \in Nat /\ {reported', suppressed'} \subseteq Int /\ outliving' \in Nat
          BY <1>6, <2>1
        <5> QED
          BY <1>1, <1>2, <1>3, <4>1, <5>1 DEF TypeOK
    <3>2. DeltaIsADiff'
      BY <1>1, <1>2 DEF DeltaIsADiff, d
    <3>3. LedgerBalances'
      <4>1. history' # NoHistory => MonthlyCost(history)' = MonthlyCost(after)
        BY <1>2 DEF MonthlyCost
      <4> QED
        BY <1>2, <1>6, <2>1, <4>1 DEF LedgerBalances
    <3> QED
      BY <1>1, <1>2, <1>8, <3>1, <3>2, <3>3 DEF LedgerInv
<1>10. CASE d.action # "BASELINE"
  <2>1. /\ opening' = opening
        /\ outliving' = outliving + left
        /\ \/ reported' = reported + net /\ suppressed' = suppressed
           \/ suppressed' = suppressed + net /\ reported' = reported
    BY Zenon, <1>2, <1>3, <1>10 DEF Book
  <2>2. /\ reported' \in Int /\ suppressed' \in Int /\ outliving' \in Nat
        /\ reported' + suppressed' = reported + suppressed + net
    <3> HIDE DEF net, left
    <3> QED
      BY <1>4, <1>5, <1>8, <2>1
  <2>3. TypeOK'
    <3>1. ops' \in 0..MaxOps /\ history' \in Snapshots \cup {NoHistory}
      BY <1>1, <1>2, <1>8
    <3> QED
      BY <1>1, <1>2, <1>3, <1>8, <2>1, <2>2, <3>1 DEF TypeOK
  <2>4. DeltaIsADiff'
    BY <1>1, <1>2 DEF DeltaIsADiff, d
  <2>5. LedgerBalances'
    <3> SUFFICES ASSUME WholeCents', history' # NoHistory
                 PROVE  reported' + suppressed' =
                          (IF deleted' THEN 0 ELSE MonthlyCost(history)') - opening' + outliving'
      BY DEF LedgerBalances
    <3>1. MonthlyCost(history)' = MonthlyCost(after)
      BY <1>2 DEF MonthlyCost
    <3>2. WholeCents
      BY <1>2 DEF WholeCents
    <3>3. reported + suppressed = MonthlyCost(history) - opening + outliving
      <4>1. CASE history = NoHistory
        <5>1. ops = 0
          BY <1>2, <1>3, <1>10, <4>1
        <5>2. MonthlyCost(history) = 0
          BY <4>1 DEF MonthlyCost
        <5> QED
          BY <5>1, <5>2 DEF LedgerInv
      <4>2. CASE history # NoHistory
        BY <1>2, <3>2, <4>2 DEF LedgerInv, LedgerBalances
      <4> QED
        BY <4>1, <4>2
    <3>4. net = MonthlyCost(after) - MonthlyCost(history) + left
      BY <1>7, <1>10, <3>2
    <3> HIDE DEF net, left
    <3>5. reported' + suppressed' = MonthlyCost(after) - opening + (outliving + left)
      BY <1>4, <1>5, <1>6, <1>8, <2>2, <3>3, <3>4
    <3> QED
      BY <1>2, <2>1, <3>1, <3>5
  <2> QED
    BY <1>1, <1>2, <1>8, <2>3, <2>4, <2>5 DEF LedgerInv
<1> QED
  BY <1>9, <1>10

(* The deletion books the whole bill but for what is retained. *)
LEMMA TeardownKeepsLedger ==
  ASSUME LedgerInv, Teardown
  PROVE  LedgerInv'
<1> DEFINE before == IF history = NoHistory THEN Empty ELSE history
           d == DiffSnapshots(before, Empty, "DELETE")
           net == NetMonthly(d)
           left == TotalOf(before, Survivors(before, Empty))
<1>1. /\ resources \in ResourceSets /\ "DELETE" \in Actions
      /\ before \in Snapshots /\ Empty \in Snapshots /\ before # NoHistory
      /\ before \in SnapshotsOf(resources) /\ Empty \in SnapshotsOf(resources)
  <2>1. Empty \in SnapshotsOf(resources)
    <3>1. Empty \in [{} -> resources]
      BY DEF Empty
    <3> QED
      BY <3>1 DEF SnapshotsOf
  <2> QED
    BY <2>1, EmptyIsASnapshot, LedgerAssumption DEF LedgerInv, TypeOK, Actions
<1>2. d.before = before /\ d.after = Empty /\ d.action = "DELETE"
  BY <1>1 DEF DiffSnapshots
<1>3. /\ delta' = d /\ resources' = resources /\ history' = history
      /\ deleted' = TRUE /\ deleted = FALSE
      /\ ops' = ops + 1 /\ ops < MaxOps
      /\ opening' = opening /\ suppressed' = suppressed
      /\ reported' = reported + net
      /\ outliving' = outliving + left
  BY <1>2 DEF Teardown, DiffDeletion, LedgerInv, TypeOK
<1>4. net \in Int
  BY <1>1, NetIsAnInteger
<1>5. left \in Nat
  BY <1>1, SurvivorsAreOld, TotalIsNatural
<1>6. MonthlyCost(before) \in Nat /\ MonthlyCost(Empty) = 0
  <2>1. DOMAIN Empty = {}
    BY DEF Empty
  <2>2. MonthlyCost(Empty) = 0
    BY Zenon, <2>1, TotalOfNothing DEF MonthlyCost
  <2> QED
    BY <1>1, <2>2, MonthlyCostIsNatural
<1>7. WholeCents => net = MonthlyCost(Empty) - MonthlyCost(before) + left
  <2> SUFFICES ASSUME WholeCents
               PROVE  net = MonthlyCost(Empty) - MonthlyCost(before) + left
    OBVIOUS
  <2>1. d.action # "BASELINE"
    BY <1>2
  <2> HIDE DEF before
  <2>2. net = MonthlyCost(Empty) - MonthlyCost(before)
                + (IF before = NoHistory THEN 0 ELSE left)
    BY <1>1, <2>1, NetInWholeCents
  <2> QED
    BY <1>1, <2>2
<1>8. /\ opening \in Nat /\ reported \in Int /\ suppressed \in Int /\ outliving \in Nat
      /\ ops \in Nat /\ MaxOps \in Nat
  BY LedgerAssumption DEF LedgerInv, TypeOK
<1>9. history # NoHistory => before = history
  OBVIOUS
<1>10. DeltaIsADiff'
  BY <1>1, <1>3 DEF DeltaIsADiff, LedgerInv, TypeOK
<1> HIDE DEF d, before, net, left
<1>11. reported' \in Int /\ outliving' \in Nat
  BY <1>3, <1>4, <1>5, <1>8
<1>12. TypeOK'
  <2>1. ops' \in 0..MaxOps /\ history' \in Snapshots \cup {NoHistory}
    BY <1>3, <1>8 DEF LedgerInv, TypeOK
  <2> QED
    BY <1>1, <1>2, <1>3, <1>8, <1>11, <2>1 DEF TypeOK
<1>13. LedgerBalances'
  <2> SUFFICES ASSUME WholeCents', history' # NoHistory
               PROVE  reported' + suppressed' =
                        (IF deleted' THEN 0 ELSE MonthlyCost(history)') - opening' + outliving'
    BY DEF LedgerBalances
  <2>1. WholeCents /\ history # NoHistory
    BY <1>3 DEF WholeCents
  <2>2. reported + suppressed = MonthlyCost(before) - opening + outliving
    BY <1>3, <1>9, <2>1 DEF LedgerInv, LedgerBalances
  <2>3. reported' + suppressed' = 0 - opening + (outliving + left)
    BY <1>3, <1>4, <1>5, <1>6, <1>7, <1>8, <2>1, <2>2
  <2> QED
    BY <1>3, <2>3
<1> QED
  BY <1>3, <1>8, <1>10, <1>12, <1>13 DEF LedgerInv

(* The ledger is in order after every operation. *)
LEMMA LedgerInvHolds == Spec => []LedgerInv
<1>1. LedgerInv /\ [Next]_vars => LedgerInv'
  <2> SUFFICES ASSUME LedgerInv, [Next]_vars
               PROVE  LedgerInv'
    OBVIOUS
  <2>1. ASSUME NEW action \in {"CREATE", "UPDATE", "ROLLBACK"},
               NEW after \in SnapshotsOf(resources),
               Deploy(action, after)
        PROVE  LedgerInv'
    BY <2>1, DeployKeepsLedger
  <2>2. CASE Teardown
    BY <2>2, TeardownKeepsLedger
  <2>3. CASE UNCHANGED vars
    BY <2>3 DEF LedgerInv, TypeOK, DeltaIsADiff, LedgerBalances, WholeCents,
                MonthlyCost, vars, ledger
  <2> QED
    BY <2>1, <2>2, <2>3 DEF Next
<1> QED
  BY <1>1, LedgerInvInit, PTL DEF Spec

(* TypeOK: in particular no total is ever negative (SnapshotResource).     *)
THEOREM LedgerTypeCorrect == Spec => []TypeOK
<1>1. LedgerInv => TypeOK
  BY DEF LedgerInv
<1> QED
  BY <1>1, LedgerInvHolds, PTL

(* LedgerBalances, over every sequence of operations of a stack whose      *)
(* prices are whole cents: what was reported or suppressed since tracking  *)
(* started is the change of the bill and what outlives it                  *)
(* (_analyze_current_state, _analyze_deletion).                            *)
THEOREM LedgerBalancesHolds == Spec => []LedgerBalances
<1>1. LedgerInv => LedgerBalances
  BY DEF LedgerInv
<1> QED
  BY <1>1, LedgerInvHolds, PTL

(* DriftIsBounded, at any prices: each delta's net misses what the totals  *)
(* moved by less than a cent per resource it calls unchanged               *)
(* (StackDelta.net_monthly against total_of).                              *)
THEOREM DriftIsBoundedHolds == Spec => []DriftIsBounded
<1>1. DeltaIsADiff => DriftIsBounded
  <2> SUFFICES ASSUME NEW before \in Snapshots \cup {NoHistory},
                      NEW after \in Snapshots,
                      NEW action \in Actions,
                      delta = DiffSnapshots(before, after, action),
                      delta.action # "BASELINE"
               PROVE  Magnitude(Expected(delta) - NetMonthly(delta))
                        <= Cardinality(delta.unchanged) * (UnitsPerCent - 1)
    BY DEF DeltaIsADiff, DriftIsBounded
  <2> DEFINE bound == Cardinality(delta.unchanged) * (UnitsPerCent - 1)
             x == Drift(delta)
  <2>1. x \in (-bound)..bound /\ bound \in Int
    <3>1. Cardinality(delta.unchanged) \in Nat /\ x \in (-bound)..bound
      BY DriftIsSmall
    <3> QED
      BY <3>1, LedgerAssumption
  <2>2. Expected(delta) - NetMonthly(delta) = x
    BY NetIsChange
  <2> HIDE DEF bound, x
  <2>3. Magnitude(x) <= bound
    BY <2>1 DEF Magnitude
  <2> QED
    BY <2>2, <2>3 DEF bound
<1>2. LedgerInv => DeltaIsADiff
  BY DEF LedgerInv
<1> QED
  BY <1>1, <1>2, LedgerInvHolds, PTL

(***************************************************************************)
(* The ledger at any prices                                                *)
(***************************************************************************)

(* What one operation's delta may miss: less than a cent per logical ID.   *)
Slack == Cardinality(Ids) * (UnitsPerCent - 1)

(* The change of the bill since tracking started and what outlives it. *)
Balance == (IF deleted THEN 0 ELSE MonthlyCost(history)) - opening + outliving

(* LedgerBalances without its premise, at what it costs: prices that move  *)
(* within a cent, unreported, add up over the operations.                  *)
LedgerDriftIsBounded ==
  history # NoHistory =>
    Balance - (reported + suppressed) \in (-(ops * Slack))..(ops * Slack)

(* Some slack, or none. *)
LEMMA SlackIsNatural == Slack \in Nat
<1>1. Cardinality(Ids) \in Nat /\ UnitsPerCent - 1 \in Nat
  BY LedgerAssumption, FS_CardinalityType
<1> DEFINE n == Cardinality(Ids)
           u == UnitsPerCent - 1
<1>2. n * u \in Nat
  <2> HIDE DEF n, u
  <2>1. n \in Nat /\ u \in Nat
    BY <1>1 DEF n, u
  <2> QED
    BY <2>1
<1> QED
  BY <1>2 DEF Slack

(* A delta's net change is that of the bill and what outlives the          *)
(* operation, but for the slack of one operation.                          *)
LEMMA NetIsNear ==
  ASSUME NEW before \in Snapshots \cup {NoHistory},
         NEW after \in Snapshots,
         NEW action \in Actions,
         NEW d, d = DiffSnapshots(before, after, action),
         d.action # "BASELINE"
  PROVE  (MonthlyCost(after) - MonthlyCost(before)
            + (IF before = NoHistory THEN 0
               ELSE TotalOf(before, Survivors(before, after))))
           - NetMonthly(d) \in (-Slack)..Slack
<1> DEFINE n == Cardinality(d.unchanged)
           m == Cardinality(Ids)
           u == UnitsPerCent - 1
           drift == Drift(d)
<1>1. d.before = before /\ d.after = after
  BY DEF DiffSnapshots
<1>2. n \in Nat /\ drift \in (-(n * u))..(n * u)
  BY DriftIsSmall
<1>3. n <= m /\ m \in Nat /\ u \in Nat
  <2>1. d.unchanged \subseteq DOMAIN after
    BY DEF DiffSnapshots
  <2>2. DOMAIN after \subseteq Ids
    BY DEF Snapshots, SnapshotsOf
  <2>3. d.unchanged \in SUBSET Ids
    BY <2>1, <2>2
  <2> QED
    BY <2>3, LedgerAssumption, FS_Subset, FS_CardinalityType
<1>4. drift \in (-(m * u))..(m * u)
  <2> HIDE DEF n, m, u, drift
  <2>1. n * u <= m * u /\ n * u \in Nat /\ m * u \in Nat
    BY <1>2, <1>3
  <2> QED
    BY <1>2, <2>1
<1>5. drift \in (-Slack)..Slack
  BY <1>4 DEF Slack
<1>6. Expected(d) - NetMonthly(d) = drift
  BY NetIsChange
<1>7. Expected(d) = MonthlyCost(after) - MonthlyCost(before) + RetainedMonthly(d)
  BY Zenon, <1>1 DEF Expected
<1>8. RetainedMonthly(d) =
        IF before = NoHistory THEN 0 ELSE TotalOf(before, Survivors(before, after))
  BY SurvivorsAreRetained
<1>9. (MonthlyCost(after) - MonthlyCost(before)
         + (IF before = NoHistory THEN 0 ELSE TotalOf(before, Survivors(before, after))))
        - NetMonthly(d) = drift
  BY Zenon, <1>6, <1>7, <1>8
<1> QED
  BY Zenon, <1>5, <1>9

(* A deployment adds at most one operation's slack; a baseline starts      *)
(* without any.                                                            *)
LEMMA DeployDriftsWithinSlack ==
  ASSUME LedgerInv, LedgerDriftIsBounded,
         NEW action \in {"CREATE", "UPDATE", "ROLLBACK"},
         NEW after \in SnapshotsOf(resources),
         Deploy(action, after)
  PROVE  LedgerDriftIsBounded'
<1> DEFINE d == DiffSnapshots(history, after, action)
           net == NetMonthly(d)
           left == IF history = NoHistory THEN 0
                   ELSE TotalOf(history, Survivors(history, after))
<1>1. /\ resources \in ResourceSets /\ after \in Snapshots /\ action \in Actions
      /\ history \in Snapshots \cup {NoHistory}
  BY SnapshotsOfOneStack DEF LedgerInv, TypeOK, Actions
<1>2. /\ deleted' = FALSE /\ deleted = FALSE
      /\ ops' = ops + 1 /\ (action = "CREATE" => ops = 0)
      /\ history' = (IF DOMAIN after \in TooLarge THEN NoHistory ELSE after)
      /\ Book(d)
  BY DEF Deploy, LedgerInv, TypeOK
<1>3. /\ d.before = history /\ d.after = after
      /\ d.action = "BASELINE" <=> (history = NoHistory /\ action # "CREATE")
  BY <1>1 DEF DiffSnapshots, Actions
<1>4. net \in Int
  BY <1>1, NetIsAnInteger
<1>5. left \in Nat
  BY <1>1, SurvivorsAreOld, TotalIsNatural
<1>6. MonthlyCost(after) \in Nat /\ MonthlyCost(history) \in Nat
  BY <1>1, MonthlyCostIsNatural
<1>7. d.action # "BASELINE" =>
        (MonthlyCost(after) - MonthlyCost(history) + left) - net \in (-Slack)..Slack
  BY <1>1, NetIsNear
<1> HIDE DEF d
<1>8. /\ opening \in Nat /\ reported \in Int /\ suppressed \in Int /\ outliving \in Nat
      /\ ops \in Nat
  BY DEF LedgerInv, TypeOK
<1>9. SUFFICES ASSUME history' # NoHistory
               PROVE  Balance' - (reported' + suppressed')
                        \in (-(ops' * Slack))..(ops' * Slack)
  BY DEF LedgerDriftIsBounded
<1>10. Balance' = MonthlyCost(after) - opening' + outliving'
  BY <1>2, <1>9 DEF Balance, MonthlyCost
<1>11. /\ (ops + 1) * Slack = ops * Slack + Slack
       /\ ops * Slack \in Nat /\ Slack \in Nat
  BY <1>8, SlackIsNatural
<1>12. CASE d.action = "BASELINE"
  <2>1. /\ opening' = MonthlyCost(after) /\ reported' = 0
        /\ suppressed' = 0 /\ outliving' = 0
    BY Zenon, <1>2, <1>3, <1>12 DEF Book
  <2>2. Balance' - (reported' + suppressed') = 0
    BY <1>6, <1>10, <2>1
  <2>3. ops' * Slack \in Nat
    BY <1>2, <1>11
  <2> QED
    BY <2>2, <2>3
<1>13. CASE d.action # "BASELINE"
  <2>1. /\ opening' = opening
        /\ outliving' = outliving + left
        /\ \/ reported' = reported + net /\ suppressed' = suppressed
           \/ suppressed' = suppressed + net /\ reported' = reported
    BY Zenon, <1>2, <1>3, <1>13 DEF Book
  <2>2. (MonthlyCost(history) - opening + outliving) - (reported + suppressed)
          \in (-(ops * Slack))..(ops * Slack)
    <3>1. CASE history = NoHistory
      <4>1. ops = 0
        BY <1>2, <1>3, <1>13, <3>1
      <4>2. MonthlyCost(history) = 0
        BY <3>1 DEF MonthlyCost
      <4>3. opening = 0 /\ reported = 0 /\ suppressed = 0 /\ outliving = 0
        BY <4>1 DEF LedgerInv
      <4> QED
        BY <1>11, <4>2, <4>3
    <3>2. CASE history # NoHistory
      <4>1. Balance = MonthlyCost(history) - opening + outliving
        BY Zenon, <1>2 DEF Balance
      <4> QED
        BY <3>2, <4>1 DEF LedgerDriftIsBounded
    <3> QED
      BY <3>1, <3>2
  <2> HIDE DEF net, left
  <2> QED
    BY <1>2, <1>4, <1>5, <1>6, <1>7, <1>8, <1>10, <1>11, <1>13, <2>1, <2>2
<1> QED
  BY <1>12, <1>13

(* The deletion adds at most one operation's slack. *)
LEMMA TeardownDriftsWithinSlack ==
  ASSUME LedgerInv, LedgerDriftIsBounded, Teardown
  PROVE  LedgerDriftIsBounded'
<1> SUFFICES ASSUME history' # NoHistory
             PROVE  Balance' - (reported' + suppressed')
                      \in (-(ops' * Slack))..(ops' * Slack)
  BY DEF LedgerDriftIsBounded
<1> DEFINE d == DiffSnapshots(history, Empty, "DELETE")
           net == NetMonthly(d)
           left == TotalOf(history, Survivors(history, Empty))
<1>1. /\ history \in Snapshots /\ history # NoHistory
      /\ Empty \in Snapshots /\ "DELETE" \in Actions
  BY EmptyIsASnapshot DEF Teardown, LedgerInv, TypeOK, Actions
<1>2. d.before = history /\ d.after = Empty /\ d.action = "DELETE"
  BY <1>1 DEF DiffSnapshots
<1>3. /\ deleted' = TRUE /\ deleted = FALSE
      /\ ops' = ops + 1
      /\ opening' = opening /\ suppressed' = suppressed
      /\ reported' = reported + net
      /\ outliving' = outliving + left
  BY <1>1, <1>2 DEF Teardown, DiffDeletion, LedgerInv, TypeOK
<1>4. net \in Int
  BY <1>1, NetIsAnInteger
<1>5. left \in Nat
  BY <1>1, SurvivorsAreOld, TotalIsNatural
<1>6. MonthlyCost(history) \in Nat /\ MonthlyCost(Empty) = 0
  <2>1. DOMAIN Empty = {}
    BY DEF Empty
  <2>2. MonthlyCost(Empty) = 0
    BY Zenon, <2>1, TotalOfNothing DEF MonthlyCost
  <2> QED
    BY <1>1, <2>2, MonthlyCostIsNatural
<1>7. (MonthlyCost(Empty) - MonthlyCost(history) + left) - net \in (-Slack)..Slack
  <2>1. d.action # "BASELINE"
    BY <1>2
  <2>2. (MonthlyCost(Empty) - MonthlyCost(history)
           + (IF history = NoHistory THEN 0 ELSE left)) - net \in (-Slack)..Slack
    BY <1>1, <2>1, NetIsNear
  <2> QED
    BY <1>1, <2>2
<1>8. /\ opening \in Nat /\ reported \in Int /\ suppressed \in Int /\ outliving \in Nat
      /\ ops \in Nat
  BY DEF LedgerInv, TypeOK
<1>9. /\ (ops + 1) * Slack = ops * Slack + Slack
      /\ ops * Slack \in Nat /\ Slack \in Nat
  BY <1>8, SlackIsNatural
<1>10. (MonthlyCost(history) - opening + outliving) - (reported + suppressed)
         \in (-(ops * Slack))..(ops * Slack)
  <2>1. Balance = MonthlyCost(history) - opening + outliving
    BY Zenon, <1>3 DEF Balance
  <2> QED
    BY <1>1, <2>1 DEF LedgerDriftIsBounded
<1>11. Balance' = 0 - opening' + outliving'
  BY <1>3 DEF Balance
<1> HIDE DEF net, left
<1> QED
  BY <1>3, <1>4, <1>5, <1>6, <1>7, <1>8, <1>9, <1>10, <1>11

(* At any prices, over every sequence of operations: what was reported or  *)
(* suppressed differs from the change of the bill and what outlives it by  *)
(* less than a cent per logical ID and operation.                          *)
THEOREM LedgerDriftIsBoundedHolds == Spec => []LedgerDriftIsBounded
<1>1. Init => LedgerDriftIsBounded
  BY DEF Init, LedgerDriftIsBounded
<1>2. LedgerInv /\ LedgerDriftIsBounded /\ [Next]_vars => LedgerDriftIsBounded'
  <2> SUFFICES ASSUME LedgerInv, LedgerDriftIsBounded, [Next]_vars
               PROVE  LedgerDriftIsBounded'
    OBVIOUS
  <2>1. ASSUME NEW action \in {"CREATE", "UPDATE", "ROLLBACK"},
               NEW after \in SnapshotsOf(resources),
               Deploy(action, after)
        PROVE  LedgerDriftIsBounded'
    BY <2>1, DeployDriftsWithinSlack
  <2>2. CASE Teardown
    BY <2>2, TeardownDriftsWithinSlack
  <2>3. CASE UNCHANGED vars
    BY <2>3 DEF LedgerDriftIsBounded, Balance, MonthlyCost, vars, ledger
  <2> QED
    BY <2>1, <2>2, <2>3 DEF Next
<1> QED
  BY <1>1, <1>2, LedgerInvHolds, PTL DEF Spec
==============================================================================
