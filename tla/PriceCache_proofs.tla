-------------------------- MODULE PriceCache_proofs ---------------------------
(***************************************************************************)
(* What PriceCache does for any price list, rules, sync runs and readers:  *)
(* only faithful generations are active, and readers see PriceBook.        *)
(***************************************************************************)
EXTENDS PriceCache, TLAPS

USE PriceCacheAssumption

(* The type of what the price list offers, in the form the steps use.      *)
LEMMA ListedType ==
  ASSUME NEW f \in 1..Fetches, NEW d \in Days, NEW e \in List[f][d]
  PROVE  e.key \in Keys /\ e.price \in Prices /\ e.price # NoPrice
<1>1. List[f][d] \subseteq Entries
  OBVIOUS
<1> QED BY <1>1 DEF Entries

(***************************************************************************)
(* Types                                                                   *)
(***************************************************************************)

(* Every variable keeps its type, and an active run got to its end.        *)
LEMMA TypeInit == Init => TypeOK
BY DEF Init, TypeOK, NoRows, NoMemo, NothingAsked, Offers, Days, NoDay

(* Steps of the sync runs keep the types. *)
LEMMA TypeRun ==
  ASSUME TypeOK, NEW s \in Syncs,
         Start(s) \/ Fetch(s) \/ Activate(s) \/ Abandon(s)
  PROVE  TypeOK'
<1>1. CASE Start(s)
  BY <1>1 DEF Start, TypeOK, catalog
<1>2. CASE Fetch(s)
  <2>1. pos[s] \in 1..Fetches /\ ~Finished(s)
    BY <1>2 DEF Fetch, Finished, TypeOK
  <2>2. rows' \in [Syncs -> [Keys -> Offers]]
    BY <1>2 DEF Fetch, TypeOK
  <2>3. healthy' \in [Syncs -> BOOLEAN]
    BY <1>2 DEF Fetch, TypeOK
  <2>4. seen' \in [Syncs -> [1..Fetches -> Days \cup {NoDay}]]
    BY <1>2, <2>1 DEF Fetch, TypeOK
  <2>5. pos' \in [Syncs -> 1..Fetches + 1] /\ \A t \in Syncs : t # s => pos'[t] = pos[t]
    BY <1>2, <2>1 DEF Fetch, TypeOK
  <2>6. active # s
    BY <2>1 DEF Finished, TypeOK
  <2> QED BY <1>2, <2>2, <2>3, <2>4, <2>5, <2>6 DEF Fetch, TypeOK, catalog
<1>3. CASE Activate(s)
  BY <1>3 DEF Activate, Finished, TypeOK, catalog
<1>4. CASE Abandon(s)
  BY <1>4 DEF Abandon, TypeOK, catalog
<1> QED BY <1>1, <1>2, <1>3, <1>4

(* Steps of the containers keep the types. *)
LEMMA TypeReader ==
  ASSUME TypeOK, NEW r \in Readers,
         \/ Refresh(r) \/ FinishInventory(r) \/ Recycle(r)
         \/ \E k \in Keys : Lookup(r, k)
  PROVE  TypeOK'
<1>1. CASE Refresh(r)
  BY <1>1 DEF Refresh, Adopt, TypeOK, run, NoMemo
<1>2. CASE FinishInventory(r)
  BY <1>2 DEF FinishInventory, TypeOK, run, NothingAsked
<1>3. CASE Recycle(r)
  BY <1>3 DEF Recycle, TypeOK, run, NothingAsked, NoMemo
<1>4. ASSUME NEW k \in Keys, Lookup(r, k) PROVE TypeOK'
  <2> DEFINE price == IF memo[r][k] # Unread THEN memo[r][k] ELSE Stored(generation[r], k)
  <2>1. Stored(generation[r], k) \in Offers
    BY DEF Stored, TypeOK, Offers
  <2>2. price \in Offers
    BY <2>1 DEF TypeOK
  <2>3. memo' = [memo EXCEPT ![r][k] = price] /\ answers' = [answers EXCEPT ![r][k] = price]
    BY <1>4 DEF Lookup
  <2> HIDE DEF price
  <2>4. memo' \in [Readers -> [Keys -> Offers \cup {Unread}]]
    BY <2>2, <2>3 DEF TypeOK
  <2>5. answers' \in [Readers -> [Keys -> Offers \cup {Unasked}]]
    BY <2>2, <2>3 DEF TypeOK
  <2> QED BY <1>4, <2>4, <2>5 DEF Lookup, TypeOK, run
<1> QED BY <1>1, <1>2, <1>3, <1>4

(* Every variable keeps its type, for any price list and any readers.      *)
THEOREM TypeCorrect == Spec => []TypeOK
<1>1. ASSUME TypeOK, [Next]_vars PROVE TypeOK'
  <2>1. CASE UNCHANGED vars
    BY <1>1, <2>1 DEF TypeOK, vars, run, catalog
  <2>2. ASSUME NEW s \in Syncs,
               Start(s) \/ Fetch(s) \/ Activate(s) \/ Abandon(s)
        PROVE  TypeOK'
    BY <1>1, <2>2, TypeRun
  <2>3. ASSUME NEW r \in Readers, Refresh(r) \/ FinishInventory(r) \/ Recycle(r)
        PROVE  TypeOK'
    BY <1>1, <2>3, TypeReader
  <2>4. ASSUME NEW r \in Readers, NEW k \in Keys, Lookup(r, k)
        PROVE  TypeOK'
    BY <1>1, <2>4, TypeReader
  <2>5. CASE Reprice
    BY <1>1, <2>5 DEF Reprice, TypeOK, run, catalog, Days
  <2> QED BY <1>1, <2>1, <2>2, <2>3, <2>4, <2>5 DEF Next
<1> QED BY <1>1, TypeInit, PTL DEF Spec

(***************************************************************************)
(* Faithful generations                                                    *)
(***************************************************************************)

(* What a fetch left behind: it gave each rule a price, and the rows of    *)
(* its keys hold what it listed.                                           *)
FaithfulTo(s, f) ==
  /\ seen[s][f] \in Days
  /\ AllMatched(f, Listed(s, f))
  /\ \A e \in Listed(s, f) : rows[s][e.key] = e.price

(* A run that is still healthy is faithful to all its fetches so far.      *)
HealthyIsFaithful ==
  \A s \in Syncs : healthy[s] => \A f \in 1..pos[s] - 1 : FaithfulTo(s, f)

(* Nothing writes the active generation any more.                          *)
ActiveHasEnded ==
  active # NoGeneration => status[active] = "ended" /\ healthy[active]

Faithful == HealthyIsFaithful /\ ActiveHasEnded

(* What a fetch wrote stays true of the earlier fetches: a key they share  *)
(* would be a collision.                                                   *)
LEMMA FetchIsFaithful ==
  ASSUME TypeOK, HealthyIsFaithful, NEW s \in Syncs, Fetch(s), healthy'[s],
         NEW f \in 1..pos[s]
  PROVE  FaithfulTo(s, f)'
<1> DEFINE listed == List[pos[s]][today]
<1>1. pos[s] \in 1..Fetches /\ today \in Days /\ f \in 1..Fetches
  BY DEF Fetch, Finished, TypeOK
<1>2. healthy[s] /\ AllMatched(pos[s], listed) /\ ~Collides(rows[s], listed)
  BY DEF Fetch, TypeOK
<1>3. PICK new \in [Keys -> Offers] :
        Written(rows[s], listed, new) /\ rows' = [rows EXCEPT ![s] = new]
  BY DEF Fetch
<1>4. seen' = [seen EXCEPT ![s][pos[s]] = today]
  BY DEF Fetch
<1>5. rows'[s] = new
  BY <1>3 DEF TypeOK
<1>6. CASE f = pos[s]
  <2>1. seen'[s][f] = today
    BY <1>1, <1>4, <1>6 DEF TypeOK
  <2>2. ASSUME NEW e \in listed PROVE new[e.key] = e.price
    <3>1. e.key \in Keys
      BY <1>1, <2>2, ListedType
    <3>2. PICK d \in listed : d.key = e.key /\ new[e.key] = d.price
      BY <1>3, <2>2, <3>1 DEF Written
    <3> QED BY <1>2, <2>2, <3>2 DEF Collides
  <2> QED BY <1>1, <1>2, <1>5, <1>6, <2>1, <2>2 DEF FaithfulTo, Listed, AllMatched
<1>7. CASE f # pos[s]
  <2>1. f \in 1..pos[s] - 1 /\ seen'[s][f] = seen[s][f]
    BY <1>1, <1>4, <1>7 DEF TypeOK
  <2>2. FaithfulTo(s, f)
    BY <1>2, <2>1 DEF HealthyIsFaithful
  <2>3. ASSUME NEW e \in Listed(s, f) PROVE new[e.key] = e.price
    <3>1. /\ e.key \in Keys /\ e.price \in Prices /\ e.price # NoPrice
          /\ rows[s][e.key] = e.price
      BY <1>1, <2>2, <2>3, ListedType DEF FaithfulTo, Listed
    <3>2. \A d \in listed : d.key = e.key => d.price = e.price
      BY <1>2, <3>1 DEF Collides
    <3> QED BY <1>3, <3>1, <3>2 DEF Written
  <2> QED BY <1>5, <2>1, <2>2, <2>3 DEF FaithfulTo, Listed, AllMatched
<1> QED BY <1>6, <1>7

(* The invariant behind ActiveIsFaithful is inductive. *)
LEMMA FaithfulStep == TypeOK /\ Faithful /\ [Next]_vars => Faithful'
<1> SUFFICES ASSUME TypeOK, Faithful, [Next]_vars PROVE Faithful'
  OBVIOUS
<1>1. CASE UNCHANGED <<run, active>>
  BY <1>1 DEF Faithful, HealthyIsFaithful, ActiveHasEnded, FaithfulTo, Listed, run
<1>2. ASSUME NEW s \in Syncs, Start(s) \/ Abandon(s) PROVE Faithful'
  <2>1. HealthyIsFaithful'
    BY <1>2 DEF Start, Abandon, Faithful, HealthyIsFaithful, FaithfulTo, Listed
  <2>2. ActiveHasEnded'
    BY <1>2 DEF Start, Abandon, Faithful, ActiveHasEnded, TypeOK
  <2> QED BY <2>1, <2>2 DEF Faithful
<1>3. ASSUME NEW s \in Syncs, Activate(s) PROVE Faithful'
  <2>1. HealthyIsFaithful'
    BY <1>3 DEF Activate, Faithful, HealthyIsFaithful, FaithfulTo, Listed
  <2>2. ActiveHasEnded'
    BY <1>3 DEF Activate, Faithful, ActiveHasEnded, TypeOK
  <2> QED BY <2>1, <2>2 DEF Faithful
<1>4. ASSUME NEW s \in Syncs, Fetch(s) PROVE Faithful'
  <2>1. ASSUME NEW t \in Syncs, healthy'[t], NEW f \in 1..pos'[t] - 1
        PROVE  FaithfulTo(t, f)'
    <3>1. CASE t = s
      <4>1. f \in 1..pos[s]
        BY <1>4, <2>1, <3>1 DEF Fetch, TypeOK
      <4> QED BY <1>4, <2>1, <3>1, <4>1, FetchIsFaithful DEF Faithful
    <3>2. CASE t # s
      <4>1. /\ pos'[t] = pos[t] /\ healthy'[t] = healthy[t]
            /\ rows'[t] = rows[t] /\ seen'[t] = seen[t]
        BY <1>4, <3>2 DEF Fetch, TypeOK
      <4>2. FaithfulTo(t, f)
        BY <2>1, <4>1 DEF Faithful, HealthyIsFaithful
      <4> QED BY <4>1, <4>2 DEF FaithfulTo, Listed, AllMatched
    <3> QED BY <3>1, <3>2
  <2>2. ActiveHasEnded'
    BY <1>4 DEF Fetch, Faithful, ActiveHasEnded, TypeOK
  <2> QED BY <2>1, <2>2 DEF Faithful, HealthyIsFaithful
<1>5. ASSUME NEW r \in Readers,
             \/ Refresh(r) \/ FinishInventory(r) \/ Recycle(r)
             \/ \E k \in Keys : Lookup(r, k)
      PROVE  UNCHANGED <<run, active>>
  BY <1>5 DEF Refresh, FinishInventory, Recycle, Lookup
<1> QED BY <1>1, <1>2, <1>3, <1>4, <1>5 DEF Next, Reprice, vars

(* "New price generations activate only after every requested Region is    *)
(* healthy" (README), for any rules, regions, price lists and overlapping  *)
(* runs: the active rows are exactly the prices that were listed.          *)
THEOREM ActiveIsFaithfulHolds == Spec => []ActiveIsFaithful
<1>1. Init => Faithful
  BY DEF Init, Faithful, HealthyIsFaithful, ActiveHasEnded
<1>2. TypeOK /\ Faithful => ActiveIsFaithful
  <2> SUFFICES ASSUME TypeOK, Faithful, active # NoGeneration, NEW f \in 1..Fetches
               PROVE  /\ seen[active][f] # NoDay
                      /\ AllMatched(f, Listed(active, f))
                      /\ \A e \in Listed(active, f) : rows[active][e.key] = e.price
    BY DEF ActiveIsFaithful
  <2>1. active \in Syncs /\ healthy[active] /\ pos[active] = Fetches + 1
    BY DEF TypeOK, Faithful, ActiveHasEnded
  <2>2. FaithfulTo(active, f)
    BY <2>1 DEF Faithful, HealthyIsFaithful
  <2> QED BY <2>2 DEF FaithfulTo, Days, NoDay
<1> QED BY <1>1, <1>2, FaithfulStep, TypeCorrect, PTL DEF Spec

(***************************************************************************)
(* PriceBook                                                               *)
(***************************************************************************)

(* What a container remembers is what the rows of its generation say, a    *)
(* generation that nothing writes any more.                                *)
MemoIsTrue ==
  \A r \in Readers :
    /\ generation[r] # NoGeneration => status[generation[r]] = "ended"
    /\ \A k \in Keys : memo[r][k] # Unread => memo[r][k] = Stored(generation[r], k)
    /\ ~pricing[r] => answers[r] = NothingAsked

Warm == TypeOK /\ ActiveHasEnded /\ MemoIsTrue

(* A run that has ended never writes again. *)
LEMMA EndedKeepsRows ==
  ASSUME TypeOK, [Next]_vars, NEW s \in Syncs, status[s] = "ended"
  PROVE  status'[s] = "ended" /\ rows'[s] = rows[s]
<1>1. ASSUME NEW t \in Syncs, Start(t) \/ Fetch(t) \/ Activate(t) \/ Abandon(t)
      PROVE  status'[s] = "ended" /\ rows'[s] = rows[s]
  BY <1>1 DEF Start, Fetch, Activate, Abandon, TypeOK
<1>2. ASSUME UNCHANGED run PROVE status'[s] = "ended" /\ rows'[s] = rows[s]
  BY <1>2 DEF run
<1> QED BY <1>1, <1>2
       DEF Next, vars, Reprice, Refresh, FinishInventory, Recycle, Lookup

(* Generations a container or the metadata item names keep their content.  *)
LEMMA EndedKeepsBook ==
  ASSUME TypeOK, [Next]_vars, NEW g \in Syncs \cup {NoGeneration},
         g # NoGeneration => status[g] = "ended"
  PROVE  /\ \A k \in Keys : Stored(g, k)' = Stored(g, k)
         /\ BookOf(g)' = BookOf(g)
BY EndedKeepsRows DEF Stored, BookOf

(* Steps that leave a container's own state alone keep its memo true.      *)
LEMMA MemoStep ==
  ASSUME Warm, [Next]_vars
  PROVE  MemoIsTrue'
<1> USE DEF Warm
<1>1. ASSUME NEW r \in Readers, UNCHANGED <<generation[r], memo[r]>>
      PROVE  /\ generation'[r] # NoGeneration => status'[generation'[r]] = "ended"
             /\ \A k \in Keys : memo'[r][k] # Unread => memo'[r][k] = Stored(generation[r], k)'
  <2>1. generation[r] \in Syncs \cup {NoGeneration}
    BY DEF TypeOK
  <2>2. generation[r] # NoGeneration => status[generation[r]] = "ended"
    BY DEF MemoIsTrue
  <2>3. generation[r] # NoGeneration => status'[generation[r]] = "ended"
    BY <2>1, <2>2, EndedKeepsRows
  <2>4. \A k \in Keys : Stored(generation[r], k)' = Stored(generation[r], k)
    BY <1>1, <2>1, <2>2, <2>3, EndedKeepsRows DEF Stored
  <2> QED BY <1>1, <2>3, <2>4 DEF MemoIsTrue
<1>2. CASE UNCHANGED catalog
  BY <1>1, <1>2 DEF catalog, MemoIsTrue
<1>3. ASSUME NEW r \in Readers, Refresh(r) PROVE MemoIsTrue'
  <2>1. ASSUME NEW q \in Readers, q # r
        PROVE  UNCHANGED <<generation[q], memo[q], pricing[q], answers[q]>>
    BY <1>3, <2>1 DEF Refresh, Adopt, TypeOK
  <2>2. generation'[r] = active /\ pricing'[r] /\ UNCHANGED <<run, active>>
    BY <1>3 DEF Refresh, Adopt, TypeOK
  <2>3. \A k \in Keys : memo'[r][k] # Unread => memo'[r][k] = Stored(active, k)
    BY <1>3 DEF Refresh, Adopt, TypeOK, MemoIsTrue, NoMemo
  <2>4. \A k \in Keys : Stored(active, k)' = Stored(active, k)
    BY <2>2 DEF Stored, run
  <2> QED BY <1>1, <2>1, <2>2, <2>3, <2>4 DEF MemoIsTrue, ActiveHasEnded, run, Stored
<1>4. ASSUME NEW r \in Readers, FinishInventory(r) PROVE MemoIsTrue'
  <2>1. UNCHANGED <<generation, memo>>
    BY <1>4 DEF FinishInventory
  <2>2. \A q \in Readers : ~pricing'[q] => answers'[q] = NothingAsked
    BY <1>4 DEF FinishInventory, TypeOK, MemoIsTrue
  <2> QED BY <1>1, <2>1, <2>2 DEF MemoIsTrue
<1>5. ASSUME NEW r \in Readers, Recycle(r) PROVE MemoIsTrue'
  <2>1. ASSUME NEW q \in Readers, q # r
        PROVE  UNCHANGED <<generation[q], memo[q], pricing[q], answers[q]>>
    BY <1>5, <2>1 DEF Recycle, TypeOK
  <2>2. generation'[r] = NoGeneration /\ memo'[r] = NoMemo /\ answers'[r] = NothingAsked
    BY <1>5 DEF Recycle, TypeOK
  <2> QED BY <1>1, <2>1, <2>2 DEF MemoIsTrue, NoMemo
<1>6. ASSUME NEW r \in Readers, NEW k \in Keys, Lookup(r, k) PROVE MemoIsTrue'
  <2>1. ASSUME NEW q \in Readers, q # r
        PROVE  UNCHANGED <<generation[q], memo[q], pricing[q], answers[q]>>
    BY <1>6, <2>1 DEF Lookup, TypeOK
  <2>2. UNCHANGED <<generation, run>> /\ pricing'[r]
    BY <1>6 DEF Lookup
  <2>3. memo'[r][k] = Stored(generation[r], k)
    BY <1>6 DEF Lookup, TypeOK, MemoIsTrue
  <2>4. \A j \in Keys : j # k => memo'[r][j] = memo[r][j]
    BY <1>6 DEF Lookup, TypeOK
  <2>5. \A j \in Keys : Stored(generation[r], j)' = Stored(generation[r], j)
    BY <2>2 DEF Stored, run
  <2>6. \A j \in Keys : memo'[r][j] # Unread => memo'[r][j] = Stored(generation[r], j)'
    BY <2>3, <2>4, <2>5 DEF MemoIsTrue
  <2> QED BY <1>1, <2>1, <2>2, <2>6 DEF MemoIsTrue, run
<1> QED BY <1>2, <1>3, <1>4, <1>5, <1>6
       DEF Next, vars, Reprice, Start, Fetch, Activate, Abandon

(* The price list each analysis began with, as PriceBook sees it. *)
View == [r \in Readers |->
           IF pricing[r] THEN BookOf(generation[r]) ELSE BookOf(NoGeneration)]

(* The list every active generation stands for is a list of PriceBook.     *)
LEMMA BookType ==
  ASSUME TypeOK, NEW g \in Syncs \cup {NoGeneration}
  PROVE  BookOf(g) \in Book!Books
BY DEF BookOf, Stored, Book!Books, TypeOK, Offers

(* Without a generation there are no prices. *)
LEMMA EmptyBookIsEmpty == BookOf(NoGeneration) = Book!EmptyBook
BY DEF BookOf, Stored, Book!EmptyBook

(* What changes neither container nor metadata item is no step of          *)
(* PriceBook: rows that are being written are nobody's book.               *)
LEMMA UnreadRowsAreHidden ==
  ASSUME Warm, [Next]_vars, UNCHANGED <<active, catalog>>
  PROVE  UNCHANGED Book!vars
<1> USE DEF Warm
<1>1. BookOf(active)' = BookOf(active)
  BY EndedKeepsBook DEF ActiveHasEnded, TypeOK, BookOf
<1>2. ASSUME NEW r \in Readers
      PROVE  BookOf(generation[r])' = BookOf(generation[r])
  <2>1. generation[r] \in Syncs \cup {NoGeneration} /\ generation'[r] = generation[r]
    BY DEF TypeOK, catalog
  <2>2. generation[r] # NoGeneration => status[generation[r]] = "ended"
    BY DEF MemoIsTrue
  <2>3. \A k \in Keys : Stored(generation[r], k)' = Stored(generation[r], k)
    BY <2>1, <2>2, EndedKeepsRows DEF Stored
  <2> QED BY <2>1, <2>3 DEF BookOf
<1>3. BookOf(NoGeneration)' = BookOf(NoGeneration)
  BY DEF BookOf, Stored
<1>4. View' = View
  BY <1>2, <1>3 DEF View, catalog
<1> QED BY <1>1, <1>4 DEF View, Book!vars, catalog

(* Steps of the containers and the activation leave all rows alone, and    *)
(* with them every book.                                                   *)
LEMMA RowsKept ==
  ASSUME UNCHANGED rows, NEW CONSTANT g
  PROVE  BookOf(g)' = BookOf(g)
BY DEF BookOf, Stored

(* Every step of the cache is a step of PriceBook, or none.                *)
LEMMA BookStep ==
  ASSUME Warm, [Next]_vars
  PROVE  [Book!Next]_Book!vars
<1> USE DEF Warm
<1>1. CASE UNCHANGED <<active, catalog>>
  BY <1>1, UnreadRowsAreHidden
<1>2. ASSUME NEW s \in Syncs, Activate(s) PROVE [Book!Next]_Book!vars
  <2>1. UNCHANGED <<rows, catalog>> /\ active' \in Syncs \cup {NoGeneration}
    BY <1>2 DEF Activate, TypeOK
  <2>2. BookOf(active)' \in Book!Books
    BY <2>1 DEF BookOf, Stored, Book!Books, TypeOK, Offers
  <2>3. View' = View
    BY <2>1 DEF View, BookOf, Stored, catalog
  <2>4. Book!Publish(BookOf(active)')
    BY <2>1, <2>3 DEF Book!Publish, View, catalog
  <2> QED BY <2>2, <2>4 DEF Book!Next
<1>3. ASSUME NEW r \in Readers, Refresh(r) PROVE [Book!Next]_Book!vars
  <2>1. UNCHANGED <<rows, active, answers>>
    BY <1>3 DEF Refresh, run
  <2>2. View' = [View EXCEPT ![r] = BookOf(active)]
    BY <1>3, <2>1 DEF Refresh, Adopt, View, BookOf, Stored, TypeOK
  <2>3. BookOf(active)' = BookOf(active)
    BY <2>1 DEF BookOf, Stored
  <2>4. Book!Open(r)
    BY <1>3, <2>1, <2>2, <2>3 DEF Refresh, Book!Open, View
  <2> QED BY <2>4 DEF Book!Next
<1>4. ASSUME NEW r \in Readers, NEW k \in Keys, Lookup(r, k) PROVE [Book!Next]_Book!vars
  <2>1. UNCHANGED <<rows, active, generation, pricing>> /\ pricing[r]
    BY <1>4 DEF Lookup, run
  <2>2. View' = View /\ BookOf(active)' = BookOf(active)
    BY <2>1 DEF View, BookOf, Stored
  <2>3. View[r][k] = Stored(generation[r], k)
    BY <2>1 DEF View, BookOf
  <2>4. answers' = [answers EXCEPT ![r][k] = View[r][k]]
    BY <1>4, <2>3 DEF Lookup, MemoIsTrue
  <2>5. Book!Ask(r, k)
    BY <2>1, <2>2, <2>4 DEF Book!Ask, View
  <2> QED BY <2>5 DEF Book!Next
<1>5. ASSUME NEW r \in Readers, FinishInventory(r) \/ Recycle(r), pricing[r]
      PROVE  [Book!Next]_Book!vars
  <2>1. /\ UNCHANGED <<rows, active>>
        /\ pricing' = [pricing EXCEPT ![r] = FALSE]
        /\ answers' = [answers EXCEPT ![r] = NothingAsked]
        /\ \A q \in Readers : q # r => generation'[q] = generation[q]
    BY <1>5 DEF FinishInventory, Recycle, run, TypeOK
  <2>2. View' = [View EXCEPT ![r] = Book!EmptyBook]
    BY <2>1, EmptyBookIsEmpty DEF View, BookOf, Stored, TypeOK
  <2>3. BookOf(active)' = BookOf(active)
    BY <2>1 DEF BookOf, Stored
  <2>4. Book!Close(r)
    BY <1>5, <2>1, <2>2, <2>3 DEF Book!Close, View, Book!NothingAsked, NothingAsked
  <2> QED BY <2>4 DEF Book!Next
<1>6. ASSUME NEW r \in Readers, Recycle(r), ~pricing[r]
      PROVE  UNCHANGED Book!vars
  <2>1. UNCHANGED <<rows, active, pricing, answers>>
    BY <1>6 DEF Recycle, run, TypeOK, MemoIsTrue
  <2>2. \A q \in Readers : q # r => generation'[q] = generation[q]
    BY <1>6 DEF Recycle, TypeOK
  <2>3. View' = View /\ BookOf(active)' = BookOf(active)
    BY <1>6, <2>1, <2>2 DEF View, BookOf, Stored
  <2> QED BY <2>1, <2>3 DEF Book!vars, View
<1> QED BY <1>1, <1>2, <1>3, <1>4, <1>5, <1>6
       DEF Next, vars, Reprice, Start, Fetch, Abandon, FinishInventory

(* The sync runs, the table, the refreshes and the memo together implement *)
(* the atomic price list of PriceBook: no analysis mixes generations or    *)
(* sees a row before its generation is complete.                           *)
THEOREM ImplementsPriceBookHolds == Spec => ImplementsPriceBook
<1>1. Init => Book!Init
  BY EmptyBookIsEmpty DEF Init, Book!Init, NothingAsked, Book!NothingAsked
<1>2. Init => ActiveHasEnded /\ MemoIsTrue
  BY DEF Init, ActiveHasEnded, MemoIsTrue, NoMemo, NothingAsked
<1>3. TypeOK /\ TypeOK' /\ ActiveHasEnded /\ MemoIsTrue /\ [Next]_vars => MemoIsTrue'
  BY MemoStep DEF Warm
<1>4. TypeOK /\ Faithful /\ MemoIsTrue /\ [Next]_vars => [Book!Next]_Book!vars
  BY BookStep DEF Warm, Faithful
<1>5. Init => Faithful
  BY DEF Init, Faithful, HealthyIsFaithful, ActiveHasEnded
<1>6. Faithful => ActiveHasEnded
  BY DEF Faithful
<1> QED BY <1>1, <1>2, <1>3, <1>4, <1>5, <1>6, FaithfulStep, TypeCorrect, PTL
       DEF Spec, ImplementsPriceBook, Book!Spec
==============================================================================
