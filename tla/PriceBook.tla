------------------------------ MODULE PriceBook -------------------------------
(***************************************************************************)
(* What the price cache promises the analyzer: a whole price list replaces *)
(* the current one in a single step, and an analysis takes every price     *)
(* from the list that was current when it began (README, "Atomic price     *)
(* refresh").  PriceCache implements it.                                   *)
(***************************************************************************)

CONSTANTS
  Readers,   \* analyzer containers
  Keys,      \* PriceQuery.key: service, region and attributes
  Prices,    \* unit prices
  NoPrice,   \* the answer for a key without a price
  Unasked    \* an analysis has not looked the key up

VARIABLES
  book,      \* the current price list
  reading,   \* reading[r]: r is pricing an inventory
  view,      \* view[r]: the list its analysis began with
  answers    \* answers[r][k]: the price its analysis was given for k

vars == <<book, reading, view, answers>>

Books == [Keys -> Prices \cup {NoPrice}]
EmptyBook == [k \in Keys |-> NoPrice]
NothingAsked == [k \in Keys |-> Unasked]

Init ==
  /\ book = EmptyBook
  /\ reading = [r \in Readers |-> FALSE]
  /\ view = [r \in Readers |-> EmptyBook]
  /\ answers = [r \in Readers |-> NothingAsked]

Publish(b) ==
  /\ book' = b
  /\ UNCHANGED <<reading, view, answers>>

Open(r) ==
  /\ ~reading[r]
  /\ reading' = [reading EXCEPT ![r] = TRUE]
  /\ view' = [view EXCEPT ![r] = book]
  /\ UNCHANGED <<book, answers>>

Ask(r, k) ==
  /\ reading[r]
  /\ answers' = [answers EXCEPT ![r][k] = view[r][k]]
  /\ UNCHANGED <<book, reading, view>>

Close(r) ==
  /\ reading[r]
  /\ reading' = [reading EXCEPT ![r] = FALSE]
  /\ view' = [view EXCEPT ![r] = EmptyBook]
  /\ answers' = [answers EXCEPT ![r] = NothingAsked]
  /\ UNCHANGED book

Next ==
  \/ \E b \in Books : Publish(b)
  \/ \E r \in Readers : Open(r) \/ Close(r)
  \/ \E r \in Readers, k \in Keys : Ask(r, k)

Spec == Init /\ [][Next]_vars
==============================================================================
