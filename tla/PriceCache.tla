------------------------------ MODULE PriceCache ------------------------------
(***************************************************************************)
(* The price cache: sync runs that fill a new generation of rows and       *)
(* activate it, and analyzer containers that read the active generation    *)
(* through a memo that outlives an invocation.                             *)
(*                                                                         *)
(* Source: src/src/runtime/handlers.py (price_sync_handler,                *)
(* _run_price_sync), src/src/pricing/sync.py (PriceSync, SyncReport),      *)
(* src/src/pricing/dynamo_catalog.py (DynamoPriceCatalog,                  *)
(* DynamoPriceWriter), Analyzer._engine.  The Price List API is external.  *)
(*                                                                         *)
(* A generation is named by the sync run that fills it (uuid4).  A fetch   *)
(* is one (region, service, filter) group of PriceSync.run, the regions in *)
(* order; List[f][d] is what the API lists for it on day d, reduced to     *)
(* what the rules make of it: an entry [rule, key, price] for each product *)
(* a rule matches.  A rule's price_scale is left out: each key has one.    *)
(***************************************************************************)
EXTENDS Integers

CONSTANTS
  Syncs,         \* price sync runs, scheduled or by the custom resource
  Readers,       \* analyzer containers
  Keys,          \* PriceQuery.key; a key names its region
  Prices,
  Fetches,       \* number of fetches of a run
  RulesOf,       \* RulesOf[f]: the rules of a fetch's group
  List,          \* List[f][d]: entries listed for fetch f on day d
  MaxDay,        \* bound: changes of the price list
  NoPrice,       \* no row, or no price
  Unread,        \* the key is not in the memo
  Unasked,       \* the analysis has not looked the key up
  NoGeneration   \* the metadata item does not exist

Days == 0..MaxDay
NoDay == -1
Offers == Prices \cup {NoPrice}
Entries == [rule : UNION {RulesOf[f] : f \in 1..Fetches}, key : Keys, price : Prices]

ASSUME PriceCacheAssumption ==
  /\ Fetches \in Nat \ {0}
  /\ MaxDay \in Nat
  /\ \A f \in 1..Fetches : RulesOf[f] # {}
  /\ List \in [1..Fetches -> [Days -> SUBSET Entries]]
  /\ NoPrice \notin Prices
  /\ Unread \notin Offers
  /\ Unasked \notin Offers
  /\ NoGeneration \notin Syncs

VARIABLES
  today,     \* the day of the price list now
  status,    \* status[s]: "new", "running" or "ended"
  pos,       \* the fetch a run is at
  healthy,   \* no rule without match and no collision so far
  rows,      \* rows[s]: the generation's rows in the price table
  seen,      \* history: the day of each fetch of a run
  active,    \* the metadata item: activeGeneration
  generation, memo,   \* what a container keeps between invocations
  pricing,   \* a container is pricing an inventory
  answers    \* the prices its inventory was given

run == <<status, pos, healthy, rows, seen>>
catalog == <<generation, memo, pricing, answers>>
vars == <<today, run, active, catalog>>

NoRows == [k \in Keys |-> NoPrice]
NoMemo == [k \in Keys |-> Unread]
NothingAsked == [k \in Keys |-> Unasked]

Init ==
  /\ today = 0
  /\ status = [s \in Syncs |-> "new"]
  /\ pos = [s \in Syncs |-> 1]
  /\ healthy = [s \in Syncs |-> TRUE]
  /\ rows = [s \in Syncs |-> NoRows]
  /\ seen = [s \in Syncs |-> [f \in 1..Fetches |-> NoDay]]
  /\ active = NoGeneration
  /\ generation = [r \in Readers |-> NoGeneration]
  /\ memo = [r \in Readers |-> NoMemo]
  /\ pricing = [r \in Readers |-> FALSE]
  /\ answers = [r \in Readers |-> NothingAsked]

(* AWS changes its price list, also in the middle of a run. *)
Reprice ==
  /\ today < MaxDay
  /\ today' = today + 1
  /\ UNCHANGED <<run, active, catalog>>

(***************************************************************************)
(* Sync runs                                                               *)
(***************************************************************************)

(* Runs of the schedule, of the custom resource and of Lambda's retries    *)
(* may overlap.                                                            *)
Start(s) ==
  /\ status[s] = "new"
  /\ status' = [status EXCEPT ![s] = "running"]
  /\ UNCHANGED <<today, pos, healthy, rows, seen, active, catalog>>

(* Mutant of Finished: the last group is never fetched. *)
FinishedEarly(s) == pos[s] >= Fetches

Finished(s) == pos[s] > Fetches

(* rules_with_no_matches is empty. *)
AllMatched(f, listed) == \A r \in RulesOf[f] : \E e \in listed : e.rule = r

(* Mutant of Collides: keys written by earlier products of the same fetch  *)
(* are not remembered.                                                     *)
CollidesWithStored(stored, listed) ==
  \E e \in listed : stored[e.key] \notin {NoPrice, e.price}

(* Two products of the run claim one key at different prices.              *)
Collides(stored, listed) ==
  \/ \E e \in listed : stored[e.key] \notin {NoPrice, e.price}
  \/ \E d, e \in listed : d.key = e.key /\ d.price # e.price

(* Products come in any order and the last writer of a key wins.           *)
Written(stored, listed, new) ==
  \A k \in Keys :
    IF \E e \in listed : e.key = k
    THEN \E e \in listed : e.key = k /\ new[k] = e.price
    ELSE new[k] = stored[k]

(* An unhealthy region does not stop the run: the others are still written. *)
Fetch(s) ==
  LET f == pos[s]
      listed == List[f][today]
  IN /\ status[s] = "running" /\ ~Finished(s)
     /\ \E new \in [Keys -> Offers] :
          /\ Written(rows[s], listed, new)
          /\ rows' = [rows EXCEPT ![s] = new]
     /\ healthy' = [healthy EXCEPT
          ![s] = @ /\ AllMatched(f, listed) /\ ~Collides(rows[s], listed)]
     /\ seen' = [seen EXCEPT ![s][f] = today]
     /\ pos' = [pos EXCEPT ![s] = f + 1]
     /\ UNCHANGED <<today, status, active, catalog>>

(* write_metadata, only for a healthy run that wrote a price.  A put that  *)
(* raises although it took effect ends the run just the same.              *)
Activate(s) ==
  /\ status[s] = "running" /\ Finished(s)
  /\ status' = [status EXCEPT ![s] = "ended"]
  /\ active' = IF healthy[s] /\ rows[s] # NoRows THEN s ELSE active
  /\ UNCHANGED <<today, pos, healthy, rows, seen, catalog>>

(* A call fails or the run times out: its rows stay behind unread.         *)
Abandon(s) ==
  /\ status[s] = "running"
  /\ status' = [status EXCEPT ![s] = "ended"]
  /\ UNCHANGED <<today, pos, healthy, rows, seen, active, catalog>>

(***************************************************************************)
(* Analyzer containers                                                     *)
(***************************************************************************)

(* Mutant of Adopt: the memo survives a new generation. *)
AdoptKeepingMemo(r, g) ==
  /\ generation' = [generation EXCEPT ![r] = g]
  /\ UNCHANGED memo

(* A changed generation invalidates the memo, misses included.             *)
Adopt(r, g) ==
  /\ generation' = [generation EXCEPT ![r] = g]
  /\ memo' = IF g = generation[r] THEN memo ELSE [memo EXCEPT ![r] = NoMemo]

(* Analyzer._engine: refresh before an inventory is priced.                *)
Refresh(r) ==
  /\ ~pricing[r]
  /\ Adopt(r, active)
  /\ pricing' = [pricing EXCEPT ![r] = TRUE]
  /\ UNCHANGED <<today, run, active, answers>>

(* _fetch: without a generation the key itself is read, and no row has it. *)
Stored(g, k) == IF g = NoGeneration THEN NoPrice ELSE rows[g][k]

(* lookup: a miss is remembered like a price.                              *)
Lookup(r, k) ==
  LET price == IF memo[r][k] # Unread THEN memo[r][k] ELSE Stored(generation[r], k)
  IN /\ pricing[r]
     /\ memo' = [memo EXCEPT ![r][k] = price]
     /\ answers' = [answers EXCEPT ![r][k] = price]
     /\ UNCHANGED <<today, run, active, generation, pricing>>

(* The inventory is priced, or a read raised PriceCatalogError, which is   *)
(* not remembered.                                                         *)
FinishInventory(r) ==
  /\ pricing[r]
  /\ pricing' = [pricing EXCEPT ![r] = FALSE]
  /\ answers' = [answers EXCEPT ![r] = NothingAsked]
  /\ UNCHANGED <<today, run, active, generation, memo>>

(* Lambda drops a container and starts another one cold.                   *)
Recycle(r) ==
  /\ generation' = [generation EXCEPT ![r] = NoGeneration]
  /\ memo' = [memo EXCEPT ![r] = NoMemo]
  /\ pricing' = [pricing EXCEPT ![r] = FALSE]
  /\ answers' = [answers EXCEPT ![r] = NothingAsked]
  /\ UNCHANGED <<today, run, active>>

Next ==
  \/ Reprice
  \/ \E s \in Syncs : Start(s) \/ Fetch(s) \/ Activate(s) \/ Abandon(s)
  \/ \E r \in Readers : Refresh(r) \/ FinishInventory(r) \/ Recycle(r)
  \/ \E r \in Readers, k \in Keys : Lookup(r, k)

Spec == Init /\ [][Next]_vars

(***************************************************************************)
(* Properties                                                              *)
(***************************************************************************)

(* Every variable keeps its type, and only a run that got through all its  *)
(* fetches is active.                                                      *)
TypeOK ==
  /\ today \in Days
  /\ status \in [Syncs -> {"new", "running", "ended"}]
  /\ pos \in [Syncs -> 1..Fetches + 1]
  /\ healthy \in [Syncs -> BOOLEAN]
  /\ rows \in [Syncs -> [Keys -> Offers]]
  /\ seen \in [Syncs -> [1..Fetches -> Days \cup {NoDay}]]
  /\ active \in Syncs \cup {NoGeneration}
  /\ generation \in [Readers -> Syncs \cup {NoGeneration}]
  /\ memo \in [Readers -> [Keys -> Offers \cup {Unread}]]
  /\ pricing \in [Readers -> BOOLEAN]
  /\ answers \in [Readers -> [Keys -> Offers \cup {Unasked}]]
  /\ active # NoGeneration => pos[active] = Fetches + 1

(* "New price generations activate only after every requested Region is    *)
(* healthy" (README): every fetch of the active generation gave each of    *)
(* its rules a price, and each row holds the only price that was listed    *)
(* for its key, whatever the order of products, regions and overlapping    *)
(* runs.                                                                   *)
Listed(s, f) == List[f][seen[s][f]]

ActiveIsFaithful ==
  active # NoGeneration =>
    \A f \in 1..Fetches :
      /\ seen[active][f] # NoDay
      /\ AllMatched(f, Listed(active, f))
      /\ \A e \in Listed(active, f) : rows[active][e.key] = e.price

(* Each analysis takes all its prices, misses included, from the one       *)
(* generation that was active when it began, however warm its container    *)
(* and whatever the sync runs do meanwhile.                                *)
BookOf(g) == [k \in Keys |-> Stored(g, k)]

Book == INSTANCE PriceBook WITH
  book <- BookOf(active),
  reading <- pricing,
  view <- [r \in Readers |->
             IF pricing[r] THEN BookOf(generation[r]) ELSE BookOf(NoGeneration)]

ImplementsPriceBook == Book!Spec
==============================================================================
