# Formal models of the CloudFormation deployment cost reporter

TLA+ models of the cost reporter in `src/`: what they cover, what TLC checks on
small instances, and what TLAPS proves for every instance. `PROJECT.json` lists
the components, runs, mutants, the map from definitions to source lines,
findings, hazards and theorems.

## The system

EventBridge puts terminal CloudFormation stack events (and, optionally,
CloudTrail `CreateChangeSet` records) on one SQS queue. The analyzer Lambda
drains it in batches. For each record it claims the event in a DynamoDB
idempotency table, reads the live stack, prices its resources against a cached
price list, diffs the inventory with the stack's stored snapshot, publishes a
report, commits the new snapshot, and marks the event completed. Slack and SES
subscribers render the reports; a scheduled Lambda refreshes the prices.

| Component | State it keeps | Operations | Hard behaviour | What makes it correct |
|---|---|---|---|---|
| Event intake (`runtime/handlers.py`, the queue in `template.yaml`) | the message: queued, in flight, deleted, dead; receive count; batch failures | receive, process a record, return, time out | redelivery, partial batch failure, crashes, dead-lettering | an acknowledged event was handled; a dead letter has a cause |
| Idempotency store (`runtime/idempotency.py`) | one row per event: PROCESSING with a lease, COMPLETED, or none | claim, inspect, complete, release | claims racing, lease expiry, table outages, unconditional deletes | one owner per event; completed work stays deduplicated |
| Publishers (`runtime/publisher.py`) | none | publish to SNS and to the central bus | one destination of two fails, or takes a report whose call raised | a completed event reached every destination |
| Analyzer (`analyzer/analyzer.py`, `cfn.py`, `events.py`) | the outcome of one attempt | describe, list, load, diff, decide, commit | the stack moves on while it is read; out-of-order and repeated events | publish before commit; deltas start at known states |
| Analyzer, change sets (`analyzer/changeset.py`) | none | poll until ready, estimate | readiness retries, estimate against confirmed order | an estimate never advances confirmed state |
| State store (`state/store.py`) | one row per stack: the snapshot, its eventTime, retired or not | load, save, delete | conditional writes, ambiguous writes, oversized inventories | the row converges to the stack's last state |
| Diff (`state/diff.py`, `state/models.py`) | none | diff_snapshots, diff_deletion, totals | baselines, replacement, retention, rounding | no resource lost or counted twice; reports add up |
| Template collection (`_collect`) | walk of the nested stacks | resolve, recurse | depth limit, unreadable children | every gap is visible in the coverage |
| Price sync (`pricing/sync.py`, `price_sync_handler`) | price rows of a generation, the active generation | fetch a region, activate | a region failing midway, overlapping runs | only complete generations are active |
| Price catalog (`pricing/dynamo_catalog.py`) | memo of a warm container, generation | refresh, lookup | stale memo, cached misses | an analysis uses one generation |
| Pricing engine, mappers, platform lookup (`pricing/`) | none | classify, price | missing prices | unpriced is visible, never zero-cost |
| Resolver (`resolver/`) | memo of conditions | evaluate, resolve | cycles, unknown operands | unknown stays unknown |
| Slack (`runtime/slack.py`) | message timestamp per stack | post, update, forget | estimate after confirmed, failed deletes | a confirmed report is never lost or overwritten |
| SES, install check, metrics | none | send, respond | retries, best effort | no failure of theirs repeats a report |

They interact through the queue (at-least-once), the three tables (conditional
writes) and SNS. Analyzer invocations run concurrently, up to ten, and share
nothing else.

## Modules

| Module | Models | Checked by |
|---|---|---|
| `EventProcessing` | queue, invocations, idempotency table, fan-out | `MCEventProcessing`, `EventProcessing_proofs` |
| `ConfirmedState` | one stack's operations, the attempts at its events, its row in the state table | `MCConfirmedState`, `ConfirmedState_proofs` |
| `StackLedger` | the diff, its totals, and what the reports of one stack add up to | `MCStackLedger`, `StackLedger_proofs` |
| `StackWalk` | what a walk over a stack and its nested stacks collects while CloudFormation works on them | `MCStackWalk`, `StackWalk_proofs` |
| `ConditionEvaluator` | evaluation of a template's conditions | `MCPricingEngine`, `ConditionEvaluator_proofs` |
| `TemplateResolver` | extends it: parameters, intrinsics, inclusion of resources | `MCPricingEngine`, `PricingEngine_proofs` |
| `PricingEngine` | extends that: the dimension mappers, the platform lookup, confidence | `MCPricingEngine`, `PricingEngine_proofs` |
| `PriceCache` | sync runs, price rows, the active generation, the memo of a container | `MCPriceCache`, `PriceCache_proofs` |
| `PriceBook` | abstract: an atomic register of price lists, read once per analysis | implemented by `PriceCache` |
| `ReportDelivery` | the reports of one stack from the topic into Slack and a mailbox | `MCReportDelivery`, `ReportDelivery_proofs` |

Together they follow a deployment through the program: `EventProcessing` is how
its event gets handled at all; `StackWalk`, `ConditionEvaluator`,
`TemplateResolver` and `PricingEngine` are what one analysis finds;
`PriceCache` is where its prices come from; `ConfirmedState` and `StackLedger`
are what it is compared with and what is stored; `ReportDelivery` is what
readers see.

### EventProcessing

`msg`, `hidden` and `receives` are the queue; `row` and `lease` the idempotency
table; `pc`, `batch`, `todo`, `cur`, `failed` and `sent` the local state of each
invocation. `pc` names the next call to another service: *next* (take the next
record), *inspect* (the claim's put failed its condition), *analyze*, *publish*,
*suppress*, *commit*, *complete*, *release*. Each action is one such call, so
invocations interleave exactly between calls. `accepted`, `suppressed` and
`replays` are history the properties need; `faults` bounds the failures.

Time is a set of countdown timers that `Tick` decrements together. An invocation
whose `timeLeft` is 0 blocks `Tick`, so none outlives its timeout; it may end
earlier by `Crash`. What matters is the order LambdaTimeout < Lease < Visibility
(300, 330 and 360 s), which is the module's assumption.

An outage makes the call fail with or without taking effect. Receives of
`ReceiveAgain` are SQS handing out a message that is still in flight.

### ConfirmedState

CloudFormation runs one operation of the stack after the other; event *e* is the
end of operation *e*. Content is named by the moment it was read: 2n after
operation n, 2n+1 while operation n+1 runs; `seen` holds two moments because the
template and the resource list are two reads. `setting` is chosen once: the
number of operations, the faults, which inventories are too large to store, and
whether rows of deleted stacks are retired or deleted. `row` is the state table's item:
the event it belongs to, what that event had seen, and whether it is retired.
Invocations take any emitted, unhandled event, in any order. `Fail` abandons an
attempt anywhere, `Publish` may raise after SNS took the report, `Commit` may
raise before or after the write or find on re-reading that it is in place, and
`Replay` processes an event again whose completion was not recorded. Price data
is not part of content: two reads of one moment price alike.

The model is of a root stack. Events of nested children are skipped before
anything is loaded (`analyze`), and change sets load the row but never write it.

### StackLedger

One stack's operations in order, each with any inventory over a small set of
resources. `delta` is the last diff; `opening`, `reported`, `suppressed` and
`outliving` are the ledger that the reports are compared with. A resource is a
record of physical ID, fingerprint, discounted cost, whether it is priced, and
its two retention policies. `Money` rounds half away from zero. `Survivors`
says independently of the diff what CloudFormation leaves behind. The inventories
of one behaviour are over one of `ResourceSets`; costs count quarters of a cent
(`UnitsPerCent`).

### StackWalk

The first half of the variables is the world: `wanted` are the resources of the
templates in force, `present` those that exist, `live` the stacks with an ARN,
`due` the terminal events. CloudFormation creates, names, deletes, rolls back
and finishes in steps of its own. The second half is the walk: `frames` are the
calls of `_collect` in progress, each with the template it has read and the
nested stacks it has yet to enter. Template, resource list and description of a
child are separate reads, so an inventory may be pieced together from several
moments; `torn` remembers that the world moved. A read that fails abandons the
walk and leaves the event due. `rollup` and `maxDepth` are the two settings that
matter. `absent` are the nested stacks whose entry in the resource list has one of
the statuses that count as gone (`cfn.py:32`): CREATE_FAILED until a roll back is
through, DELETE_IN_PROGRESS, and DELETE_COMPLETE for as long as the list goes on
showing them (`Vanish`, `Delete`). The list also says which have an ARN (`Named`).
Resources have no properties here: what is at stake is which are counted, by whom,
and whether a missing nested stack is named as a gap.

### ConditionEvaluator

A template's expressions are nodes of a graph, which has cycles if conditions
refer to each other. The recursion of `evaluate` and `evaluate_expression` is the
stack `frames`, because what is remembered when a cycle is met depends on what
was being evaluated then; `cache` is the memo. Each action is the beginning of
an expression or the return of an operand to the expression that waits for it. A
template also says what CloudFormation made of every expression (`truth`), which
any assignment that agrees with the definitions may be; that is what verdicts
are compared with. `Request` may ask for any condition in any order.

### TemplateResolver

`Resolve` is what the code derives of an expression and `Deployed` what
CloudFormation made of it. A text is the sequence of its comma-separated parts,
so that `Join`, `Split` and list parameters are what they are in the code and
not identities. A value is a scalar, list, object, no value or unresolved; in
sequences and mappings the difference between strict and lenient resolution is
kept, as are Python's indices in `Select`. `GetAtt` and other values of the
deployed stack are one function that does not resolve (*runtime*). The
evaluator's steps interleave: `Consult` asks it for what a resource needs.

Some texts are one thing to the resolver and another to CloudFormation, and the
model keeps both sides. A dynamic reference (*dynamic*, written down or composed) is
a literal to `_resolve`, and replaced when the stack is deployed. The text
`DescribeStacks` returns for a `NoEcho` parameter is a mask; that of a parameter set
to a dynamic reference is the reference (`given` has what each was deployed with). A
`Number` is rewritten by Python (`Coerce`, `Rewritten`: "04" becomes 4, whose text is
"4"), which the constant `Canonical` says of each numeral, while CloudFormation keeps
it as written. `StandIns` are the parts of an expression that are such texts, outside
the branches that were not taken.

Expressions are trees over the constant `Expressions`, each deeper than its
parts (`Depth`). `ResolveStrictly`, `Resolve`, `Deployed` and `Sink` are functions
of all of them, defined by what they make of an expression given those of its parts
(`ResolveWith`, `DeployWith`, `SinkWith`). A value carries its text beside it,
which is what `Stringify` returns, so that a list's text is made of its members'.

### PricingEngine

`Classify` is `classify` with the mappers; a component is a product (the
attributes its price is looked up by) and a quantity. `platforms` is the memo of
the platform lookup, `failures` counts calls that failed. Unit prices are left
out: a product either has one or is `Unlisted`. `Billed` applies the mappers to
the deployed properties, so the properties compare resolution, lookups, gaps and
confidence; an error in a mapper's own table would be in both.

### ReportDelivery

Each subscriber gets each report in an invocation of its own, which Lambda runs
up to `MaxAttempts` times before it goes to the delivery dead-letter queue. The
Slack handler's calls are separate steps (*lookup*, *update*, *forget*, *post*,
*remember*), each of which may fail before or after it took effect. `row` is the
remembered message of the stack and `channel` what the channel shows. The lookup is
not a consistent read (`slack.py:358`): it finds the row or anything the row said
before (`stale`), an absent row included, without a fault and without a bound on how
old the answer is. `exposed` (messages that stayed remembered after an edit, were
looked up twice, or were read from an overwritten row) and `calm` (one report after
the other, in order, without faults, each read finding what was written last) are
history.

### PriceCache and PriceBook

`status`, `pos` and `healthy` are a sync run's progress, `rows` the generation
it writes, `active` the metadata item; `generation`, `memo` and `pricing` belong
to a container, whose catalog outlives the invocation. A run makes one `Fetch`
per region and group; what the API lists for it on a day is the constant `List`,
and `today` moves while runs are under way. The order of products is left open:
any of several prices of one key may be the last written. Rows are written in
batches by the code, but nothing reads a generation that is not active, so one
step per fetch loses nothing. `Activate` is `write_metadata`; a put that raises
although it took effect looks the same to every reader.

`PriceBook` has one current list, replaced as a whole; an analysis takes the
list it opened with and every answer from it. The refinement maps the current
list to the rows of the active generation and an analysis's list to the rows of
the generation its container adopted; writes of inactive rows and lookups' memo
are invisible.

## Runs

| Run | Expect | Question | Bounds |
|---|---|---|---|
| `claims` | pass | Do claims exclude each other, do leases outlast work, do duplicates and dead letters have causes? | 2 messages of one event, 2 invocations, 2 destinations, 2 faults, 5 receives, in-flight redelivery |
| `outage` | pass | Can an acknowledged event be lost, when the idempotency table fails too? | 3 messages of a stack and a change set event, batches of 2, 1 fault |
| `live` | pass | Does every event's outcome get out? | 3 messages (one ignored), 1 fault, 5 receives |
| `lost` | violation | Loss by in-flight redelivery | 1 message, 2 faults |
| `confirmed` | pass | Does the row converge under disorder, concurrency and repetition, in step with the reports? | 2 invocations; 3 operations, 1 fault and retirement; 2 operations, 2 faults, hard deletion and an oversized inventory; 3 operations, no fault, retirement and an oversized inventory |
| `ledger` | pass | Do reports add up to the bill? | 2 logical IDs; 7 resources in whole cents, or 5 in quarter cents; 3 operations, one oversized inventory |
| `prices` | pass | Is only a complete price list active, and does an analysis use only one? | 3 overlapping sync runs, 2 fetches, 3 days of prices, 3 keys, 1 container |
| `template` | pass | Is what is resolved what was deployed, and what is priced without a gap what is billed? | two conditions defined in every way over constants, unknowns, each other, themselves and an undefined name; templates with every mapped type; expressions up to 5 deep; one masked parameter, one numeral that Python rewrites; 1 failed image lookup |
| `guess` | violation | Is a figure of high confidence always right? | as `template` |
| `walk` | pass | Does each resource end in exactly one snapshot or behind a named gap? | a root, a child and a grandchild; 1 operation with roll-back, nested stacks listed as failed or deleted; 1 failed read; depth limits 1 and 2; with and without roll-up |
| `removed` | violation | Is an estimate of the proposal only? | as `walk` |
| `delivery` | pass | One message per deployment? Are confirmed figures safe, are reports delivered in the end? | estimate and confirmed report of 2 deployments in Slack, one mail; 3 attempts, 1 fault, reads of any age |

Timers of 1, 2, 3 (or 2, 3, 4) units keep the order of the real ones, with room
for a lease that runs out before the message is visible again and for one that
does not because the crash came late. Two faults are what it takes to hit an
attempt and its retry, or an attempt and a completion. Three operations are
needed for a row that is older, equal and newer than an attempt. Invocations are
symmetric and are declared so, except in the liveness run.

Three sync runs are one that is active, one that replaces it and one that goes
wrong in between. The three days hold a price change, a withdrawn product, a
collision and a rule without match. Containers only read, so one is as good as
several.

Two conditions suffice for cycles of length one and two, also through a
negation, and for a cycle that one operand short-circuits. Every mapped type
occurs with its properties written as literals, parameters, conditionals, dynamic
references and values that do not resolve. Three stacks in a line are the least with a depth
limit that cuts in the middle; one operation creates, changes or removes nested
stacks during the walk. Two deployments are what it takes for one's message to
be taken for the other's.

`CHECK_DEADLOCK FALSE` is set where the system may rightly stop: a stack may
stop deploying and is gone after its deletion (`confirmed`, `ledger`), all
resources of a template are priced (`template`, `guess`), nothing is left to
collect (`walk`, `removed`) or to deliver (`delivery`).

### Fairness

`FairSpec` asks for weak fairness of each invocation's own steps (Lambda runs
the code on), of receiving each visible message (the poller polls; nothing but a
receive or the dead-letter queue makes it invisible), of redriving, and of time.
Faults are never owed: they only happen within their budget, which stands for
"failures stop eventually". Change sets are left out of `EventuallyHandled`
because a change set may never become ready.

In `ReportDelivery`, `FairSpec` asks for weak fairness of each invocation's own
steps: Lambda runs what it has accepted, repeats it and lets it run to an end.
Faults, expiry and the publishing of reports are not owed. *EventuallyDelivered*
asks nothing of a run with as many faults as attempts.

## Properties

*OneOwner* and *LeaseCoversWork* are the mutual exclusion of the claims,
*CompletedStays* and *CompletedIsDelivered* say that deduplication is lasting
and justified, *NoSilentLoss* that acknowledging is safe,
*DuplicatesHaveACause* and *DeadLettersHaveCauses* bound repetition and waiting
by the faults that happened, *EventuallyHandled* is the liveness of it all.
*CommittedWasDecided*, *OwnSnapshotOnlyInReplays* and
*DeltasStartAtKnownStates* relate the row to the reports: publish before commit.
*BaselineUsedOnce* says that only events under way at once can report the same
movement: an acknowledged event has moved the row on from where its delta started.
*Converged* and *RetiredStaysRetired* are about disorder.
*EveryResourceOnce*, *LedgerBalances* and *DriftIsBounded* are about money.
*ActiveIsFaithful* says that what is active is what was listed, without gaps or
collisions, and *ImplementsPriceBook* that readers cannot tell the cache from an
atomic one.

*QuietInventoryIsExact* is that an inventory read while nothing moved is right
or names what it misses; *CountedOnce* that it does not matter in the end if
things did move, because the events that follow correct it;
*EstimateCoversProposal* is the same for change sets.

*VerdictsAreSound* says that no verdict on a condition is wrong, whatever was
asked first, *VerdictsAreKleene* that outside cycles none is missed, and
*NeverReentered* that the recursion ends. *InclusionIsTrue*,
*PropertiesAreDeployed* and *FigureIsDeployed* carry that on to resources,
properties and figures: what bears no mark of doubt is what was deployed, unless
one of `StandIns` is in it, which the resolver cannot tell from a value.
*OneFallbackPerFailure* is that a failed lookup is not remembered.

*MergedInPlace* is one message per deployment when nothing goes wrong and no read
is old,
*OverwriteHasACause* that confirmed figures of one deployment are only lost to
those of another for one of the reasons it lists, and *EventuallyDelivered* that
retries suffice.

*NoSilentLoss* holds in `outage` and fails in `lost`: what it takes
is one message in flight twice. *OneOwner*, *LeaseCoversWork*,
*CompletedStays* and *DuplicatesHaveACause* assume the idempotency table answers
(`StoreOutages = FALSE`); the code goes ahead without a claim otherwise, on
purpose.

## Findings

| Run | The code | What is said of it |
|---|---|---|
| `lost` | `_existing_claim` takes a missing row for completed work; a redelivered copy that meets the row just released acknowledges the only message | failures are released "so an SQS retry can proceed" (`idempotency.py:13`) |
| `guess` | the mappers read the absence of a property that did not resolve as CloudFormation's default: a volume of unknown type is gp2, a cluster of an unknown number of nodes has one, with confidence HIGH and no note (`dimensions.py:133`) | never guess: a report that is quietly wrong destroys trust (`resolver.py:6-9`); "no filling in of gaps" (`engine.py:3-4`) |
| `removed` | the walk for an estimate enters every nested stack that the deployed stack lists, also one the change set removes, whose resources stay in the proposed inventory (`analyzer.py:587`) | "the estimate is produced the same way a confirmed report is" (`changeset.py:6-7`); "report what the deployment *will* cost" (`test_estimate.py:231`) |

## Limits

Behaviour of the code that the models contain and no property forbids:

- `release` deletes the row whatever its status, so after a claim that went
  ahead without the table it may take another invocation's COMPLETED row with
  it, and a third message of the event reports again (`StoreOutages = TRUE`).
- After an oversized inventory no row tells how old the history was, so a late
  save of an older event stores its snapshot (`store.py:156`,
  `attribute_not_exists`).
- A deletion handled before an earlier update has committed retires nothing;
  the update's row is then stored without an expiry.
- The stack is read when its event is processed. The next operation may be
  running: an event's report may show a state between two operations, which the
  next event's report corrects.
- An event processed again after its commit is diffed against its own snapshot,
  so the two reports of one operation may differ.
- The delete of the row for an oversized inventory carries no condition, so a
  late one takes the row of a newer event with it (`store.py:149`). *Converged*
  and *BaselineUsedOnce* except it in their premises.
- Two events of one stack that are processed at once are diffed against the same
  snapshot, and both reports show the movement between them (`analyzer.py:292`).
  *BaselineUsedOnce* bounds it to such events.
- Two operations that end in the same second would carry equal `eventTime`s, of which
  either may overwrite the other; in `ConfirmedState` they do not.
- The self-check of a diff (`diff.py:207`) may fail without a lost resource:
  movement within a cent is no change, but moves the totals over a rounding
  boundary. `DeltaReconciles` in `StackLedger` states the check; *DriftIsBounded*
  is what holds in its place.
- The remembered message of an abandoned estimate is edited by the confirmed
  report of whatever deployment comes next within its TTL; and a row whose delete
  failed lets the next confirmed report overwrite the previous one's figures.
- A report that Slack or SES refuses for good is acknowledged. The bot token is
  cached for the life of a container, so after a rotation all reports are.
- The read of the remembered Slack message is not consistent (`slack.py:358`, unlike
  those of the idempotency and price tables). Without any fault it may miss the
  estimate's row, and the confirmed report is a second message, which
  `test_slack.py:4` says must not be; or return a row already deleted, and
  the confirmed figures of the deployment before are edited away. *MergedInPlace* has
  the premise that no read did, and *OverwriteHasACause* counts it as a cause.
- A dynamic reference (`{{resolve:...}}`) is a literal to the resolver
  (`resolver.py:245`): the property has the reference as its value, with no gap, and
  is priced by it. So is one made of a `NoEcho` parameter, whose value CloudFormation
  returns masked. Nothing in the code tells these texts from values, so
  *PropertiesAreDeployed* and *FigureIsDeployed* except them (`StandIns`); as operands of an
  `Fn::Equals` they are taken as right. `models.py:7` says "Nothing here ever invents
  a value".
- A parameter of type `Number` whose text is not the one Python writes ("01", "1.50")
  changes it when it is compared, joined or used as a key (`parameters.py:27`), although
  `models.py:95-98` keeps texts so that "01" and "1" differ as they do to CloudFormation;
  as a quantity it stays the same number, which `StandIns` also excepts.
- A nested stack of a change set that the list shows, with an ARN, in a status that
  counts as gone is neither walked (`analyzer.py:588`) nor a gap: the branch at
  `analyzer.py:550` asks only for the ARN, and the note at 564 says the deployed
  template was used. *EstimateCoversProposal* names the case.
- A walk's reads are of different moments. What it reports then need never have
  been the state of the stack; the event of the operation that moved it corrects
  the snapshot.
- Of two overlapping sync runs the one that fetched the older prices may
  activate last; its list then stays active until the next run.

## Proofs

TLAPS checks the eight `*_proofs` modules: for any set of messages, keys,
invocations and destinations, any timer lengths with LambdaTimeout < Lease <
Visibility, and any number of faults; for any operations, settings and
inventories; for any tree of stacks and depth limit; for any rules, price lists,
sync runs and containers; for any template; and for any deployments, attempts
and faults of their delivery. What is assumed of the constants are the named
assumptions of the modules, which TLC evaluates in the runs: a snapshot and a
template are finite, a nested stack has one parent and no stack is its own
ancestor, and a subscriber gets one report of each deployment and phase.

- `TypeCorrect`: `TypeOK` is inductive by itself. One lemma per building block
  (`PutClaim`, `Deliver`, `Stop`, ...), one step per action.
- `LeaseCoversWorkHolds`, `OneOwnerHolds`: neither is inductive alone. An owner
  is unique because a second claim needs an expired lease, and the lease of a
  live owner has not expired because it outlasts the owner's timeout. Their
  conjunction `Ownership` is inductive given `TypeOK`; `Tick` preserves it
  because lease and time left fall together.
- `CompletedStaysHolds`: only an owner's `complete` and `release` and a claim
  write a row, and under `Ownership` the owner's row is PROCESSING.
- `DuplicatesHaveACauseHolds`: the bound is strengthened to `OutBound`. While
  the report is out and still owned by an invocation about to commit or
  complete, or the row is COMPLETED, the allowance of one is used up; otherwise
  the number accepted is at most `replays`. A fault on the former moves to the
  latter and counts a replay.
- `CompletedIsDeliveredHolds`, `NoSilentLossHolds`, under
  the assumption that SQS does not hand out a message in flight, without which
  `lost` shows the loss. A message has then one holder, which does not outlive its
  visibility timeout (`Exclusive`); an invocation that is about to complete has
  delivered (`Delivered`); and an event without an outcome still has a message
  nobody has answered, also when its row is gone and another message's holder is
  about to find it so and answer that one (`NoLoss`).
- `DeadLettersHaveCausesHolds`, while the idempotency table answers: an
  account of what each receive of a message is paid for with (`Account`). A claim
  costs the message at most two receives, because a visibility timeout is longer
  than the lease (`Timely` and `Again` say which returns are still possible), and
  every claim but the last ends in a fault. The bound is therefore
  2 * faults + 2 receives: two for each claim that failed, one for the claim that
  works and one that backs off from it.
- `CommitFollowsDecision`, `DeltasAreAnchored`, `FirstReportHasTheDelta`
  (`ConfirmedState_proofs`): the row, every copy an attempt has read and
  every delta's start belong to an event that was decided with that content, and
  that was once diffed against another event's row; what is about to be committed
  has its outcome (`KnownInv`). `RetirementIsFinal` follows from the
  conditions of the writes and from `RetiredInv`: a row that is retired belongs
  to the last operation. `BaselinesMoveOn`: while inventories fit no acknowledged
  event is ahead of the row (`CaughtUp`), and no delta started at a snapshot later than
  its own event's (`ForwardInv`), so a row that an acknowledged event's delta started at is
  that event's own.
- `RowConverges`: what an attempt has read, and what the row holds, was read
  after the end of the event's operation (`ReadsSince`, `RowSince`), and while
  inventories fit no acknowledged event is ahead of the row (`CaughtUp`). Once
  everything is handled the row is then the last event's, and nothing has moved
  since it was read.
- `WalkTypeCorrect`, `QuietInventoryIsExactHolds`, `EstimateCoversProposalHolds`,
  `CountedOnceHolds` (`StackWalk_proofs`): four layers of invariants. `World` is
  what CloudFormation keeps to: a nested stack exists with the resource that
  stands for it, and whatever an operation has touched will tell by an event.
  `Shape` is the stack of calls of a walk: each is of a child of the one before.
  `WalkInv` says of a walk during which nothing moved that every template in force
  was read, every listed resource collected, and every nested stack entered, due,
  named as a gap or, in a change set, listed as gone. `Fresh` is for walks during which things did move: each stack's
  stored snapshot is exact, or an event of it is still to come.
- `OverwriteIsExplained` (`ReportDelivery_proofs`): a message that shows a
  confirmed report and is not exposed is neither remembered nor held by another
  invocation (`Unreachable`), unless the report's own invocation is about to
  forget it; messages just posted are held by nobody else (`Fresh`). Whatever a read
  finds in an overwritten row is exposed by that read.
- `MergedInPlaceHolds`: while everything is calm, every read included, one invocation runs at a time,
  each deployment has one message, and the remembered message is the one estimate
  that still stands (`CalmInv`).
- `ConditionSoundness`, `NoReentry` (`ConditionEvaluator_proofs`): what
  each frame waits for is what the next one, or the focus, evaluates (`Chained`),
  and the verdicts passed down and remembered are sound, as are the operands a
  junction has passed over: all with a verdict, none was decisive (`Sound`). No fixed
  point is needed: soundness holds against any `truth` that agrees with the
  definitions, cycles included.
- `ConditionCompleteness`: a verdict that is missing outside cycles is missing in
  the three-valued least fixed point too. `KleeneStep` only ever adds verdicts, so
  over finitely many nodes enough rounds of it reach the fixed point
  (`KleeneIsFixed`); what depends on no cycle is built up in layers
  (`WellFoundedLayers`), so such a node is never found to be in progress
  (`InProgressIsCyclic`); and every result there is what the fixed point says
  (`Exhaustive`).
- `EveryResourceOnceHolds` (`StackLedger_proofs`): the last delta is always the
  diff of two inventories, and any such diff classes each logical ID once.
- `LedgerTypeCorrect`, `LedgerBalancesHolds`, `DriftIsBoundedHolds`,
  `LedgerDriftIsBoundedHolds`: totals are sums over finite sets, whose laws
  (one more element, disjoint unions, bounds) are proved by induction over the
  subsets of a finite set. The entries of a delta add up to the change of the total
  up to the drift of what is called unchanged (`NetIsChange`), which is less than
  a cent for each resource (`DriftIsSmall`) and nothing in whole cents. `LedgerInv`
  carries both through any sequence of operations.
- `ActiveIsFaithfulHolds` (`PriceCache_proofs`): the invariant is that a run
  which is still healthy is faithful to every fetch it has made. A later fetch
  keeps that because a key it shares with an earlier one at another price is a
  collision, and the active run is healthy, has ended, and writes no more.
- `ImplementsPriceBookHolds`: `PriceCache` implements `PriceBook`. A container
  only names generations that have ended, so their rows do not move, and what
  its memo holds are those rows (`MemoIsTrue`), because adopting another
  generation empties it. Each step is then a step of `PriceBook` or none.

- `PropertiesAreDeployedHolds`, `InclusionIsTrueHolds` (`PricingEngine_proofs`):
  resolving and pricing only ask the evaluator for verdicts
  (`EngineAsksForConditions`), so its verdicts are sound here too. A recursive
  function over expressions is unfolded by their bounded depth
  (`DepthInduction`, `StrictRound`, `LenientRound`, `DeployRound`, `SinkRound`).
  What resolves strictly is what was deployed (`StrictIsDeployed`), for a part that
  does not resolve leaves the whole unresolved, and a whole without stand-ins has
  parts without them (`StandInsRound`); and what resolves leniently
  without a failure in the sink is what resolves strictly (`ClearIsDeployed`). A
  resource resolved early stays right because `truth` does not change
  (`ResolvedAreKept`).
- `FigureIsDeployedHolds`: the properties of a resource without gaps are those
  deployed, absent ones included, so the mappers see the same; the platform is that
  of the image, because the memo only holds described ones (`RemembersTruth`).
  `OneFallbackPerFailureHolds` counts: each failed call adds at most one resource
  to those priced for another platform (`FallbacksAreCounted`), and the memo none.
- `EngineTypeCorrect`: no mapper makes a negative quantity of whatever its
  properties resolved to, also where they are not what it expects.

Of expressions the proofs assume `ExpressionsAssumption` (they have the forms of
the code, their parts are shallower, an `Fn::If` names a condition, and a deployed
`Fn::Select` has no negative index), of templates `TemplatesAssumption` and
`ResourcesAssumption` (properties are expressions, parameter values texts), and
`ImagesAssumption` (an image has a name). Of `Canonical` they assume that numerals are
written as texts (`CanonicalAssumption`).

Every safety invariant and action property of the passing runs, and the
refinement, is thus a theorem. Only model-checked, because these provers cannot
do them, are liveness and everything under fairness (*EventuallyHandled*,
*EventuallyDelivered*). The three violations are counterexamples of TLC.

## Not modelled, and the plan

Left out for good:

- Rendering: the report builder, Slack blocks, mails, and the trimming of a
  report to the transport limit (`publisher.py`), which depends on the size of
  rendered text. A property of them would be about wording or bytes.
- The YAML loader, which maps tags to the forms `TemplateResolver` starts from.
- The install check: one request, two reads and one answer.
- Metrics, logging, configuration and scripts: best effort or operators' tools,
  without an effect on the analysis.
- Unit prices, discounts and currency in `PricingEngine`; products' attributes
  and the tables of rules in `PriceCache`: they are data.
- Expiry of idempotency rows by TTL: the completion TTL exceeds the queue's
  retention.
- Several records in one SNS event, which SNS does not send, and several stacks
  in one channel, which share nothing.

Next, in this order:

1. `Reporting`: an abstract at-least-once reporter that `EventProcessing`
   implements (`INSTANCE ... WITH`), with the refinement proved step by step.
2. A composition of `ConfirmedState` with the ledger, for what the reports of
   concurrent events of one stack add up to.
