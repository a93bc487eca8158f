# Cloud-kitchen back end: TLA+ models, checks and proofs

The repository is the back end of a cloud-kitchen ERP: Express routes and service modules over
PostgreSQL (Drizzle), plus one worker process.  It takes orders from delivery aggregators and from
walk-ins, prints kitchen tickets, deducts ingredients, keeps a stock ledger, moves stock between
outlets, and reports back to the aggregators.  Several API processes and workers share the
database; what keeps them apart is row locks, conditional updates, unique indexes and leases.  That
is what these modules model.

All paths below are relative to `src/`.

## 1. Inventory

| Component | State it keeps | Operations | Who it talks to | What is hard |
|---|---|---|---|---|
| orders (`src/modules/orders`) | `order`, `order_item`, `stock_reservation`, `consumption_log` | ingest, advance, cancel | stock rows and ledger; print jobs; outbound hook | reads before the transaction, raced duplicates, restock of what was really taken |
| printing (`src/modules/printing`) | `print_job`, `print_job_attempt` | v2 claim/renew/ack, virtual spool, v1 pull/ack, reprint | filled by orders; outlet print agents | leases, stale snapshots, lost acks, two protocols on one row |
| outbound (`src/modules/outbound`) | `aggregator_command`, `order_dispute`, `control_mode` | enqueue, lifecycle hook, dispute, worker claim/send/resolve | hook of orders; provider APIs | guard outside the transaction, late results, crashes during a send |
| middleware (`src/modules/middleware`) | `provider_event` | intake, process, park, reprocess | orders.ingest/cancel | out-of-order webhooks, overlapping unlocked calls |
| foodpanda, grab | plugin orders, inbound queue, tokens | intake, worker, catalogue | orders, outbound | the same hazards as middleware, with leases |
| stock posting (`src/modules/stock`) | `inventory_lot_balance`, `stock_posting`, `operational_document` | post, replay, refuse | every document of the next three rows | idempotency keys, a saga of three transactions around each posting, lots that expire or lack stock between plan and posting |
| transfers, stock returns, QA releases | document headers, lines, receipts | draft, submit, approve, dispatch, receive, dispose, release, cancel | stock posting; releases read return receipts | crashes and lost answers between posting and finalizing, cancel in between, short receipts, bookings of one receipt line by several releases |
| production (BOM, job orders) | BOM versions, jobs, their component rows | author, activate, retire; draft, approve, release, start, complete, fail, cancel | stock posting | cycles through drafts, replanned retries, output of a job that failed |
| customer orders | orders, allocations, fulfilments | draft, approve, allocate, ready, fulfil, cancel | stock posting; job orders | competing allocations, one fulfilment in two postings |
| inventory | `inventory_stock`, `stock_ledger_entry`, `receiving_report`, `ito`, adjustments | direct receive, ITO request/confirm, adjust, approve, reject | ledger | double submits, duplicate lines, racing decisions |
| purchasing | requests, orders, receipts | request, approve, reject, order, send, receive | inventory | over-receipt, status against lines, late rejections |
| discounts, ems, alerts, join links, signup | single documents | approve, clock in/out, send once, redeem once | – | once-only rules |
| auth, tenancy, admin, master data, analytics, reports, kiosk, realtime | configuration, read models | CRUD, queries | – | none of the above; not modelled |

What makes each component correct: a ticket is printed and recorded once per lease; a command is
sent, counted and resolved by the run that holds it; an order takes its ingredients exactly once
and gives back exactly those; PROCESSED says the truth about an order; every stock document moves
stock once, under one key, and its rows tell what its posting did; no unit is promised twice.

## 2. Modules

**`PrintQueue`** (`src/modules/printing/service-v2.ts`, `service.ts`).  One location's job rows with
their attempts.  `claimJobs` is split at its awaits: `SelectLapsed`, `RecordExpiredLease` per lapsed
row, `SelectCandidates`, `ClaimCandidate` per row; what a call has read stays in `snaps` and `cands`
and is stale when used.  `ResolveAttempt`/`ReplayAck` are the two paths of `ackJobV2`;
`SpoolRelease`/`SpoolAck`/`SpoolAbort` the loop of `processVirtualSpool`; `ListPendingJobs`/`AckJob`
the v1 agents; `ReprintJob` the operator.  Time is a countdown per lease.

**`OutboundCommands`** (`src/modules/outbound/service.ts`, `worker.ts`).  The queue of one listing.
`enqueueCommand` is `CheckGates`, `CheckOutOfOrder`, `InsertCommand`: three steps of a caller.
`AdvanceOrder` plus `EnqueueLifecycleCommand` is the hook of `advanceOrder`; `CreateDispute` and
`RecordDispute` bracket the contest command.  A worker run is `SelectBatch`, then `ClaimOne`,
`SendCommand`, `ResolveSend` per row.  A run has a fresh owner name, so a crash leaves its rows to
`Orphan`.  The provider is nondeterministic; a retryable failure may have been delivered.

**`KitchenOrders`** (`src/modules/orders/service.ts`, `src/modules/inventory/ledger.ts`).  Orders of one
outlet and the kitchen stock.  `ingestOrder` reads in four steps and inserts in one transaction;
`advanceOrder` and `cancelOrder` read, then commit conditionally on the stage they read.  Recipes
change at any time; an order may be older than recipe snapshots; the kitchen warehouse may be
configured late.  **`OrderPromise`** is the abstract specification: place, prepare (the one step that
takes ingredients), finish, cancel (puts back what was taken).

**`ProviderEvents`** (`src/modules/middleware/service.ts`, `processor.ts`).  Intake under the row
lock; `processEvent` as a sequence of unlocked steps with unconditional writes, including the nested
call that takes up a parked cancel and the catch block it can fall into.  A call reads its row once:
`base` and `cool` are what it read of the attempts and of the backoff window, and what it counts from
and gates on, whatever other calls write meanwhile.

**`StockPosting`** (`src/modules/stock/posting-service.ts`, `types.ts`, `canonical.ts`).  The lot
balances, the operational documents and the postings, one of each per *slot*: a document and a
module, which is what an idempotency key and a document row are made of.  `Commit` is
`executePosting` whole: key, document state, route policy, lot eligibility, balances, rows.  A
handler that posts is a request in `call` that passes through `Prepared` (the end of its first
transaction, documents ensured), `Post`/`PostLost`/`PostReplay`/`PostRefused`, and the finalizing
action or `Compensate`; `Crash` may end it anywhere.  A document row deleted and inserted again has
another id, which the finalizing foreign key notices (`DocumentStands`).

**`Transfers`**, **`StockReturns`**, **`QaReleases`** (`src/modules/transfers|stock-returns|qa-releases/
service.ts`) are the HQ documents, one action per handler, two or more for a saga; **`HqDocuments`**
composes them on one ledger and holds their properties.  A release books part of a return's receipt
line, so `QaReleases` extends `StockReturns`.  `submitQaRelease` gives the stored base quantity back to
the validation together with the entered unit, which converts it once more: a line carries both amounts
(`qty`, `again`), and the submit checks the second (`StoredLinesOk`).

**`Boms`**, **`JobOrders`**, **`CustomerOrders`** (`src/modules/production`, `src/modules/customer-orders`)
follow one another the same way, since a job is planned from a bill and an order may wait for a job;
**`Production`** composes them.  `Portions` is the FEFO split of `selectFefoLots` and
`selectFefoAllocationPortions` in closed form: a balance gives what those ranked before it leave open.
An allocation that would hold one lot twice for one line fails on the unique index (`OneRowPerLot`);
a component snapshot may name an item twice, and the output of a job may expire before it is shipped.

**`OutletInventory`** (`src/modules/inventory`) and **`Purchasing`** (`src/modules/purchasing/routes.ts`)
are the older, outlet-level stock: balances per warehouse and ingredient, the ledger with its
skip-on-conflict insert, direct receipts, ITOs, adjustments, and the purchase documents whose
receipts enter it.  A handler that decides by one conditional update is one action; the purchase
receipt, which reads before it locks, is `ReceiveRead` and `ReceiveFiles`.  The duplicate lookup of a
receipt compares it with the `LookbackLimit` latest reports of its scope (`Candidates`; five in the code).

`MC*` modules hold the small instances.  Operators marked *Mutant* are plausible bugs: replacing the
definition below them by the mutant makes TLC find the property violated, which shows that the
property depends on that line of the code.

## 3. Runs

| Run | Instance | Shows |
|---|---|---|
| `print_queue` | desk *agents*: 2 agents, 1 job, 4 tokens, leases of 1 or 2 ticks, 2 attempts; desk *shared*: an agent, the virtual spool, a v1 agent and the reprint button on 2 jobs | attempt numbers contiguous; one row per token; a 200 ack is backed by its row; an open job is undecided by its history; a live lease is not stolen; the lease protocol resolves a job with the attempt it appends, and only a v1 ack writes a status otherwise |
| `print_exhausted` | 1 agent, 1 job | *violation*: a job whose attempts all lapse is never FAILED |
| `outbound_requests` | 2 callers; accept, ready, reject and two contests of one order | the first contest recorded for an order stands, backed by its queued command, under every interleaving and crash |
| `outbound_queue` | 2 workers, 1 command, a crash, a slow send, 2 attempts; fair | SENT means delivered; budget; lease ownership; resolved rows stay; every command resolves |
| `outbound_reject` | 2 callers, accept and reject | *violation*: an accept is enqueued after a reject |
| `orders` | 2 requests, a legacy order and a walk-in, 2 ingredients, 3 recipes | stock = ledger; consumption follows stage; holds, tickets, stages; refinement of `OrderPromise` |
| `orders_walkin` | 2 walk-ins, 1 unit | *violation*: both are accepted |
| `provider_events` | a create and a cancel, 2 calls, a restart, a reprocess; fair | PROCESSED is true; retry budget; a parked cancel is taken up by the create that follows |
| `provider_parked` | a create and a cancel, 2 calls | *violation*: a cancel is parked for ever beside an open order |
| `hq_documents` | 2 requests; 1 transfer (one or two lines, pinned or not), 1 return of 1 or 2 units, 2 releases booking it; 3 warehouses, 2 lots of which one expires; a day passes | a status is backed by one final posting; received within dispatched; released within held; retries replay |
| `production` | 2 requests; 2 bills with 2 versions, 2 jobs, 2 orders (stock, job output, or both); 3 items, a lot that expires | no bill needs its own output; jobs and orders are backed by the postings they report; no unit is promised twice |
| `purchasing` | 2 requests in flight; a request, an order with 2 lines, 3 receipts; or 2 ITOs (one negative, of an ingredient MAIN lacks), an adjustment and direct receipts; or three direct deliveries, some sent again, with up to 4 reports and a lookup of 2 | every document moves a balance once and the ledger tells which did; no double receipt inside the lookup; order status agrees with lines and rests on an approval |

Desks.  Several of the instances start at a *desk*, a constant of the behaviour that says which
documents are worked on; every desk runs on the full state with the full actions, and TLC does not
explore the interleavings of one desk with another (the theorems of section 5 have no desks).
At the releases desk of `hq_documents` and the orders desk of `production` what comes first (the return received, the job under way) happens without mishap, so that
the interesting part starts from a state the program reaches; the other desks exercise the mishaps.

Bounds.  Two concurrent calls are enough for every race above, because each guard relates one
writer to one other; two attempts put the retry limit within reach; the token, crash, slow-send and
reprocess bounds only cut off repetition of what already happened once.  `LastDay` = 1 is one midnight,
enough for a lot to expire between any two steps; quantities up to 2 or 3 let a need take a whole lot, part
of one, or parts of two; `MaxEdits` = 1 lets a draft change once.  `LookbackLimit` is 2 where the code
has 5, and `MaxReports` 4, so that a report does fall out of the lookup and is filed again; the theorem
holds for both at any value.  Reports are in the order they were filed, which stands for `created_at`.
Deadlock checking is off
because every bounded instance ends when its counters are used up, and because the system really
may be idle.

Fairness.  `OutboundCommands!FairSpec`: `runWorkerLoop` ticks for ever and awaits every run, so a
worker's next step is weakly fair; backoffs and the leases of dead runs end with the clock.
`ProviderEvents!FairSpec`: a call that began runs on (Node resumes every await).  Nothing is assumed
of providers, operators or crashes.

## 4. Findings

The four violation runs are disagreements between the code and its own comments; `PROJECT.json`
quotes them.  More were met and are recorded among the hazards without a run of their own, because
the models contain the behaviour and the properties are stated around it:

* a v1 agent that pulled a job before a v2 claim prints it as well; a live lease granted while an
  older one was still being folded cannot be acked; commands queued under API mode are sent after the
  listing went back to DEVICE;
* an APPROVED transfer or release cancelled between the posting and the finalizing transaction ends
  CANCELLED with its stock moved, and a customer order cancelled there ships all the same;
* a dispatch or a job start whose lots are chosen by the plan may choose others on a retry, and is then
  refused for ever with IDEMPOTENCY_KEY_REUSED;
* a contest whose request dies before its second transaction, or loses the race of two first contests,
  stays queued without a dispute;
* a sixth receipt of one scope within the window pushes the first out of the duplicate lookup, and a retry
  of that one is filed and stocked again; a valid release of quarantined stock in another unit than the
  base unit may be refused at submit, because it is converted twice;
* an order line linked to a job is allocated any lot of the item in the job's warehouse, although the
  comment at `src/modules/customer-orders/service.ts:299` says that there is no other than the job's output;
* two lines of one receipt that name the same order line are each checked alone; an ITO takes nothing from
  a MAIN that has no row for the ingredient and credits the kitchen; negative amounts are accepted.

## 5. Proofs

One proof module per component, and `SumTheorems` for what they need of sums; all are checked by
TLAPS.  Each theorem holds for every value of the constants that satisfies the component's named
`ASSUME`.  These ask for what the program has: finitely many orders, documents, requests, items, and
lines of a draft; positive attempt limits and quantities; sentinels that are no value; opening balances
that are numbers (zero for a lot that has still to be minted); a slot for every document and the lot it
will mint.  `KitchenOrders`, `PrintQueue`, `OutboundCommands`, `ProviderEvents` and `Purchasing` are
proved about through `Spec`, the composed modules through `HqSpec` and `ProductionSpec`; none of these
states fairness.

Every invariant and action property of the passing runs, and the refinement, is a theorem.

| Module | Theorems | Argument |
| --- | --- | --- |
| `PrintQueueProofs` | `TypeCorrect`, `HistoryIsContiguous`, `TokenLeavesOneRow`, `AnswersAreBacked`, `HistoryDecides`, `LeaseIsSafe`, `StatusIsTheAttempts` | `HistoryInv`, `ResolutionInv` |
| `OutboundProofs` | `TypeCorrect`, `OwnerIsSending`, `BudgetLeft`, `SentMeansDelivered`, `ResolvedIsFinal`, `FirstContestWins` | `QueueInv`, `DisputeInv` |
| `KitchenOrdersProofs` | `TypeCorrect`, `ConsumptionIsByStage`, `HoldEndsWithNew`, `TicketedOnce`, `LedgerBalances`, `StagesInOrder`, `PromiseKept` (refinement) | `OrderInv`; types for the ledger |
| `ProviderEventsProofs` | `TypeCorrect`, `ProcessedTellsTruth`, `BudgetKept` | `ProcessedInv`, `BudgetInv` |
| `HqDocumentsProofs` | `HqTypeCorrect`, `StatusesBacked`, `PostedForGood`, `ReceivedWasSent`, `RetriesReplay`, `CustodyHolds` | `LedgerInv`, `StockTyped`, `HqInv`, `HqTyped`, `Custody` |
| `ProductionProofs` | `ProductionTypeCorrect`, `JobsBacked`, `OrdersBacked`, `PromisesBacked`, `BillsAreSound` | `ProductionInv`; `OneWay`, `ShippedFits`, `Promised`; `BomsSound` |
| `PurchasingProofs` | `PurchasingTypeCorrect`, `ReceivedOnce`, `ApprovalStands`, `StatusMatchesLines`, `LedgerIsTrue`, `BalancesAreDocuments` | one invariant per theorem |
| `SumTheorems` | lemmas only | least counterexamples |

Why the inductive invariants say more than the properties:

* `HistoryInv`.  A claim call folds leases it read some steps ago.  `SnapsTrail` ties what it remembers
  to the row (never newer; exact while the row carries the token), `SnapsAgree` ties two calls that
  remember one token, and the attempt row that token left, to each other, and `TokensFresh` says a token
  is on one row at most and on none once it left an attempt.  With these, a stale fold either finds its
  number taken or appends the next one.  `ResolutionInv` adds that only an open job carries a token and
  that what is remembered of a job resolved since has a number the history holds.
* `QueueInv`.  The answer a run holds was given after the attempts its row counts (`AnswersAreTrue`), so
  the conditional resolve may count it and may write SENT; a row not inserted yet has no attempts.
  `DisputeInv` adds that the contest command of a request between its two transactions is queued, and
  uses that rows are never deleted (`RowsStay`); `DisputeStays` adds that only a resolution changes a
  recorded dispute.
* `OrderInv` (kitchen).  Nothing is put back for an order that has taken nothing yet; with it a
  cancellation posts the restock row exactly once.  `RequestsInformed` says what a request at a given
  place has read.  `StepKinds` sorts every step into placed, prepared, finished, cancelled or quiet, and
  the refinement maps these to the actions of `OrderPromise` (`taken` is the consumption log).
* `LedgerBalances`.  A step changes a balance and the rows of at most one order, by the same amount
  (`TotalChanges`); types suffice to carry the sum.
* `ProcessedInv`.  A call about to mark its event carries the truth about the order (`DoneIsTrue`), and
  that truth does not go away (`TruthStays`).
* `LedgerInv(K)` (the first part of `HqDocumentsProofs`, used for production too).  A posted slot's
  document is POSTED (`Claimed`), so no compensation deletes it, and a request told that its plan is
  posted holds the plan that is (`Answer`).  Every step of whatever documents use the service is sorted
  into kinds (still, answering, committing, ending, starting, continuing), and a step that does not
  start a request on a document's slots leaves them `Undisturbed`: at most a plan in flight gets posted.
* `StockTyped`.  A plan is a finite set of moves of positive quantity, so its totals are numbers, and a
  balance stays a natural number because a commit is refused otherwise.  A row id for a new document is
  left because there are more ids than requests, and a request remembers one per slot.
* `HqInv`, `JobHistory`.  For each document, what every status says of its postings *and of the plans in
  flight on its slots*: a late request may still post after a cancel, or ask for another lot, and the
  finalizing action may only trust its own plan because of `Answer`.  For a transfer the plan in flight
  keeps its lines and source, for a job it draws from the job's warehouse, for a return or release it is
  the one plan the rows determine, which is why these replay.
* `Custody`.  `ReleasedWithinHeld` says that what is in quarantine of a return's lot is what its
  receipts held less what releases took.  That is inductive only if nothing else moves these lots:
  `Fitting` says of every plan in flight what its slot allows, `LotsTold` that a return's lot is never
  AVAILABLE, so that no allocatable plan can take it, and `SentLots` that no transfer carries one.  A
  release may then take no more than was held because a balance is not negative.
* `OrderHistory`, `RestFollows`.  A fulfilment posts twice, and what is in hand, what is still to be
  asked for and what is already posted change between the two.  `RunFits` says of every request what it
  holds of the order's two slots, `OrderReady` and `OrderFulfilled` what the rows say of the postings,
  `RestFollows` that a second half waits only behind the first of the same order.  The shipped quantity
  is the sum of the rows because a plan has one move per row (`SumInjected`).
* `PromisesBacked`.  `Promised` counts what an order has shipped and what it still holds in one sum.  An
  allocation is the only step that adds to it, and it takes at most what no other order holds of what is
  on hand (`Within`); a shipment moves a claim from held to shipped (`HeldCovered`).  On hand is in turn
  bounded by what was there, plus what the jobs made, less what was shipped (`ShippedFits`), because
  only the output of a job brings stock in, and into a lot of the job's own (`OneWay`).
* `BillsAreSound`.  Reachability over as many edges as there are items is closed (`ReachCloses`: a step
  that adds nothing never adds again, and one that adds something does so at most once per item), so it
  is the smallest closed set (`ReachWithin`).  A cycle that appears with new components of a draft uses
  one of them and so passes through its output (`ExtendedAcyclic`), which is the one item
  `assertNoCycle` starts from.  It is sound because the check counts drafts: the invariant is about
  every version that may become active.
* Purchasing.  `ReceivedOnce`: of two equal reports in the window the later was filed when the lookup did
  not hold the earlier, so as many newer ones of the scope were between them (`PushedOut`, by counting),
  and what is between two reports never changes.  `StatusMatchesLines` needs that a receipt in flight is for an order that was sent, since
  `ReceiveFiles` does not look at the status again (`ReceiptOK`); `LedgerIsTrue` that a document number
  not yet drawn has no entry, so the skip-on-conflict insert never skips the first line of a new
  document; `BalancesAreDocuments` that documents name existing places and entered amounts
  (`DocumentsOK`), and that rows are never taken away and a balance without a row is zero
  (`BalancesOK`).
* Sums.  The library's sum is a fold, chosen by `CHOOSE`, and induction theorems that take a predicate
  are out of the provers' reach.  `SumTheorems` shows that the fold's function exists and unfolds, by a
  least counterexample over sizes, and from there what changes when one term changes, when sets are
  joined, when one set is mapped into another.  `Onwards` and `Iterated` do the same for functions
  defined over `0..n`.

Left to TLC: liveness under fairness (`EveryCommandResolves`, `ParkedCancelTakenUp`; the prover has no
ENABLED), and the runs that expect a violation, which are counterexamples.

## 6. Order of the work

Printing, outbound, orders and webhooks came first, because concurrent processes write the same rows
there; then the posting service with the HQ documents, production with customer orders, and the
outlets' inventory with purchasing, each as module, instance, run, mutants and proofs.  What would come
next: proofs of what the abstract kitchen specification is for the other documents (a posting happens once
and for good), and the foodpanda outbox, whose claim protocol is the one of `OutboundCommands` with
another table.

## 7. Not modelled

* Authentication, sessions, tenant resolution, admin and master-data CRUD, analytics, reports, kiosk,
  realtime fan-out: single rows, read models or pure I/O.  Roles and outlet scope are guards where they
  decide who may move a document.
* HTTP adapters, payload formats, ticket layout, signatures.
* Read-only endpoints of every module.
* Unit conversion and prices: documents carry base quantities; a line that does not convert is refused
  before it reaches any state here.  The one conversion that matters, the second one of a release at its
  submit, is a free number of the line.  The supplier price list, budgets (a warning in an answer), unit
  costs, outbox events and the audit log are written and never read by these protocols.
* The reconciliation run of the posting service: it compares and may switch posting off, which is one of
  the reasons for `PostRefused`.
* Foodpanda and grab workers, discounts, attendance, alerts, join links and signup: each is one conditional
  update per row, or repeats a protocol modelled here.
