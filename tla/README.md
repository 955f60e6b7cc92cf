# MeshCart in TLA+

MeshCart is a shop built from Go microservices: an HTTP gateway in front of user, cart,
product, inventory, order and payment services, each with its own MySQL tables, an outbox
with a Kafka publisher, and a Kafka consumer. This directory holds TLA+ models of its core,
the TLC runs that check them on small instances and the theorems that TLAPS proves for all
instances. Paths below are relative to the repository.

## 1. The system

| part | state | operations | talks to |
|---|---|---|---|
| inventory service | `inventory_stocks` (total, reserved, available, status), `inventory_reservations` (one row per business order and SKU), `inventory_tx_branches` | init, freeze, reserve, release, confirm-deduct, adjust; saga init and its compensation | called by order service (RPC), gateway, DTM |
| SKU guard | one semaphore per SKU, in memory | acquire (sorted), release | inside the inventory service |
| order service | `orders`, `order_items`, `order_status_logs`, `order_action_records` | create, cancel, confirm paid, close expired; reads | calls product and inventory; called by payment and gateway |
| payment service | `payments`, `payment_action_records`, `payment_outbox` | create, confirm success, close; reads | calls order service |
| outbox dispatcher | the outbox rows | claim, publish, mark | MySQL to Kafka |
| payment consumer | `payment_consume_records`, the group's offset | handle, commit | Kafka to MySQL |
| product service | products, SKUs, transaction branches, a Redis cache | create (saga), update, change status; cached reads | called by gateway, DTM, order |
| gateway: product creation | a DTM workflow | create product, initialise stock, publish, roll back | product, inventory |
| gateway: product update | nothing | update, init stock, freeze stock | product, inventory |
| gateway: sessions | sessions and refresh hashes in Redis or memory | save, rotate, delete | |
| gateway: rate limiter | token buckets | allow, clean up | |
| cart service | `cart_items` | add, update, delete, clear | |
| user service | users and roles | register, update role | |
| process lifecycle | a draining flag, one deadline, the pool | drain, close the servers, exit | every service; Consul |
| config, tracing, metrics, authorization | no protocol state | | |

What is hard in each, and what would make it correct:

- **Inventory.** `Reserve`, `Release` and `ConfirmDeduct` first load reservation rows with an
  ordinary SELECT, so they branch on a snapshot; their UPDATEs carry conditions on the *stock*
  row, but update the *reservation* row by primary key only. `AdjustTotalStock` writes absolute
  values computed from an unlocked read. Correct means: counters agree with each other and with
  the reservation rows, nothing is oversold, an order is treated as a whole, what ended stays
  ended, and a release that overtakes its reserve leaves nothing locked.
- **Order.** A request moves stock by RPC and the order row by a later transaction, guarded by an
  action record that makes retries idempotent. RPCs time out without undoing their effect.
  Correct means: order status and stock agree, an answered success stays true, final statuses
  are final, one order per request_id, and no action record is pending for ever.
- **Payment.** The same shape one level up: confirm calls the order service and then transitions
  its own row; `active_order_id` is a unique key that allows one active payment per order.
- **Outbox and consumer.** Rows are written in the payment's transaction; claim, publish and mark
  are three steps a crash can separate; consume records and offset commits decide what is lost or
  handled twice.
- **Product saga.** Forward and compensating calls are retried by DTM and may arrive late;
  barrier rows must stop a late forward call. Correct means: all of a creation is there in the
  end or nothing of it.
- **SKU guard.** Sorted acquisition must prevent deadlock; a cancelled wait must return its slots.
- **Product service.** An update and the deletion of cache entries are separate; a reader may store
  what it loaded before the update after the deletion. Correct means: an old entry is gone in
  the end, and a SKU that was taken out is off sale everywhere, its stock included.
- **Sessions.** Lookups, a watched transaction and a delete in two halves: a token is exchanged once,
  a session that was logged out never comes back.
- **Cart, user.** Read-then-write: lost quantities, the last superadmin demoted by two requests.
- **Rate limiter.** A bucket is used after the lock of its map is given back, with a clock read before
  it was taken.
- **Lifecycle.** Several timers and servers against one deadline: a call is lost or the instance left
  in the registry only when that deadline passed.

`PROJECT.json` lists every such hazard at its line, with the property that covers it or the
reason why none does.

## 2. Modules

| module | what it is |
|---|---|
| `Inventory` | the inventory service's transactions over stock and reservation rows, and their mapping to `StockLedger` |
| `StockLedger` | what it promises: the same ledger with each operation one atomic step |
| `OrderService` | the order service's requests, over `INSTANCE Inventory` |
| `OrderBook` | what it promises: an order is placed, then paid by one payment or ended |
| `Payment` | the payment service's requests, and the order service's side of their calls |
| `Outbox` | the outbox table and its dispatchers |
| `EventConsumer` | the consumers of `payment.events` and their idempotency table |
| `EventFlow` | `Outbox` and `EventConsumer` composed over one topic |
| `ProductCreateSaga` | the creation workflow, DTM, and the branches in product and inventory |
| `SkuGuard` | the semaphores in front of the inventory |
| `Catalog` | the product service's updates and cached reads |
| `ProductUpdate` | the gateway's update, over `Catalog` and the stock of its SKUs |
| `SessionBook` | what a session store promises, as the in-memory store keeps it |
| `Sessions` | the Redis session store with refresh and logout |
| `CartBook` | what a cart promises |
| `Cart` | the cart service's transactions for one user |
| `UserRoles` | registration and role changes |
| `RateLimiter` | the map of token buckets |
| `Shutdown` | how the process of a service stops |
| `MCInventory`, `MCOrderService`, `MCPayment`, `MCEventFlow` | instances of one module each |
| `MCServices`, `MCGateway`, `MCLive` | suites: instances of several modules that share no state, in one behaviour each |
| `InventoryProofs`, `OrderProofs`, `PaymentProofs`, `ServicesProofs`, `EventFlowProofs`, `UpdateProofs`, `GatewayProofs`, `LiveProofs` | theorems (section 4) |

`OrderService` extends the inventory by an instance. `Payment` has the order service's confirmation in its two
steps, a check and a write, and leaves the rest of it to `OrderBook`; that promise `OrderService` keeps for one
payment of an order (run `order_settle`, theorem `OrderBookImplemented`). `EventFlow` joins dispatcher and
consumer; `ProductUpdate` extends `Catalog`.

A suite declares the variables of every module it instantiates and one more, `part`, which a
behaviour fixes at the start: its steps are those of that part's `Next`, and the variables of the other
parts never move. Each part is a model with an environment of its own and meets no other; what is to meet
is composed in a module (`EventFlow`, `ProductUpdate`, `OrderService` over `Inventory`, `Payment` over
`OrderBook`). So a suite has the sum of its parts' states and not the product, and a property
of it says `part = "..." => ...` of the instance. Where one module is there twice, with overlapping
requests and without, or with contexts that end and without, the two are two parts.

Conventions. `req[r].pc` (or `call`, `disp`, `cons`) is where a goroutine stands, and an action is
what it does between two points at which another actor can slip in: a database transaction or
statement, a Redis command, an RPC, a lock. `Faults` names the failures an instance
allows: `db_error` is an error before anything was written, `lost_ack` an error although the commit
took effect, `crash` the end of the process with all it had in memory.

### Inventory

State: `rowStatus`, `total`, `reserved`, `available` are the columns of `inventory_stocks`;
`resv[o][s]` is the reservation row of business order `o` and SKU `s`; `tx[w]` is the
transaction that worker `w` has open.

A transaction is two steps. `Begin` (or `BeginAdjust`) is the unlocked first SELECT and fixes
`tx[w].snap` (or `.seen`). `Reserve`, `Release`, `ConfirmDeduct`, `AdjustTotalStock` are the rest,
up to the commit: row locks serialise the UPDATEs of overlapping transactions, so evaluating all
of them at the commit, on the *current* counters but with the branches taken on the *snapshot*,
gives the outcomes InnoDB can give. `Reject` is an error that the code itself returns and
`Abort` everything that rolls a transaction back from outside (query timeout, lock wait,
deadlock victim, lost connection, crash). `InitSkuStocks` and `FreezeSkuStocks` do not branch on
a read and are one step each. The unique key `(biz_type, biz_id, sku_id)` is `Insertable`.

Two constants say what callers may overlap. `SameOrderOverlap`: may two transactions of one
order be open together (cancel and sweep, cancel and payment)? `AdjustOverlap`: may an
adjustment be open together with a transaction on its SKU? The code rules out neither; setting
one to FALSE states an assumption about the callers, and the runs show which guarantees
need it.

Left out: the `version` column (written, never read), timestamps, logging, the cap on item
counts, and the amounts' 64-bit width (quantities in this system are far from 2^63, and each
UPDATE compares before it subtracts).

### OrderService

`req[r].pc` is where the goroutine of RPC `r` stands; every action is what it does between two
calls that another actor could slip in between:

| action | code |
|---|---|
| `Claim`, `Replay`, `Mark` | `resolvePendingActionRecord`, `createPendingActionRecord`, `markActionSucceeded`, `markActionFailed` in `helpers.go` |
| `Validate`, `Persist` | `create_order.go`: up to `ReserveSkuStocks`; `CreateWithItems` and its compensating release |
| `LoadForCancel`, `Reload` | `cancel_order.go`: up to the release; the reconciliation after a state conflict |
| `LoadForPay` | `confirm_order_paid.go`: up to `ConfirmDeduct` |
| `ListExpired`, `CloseNext` | `close_expired_orders.go` |
| `Answered`, `TimedOut` | the inventory call returns, or the RPC timeout fires |
| `Select`, `Update` | the two halves of `TransitionStatus` in `repository.go` |
| `DbError`, `Crash`, `Expire` | failures, and the clock passing `expire_at` |
| `Deliver`, `Serve`, `InventoryError` | the inventory service's side of a call |

The inventory call of request `r` for order `o` is the pair `<<r, o>>`, which is also the worker of the
inventory transaction: a call that its client gave up on goes on running. `DbError` is an error before anything
was written; `lost_ack` in `Claim`, `Persist` and `Update` is an error although the commit took effect. An
inventory call has the same two kinds of error: `failed`, from `InventoryError` or a refusal, and `lost`, from
`Serve`: its transaction has committed, and then the answer of COMMIT is lost or `Reserve` fails at
`ListBySKUIDs`, which reads the stock outside the transaction (`repository.go:508`). `Validate` chooses freely
between success and failure, which stands for everything the product service may answer. The checks of
`paymentConflict` (method and trade number) are one payment value.

`Req` fixes the requests of an instance. Order ids come from a snowflake generator, so two
creates never share one (`RequestsAssumption`). Each order has one basket, because the three
later operations take their items from `order_items`. Stock is there and active from
the start and is not adjusted, so `AdjustOverlap` is FALSE.

Two payments of one order confirmed at once are the one way in which the order service breaks
`OrderBook` without an overlap of inventory transactions (section 3).

### Payment

`req[r]` runs through `Find`, `Claim`, `Reclaim` (the action record), then `List`, `Scan`, `CheckOrder`,
`Insert`, `Reuse` (`create_payment.go`), or `LoadForConfirm`, the order call, `Answered`
(`confirm_payment_success.go`), or `LoadForClose` (`close_payment.go`), and ends with `Select`, `Update`
(`TransitionStatus` in `repository.go`) and `Mark`. Unlike the order service, `createPendingActionRecord` hands
back a pending record, so two requests of one request_id may both go on. `pay[p]` is the row, whose
`active_order_id` is set exactly while it is pending; `events[p]` counts outbox rows. Behind the call stands the
order service (`order`, `orderRec`): `OrderClaims` is its action record; `OrderChecks` is the way up to the
SELECT of its `TransitionStatus`, which finds the order reserved; `OrderConfirms` is the UPDATE, which names the
order only and so writes over whatever bill has been written since, or the answer to a bill that has paid
already; `OrderRefuses` is every error; `OrderEnds` cancels or expires an order.

`BillsOverlap` FALSE assumes that confirmations of one order with different bills (payment and trade number) are not both
between check and write; `NoOverwrite` is that, or that an order has one bill. Without it a payment that
succeeded may find its order paid by another (`PayerFixed` of `OrderService`, section 3). An order does not
end between check and write of a payment either: that race is the one of `order_paid_cancelled`, and it is checked
in `OrderService`, not here.

`PaymentOverlap` FALSE assumes that two transitions of one payment never overlap; the code
rules that out nowhere. `RequestsAssumption` says that requests of one key have one content: a caller
that reuses a request_id for another payment is outside the model, and in the code the order
service might then replay the success of another order. The status `failed` is reserved and never
written; `mock` is the only payment method.

### Outbox, EventConsumer, EventFlow

`Outbox`: `ClaimPending` commits a batch as `publishing`, and `RunOnce` then publishes and marks row by
row and returns at the first mark that fails. `FOR UPDATE SKIP LOCKED` makes a claim one step. `Due`
is `next_retry_at` passing. One `Publish` is up to `WriterAttempts` produce requests: the kafka-go Writer
of `kafka_publisher.go:27-34` leaves `MaxAttempts` at its default of 10 and is not idempotent, so a request that
was taken and not acknowledged is sent again (`WriterRetries`), and the topic then has copies that no retry count
knows of. `Restart` is a death or an orderly stop, which cancels the context of
the batch and so leaves the same rows behind. `EventConsumer`: fetch, look up the record, insert it, handle,
mark, commit the offset; an error goes on to the next message. Kafka is external and one
partition: a log in which an event may occur again, one owner at a time, an offset from which a new
owner reads. `MarkConsumeRecordFailed` is left out: the payload of an envelope that the outbox
wrote always decodes, and this is its only caller. `EventFlow` conjoins the two on `topic`.

### ProductCreateSaga

One global transaction: `Forward` steps create, init, publish; their rollbacks; the calls under way
with the part of the branch operation they have done; `MaxRuns` bounds how often DTM runs the workflow. DTM is
external: it records the steps that succeeded, runs an undecided workflow again from the start and
never has two runs at once. A branch operation reads the branch table twice and then commits one
transaction, which the forward row's key guards. The creation and its compensation do not touch the
cache. This module holds the inventory service's saga pair.

### SkuGuard

A channel is the pair of its SKU and the request that made it, since `LoadOrStore` lets two requests
make one each. A request sends to the channels in ascending order, may see its context end at any send,
and receives from all it holds at the end.

### Catalog and ProductUpdate

The rows of one product and its SKUs, shown by the writer that wrote them last; `Entry`s of Redis for the
detail, the list and each SKU. A writer reads the SKUs in its snapshot, updates the product row (which locks
it), writes the SKUs and commits, then deletes keys; a reader looks up, loads, stores. Batch reads are taken key
by key. `Expire` is the time to live. A request gives each SKU it names a status (`StatusOf`): those in
`OffSale[w]` are named with status 0, the others with 1; what it does not name goes off sale. `ProductUpdate`
adds the gateway's three calls and the stock status of each SKU. A call may be refused, get lost on its way,
take effect after the gateway gave it up (`late`), or take effect and be answered with an error (`Answered`).
The gateway freezes the stock of SKUs that the request does not name, and only those: one that is named with
status 0 is off sale and keeps its stock.

### Sessions

Two kinds of Redis keys: the session, which names its token, and for each token the session it
belongs to. `WATCH` and the read under it are one step, and `Touch` marks a watching
transaction as dirty; an expired watched key aborts `EXEC` too, as Redis does since 6.0.9.
`SessionBook` is the in-memory store. A rotation whose answer is lost leaves the client without a token that
counts: `PROJECT.json` lists it as a hazard no property covers.

### Cart, UserRoles, RateLimiter

`Cart`: `AddOrAccumulate` and `UpdateItem` read the row in a snapshot and write it by id; deletes are single
statements. A request that had its effect ends `ok` or, its COMMIT or DELETE done and its answer lost, `lost`;
both are `Effective`. `Fails` is an error without effect, before or after the read. `Top` stands for 2^31 - 1,
and sums wrap. `UserRoles`: count and insert, or load, count and write, as separate statements; tokens keep the
role they were issued with until the next login. `RateLimiter`: a tick is the time in which a bucket gains one
unit and a request costs `Cost` of them; `Ids` are buckets, because a request may use one that the map has
forgotten.

### Shutdown

`main` is where the bootstrap stands: serving, drain window, admin server (`admin`, `poll`), `stop`, `wait` for
`Run`, closing the pool, gone. The RPC server is a library: `RunEnds` lets `Run` return of itself at any time
(which also covers a server that reacts to the signal on its own), `StopGivesUp` ends its wait for handlers. An
error of `svr.Stop` itself (the deregistration refused) is left out. The model has one service; the six
bootstraps share this code. A call that the exit cuts off is a `crash` in the modules above.

## 3. What the runs check

| run | bounds | expects | shows |
|---|---|---|---|
| `inv_serial` | 2 SKUs, 2 orders, 3 baskets, 2 workers, totals up to 3, no overlaps | pass | counters agree with each other (`Balanced`) and with the reservation rows (`ReservedBacked`); the service implements `StockLedger` (`LedgerSpec`), so nothing is oversold and what ended stays ended |
| `inv_free` | the same, totals up to 2, all overlaps | pass | what survives any interleaving: counters never negative, `AllOrNothing`, `NeverReservedAgain`, and balance lost only by a stale adjustment |
| `inv_adjust_race` | adjustments may overlap | violation of `Balanced` | lost update in `AdjustTotalStock` |
| `inv_double_release` | one order's transactions may overlap | violation of `ReservedBacked` | stock given back twice, out of another order's reservation |
| `order_settle` | one order; cancel, pay, pay again, sweep; all faults | pass | `Settled`, `AnswersHold`, and `OrderBook` implemented (`BookSpec`), when the order's inventory transactions do not overlap |
| `order_create` | a create, its retry, a payment of its order, the sweep; 2 orders; all faults and overlaps | pass | one order per request_id (`OneOrderPerKey`); a settled order locks nothing (`SettledHoldsNothing`); orphaned reservations have named causes (`OrphansExplained`), an error answered after the reservation's commit among them |
| `order_live` | suite `MCLive`: guard (twice), orders, payments, event flow, cache, process, saga | pass | records are resolved, waiters served, events handled, caches healed, sagas decided, processes exit |
| `order_paid_cancelled` | cancel and pay, no faults, overlaps | violation of `PaidNotCancelled` | paid becomes cancelled |
| `order_retry_sealed` | pay and its retry | violation of `RetriesAreTried` | a failed confirmation is sealed |
| `services` | suite `MCServices`: payments (three times), outbox, cart (twice), roles (twice) | pass | a payment settles once, with one event, and its order is paid by it; unsettled payments have named causes; the outbox, the cart and the roles keep what they promise |
| `flow_once` | 2 events, 1 dispatcher, 2 consumers, all faults, 2 messages, 1 move of the partition | pass | an event is handled at most once, and only if its payment was settled (`HandledAtMostOnce`); one that was published or passed by the group is handled, was cut short, is at hand or still ahead (`EventsExplained`) |
| `gateway` | suite `MCGateway`: sessions, limiter, saga, catalogue, update (twice) | pass | Redis sessions act as the in-memory store, logout lasts; causes of what sagas and stale caches leave; failed updates are repaired; the rate is kept |

The parts of the suites:

| suite, part | instance | properties |
|---|---|---|
| `MCServices`, serial payments | two confirmations with different trade numbers and a close of a pending payment; all faults, no overlap of transitions, nor of the two bills in the order service (`NoOverwrite`) | `InStep`, `OneEvent`, `AnswersHold`, `FinalStatus` |
| payments | a create, a confirm and its retry on a pending payment; timeouts, lost answers, deaths, overlapping transitions; one bill | `OverlapExplained` |
| repeated payments | a confirm and its repetition under another request_id; the same faults | `OverlapExplained` |
| outbox | 3 events, 2 dispatchers, batches of 2, 2 attempts of 2 produce requests each, 3 messages in the topic, all faults | `OutboxKept` |
| cart, serial cart | 3 requests on 1 SKU that overlap; on 2 SKUs in turn; errors with and without effect | `NeverMore`; `ActsAsCart`, that is `CartBook` |
| roles, serial roles | 2 users, 2 threads, overlapping or in turn | `RolesKept` |
| `MCLive`, guard, patient | 2 requests, 2 SKUs, limit 1; contexts end or not | `AtMostLimit`, `NoLeak`; `WaitersServed` |
| order | create, pay, sweep; timeouts, inventory errors; all overlaps | `RecordsResolve` |
| payment | create, its retry, confirm; timeouts; all overlaps | `RecordsResolve` |
| flow | 1 event, 2 dispatchers, 2 consumers, Kafka errors | `SettledIsHandled` |
| shop | 2 updates, 1 reader, deaths, overlaps | `Healed` |
| process | 3 calls, a drain window that may be too long | `ShutdownExplained`, `Exits` |
| saga | the failures the saga copes with, 3 runs | `SagaCopes` |
| `MCGateway`, sessions | 2 sessions, 3 tokens, 2 calls, all faults | `LogoutLasts`, `ActsAsBook` |
| limiter | 1 key, 2 goroutines, 7 ticks, clocks 1 apart, entries kept for 5 | `LimitKept` |
| saga | every call refused, lost or late; deaths anywhere; 2 runs | `OutcomeExplained` |
| catalog | 2 updates that overlap, one naming a SKU with status 0, 1 reader, Redis errors | `StaleExplained` |
| update | 3 updates in turn, 3 SKUs, each with another SKU off if it names it; calls refused or lost, before or after their effect, deaths | `UpdateRepairs`, that is `SuccessRepairs`, `UpdateReplaces` and `OnSaleHasStock` |
| race | 2 updates that overlap, 2 SKUs; calls lost, answered with an error or late, deaths, Redis errors | `UpdateRepairs`, that is `OnSaleHasStock` |

Why the bounds are enough. Every interaction in the inventory is between two transactions on one row: two
workers produce each ordered pair of operations with each way of overlapping. Two SKUs are needed for a partial
failure and the second order for stock that a stale release can wrongly take (with a single order
`reserved_stock >= ?` would catch it). One of order 1's two baskets asks for another quantity, so that
mismatched retries occur. Totals up to 3 allow both orders to fit, only one, or none. In `order_create` the two
creates may each reserve for an order of their own, on the same SKU; `order_settle` has one order, whose rows
only its own requests move. In the payment runs the kinds of request that can meet are there once each, and
twice where a retry matters. Outbox: with batches of 2 a return in the middle of a batch leaves a row behind, 2
attempts tell a retry from the last one, and 2 produce requests in one attempt the Writer's copies from the
dispatcher's; 3 messages are room for two copies of an event beside another event. Consumers: two are needed for
a partition that moves while one still works on it; one move is enough for each to have been the former owner.
Cart and roles: a lost update takes two requests, the third shows what a later one makes of it. Sessions: with 3
tokens, equal to a save and two rotations, a rotation can commit over another one's result, with 2 sessions
tokens can be mixed up. Limiter: `EntryTTL` is the least for which a bucket is full again when its key is
forgotten (`EntriesOutlast`, section 4), and the clock runs long enough for an entry to be spent, forgotten and
made again. Saga: two runs give one re-run after a rollback that broke off, three are used where liveness needs
the last one undisturbed. Updates: the third repairs what the first and the second left.

Symmetry is declared where all actions and properties treat the values alike (`WorkerSymmetry`,
`ProcessSymmetry`, `TokenSymmetry`); no run with symmetry checks a liveness property. Requests are
sent once in most instances, which then come to rest, so those runs switch the deadlock check off; the
inventory runs keep it on.

Fairness, in `MCLive` alone (each module's `FairSpec` states it for itself; the suite repeats it for
the part a behaviour is about):

- *Goroutines run* (WF): a request that can go on is scheduled, and a wait for an answer ends because RPC
  clients and queries have timeouts; the inventory and order services answer (WF of `Deliver`, `Serve`,
  `OrderStep`).
- *The Go runtime serves waiting senders of a channel in the order they came* (SF of `SkuGuard`'s `Send`): a
  slot comes and goes, and weak fairness would let a request be passed over for ever.
- *The dispatcher's ticker calls `RunOnce` again, and time passes* (WF of `RunOnce`, `Due`); consumers loop.
- *Redis drops what has expired* (WF of `Expire`).
- *Timers fire* (WF): the drain window, the shutdown deadline, the wait of `svr.Stop`, the removal from the
  registry. Nothing is assumed of handlers and of requests on the admin server.
- *DTM calls an undecided workflow again* (WF of `Workflow`), and the services end what they began.

Nor does every property cover the whole of its hazard, and `PROJECT.json` says so at each: `RecordsResolve` and
`SettledIsHandled` are about parts without deaths, `FinalStatus` and `AnswersHold` of `Payment` about transitions that do not
overlap, and `RolesKept` about demotions in turn; the table of violations below has what happens otherwise.

Deaths, errors, expiry of orders and the end of contexts are not fair. `RecordsResolve` is false with deaths or
database errors (a record whose mark was lost stays pending), so these are not in its parts.

Every property of a passing run has a mutant: a definition of the model replaced by the variant
a plausible bug in that code would give (`ClaimUnmarked`, `ExecUnwatched`, ...), under which the
run finds the property violated. The variants stand next to the definitions they replace.

### Disagreements with the documents

Shown by a run:

- `docs/inventory-service-design.md:213` states available = total - reserved; `AdjustTotalStock`
  (`repository.go:292-313`) breaks it when a reservation commits between its read and its write.
- `docs/inventory-service-design.md:135` says a release only gives back what was locked before; the
  update of the reservation row by id (`repository.go:592`) lets two overlapping releases both do so.
- `docs/order-service-development-plan.md:88` and `:501` rule out paid -> cancelled; `TransitionStatus`
  (`repository.go:222-258`) checks the status in an unlocked read and updates by order id.
- `docs/payment-service-development-plan.md:151` says a failed confirmation may be retried for the same
  payment; the order service refuses any key whose record is `failed` (`helpers.go:266`).

The properties below are stated in the modules in the documents' words and are in no run of this
directory. Each is violated in the instance named; to see it, give the module these constants in a `.cfg`.

| property | violated with | document, code |
|---|---|---|
| `OrderService!PayerFixed` | `Requests = {pay, payOther}` of `MCOrderService`, one order, no faults, no overlap | `docs/order-service-development-plan.md:192`; the second of two confirmations replaces the payment of the order (`confirm_order_paid.go:162`) |
| `Payment!SucceededNotClosed` | a confirm and a close of one payment, `PaymentOverlap`, no faults | `docs/payment-service-development-plan.md:85`, `:175`; unlocked SELECT, UPDATE by id (`repository.go:215-255`) |
| `Payment!OneEffectivePayment` | two creates and a confirm of the first one's payment, no faults | `docs/payment-service-development-plan.md:118`; the unique index covers pending payments only (`create_payment.go:195`) |
| `Outbox!NoMessageLost` under `FairSpec` | 1 dispatcher that may die | `docs/mq-inventory-smoothing-and-order-async-plan.md:298-302`; nothing returns a row from `publishing` (`gorm_store.go:80`) |
| `EventConsumer!PassedWasHandled` | 2 events, 1 consumer, `db_error` | `docs/distributed-transaction-process-spec.md:324`; the next message's commit passes the failed one (`bootstrap.go:83`) |
| `ProductCreateSaga!RolledBack` | the answer of the stock's initialisation is lost | `docs/distributed-transaction-design.md:37`; its compensation is skipped (`product_create.go:258`) |
| `ProductCreateSaga!NotHanging` | the creation is late | `docs/distributed-transaction-design.md:362-370`; check and creation are two transactions (`saga.go:44`, `:104`) |
| `ProductCreateSaga!SuccessIsComplete` | 2 runs, a compensation is refused | `docs/distributed-transaction-design.md:37`; a new run tries the failed branch again (`product_create.go:423`) |
| `Catalog!ChangesDropOld` | 2 updates in turn, a reader, no faults | `docs/high-concurrency-optimization-priorities.md:173`; SKUs taken out keep their entry (`update_product.go:57`) |
| `Catalog!UpdateReplaces` | 2 updates that overlap | `docs/product-service-design.md:1286`; the list of SKUs is older than the row lock (`repository.go:223`). Updates in turn keep it (`UpdateRepairs`) |
| `ProductUpdate!RemovedIsFrozen` | 2 updates that overlap; or in turn with `redis_error` | `docs/product-service-design.md:1293`, `:1311`; the SKUs to freeze come from an earlier, perhaps cached detail (`update.go:50`, `:78`) |
| `Sessions!IndexIsWhitelist` | a refresh and a logout, no faults | `docs/gateway-design.md:550`, `:554`; `Delete` reads and deletes separately (`session_store.go:184`) |
| `Cart!AddsAccumulate` | additions that overlap | `docs/cart-service-design.md:144`; the sum is computed from an unlocked read (`repository.go:72`) |
| `Cart!QuantityPositive` | additions in turn, `Top = 3` | `docs/cart-service-design.md:145`; int32 sums have no bound (`repository.go:72`) |
| `UserRoles!SuperadminRemains` | changes that overlap, 3 users | `docs/user-module-design.md:613`; count and update are two statements (`update_user_role.go:45`) |
| `Shutdown!Deregistered` | 1 request, an admin request that outlasts the deadline | `docs/runbook.md:640-642`; the admin server is closed first and its error returned (`bootstrap.go:70-75`) |

## 4. What is proved

The theorems hold for every value of the constants under the named assumptions (`BasketsAssumption`,
`BoundsAssumption`; `RequestsAssumption`, `OrdersAssumption`; `SkuGuardAssumption` and their like), which
only say that item lists have positive quantities, that request kinds exist, that sets of requests are finite, and
so on. A hypothesis beyond these stands in the statement.

| theorem | statement |
|---|---|
| `InventoryProofs!TypeCorrect` | `Spec => []TypeOK` |
| `InventoryProofs!NonNegative` | `Spec => []StockNonNegative`, whatever overlaps |
| `InventoryProofs!AntiHanging` | `Spec => NeverReservedAgain`, whatever overlaps |
| `InventoryProofs!DriftNeedsStaleAdjust` | `Spec => OnlyStaleAdjustDrifts`, whatever overlaps |
| `InventoryProofs!WholeOrders` | `Spec => []AllOrNothing`, whatever overlaps |
| `InventoryProofs!BalancedWithoutOverlap` | `~AdjustOverlap => (Spec => []Balanced)` |
| `InventoryProofs!BackedWithoutOverlap` | `~SameOrderOverlap => (Spec => []ReservedBacked)` |
| `InventoryProofs!LedgerImplemented` | `~SameOrderOverlap /\ ~AdjustOverlap => (Spec => LedgerSpec)`: the service implements `StockLedger` |
| `OrderProofs!TypeCorrect` | `Spec => []TypeOK` |
| `OrderProofs!OneOrder` | `Spec => []OneOrderPerKey`, under every failure and overlap |
| `OrderProofs!NothingHeld` | `Spec => []SettledHoldsNothing`, under every failure and overlap |
| `OrderProofs!OrphansHaveCause` | `Spec => []OrphansExplained`, under every failure and overlap |
| `OrderProofs!SettledWithoutOverlap` | `~SameOrderOverlap => (Spec => []Settled)` |
| `OrderProofs!FinalWithoutOverlap` | `~SameOrderOverlap => (Spec => FinalStatus)` |
| `OrderProofs!AnswersWithoutOverlap` | `~SameOrderOverlap => (Spec => []AnswersHold)` |
| `OrderProofs!OrderBookImplemented` | `~SameOrderOverlap /\ OneBill => (Spec => BookSpec)`: the service implements `OrderBook` |
| `PaymentProofs!PaymentsTyped` | `Spec => []TypeOK` |
| `PaymentProofs!SucceededPaymentsArePaid` | `NoOverwrite => (Spec => []SucceededIsPaid)`, under every failure and every other overlap |
| `PaymentProofs!PaymentsInStep` | `NoOverwrite => (Spec => []InStep)`, under every failure and every other overlap |
| `PaymentProofs!PaymentsAreFinal` | `~PaymentOverlap => (Spec => FinalStatus)` |
| `PaymentProofs!OneEventPerSuccess` | `~PaymentOverlap => (Spec => []OneEvent)` |
| `PaymentProofs!AnswersOutlast` | `~PaymentOverlap => (Spec => []AnswersHold)` |
| `ServicesProofs!OverlapIsExplained` | `ServicesSpec => []OverlapExplained`, for overlapping transitions, timeouts, lost answers and deaths |
| `ServicesProofs!OutboxIsKept` | `ServicesSpec => []OutboxKept`, for any `WriterAttempts` |
| `ServicesProofs!RolesAreKept` | `ServicesSpec => []RolesKept` |
| `ServicesProofs!CartNeverHoldsMore` | `ServicesSpec => []NeverMore`, also when sums overflow and answers are lost |
| `ServicesProofs!CartActsAsBook` | `SumsFit => (ServicesSpec => ActsAsCart)`: requests in turn implement `CartBook` |
| `LiveProofs!GuardTyped`, `NoSlotLost`, `GuardBounds` | `Spec => []TypeOK`, `[]NoLeak`, `[]AtMostLimit`, of `SkuGuard` |
| `LiveProofs!ShutdownIsExplained` | `LiveSpec => []ShutdownExplained`, whatever of the stop function fails |
| `GatewayProofs!StaleIsExplained` | `GatewaySpec => []StaleExplained`, for overlapping updates and reads, and whatever fails |
| `GatewayProofs!OutcomeIsExplained` | `GatewaySpec => []OutcomeExplained`, for any faults, crashes and number of runs |
| `GatewayProofs!SoftSagaIsAtomic` | `SoftFaults => (GatewaySpec => [](part = "saga" => Saga!AllOrNothing))`: which failures a creation copes with |
| `GatewayProofs!UpdateIsRepaired` | `GatewaySpec => []UpdateRepairs`, for updates in turn and overlapping ones |
| `UpdateProofs!OnSaleIsStocked` | `UpdateAssumption => (UpdateSpec => []OnSaleHasStock)`, whatever overlaps, fails or is late |
| `UpdateProofs!TurnsRepair` | `UpdateAssumption /\ InTurn => (UpdateSpec => [](SuccessRepairs /\ UpdateReplaces))` |
| `GatewayProofs!LimitIsKept` | `EntriesOutlast => (GatewaySpec => LimitKept)` |
| `EventFlowProofs!ConsumerTyped`, `HandledOnce`, `LossExplained` | `Spec => []TypeOK`, `[]HandledAtMostOnce`, `[]LostExplained`, of `EventConsumer` |
| `EventFlowProofs!FlowConsumes` | `FlowSpec => Spec`: the flow implements `EventConsumer`, the outbox being one of the publishers that it allows |
| `EventFlowProofs!FlowExplained` | `FlowSpec => [](HandledAtMostOnce /\ EventsExplained)`, from the outbox row to the handler |
| `GatewayProofs!SessionsTyped`, `LoggedOutStaysOut`, `ReplacedIsGone`, `LiveIsFound` | `Spec => []TypeOK`, `[]LogoutLasts`, `[]SpentIsGone`, `[]LiveIsReachable` |
| `GatewayProofs!StoreActsAsBook` | `Spec => ActsAsBook`: the Redis store implements the in-memory one |

The hypotheses. `~SameOrderOverlap`, `~AdjustOverlap` and `~PaymentOverlap` are assumptions about the callers
that the code does not enforce; the violations of section 3 show that the theorems need them. `OneBill` says
that all confirmations of an order name one payment; `PayerFixed` fails without it. `NoOverwrite` of `Payment`
is weaker: confirmations of an order by different bills do not overlap in the order service, or there is one
bill; `PayerFixed` is again what happens without it. `SumsFit` says that what is asked of a cart in all is
within an int32 (`Top`); `QuantityPositive` fails without it. `EntriesOutlast` says that a bucket is full again,
twice the delay between a request's clock and its bucket counted in, before its key may be forgotten; by default
the code keeps a key for ten minutes, and its rules refill a bucket within three seconds
(`gateway/config/config.go:200-223`). Without it forgetting a key would be a way to a full bucket. `SoftFaults`
says that of the first two forward calls of a creation only the product's may go through without an answer,
neither is late, its rollbacks succeed, and the gateway dies between two steps; publication may fail in any way.
The violations of `RolledBack`, `NotHanging` and `SuccessIsComplete` in section 3 each break one of these.
`InTurn` says that updates of a product come one after another, that no call still takes effect after its caller
gave it up, and that no delete of a cache key fails. The code ensures none of the three: overlapping updates
leave SKUs that none of them asked for (`UpdateReplaces`), and a detail that stayed in the cache hides SKUs from
the freezing even in turn (`RemovedIsFrozen`; both in section 3). Refused calls, answers lost before or after a
call took effect, and deaths between any two calls are allowed. `ServicesProofs`, `GatewayProofs` and
`LiveProofs` are about parts of the suites: the configurations give the sets of events, dispatchers, users,
requests, keys and faults of these parts as constants, and the theorems hold for all values that the assumptions
of the modules allow.

The type invariants are proved and not in the runs' lists, the inventory's excepted.

The argument, for the inventory:

- `StockNonNegative` is not inductive: an adjustment writes `target - seen`, so one needs that an
  open adjustment has `target >= seen` and `seen >= 0` (`AdjustSane`), which `BeginAdjust` establishes
  and nothing disturbs.
- `Balanced` needs that an adjustment's `seen` is still the row's `reserved`. That is
  `AdjustFresh`, and it follows from `AdjustAlone`: with `AdjustOverlap` FALSE no other open
  transaction touches the SKU of an open adjustment. `AdjustAlone` is preserved because both
  ways of opening a transaction check it. `Reserve`, `Release` and `ConfirmDeduct` each move the
  counters by amounts that cancel out (one lemma each).
- `OnlyStaleAdjustDrifts` and `NeverReservedAgain` are action properties: each follows, action by
  action, from the type invariant and, for the second, from `Insertable`, that is, from the
  unique key.
- `AllOrNothing` is not inductive: what a transaction writes depends on the rows it read. `SnapWhole`
  adds that a snapshot shows an order's rows all in one state, so a transaction finds all of
  them missing or none, and writes all of them or rolls back (`WholeInv`).
- `ReservedBacked` needs `BackedInv`: an order's transactions are alone (`OrderAlone`), so a snapshot is
  still true when its transaction commits (`SnapFresh`), and stock is reserved only of SKUs that have a
  row (`HeldIsStocked`), so a new row starts with nothing held. One lemma (`HeldMoves`) says how the held
  units of a SKU change when one order's row does; with it each commit moves both sides alike.
- `LedgerSpec`: under all of these together (`LedgerInv`) a snapshot and an adjustment's `seen` are the rows as they
  are at the commit, and what the ledger computes from the rows is `available_stock`; so the
  guard of a commit is the guard of the ledger's step, and every other step leaves the ledger alone.

For orders:

- `TypeOK` of `OrderService` needs that a request waiting for a call stands at an order and has
  sent that call (`Places`, `CallsMade`), so that an open call is a transaction of
  the inventory service. The steps of the inventory service are taken over by lemmas about the
  instance.
- `OneOrderPerKey` rests on `KeyInv`: a create that has begun (got past its action record, or left an
  order, stock rows or a sent call behind) has its key recorded (`Claimed`) and owns it alone
  (`Sole`); every other kind of request only touches orders that exist (`KnownOrders`); and a
  transaction of the inventory service belongs to the order its call named (`TxOwner`). The unique
  key of the action record is what makes `Sole` survive the step that inserts it.
- `LinkInv` ties the two services together: a request that waits has made the call its place says (`CallsFit`), and
  an open call is an open transaction with that operation, order and basket (`TxFits`).
- `SettledHoldsNothing` survives every overlap because a row that is released or confirmed stays so, in
  the table and in every snapshot (`SnapFinal`), and a call that was answered with success left all rows of the order
  in such a state (`DoneFinal`); an order is settled only after such an answer (`HoldInv`).
- `Settled` says which of the two states: without overlap of an order's transactions a call that was answered with
  success left all rows released, or all confirmed (`DoneSettled`), and nothing changes them any more
  (`RowsFixed`, from `BackedInv` of the inventory); the order of a create that has not stored it yet does not
  exist (`Unborn`). Together: `SettledInv`. `FinalStatus` and `AnswersHold` follow from it: a request that reached its
  UPDATE has moved the stock its own way, so the status it overwrites is one it may overwrite, and
  what a record or an answer says (`AnswersInv`) is of a status that is final.
- `OrphansExplained`: `OrphanInv` says of each order without a row whose stock is locked where the create
  that locked it stands: on its way to its INSERT or to the compensating release, or stopped for one of the
  named reasons, which nothing undoes. A call answered `lost` is one of them: the create fails on it as on any error.
- `BookSpec`: with `OneBill` the payment an order carries is the one every confirmation names, so the second of
  two confirmations is a stuttering step, and all others are steps of the book by `Settled` and `FinalStatus`.

For payments:

- `SucceededIsPaid`: `PaidInv` follows the payment's name from the order service back to the row: a call belongs
  to a confirmation and names its payment (`CallsOfConfirms`), a request that goes to `succeeded`, was
  answered, or has its record marked has its order paid by that payment (`SucceedingIsPaid`, `AnsweredIsPaid`,
  `RecordIsPaid`, `RecordNames`). That a paid order stays so is where `NoOverwrite` comes in: a call about to write finds
  the order reserved or paid by its own bill (`UpdatingIsFree`), because two calls about to write one order carry one bill
  (`UpdatersAgree`). `SucceededIsPaid` follows under that hypothesis (`BackedByOrder`); types and freshness do not need it.
- `FreshInv` adds what requests know also when transitions overlap: creations only create (`CreatesCreate`), a new
  payment is unused before (`FreshPayment`), and rows that were seen are there (`TodoOfOrder`, `RowsAreThere`). So
  a settled payment may change sides, but never turns pending again (`RowsRemain`).
- `InStep`: an order is paid by the call of a confirmation (`NewlyPaid`). `StepInv` says of every paid order that its
  payment is settled, or that this confirmation is `OnItsWay` or `Stopped`: the one goes on, stops or
  settles the payment, the other is never undone. At rest nobody is on the way.
- `FinalStatus` and `OneEvent`: without overlap a request between the two halves of a transition is alone with its
  payment (`AloneWithPayment`), which is still pending (`UpdatesPending`).
- `AnswersHold`: what a success says of a payment holds when it is marked (`SuccessHolds`), and so does what a
  record says (`RecordHolds`), both because of `FinalStatus`; a request speaks of its own order's payment
  (`OwnPayment`, `TodoOfOrder`).

For the rest:

- `OutboxKept`: `BoxInv`: a row in the hands of a dispatcher is `publishing` and in no other's batch (`BatchesHold`),
  whoever is about to mark it published has sent it (`MarksAreTrue`), and copies in the topic are counted
  by attempts but for the one whose mark is still to come (`CopiesCounted`): `WriterAttempts` for each attempt that was counted,
  and in the one under way as many as the Writer has made.
- `RolesKept`: overlapping, whoever is about to be inserted while there is no user will be superadmin
  (`FounderInv`); in turn, what a request has read of the table is still so when it writes (`SerialInv`).
- `NeverMore`: `CrowdInv`: what a row holds, and what any request has read of it, is at most what effective
  requests put in and set, counted in units (`AmountsKnown`); a row carries the id of a request that is done,
  `ok` or `lost`, and an id that is gone is not one of a row (`RowsKnown`). A sum that wraps is negative, so the
  bound holds for it too.
- `ActsAsCart`: `QueueInv(m)`: in turn, a request's read is the row; the sum of `n` requests of at most `m` each is at
  most `m * n`, so under `SumsFit` no sum wraps, and every write is the step of the book.
- `NoLeak` and `AtMostLimit`: `SlotInv` counts, per channel, the requests that hold a slot of it; `Shape` says
  which of a request's SKUs are taken, asked for and to do. A send adds one holder to a channel that has room, a
  receive takes one away; that all requests use the stored channel carries this to the SKU.
- `ShutdownExplained`: `ProcessInv`: steps of the process only come in the order of the stop function, and a
  reason that was noted stays; a call that the end cut off ran when the stop gave up, failed or was skipped.
- `StaleExplained` is inductive once the types are known (`ShopInv`). One lemma per way of writing a cache or a
  row: a writer that has yet to delete a key excuses what is stored under it, a reader that stores what it
  read before the row changed names itself, and a row that changes has its writer's deletes before it.
- `OnSaleHasStock`: `StockInv`: only an update whose call has not ended commits rows (`gw` is `updating`, or `failed` when
  the call was given up), it updates only rows that are there, and each SKU that is there has stock or its creator is excused
  by name. A SKU's stock is frozen only by an update that took it out of sale before.
- `SuccessRepairs`, `UpdateReplaces`: `TurnInv`: one update runs at a time. While it has its turn nobody else
  writes (`HasTurn`), so the SKUs it found are those there are when it commits. `ReadsAll` is the heart:
  whatever detail the next update may read, from the table or the cache, names every SKU that has stock to sell.
  That holds because the cache entry is deleted after the commit and before stock is added; a detail an update
  has read it keeps (`FindsAll`), so what it does not name it freezes, and a call that took effect unheard ends
  the request, so that the next one makes good (`TurnFailsLate`, `TurnUnheard`). `CommitsLast` carries this over
  from the last update that succeeded to the end of all.
- `OutcomeExplained`: `SagaInv` holds together what the run believes (`RunFits`: which steps DTM has at which place of the
  workflow), what DTM has (`RecordedFits`), and what the branches did (`CallsFit`, `RowsFit`). A forward call that
  is under way and not awaited is one that was noted as lost, and one sent after a rollback began belongs to a
  run that started later (`rerun`). The stock cannot be initialised after its own rollback: that is called only when
  DTM has the initialisation, whose branch row refuses a second one. The property follows even while calls are under way.
- `AllOrNothing`: `SoftInv` adds to `SagaInv` that a step is called back only in the one rollback there is
  (`OnlyRolled`), that no rollback call fails, and that the awaited call is the only one that may still write
  the product's creation or the stock (`CallCopes`).
- `LimitKept`: `LimitInv` accounts for units: what was let in since the start of the window, and what is left in the
  bucket, was paid for by a full bucket and the time since its start (`BucketsFit`). A key without an entry was last
  seen so long ago that a new full bucket is paid for too, and a bucket is never forgotten while a request
  holds it (`HeldIsKept`), both by `EntriesOutlast`; so two keys never share a bucket (`EntriesDiffer`) and clocks that
  are read out of order (`CallsAreFresh`) only lose units.
- `OverlapExplained`: what `PaymentProofs` shows of `Payment` for all constants is taken over for the two
  instances of the suite; the proof module is itself instantiated, and its specification shown to be the part's.
- `HandledAtMostOnce`: `OnceInv`: an event that is handled or about to be has a record, which only the request that
  inserted it goes past. `LostExplained` needs `PassedInv`, the same for the messages below the offset.
- `EventsExplained`: a step of the flow is a step of a consumer, the arrival of one message that a dispatcher sends, or none
  to the consumers; so `ConsumerInv` holds of the flow. `TruthInv` adds the outbox: a batch and the topic hold rows that
  exist, and a row marked published, or about to be, has its message in the topic. Below the offset
  `LostExplained` accounts for that message, above it the message is still to come.
- `LogoutLasts`: `LiveInv` and `IndexInv` tie sessions, tokens and what was issued together; `CallInv` says what a
  request knows at each point: an `exec` that is not dirty still sees the session and the token it read.
  Under it a step of the Redis store maps to a step of `SessionBook` or to none (`StoreActsAsBook`).

What the proofs corrected. `UnsettledExplained` once named four histories; its proof left a fifth open, and the
code has it: the confirmation's own transaction is lost to a database error after the order was paid
(`confirm_payment_success.go`: the order is paid, the payment is not, the request fails). The TLC instances had no database
errors; the part for serial payments now checks it with them. In `OrderService` and `ProductCreateSaga` guards of a
`CASE` overlapped, which TLC resolves in their order and TLA+ does not; they are now `IF`s in the order of the code.

Only model-checked. Every invariant and action property of a passing run is a theorem; so is the part of
`SagaCopes` that is one, by `SoftSagaIsAtomic`: the saga of `MCLive` has soft faults. What stays with TLC is
liveness (`RecordsResolve`, `WaitersServed`, `SettledIsHandled`, `Healed`, `Exits`, and that a saga is decided),
which rests on fairness and `ENABLED`, out of the prover's reach. So is induction over data of any size, for
which no theorem here was weakened: sums over a cart are counted as sets of units instead.

## 5. What could come next

- The gateway's own shutdown, and DTM calling back a workflow whose first run is still under way.

## 6. Not modelled

- Generated code under `src/kitex_gen` (thrift codecs and stubs, 38.9k of the repository's 62.6k lines) and the
  codecs' behaviour: it has no protocol state. The same goes for the `main` functions, wiring, configuration, logging,
  metrics, tracing, DTO conversion, and validation that turns a request away before anything happens.
- The HTTP handlers of the gateway other than product creation and update, sessions and rate limits: they translate
  requests and answers. Authorization is a static policy; passwords and JWTs change nothing that is kept.
- Client-side retries: only reads are retried.
- The gateway's shutdown (it has no admin server), the TCP checks before a service starts, and what Consul
  and load balancers do with an instance that drains.
- Reads that change nothing and feed nothing: listings and searches of orders, payments, products, carts, users.
- Categories and attributes of products, the plain `CreateProduct`; the checked flag and price snapshots of carts.
- Kafka with several partitions; a broker that loses accepted messages; Redis or MySQL losing committed data.

## 7. Running

    tlc -workers 2 -config inv_serial.cfg MCInventory
    tlc -workers 2 -config order_settle.cfg MCOrderService
    tlc -workers 2 -config order_create.cfg MCOrderService
    tlc -workers 2 -config order_live.cfg MCLive
    tlc -workers 2 -config services.cfg MCServices
    tlc -workers 2 -config flow_once.cfg MCEventFlow
    tlc -workers 2 -config gateway.cfg MCGateway
    tlapm InventoryProofs.tla        (and the other seven modules of section 4)

The other configurations are those of the violations: `inv_*` with `MCInventory`, `order_*` with
`MCOrderService`. The longest runs take two to three minutes.
