# A formal model of the Aforro backend

The repository is a Django REST backend for stores that share a product
catalogue: clients search products, list the inventory of a store and place
orders; administrators edit the tables; a Celery task confirms orders; a
management command fills the database.  PostgreSQL, Redis (cache and broker) and
Celery are modelled only as far as the code in `src/` depends on them.

This directory holds TLA+ modules translated from that code, TLC configurations
that check them on small instances, and TLAPS proofs of the properties that
matter most for every value of the constants.

## 1. Inventory

| component | state it keeps | operations | interacts with |
|---|---|---|---|
| Order placement (`apps/orders`) | `orders`, `order_items`, the `quantity` column of `inventory` | `POST /api/orders/` | row locks and foreign keys in PostgreSQL, the administrators of inventory and products, the broker |
| Order confirmation (`apps/orders/tasks.py`) | messages in Redis, tasks in the Celery worker | dispatch, run, retry, acknowledge | the orders table |
| Inventory listing (`apps/stores`) | key `inventory_store_{id}` in Redis | `GET /api/stores/{id}/inventory/`, the two signals | every writer of inventory, products, categories |
| Seed command (`seed_data.py`) | all tables but orders | `manage.py seed_data [--clear]` | whoever uses the shop meanwhile |
| Catalogue (`apps/products`) | `products`, `categories` | create, list, the admin | PROTECT from orders, CASCADE to inventory |
| Stores (`apps/stores`) | `stores` | list, the admin | PROTECT from orders, CASCADE to inventory |
| Product search (`apps/search`) | none | filter, rank, sort, page | products, inventory |
| Autocomplete (`apps/search`) | none | two queries, prefix then contains | products |
| Pagination (`apps/common`) | none | count and slice, next link | every listing |
| Error envelope (`apps/common/exceptions.py`) | none | `custom_exception_handler` | what the order view raises |
| Health check (`apps/common/views.py`) | one key in Redis, a database connection per thread | `GET /health/` | Docker, monitors, both services |
| Order listing, request logging | none | | |

What is hard in it:

* **Concurrent orders** compute new quantities in Python from what a
  `SELECT ... FOR UPDATE` returned.  Correctness hangs on which rows that
  statement locks, in which order, and what it does not lock.
* **Deadlocks.**  The statement joins products, shared by the stores; the
  deferred foreign key checks of `order_items` take locks again at the commit.
* **The cache** is filled by readers and dropped by signals that run inside the
  writer's transaction; several writers send no signal.
* **The task** is published after the commit, retried as a new message,
  acknowledged late, and kept in a Redis that may evict keys.
* **The seed command** has no transaction and can be killed anywhere; it works on
  categories, products and stores it fetched some statements ago.
* **A request body** is validated against products that may be gone by the time the
  order is committed, and answered in an envelope built from whatever was raised.
* **The health check** looks through a persistent connection that is not tried, and
  through a key that all probes share.

What makes each component correct: an order is placed atomically and no
deduction is lost; the client and the task are told the truth; every request
ends; nothing refers to a product that is gone; a listing is stale only for a known
reason and not for good; a confirmation is handed over after the commit and neither
lost nor repeated without a fault; a seed run that ends has done its job; an outage is
noticed and a probe cries wolf only for a known reason.
`PROJECT.json` lists the hazards at their lines and the properties that stand for them.

## 2. Modules

    StoreTables ── OrderBook          what the order service promises
         └──────── OrderService       how it does it          (implements OrderBook
                       │                                       and OrderHandover)
                       └── OrderApi   bodies, validation and replies around it
    OrderHandover                     what service and task agree on
    OrderConfirmation                 from the commit to the acknowledgement
                                                              (implements OrderHandover)
    InventoryCache                    the cached listing and everything it shows
    SeedData                          the seed command on an open shop
    ProductSearch                     pages of a search, autocomplete
    HealthCheck                       the probes of the health endpoint

Each of those with a state machine of their own has an `MC...` module with the
definitions its `.cfg` files assign to the constants, and a `...Proofs` module.

### OrderHandover

The confirmation of an order is open, falls due with the commit, and is then published
once or dropped for good; a customer hears only of what was published.  `OrderService`
implements it with `ConfirmationStage` over requests and the task queue,
`OrderConfirmation` with the same operator over the state of the web worker and what
was sent.  So what one component assumes of the other, a dispatch after the commit, is
what the other one is shown to do.

### OrderService

A request goes through `idle`, `accepted` (`create_order` has found the store),
`locking` (the SELECT is under way), `confirming` or `rejecting` (the statements
are sent, the commit is running), `dispatching`, `answering` and `done`.

| action | code |
|---|---|
| `RefuseInvalid`, `RefuseStore`, `Receive` | serializer, `_get_store` |
| `SelectForUpdate`, `SkipRow`, `LockRow`, `LockProduct` | the query of lines 67-73 of `order_service.py`, one row at a time |
| `ConfirmOrder`, `RejectOrder`, `OverflowItems` | the loop over `item_inputs` and both branches after it |
| `CheckForeignKey`, `Commit`, `CommitUnacknowledged` | the end of `transaction.atomic` |
| `Dispatch`, `DispatchFails`, `Answer`, `AnswerFails` | `_dispatch_confirmation_task`, the view |
| `Abort`, `Crash` | PostgreSQL's deadlock detector, a lost connection, a worker that dies |
| `SaveRow` (`ChangeRow` or `AddRow`), `RemoveRow`, `RemoveProduct` | the inventory admin, the product admin |

How the database is read from the code:

* `select_for_update().select_related("product")` carries no `OF`, so both tables
  of the join are locked: each inventory row, then its product, by `ORDER BY id`.
* A statement finds rows in its snapshot (READ COMMITTED, Django's default) and
  sees the current version of each when it locks it; rows deleted meanwhile are
  skipped, rows added meanwhile are not seen.
* Foreign keys are `DEFERRABLE INITIALLY DEFERRED`: the commit takes a key-share
  lock on the product of each order item, in the order of the client's lines,
  which is arbitrary.  `asked` is the check a commit has reached.
* PostgreSQL's CHECK behind `PositiveIntegerField` needs no action: no reachable
  state would violate it, which the type invariant says and `TypeCorrect` proves.
* A quantity above the integer range is a `DataError` only on the path that
  inserts it, the rejected one, since a confirmed one is at most a stored
  quantity; the exception handler turns it into a 500.

`base` and `sold` are history variables: what was last saved in a row and what
confirmed orders took since.  `RemoveProduct` deletes a product with its inventory rows
(CASCADE) in one step, unless order items or locks protect it; `ForeignKeyFails` is the
order that validated such a product and finds it gone at the commit.  The admin's
deletion of a product across several stores waits for one row after the other; those
intermediate waits are left out.  Queue order among lock waiters, rows that move between stores,
orders edited in the admin and stores deleted during an order are not modelled here.

### OrderApi

`OrderApi` extends `OrderService` with what the client sends and receives.  A body is
unusable, or a record of a store and lines in which fields may be absent or malformed;
`Errors` is what `OrderCreateSerializer` collects, in its order: each line, the length of
the list, then `validate_items`.  A valid body becomes the payload of the service
(`Validated`).  `Respond` is a conjunct of every step of a request: when an answer is
sent, its JSON goes along, built by the view or by `custom_exception_handler`
(`Content`, `ErrorCode`, `ErrorMessage`).  A 500 is no envelope, since the handler only
knows what DRF knows.  Unsupported media types and methods (415, 405) are left out, as
are the exception classes that nothing raises.

### InventoryCache

`Lookup`, `Query`, `Fill` are the three steps of the view on a miss; a hit
changes nothing and is not an action.  `Save`/`Remove`, `Signal`, `CommitWrite` (or `RollBack`,
`SignalFails`) are an administrator's transaction with the signal in its
middle.  `OrderDeducts`, `EditProduct` and `SeedRow` are the writers that send
no signal; `Evict` and `Tick` are Redis.  Row ids are never reused, hence `Unborn` and `Gone`.
`cause` is a history variable: which of the three known ways the listing that is
cached now may have become stale.

### OrderConfirmation

Messages carry the number of retries; `ready` and `delayed` count their copies.
`Dispatch` and `Retry` publish zero, one or two copies when the broker may fail.
`Start`, `Send`, `Retry`, `GiveUp`, `Acknowledge` are the life of a task in a
process of the pool; `ChildDies` and `WorkerDies` differ because
`task_reject_on_worker_lost` is off: only the second one redelivers.
`attempts`, `interrupted`, `duplicates` and `lost` are history variables.

### SeedData

`at` is the statement the command has reached; each statement is an action,
because each commits by itself.  Orders, the API and administrators act between
any two: products are created, stores opened, categories added, renamed and deleted,
products moved and deleted, with PROTECT and CASCADE.  `got`, `chosen`, `lost`,
`existing`, `listed` and `own` are the command's Python variables; `chosen` follows the
category rows it holds by what they are called now, and `lost` says that one of them has
been deleted, on which `bulk_create` may fail.

### ProductSearch

One client asks for page after page of a search, as long as the answer has a
"next" link; `CountResults` and `SelectPage` are the two statements of a page,
translated from what Django's paginator does with the query set: the last page
ends at the count, and a page that is gone is a 404.  `Joined` is the filtered
join, in which a product appears once for each inventory row; `Distinct` removes
that.  `Orders` leaves the order of equal sort keys open, as the database does.
`received` is what the pages held, in order.
`FindPrefixes` and `FillUp` are the two queries of autocomplete.  `expected`,
`disturbed` and `matching` are history variables: what the crawl should find, what
happened to it meanwhile, and which titles matched all through a request.  A search
term is reduced to where it is first found in a product (`Rank`).

### HealthCheck

A thread of the server has a database connection that is `none`, `alive` or `broken` and
an `age`.  `Begin` and `Answer` include what Django does around a request
(`close_old_connections`: `Kept`); `CheckDatabase`, `SetKey`, `GetKey` and `CacheFails`
are the statements of the view; `Serve` is any other request on the same connection, with
`AfterQuery` what is left of a connection after a query.  `runserver` (the compose file's
server) gives each HTTP connection a thread and closes its database connection
with it: Docker's probe comes on a fresh one every time, a monitor with keep-alive does
not.  `Count` is Docker's counting of failures, `TimeOut` its timeout, after which the
probe is nobody's; the start period is left out.  `downFor`, `seen`, `waited`, `mishap`
and `failures` are history variables.

## 3. Runs

| run | question | instance | result |
|---|---|---|---|
| OrderSafety | do concurrent orders behave as if placed one at a time, faults included? | two requests, one store, two rows; orders that fit once, twice, never, that overflow, that name no store; restocks, deletions of rows and products, all faults | holds |
| OrderRequests | is what is stored what was sent, is the reply true, what is left when rows are added and products deleted, and is every request answered? | two requests with any of thirteen bodies, a row that is added and one that is replaced, two products that may be deleted, all faults | holds |
| OrderDeadlock | does `ORDER BY id` prevent deadlocks? | two stores that list two products in opposite order | violated |
| OrderOverflow | is every failed verification saved as REJECTED? | a quantity above the column's maximum | violated |
| CacheStaleness | is a stale listing always explained, and does it become current? | two stores, one row, all writers, Redis failures | holds |
| CacheOrderBypass | does every change of inventory send a signal? | one store, orders only | violated |
| CacheLateFill | do signals keep the listing current? | one store, saves only | violated |
| TaskDelivery | is a confirmation lost or repeated without a fault, and is it one that was handed over? | one order, the three retries of the code, two processes, every fault | holds |
| SeedReruns | does a run that ends do its job on whatever it finds? | two runs, two products, one store, two category names, three changes by the API and the admin, orders, kills | holds |
| SearchAndSuggest | does a client that reads all pages see every result once, and autocomplete every title? | three products and one that may be created, pages of two, four queries, two changes | holds, with the reasons for misses and repeats named |
| HealthProbes | how stale is an ok, what does an error take, are outages and recoveries noticed? | Docker and one monitor, connections that last two ticks, a key that lasts one, two retries | holds |
| SeedCleared | is the command idempotent with `--clear`? | two runs and a customer | violated |

The bounds.  Two requests suffice for a lost update, an outdated decision, a
deadlock and a fault of one in the middle of the other; two rows make the lock
order matter; three row ids let one be added and one replaced.  `MaxInt` is
small so that a payload can exceed it.  The bodies of OrderRequests are two orders that
compete, one for a store that does not exist and one for each check of the serializer, some
with two things wrong, as the first error found makes the reply.  In the cache one row in two stores
covers moves, and one reader with one administrator covers each race between a
fill and a save.  `TTL` is two ticks so that an entry can be
renewed half way.  `MaxRetries` is the code's own value; one death of the worker and one
duplicate message suffice to duplicate a chain of attempts at each of its
stages, and the proof of `Accounted` has no such bound.  Two seed runs are a
first one that stops anywhere and a second one that finds its remains;
`MaxProductId` and `MaxStoreId` leave room for both and for what the API and the admin add
(a run that would need more ids stops there, as at a kill); `MaxEdits` lets a category be
added, filled or renamed, and deleted.
In the search, two changes can delete and create under one crawl; two pages of two,
over three or four products, have a full page, a short one and one that
disappears.
In the health check the key lasts less than a connection, as 5 seconds do against 60: a
key can expire in the middle of a probe, and a connection can outlive an outage.  Of the two
threads one reconnects each time and one does not, and they share the key.
Deadlock checking is off where the system comes to rest: requests end, runs end.
In the cache there is always something that can happen, and it is on.

### What the violated runs show

* **OrderDeadlock.**  `order_service.py:66` and `DOCUMENTATION.md:375` promise
  deadlock freedom.  An order at each of two stores locks flour then sugar and
  sugar then flour, since the join locks products in inventory id order.
  PostgreSQL aborts one, which answers 500.
* **OrderOverflow.**  `README.md:83` wants a failed order saved as REJECTED; the
  serializer has no upper bound and the insert of the items overflows.
* **CacheOrderBypass.**  `stores/views.py:25` says signals invalidate the listing
  on any inventory change; `bulk_update` sends none.
* **CacheLateFill.**  `stores/signals.py:26-27` says the listing is never stale; a
  reader may fill it after the signal with what it read before.
* **SeedCleared.**  `seed_data.py:18` says idempotent with `--clear`; with one order
  in the database the command deletes the inventory and then fails.

Observed on the way, with no run of their own:

* One store can deadlock too, when a row is added while orders run; two stores with
  aligned ids still can, through the foreign key checks of rejected orders.
* A page of a search is two statements: with products sorted by newest, one created
  between the count and the slice of the last page pushes the last product off it
  (`entered late` in `ProductSearch`).  `price_asc` and `price_desc` have no tie
  breaker, so even an unchanged catalogue may repeat and skip products.
* `settings/base.py:149` says a task is acknowledged after it completes; with
  `task_reject_on_worker_lost` off, a pool process that is killed has the message of its
  unfinished task acknowledged (`ChildDies`), and nothing sends the confirmation again.
* `/health/` answers `database: ok` through a connection the database has dropped, for as
  long as the connection may live (`DatabaseOkRecent` says not longer); Docker, with a
  fresh connection each time, is not deceived.
* `_get_error_message` (`exceptions.py:156`) promises a flat message; for an error in a
  line of `items` the first value is a dict, which is written out as Python does.
* `/api/products/categories/` (`api_urls.py:6`, `DOCUMENTATION.md:194`) is never reached:
  the detail route of `ProductViewSet`, registered first with an empty prefix
  (`products/urls.py`), takes `categories` for a product id and answers 404, or 405 to a
  POST.  Categories are created in the admin and by the command only.
* A seed run fails in `bulk_create` when one of the categories it has just fetched is
  deleted before it creates its products; a renamed one is kept, under its new name.
* `PAGE_SIZE` is documented as configurable (`DOCUMENTATION.md:172`); the pagination
  class sets 20 itself.
* A row moved to another store deletes the key of its new store only
  (`signals.py:44`); the old store shows it until the entry expires.
* `DOCUMENTATION.md:339` describes the dispatch as an `on_commit` hook; the code
  calls `apply_async` after the atomic block, which has the same guarantee while
  nothing wraps `create_order` in a transaction (`ATOMIC_REQUESTS` is off).
* `DOCUMENTATION.md:309` calls the cache timeout configurable; the view has a
  constant of its own.
* `DOCUMENTATION.md:377` lists PROTECT for products; `Inventory.product` is CASCADE.
* `_seed_stores` says get_or_create (`seed_data.py:146`) and creates new stores on
  every run; a run killed before the inventory leaves its stores empty for good.
* `tasks.py:33` says triggered after any CONFIRMED order; not when the web worker
  dies in between, or the broker fails, the latter documented.

## 4. Fairness

* `OrderService`: weak fairness of `Work(r)`, as a worker thread goes on with its
  request, and of `AbortDeadlock(r)`, the half of `Abort(r)` that is PostgreSQL's
  detector.  No client, administrator or fault is obliged to act.
* `InventoryCache`: the clock runs, and a reader that has missed goes on.  Nothing
  else: `EventuallyFresh` rests on the timeout alone.
* `OrderConfirmation`: the web worker dispatches, countdowns end, a process with
  nothing to do takes a message, a task comes to an end (Celery's time limit sees
  to that).
* `ProductSearch` states safety only: a client may stop reading at any page.
* `HealthCheck`: both threads' probes come at their intervals and go on once begun, since
  Docker and the monitor call on a schedule and every call in the view has a timeout; the clock
  runs.  No service is obliged to come back, and `OutageNoticed` and `RecoveryNoticed`
  assume a service that in the end stays down, or stays up and undisturbed.
* `SeedData` has no liveness property: nobody promises that a killed command is
  run again.

## 5. Proofs

Assumptions are those of the `ASSUME`s, which TLC evaluates in every run:
finitely many rows, at most one initial row per store and product, quantities
that fit the column.  Any number of requests, stores, products, payloads and
any set of faults.

**OrderServiceProofs.**  `IInv` joins the type invariant with `UniqueRows` (one row
per store and product), `MapsGuarded` (what a request has read is locked by it, still
there, and equal to the table) and `ChecksPassed` (an order past its checks has the
locks the checks were about).  The properties are not inductive alone: that the
written-back difference is not negative and no deduction is lost both need that the
quantity read is still the one in the table, and that needs the lock.  From
`InductiveInvariant` follow `TypeCorrect`, `ConfirmationsAreSound`,
`StockIsConserved`; a second invariant, `Stages`, relates `pc` to the orders table
and gives `AnswersAreTruthful` and `TasksAreTruthful`.  `ServiceImplementsHandover` maps
each step to a step of `OrderHandover` or a stutter and rests on `Stages`: only a request
that is `dispatching` can still publish its task.
`ReferencesStayIntact` rests on the locks once more (`RInv`): a product that a commit has
checked, or holds by the row lock of the SELECT, cannot be deleted (`LocksGuarded`), and what a
commit has not yet checked it still asks for (`ChecksLeft`).

**OrderApiProofs.**  `ApiImplementsService`: the steps of the API are steps of the service,
and its initial payloads are payloads, so all the theorems above hold of it.
`RepliesAreTruthful` follows from the invariant `Told` (the JSON is the one that goes with the
status) and `AnswersAreTruthful`; `OrdersAreAsSent` from `Sent`: the payload of a request
past validation describes its body, which a product deleted later cannot change.
`ErrorsAreJustified` goes through what the serializer collects: each error comes from a part
of the body, and one about a product stays justified because products only disappear.

**OrderBookProofs.**  Under `ClosedInventory` (no ids left for new rows) `Discipline` says
which rows a request has locked: those that match, in ascending order, with no hole.
It gives `RejectionsAreSound`, the refinement `OrdersAreAtomic` (the
commit is the atomic step; deadlocks, crashes and everything before map to
stutters), and with `SingleStore` that following "waits for" leads to higher rows
only: `OneStoreNeverDeadlocks`.  Both hypotheses are necessary, as the
OrderDeadlock run and the observations above show.
`DeadlocksNeedARejection` is about any number of stores and rows that come and go, under
`Aligned`: all stores list their products in the same order of ids.  Its invariant `InOrder`
says that a request has the products of exactly the rows it is through with, and that
a confirmed order has no check left to make.  So along "waits for" the `Height` of what is
waited for grows, a product before the next one and a row before its product, until the
commit of a rejected order is reached: without one there is no cycle.  With aligned ids
`ORDER BY id` keeps its promise for the SELECT, and the checks at the commit break it.  The
deadlock of the OrderDeadlock run has no rejected order in it: without `Aligned` the theorem
fails.  Nor does the seed command align anything: it draws the products of each store in random
order (`seed_data.py:184`).

**InventoryCacheProofs.**  `CacheInvariant` adds `SignalsRemembered` to the type
invariant and `StalenessExplained`: while a transaction that has signalled is open, a
listing filled meanwhile carries the cause.

**OrderConfirmationProofs.**  `ConfirmationInvariant`, `TypesCorrect` and
`ConfirmationsAccounted`, for any number of orders, processes, retries, crashes and
duplicates.  `TaskImplementsHandover` needs `Published`: wherever there is a message, a
task or something sent, the web worker has published it.
`ConfirmationSentOnce` and `ConfirmationAttemptsBounded` are counting arguments.  Every copy
of a message and every execution carries what it may still bring about (`Weights`): one sending
(`Once`), or the attempts its retries leave it (`Left`, `Further`).  An order's `Load` is the
cardinality of a set of tuples, one for each such thing, and what has happened and the load
together never exceed the bound (`SendsKept`, `AttemptsKept`): a step moves tuples from
one part to another, or a fault that adds some is counted in `duplicates` or
`interrupted`.

**SeedDataProofs.**  `TypeOK` says that inventory refers to stores and products that are
there, order items to products, products to categories.  `NeverOvershoots` needs that
`existing` still counts all products but those the API has created since (`CountUsed`), at each
statement between the count and `bulk_create`.  `DoneRunsAreComplete` needs what each
statement has achieved to last to the end (`Kept`): the category names are there once they
have been fetched, there are enough products once they have been created, and every store that is
stocked keeps at least the sample it was given, which orders diminish in quantity
but never in rows.

**HealthCheckProofs.**  The type invariant and one strengthening per property: a
connection younger than `MaxAge` bounds how long the database can have been down unseen,
a probe between set and get has the key or a reason, and the first failure
leaves no broken connection.

**ProductSearchProofs.**  `SuggestionsAreComplete`: between the two queries whatever has
matched so far matches still (`StillMatching`), and a limit that is not used up cuts
nothing off (`LimitLeavesRoom`).  `TypesCorrect` needs that a page is cut within the rows
that are there (`SliceType`), though the count is older than they are.  That the second
query excludes the ids found, not the titles that start with the term, is what the
argument needs.
`MissesAreExplained` and `RepeatsAreExplained` reason about places: the place of a product is
the number of results that precede it (`Before`).  Where no tie leaves the order open, row i
of any list the database may return has place i - 1 (`Places`), so a page is told by
the places it covers (`PageByPlaces`).  Nothing is missed because each expected product is
already listed or has its place behind the pages read (`MissesKept`), and what merely
enters the list pushes places back, never forward; nothing is repeated because all that is listed has
its place before the page to come (`RepeatsKept`), and what merely leaves pulls places forward, never
back.  The sort being a strict order (`StrictOrder`) is needed for the second.

Every invariant of a passing run is stated by one of these theorems, and so are the two
refinements the service claims and the one of the task.  Model-checked only: liveness
(`EveryRequestAnswered`, `EventuallyFresh`, `EverySettled`, `OutageNoticed`,
`RecoveryNoticed`), which the proof system does not reach.  Of `OrderApi` the service's
theorems hold by `ApiImplementsService`.

## 6. Not modelled

The listings of orders, products, categories and stores read tables and change
nothing; they are paged as `ProductSearch` is.  One difference stays open: an order's
`created_at` is stamped before its commit, so an order can become visible behind a newer
one and shift a page the client has read.  Request logging records answers.  Routing
and migrations are wiring; settings that change behaviour are translated where the
models use them.  Of the error envelope the wording and the `details` are left out.  Orders
edited in the admin appear as the deletion of an order in
`OrderConfirmation` only.

## 7. Plan

1. Done: order placement, its abstract specification, the deadlock question.
2. Done: the cached listing; the confirmation task; the seed command.
3. Done: `ProductSearch`, paging and autocomplete over tables that change.
4. Done: products deleted under orders, the API with bodies and replies, the agreement
   between service and task, the health check, the categories of the seed command.
5. Done: every invariant of the passing runs, proved for every value of the constants.
6. Done: what a deadlock takes when the ids of the stores are aligned.
7. `OrderService`: rows that move between stores.
8. Proofs: that the command is idempotent with `--clear` as long as nobody has ordered;
   lower bounds that say the named reasons for misses and repeats are needed.
