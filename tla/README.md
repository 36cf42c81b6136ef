# ToqueHub in TLA+

This project models the parts of ToqueHub where several requests work on the
same rows, checks them with TLC on small instances, and proves what matters most
with TLAPS for every value of the constants. Each definition is translated from
the code under `src/`; `PROJECT.json` gives, for each, the file and lines it
stands for (`map`), every run with what it shows, one mutation of the code that
breaks each property, and the places of the code that are hard to test
(`hazards`).

Contents: 1 the system, 2 modules and their relation to the code, 3 runs,
4 disagreements found, 5 proofs, 6 abstractions and limits, 7 what could come
next.

## 1. The system

ToqueHub runs on one machine: a NestJS API (`apps/api`) over PostgreSQL through
Prisma, a React client, a mobile client, an updater container
(`docker/updater`), and a support relay hosted elsewhere (`apps/support-relay`).
The state is in the database. Requests run concurrently in one Node process, and
in the worker timers of the same process; each `await` of a query lets the
others run, and every transaction runs at READ COMMITTED unless the code asks
for Serializable (only production execution does). There is no queue between the modules of the
API: they call each other's services, or write each other's tables inside one
transaction. So the hard part is everywhere the same one: a decision taken on
a row that was read, written when the row may have changed.

| Component | State | Operations | Interacts with | What is hard | What makes it correct |
|---|---|---|---|---|---|
| Purchase orders | `PurchaseOrder` (status, version), lines, events | resumeDraft, create, duplicate, update (autosave), deleteDraft, acknowledge, cancel, close | dispatch, receipts | autosaves of several sessions; status checked, then written | moves along the status table; frozen once sent; no accepted save lost |
| Dispatch | `PurchaseOrderDispatch` (status, key, attemptedAt), advisory lock | send = render, reserve, transmit, complete / fail | Resend, SMTP, Google and Microsoft mail | an external side effect between two transactions, timeout of a reservation, idempotency keys, a stop half-way | one request marks the order sent, on a delivered e-mail; no second e-mail per key; every request settles |
| Receipts | `PurchaseReceipt`, lines, `receivedQuantity` | create, update, validate | orders, stock, HACCP | validations side by side of one receipt or of one product | posted once; goods received are in stock; order status tells what came |
| Stock | `Stock`, `StockMovement`, `Inventory`, `StockReception` | reception, adjustment, manual movements, inventory counts and validation | production, purchasing | absolute writes computed from reads; inventory checked before its transaction | stock is the sum of the movements; a transfer moves both sites or none; an inventory is applied once |
| Production execution | `ProductionOrder`, `ProductionBatch`, reservations, lots, idempotency keys | validate (reserve), start, restart, complete (consume), cancel, expire | stock, the older production service | Serializable retries, client retries, a second service that sets statuses by hand and rewrites requirements | reservations are backed by stock; a batch is posted once; what is produced consumed what it needs |
| Day closure | `ProductionDayClosure` | carry over, preview, close | production | check before the transaction; campaigns of the next day read, then written | nothing unfinished in a closed day |
| Updater | env file (`TOQUEHUB_IMAGE_TAG`), images, containers; operations in memory | apply, rollback, status | API `system-update`, GitHub, docker | overlapping operations, failure of any step, a restart that forgets the operation, a tag that moves | the tag always has its images; the status shown is true; the installation rests on a version that answered |
| Human support | tickets and messages on both sides, events at the relay | open, message, take, close, poll, acknowledge | Telegram, relay | two databases, retries of calls that are still worked on, redelivered updates, overlapping synchronisations | a message is shown once and not lost; what is acknowledged was received |
| HACCP records and sensors | sensors, readings, alarms | ingest, raise, resolve | MQTT, push | late and duplicated readings | an alarm per excursion |
| Finance imports | sales, cash sheets, sync cursors | timers, upserts | POS, Fennoa, Flatpay | overlapping timers, retries | an external sale counted once |
| Menus, technical sheets, catalogue, prices, planning, HR | CRUD rows | CRUD, calculations | stock, production | arithmetic | costs and quantities add up |
| Assistants, OCR | conversations, drafts of documents | external language models | services above | none beyond the services they call | confirmed actions only |
| Backups, auth, users, documents, dashboard, mobile push | files, sessions | I/O | - | I/O | - |
| Web, mobile, landing, videos, installers | none shared | user interface | API | the environment of the models | - |

Six parts are modelled: **purchase orders with their dispatch**, **receipts with
the stock they post to**, **the stock rows under movements, adjustments and
inventories**, **production campaigns over a component in stock**, and, outside
the API's database, **the update of an installation** and **a support ticket
between installation and relay**. Three of them meet in the stock row: receiving
writes it with production as the other writer, the stock module writes it with
itself, production reserves and consumes it with the stock module as the other
writer.

## 2. Modules

| Module | Stands for |
|---|---|
| `PurchaseOrderPolicy` | `purchase-order.policy.ts`: the status table, `CanTransition`, `Mutable` |
| `PurchaseOrderLifecycle` | the abstract specification of an order seen from outside: edited and deleted as a draft, moved along the table, frozen otherwise |
| `PurchaseDispatch` | `purchase-order-command.service.ts` (drafts, cancel, delete), `purchase-order-dispatch.service.ts`, `purchase-dispatch.service.ts`, `resend-purchasing.gateway.ts`, `purchasing-email.transport.ts` |
| `PurchaseDispatchMC` | its constants for TLC |
| `PurchaseDispatchProofs` | its theorems |
| `GoodsReception` | the abstract specification of receiving: a note is posted once and whole, to the order and to stock, only production takes goods from stock, each status written is backed by goods |
| `PurchaseReceiving` | `purchase-receipt.service.ts`, `purchase-receipt-validation.service.ts`, `stocks-reception-inventory.service.ts` (applyValidatedLineTx), acknowledge / cancel / close of the command service, and the guarded decrement of `production-execution.service.ts` as the other writer of stock |
| `PurchaseReceivingMC` | its constants for TLC |
| `PurchaseReceivingProofs` | its theorems |
| `StockLedger` | the abstract specification of stock: an accepted request announces what it moves, then moves exactly that in one step, or nothing |
| `StockInventory` | `stocks.service.ts`: createMovement, adjustProductStock, createAssistantInventoryAdjustment, createInventory, updateInventoryCounts, validateInventory, applyStock |
| `StockInventoryMC`, `StockInventoryProofs` | its instances, its theorems |
| `ProductionCampaign` | `production-execution.service.ts`: validateCampaign, rescheduleCampaign, cancelCampaign, cancelExpiredUnassignedCampaigns, startBatch, restartBatch, completeBatch; changeStatus, closeRealization, updateOrder and recalculateOrder of `production.service.ts`; rebaseNextProductionDay of `production-day-closure.service.ts`; applyStock as the other writer of stock |
| `ProductionCampaignMC`, `ProductionCampaignProofs` | its instances, its theorems |
| `SystemUpdate` | `docker/updater/server.js` and applyUpdate of `system-update.service.ts` |
| `SystemUpdateMC`, `SystemUpdateProofs` | its instances, its theorems |
| `SupportConversation` | the abstract specification of a support ticket seen by the user and the volunteers |
| `SupportRelay` | `human-support.service.ts`, `support-relay.client.ts`, and `relay.service.ts` of `apps/support-relay` |
| `SupportRelayMC`, `SupportRelayProofs` | its instances, its theorems |
| `SupportConversationProofs` | that the two sides implement the conversation |

`PurchaseDispatch` ends where `PurchaseReceiving` starts (a SENT order); both
EXTEND the policy. `PurchaseDispatch` implements `PurchaseOrderLifecycle`
(`LifecycleSpec`), `PurchaseReceiving` implements `GoodsReception`
(`ReceptionSpec`), `StockInventory` implements `StockLedger` (`IsLedger`) and
`SupportRelay` implements `SupportConversation` (`ConversationSpec`); all four are
checked and proved. An abstract specification has no request, lock, call or
failure in it: it says what somebody who sees only the rows can see happen. The
`*MC` modules hold the constants for TLC.

### How code becomes actions

A request is a process. What it does between two points where others may run
and change what it depends on is one action:

* A transaction whose writes repeat their condition in the `where` (autosave,
  delete, `complete`) is one action at its commit.
* A transaction that decides on a value it read is an action for each read that
  another request can fall behind, and one for the write, and whatever locks it
  holds between them are state: the advisory lock of
  `reserve` (`sendLock`), that of a receipt (`receiptLock`), and the
  `ProductSite` row that validation upserts before it touches a stock
  (`productLock`).
* A transaction's own writes show at its commit. Row locks that matter to
  another modelled writer are guards of it (`RowLocked` in `Consume`).
* A call to the outside (the e-mail provider) is one action with three outcomes:
  confirmed, delivered but the answer lost, not delivered.
* The end of the process (`Crash`) ends every request in it and releases its
  locks; in `PurchaseReceiving` and `StockInventory` an abort covers it, as a
  validation or a movement is a single transaction.
* An operation of production execution runs in one Serializable transaction that
  is retried, so it is one action.
* Where there is no transaction (the updater, the relay) an action is what a
  process does between two awaits.

### `PurchaseDispatch`

| State | Code |
|---|---|
| `status`, `version`, `content` | the `PurchaseOrder` row; `content` is the set of saves the current lines are made of |
| `savePc`, `saveVersion`, `saveBase` | an edit session, or a create / duplicate that lands on this draft (`Composers`) |
| `cancelPc` | a cancel request between its check and its write |
| `rowStatus`, `rowAt` | the dispatch row of each idempotency key and its `attemptedAt` |
| `pc`, `keyOf`, `via`, `seen`, `at`, `supersedes` | a send request: where it is, key, transport, the content rendered, its clock, the row it fails on the way |
| `sendLock` | `pg_advisory_xact_lock('purchase-send:' + order)` |
| `crossed` | history: reservations that a `complete` fell into after they had read a draft |
| `mailbox` | what the supplier received |
| `now` | the clock behind `SENDING_TIMEOUT_MS` |

Actions: `OpenDraft`, `SaveDraft`, `SaveConflict`, `DeleteDraft`, `CancelCheck`,
`CancelWrite`, `ReadOrder`, `CheckDraft`, `ReserveReturns`, `ReserveRefused`,
`ReserveRetry`, `ReserveNew`, `ReserveCommit`, `Transmit`, `Complete`,
`CompleteConflict`, `Fail`, `Crash`, `Tick`. `reserve` reads its clock before it waits
for the lock, so its decision uses any time between that moment and now. Under
the lock it runs three queries, of the order's status, of the row of its key and, for
a new key, of the dispatches being sent. `CheckDraft` is the first of them on an
order that is a draft; the decisions that follow read the rows of their own
moment, and `complete` and `fail`, which take no lock, fall between. On an order
that is no draft any more the outcome is the same at any of these moments, and
is one action.

### `PurchaseReceiving`

| State | Code |
|---|---|
| `status`, `received` | the order and `receivedQuantity` of its lines |
| `rStatus`, `rContent` | the receipt rows: quantity accepted of each order line (in its order unit), quantity that enters stock of each product (accepted times `unitsPerOrderUnit`, of lines outside the order too), quantity on lines without product, whether a line waits for review |
| `stockReception`, `posted` | the `StockReception` of a receipt, how often it was posted |
| `stock`, `moved`, `consumed` | the `Stock` row of each product, the RECEPTION movements of it, what production took |
| `v*` | a validate request: its receipt, what its transaction read, products left, the stock and status it is about to write |
| `clerk*`, `create*`, `update*` | the other requests between their read and their write |

`vPc` goes idle, checked, applying, committing, done or aborted. `Validations` of
one receipt exclude each other by `receiptLock`; validations of one product by
`productLock`; nothing excludes a clerk, an update or production. What a receipt
adds to the order (`accepted`) and to stock (`entering`) are two quantities: the code
converts between them, a line may bring another product than its order line
names, or belong to no order line.

### `StockInventory`

| State | Code |
|---|---|
| `stock` | the committed `Stock` row of the product at each site |
| `moved` | the sum of the committed `StockMovement` rows of each site |
| `pc`, `legs`, `read`, `written`, `posted` | a request: where it is, the `applyStock` calls it has left, what the call under way has read, its uncommitted rows, the movements it will commit |
| `siteLock` | the `ProductSite` row a movement or an adjustment updates first, and so holds until it ends |
| `lineLock` | the `InventoryLine` a validation has written |
| `inventory`, `theoretical`, `counted` | an inventory of one site and its line |
| `applied`, `stale`, `diverged` | history: what each validation applied, which request committed over what another had read, the sites such another then wrote |

`Move`, `AdjustRead`/`AdjustOpen`, `Assist` and `ValidateCheck`/`ValidateOpen`
open a request; `ReadRow`, `WriteRow`, `Commit` and `Abort` run its transaction;
`CreateInventory`, `CountCheck`/`CountWrite` are the rest of an inventory. A
movement updates `ProductSite` before it reads a stock row and an adjustment
upserts it before it reads the row again; the assistant and a validation do not.
That is why `MovementsReadFresh` excepts those two.

### `ProductionCampaign`

| State | Code |
|---|---|
| `order`, `batch` | statuses of campaigns and batches; those the code treats alike are one value |
| `reserved` | the ACTIVE component reservations of each campaign |
| `required` | its `ProductionMaterialRequirement` row of the component |
| `stock` | the component's row |
| `output`, `consumed` | output lots posted by `completeBatch`, components consumed |
| `closing` | campaigns that the closing of the day before has read and not yet written |
| `overridden`, `rewritten`, `resumed`, `removed` | history: validated in spite of a shortage; status set by changeStatus, or plan or status written over after the validation; made executable by restartBatch; taken away by the stock module |

Each operation of execution is one action. The last open batch of a campaign
consumes what is still reserved, the others a share of what the plan asks for at
that moment, of any size. `Replan` (updateOrder and recalculateOrder) writes the
requirement anew in any status, `Reschedule` that of a campaign nobody has
started on. A closing runs at READ COMMITTED and is cut into `CloseDay`, which reads the
campaigns of the next day that are not validated, and `CarryOver`, which scales
their requirement and writes the status read, or COMPLETED, whatever has become
of them.

### `SystemUpdate`

| State | Code |
|---|---|
| `latest` | the latest stable release, which the registry also gives under the tag `latest` (`Moving`) |
| `envTag`, `running`, `runningTag` | `TOQUEHUB_IMAGE_TAG`, the version API and web run, the tag they were created from |
| `image` | the version each tag names on the host, since its last pull |
| `asked`, `pc`, `status`, `prev` | a request and the operation it becomes: `targetTag`, its await, `status`, `previousTag` |
| `lastOperation` | `lastOperationId` |
| `before`, `moved`, `verified`, `shared`, `disturbed` | history: the version that ran when an operation began, rollbacks whose pull brought another version under the same tag, versions that passed a health check, operations that overlapped, whether an overlap, an interruption after the change of tag or a failed rollback has happened |

`Ask`, `Check` and `Create` are the way of a press of the button; `Start`,
`Preflight`, `BackUp`, `Up`, `Health`, `RestorePull`, `Restore` are the awaits of `runUpdate`,
each with its failures. An installation begins at a release or at `latest`; `Crash`
is a restart of the updater, in which an image pull or a `compose up` already under
way may still have its effect.

### `SupportRelay`

| State | Code |
|---|---|
| `ticket`, `known`, `relayError`, `delivery`, `received` | the installation's `HumanSupportTicket` (status, has it a `relayTicketId`, a `relayError`) and its messages (`deliveryStatus`; answers) |
| `topic`, `assigned`, `stored`, `events`, `delivered` | the relay's ticket, messages, events in order and those with `deliveredAt` |
| `posted` | how often Telegram shows each message |
| `calls` | requests in progress, each with who waits for it and the await it is at |
| `sync` | the runs of `syncRelay`, which its 15 s timer starts whether or not the last one has ended |
| `crowded` | whether fifty tickets are older than this one, so that a pass of `retryOutbound` does not read it |
| `used`, `faults`, `heard` | inputs used up, failures so far, answers recorded once the ticket was known |

A call the installation gives up on (`TimeOut`) stays in `calls`, worked on for
nobody; `Refuse` is an answer that is not ok, `ApiCrash` and `RelayCrash` the
restart of a side. Telegram delivers an update again after a crash or at will.
`Crowd` is what the other tickets of the installation do to this one's place
among the fifty: it falls behind when it is touched and moves up when they are.

## 3. Runs

`CHECK_DEADLOCK FALSE` where a finite set of requests ends and the system then
rests. The relay's runs check for deadlock: its timer never stops.

| Run | Instance | Shows |
|---|---|---|
| `dispatch` | 2 send requests, 2 keys, 2 edit sessions, 1 duplicate, 1 cancellation, both transports, timeout 1, clock 0..1; 2.6 M states | `TypeOK`, `SentRowHasSentOrder`, `SavesKept`, `SecondEmailHasCause`, the refinement `LifecycleSpec` |
| `dispatch_takeover` | 3 send requests, 2 keys, Resend, an expiry; 256 k states, no symmetry | `OneWinner`, `SentWasDelivered`, `ResendOncePerKey`, `SentRowLossHasCause`, and the liveness property `SendsSettle` |
| `receiving` | an order of 2 lines (2 crates of 2 units, and 1), 2 delivery notes out of 9 contents (short, exact, in excess, another product in place of the one ordered, a product not ordered, refused, to review, unknown article), 2 validations, 1 update, 1 clerk, 1 consumption; 1.25 M states | `TypeOK`, `PostedOnce`, `PartialHasGoods`, `ReceivedIsInStock`, `ReceivedIsFulfilled`, the refinement `ReceptionSpec` |
| `inventory` | 2 sites, 1 request of each kind (movement or transfer, adjustment, assistant, validation, count), 2 counts around the stock; 1.1 M states | `TypeOK`, `DivergesOnlyByOvertaking`, `MovementsReadFresh`, `StatusTellsApplied`, the refinement `IsLedger` |
| `campaign` | a campaign of 2 batches whose plan becomes 2 units or none, in any status and by the closing of the day before, and one of 1 batch, over 2 units in stock, 1 of them taken away by the stock module; 1.7 M states | `TypeOK`, `OutputPostedOnce`, `ReservationsBacked`, `ClosedHoldsNothing`, `ProducedFromComponents`, `OutputHasComponents` |
| `updater` | 2 presses, 3 releases published at any moment, from a release or from `latest`, restarts at any moment; 0.15 M states | `TypeOK`, `TagHasImages`, `StatusShownIsTrue`, `RestsOnWorkingVersion`, the liveness property `EveryUpdateEnds` |
| `relay_out` | a request, a second message, a closing by the user, beside fifty other tickets, one synchronisation, one failure of any kind; 0.53 M states | `PostedAtMostOnce`, `SentIsStored`, the refinement `ConversationSpec`, the liveness property `MessagesLeave` |
| `relay_in` | a conversation under way: a take, an answer and a closing by volunteers, two overlapping synchronisations, one failure; 0.34 M states | `TypeOK`, `AcknowledgedIsReceived`, the action property `ConversationGoesOn`, the liveness property `AnswersArrive` |
| `dispatch_edited`, `receiving_cancel`, `inventory_twice`, `relay_lost` | the least instance that shows it | section 4 |

*Why the bounds are enough to say something.* Every property relates at most two
requests of a kind; a third one appears where the code has three roles, a failed
request whose key is taken again, the one in between and the newcomer
(`dispatch_takeover`). One expiry (`MaxTime = Timeout = 1`) lets a reservation be
fresh, be stale, and be taken over; two would repeat that. Two keys give same key
and other key. Two order lines separate "some" from "every" line; ordered
quantities 2 and 1 make a line partly, exactly and over-received, and the crate of
two units keeps what is received apart from what enters stock. Two delivery
notes suffice for every race of two validations, and with two validations on one
note for a double validation. In `inventory` two sites make a transfer and its
crossings, and each kind of request meets each other kind; two of one kind meet
in `inventory_twice`, and without bound in the proofs. In `campaign` the batches
need three units of two, so that a shortage, a shared row and a last batch
all occur, and a plan loses the component and gets it back, before the validation
and after it. `MaxStock` and `MaxRemoved` bound the stock
module's writes. Two presses in `updater` let two operations overlap or one follow
the other; three releases let one come while an update to the one before is
under way, and another after its rollback. One failure in the relay's runs is
enough for each retry path: a call that failed, one that was given up on and is
still worked on, a crash of either side. Beyond these instances the proofs of
section 5 speak.

*Symmetry.* In `dispatch` requests of one kind, keys and edit sessions are
interchangeable; in `campaign` the two batches of one campaign are; in `receiving`
receipts and validations are, lines are not (they have different quantities). The
other runs use none.

*Fairness.* `FairSpec` of `PurchaseDispatch` has weak fairness of each send request's
`Step` and of nothing else: once a request is in the API every `await` returns or
raises. The Resend client aborts after 30 s (`resend-purchasing.gateway.ts:84`), the
mail and HTTP libraries and the database end a silent connection, and the Node
event loop runs what is ready. Nobody is obliged to edit, send, cancel, delete or
let time pass, and the process may stop at any moment, which settles its requests
too. `SystemUpdate` has weak fairness of each operation's `Work`: the waits for
services and health are counted attempts, and a docker command is taken to end, which the
code does not enforce by a timeout. `SupportRelay` has weak fairness of each run of
`syncRelay`, which the timer starts again and again
(`human-support.service.ts:20`), and of the work on each message, update and
closing: calls are given up on after 12 s, and webhooks are served. Users,
volunteers and failures are obliged to nothing; the bound on failures is the
assumption that the relay is reachable again at some time. Nothing makes the other
tickets let this one forward: `MessagesLeave` takes it as its hypothesis
(`<>[]~crowded`); without it the property fails.

## 4. Where the code and its documentation disagree

Each run checks one property a document or test states, and finds it violated.

| Run, property | What happens |
|---|---|
| `dispatch_edited`, `SentContentIsTransmitted` | an autosave accepted between rendering and `complete` makes the sent order differ from the e-mail: `complete` asks for DRAFT, not for the version rendered |
| `receiving_cancel`, `CancelledHasNoGoods` | cancel checks, a validation commits, cancel writes: a cancelled order with goods |
| `inventory_twice`, `AppliedOnce` | two validations check the status of one inventory before either commits: its variance is applied twice |
| `relay_lost`, `SentIsPosted` | the relay creates the ticket and does not get to post its opening text; the retry finds the ticket, and the request is marked SENT though no volunteer was shown it |

The quotations and lines are under `findings` in `PROJECT.json`.

## 5. Proofs

The seven `*Proofs` modules prove, for any number of requests, keys, lines,
receipts, sites, campaigns, batches, presses, releases, messages, updates,
synchronisations and failures and any quantities,
that every invariant of the passing runs holds, and that dispatch, receiving, the
stock rows and the two sides of support implement their abstract specifications.
Only liveness stays with TLC.

Assumptions, each named in the module that declares the constant:
`TimeoutAssumption` (the timeout is a positive, the clock bound a natural
number), `NoneAssumption` (the values for "none" are not elements),
`TransportsAssumption`, `OrderedAssumption` (a positive quantity is ordered of
each line: the DTO demands it), `ContentsAssumption` (a receipt has natural
quantities; what it adds to the order and to stock are unrelated),
`PlansAssumption` (a plan asks for none of the component or, counted in a unit no share
is smaller than, at least a unit for each batch), `TagsAssumption` (`latest` and "no
images" are not version numbers), `RequestsAssumption` (kinds of requests are disjoint),
`SitesAssumption`, `QuantitiesAssumption` (amounts are integers),
`OrderOfAssumption` (each batch belongs to a campaign), `FinitenessAssumption`
(campaigns and batches are finitely many), `StockAssumption`, `LaterAssumption` (the user sends
finitely many messages), `NamesAssumption` (kinds of updates and requests are told apart), and
`BoundsAssumption`, `FaultsAssumption` (bounds are natural numbers).

None of these sets of invariants is inductive as it stands.

*Dispatch.* `OneWinner` needs to know that a request that ended `sent` has left
the order in a status `complete` does not accept (`Winner`); `SentWasDelivered` that a
request past `Transmit` holds an e-mail of its key and content (`Emailed`, `Chosen`, `Reached`);
`ResendOncePerKey` that each e-mail carries the key of the request it came from
(`MailboxKeys`); `SavesKept` that a session whose version is the current one
saw every save it would not replace (`Sessions`). Their conjunction with the
properties is `IInv`. `LifecycleCorrect` maps each action to an `Edit`, a `Move`,
a `Delete` or a stutter; the only step that needs the invariant is
`CancelWrite`, whose check and write are apart: it uses that an order once checked is DRAFT, SENT,
CANCELLED or deleted.

Two properties say why something happens, and rest on what is so as long as it
has not. `SecondEmailHasCause`: until a send has failed or one has been taken over
(`Undisturbed`), one row at most is being sent, it is the row of every request
that has committed a reservation, and it is as young as the last of them
(`Quiet`, part of `CauseInv`). Whoever decided to reserve has seen that row, so it has
the same key and comes a timeout later (`ReservedAfter`), unless a `complete` made
the row SENT between its reads, which `crossed` records; the lock keeps that
true until it commits. Two e-mails without a failure or takeover therefore have
one key and reservations a timeout apart, or one of the two reservations was
crossed by a confirmation. `SentRowLossHasCause` needs the same of
one key alone (`KeyQuiet`), undisturbed by what happens under the others, and then
that whoever wrote over the row stays a witness: what it wrote, and what it took
over, is not forgotten once the order has left DRAFT (`WriterKept`).

*Receiving.* `PostedOnce` rests on lock ownership: who is inside a transaction
holds its receipt, and that receipt has no stock reception yet (`Holds`).
`ReceivedIsInStock` needs `KnowsStock`: what a validation is about to write is at
least the goods moved so far less those consumed plus its own, because its
product is locked against other validations and consumption can only lower the
real stock. The status properties need `KnowsFulfilled` and `KnowsGoods`: a
status computed earlier stays justified since received quantities only grow. In
particular RECEIVED is safe although the order's status is read stale.
`ReceptionCorrect` maps each commit of a validation to one `Post` of its whole note,
each status written by a clerk to a `Decide` and consumption to a `Take`; the rest
are stutters. That a commit posts the whole note, once, is `Holds`, and that the note is one
that was entered is `Entered`; that the stock it writes lies between what is there
plus the note and all that the notes posted brought is `Bounds`, which says so of
every product a transaction holds, in the units of stock, whatever production took
since it was read; that a status it
writes is backed by goods is `KnowsFulfilled` and `KnowsGoods`.

*Stock rows.* `DivergesOnlyByOvertaking` needs to know what a transaction will
have moved when it commits: what it has written, plus the calls it has left, is
the committed stock plus its movement, unless somebody committed over its
reads (`Adds`, from `ReadsFresh`). Two writers never have an uncommitted version of one
row (`RowsExclusive`). `MovementsReadFresh` rests on who holds the `ProductSite` rows
(`SitesHeld`): a movement holds those of every row it has written or will
write, so the one who overtakes it is neither a movement nor an adjustment.
`IsLedgerCorrect` maps each site to its stock, or once it diverged to the sum
of its movements, which the invariant makes equal everywhere (`BalanceIsMoved`);
then opening a request announces its movement, an abort withdraws it, a commit moves it, and the
reads and writes between are stutters.

*Update.* `TagHasImages` needs `KnownTags`: from its `Start` on an operation knows that the
images of its previous tag are present, from the end of preflight those
of the tag it asks for too, whatever others do, since a pull replaces what a tag
names and removes nothing. The two other properties need what an operation that
has the installation to itself knows at each await (`Alone`, `Undisturbed`); an
operation loses that knowledge exactly by what `shared` and `disturbed` record, and
its rollback that of which version the previous tag names by what `moved`
records, which only `latest` can do.

*Campaigns.* `ProducedFromComponents` needs the account kept along the way: of a
campaign that is executable or completed, what was consumed and what is still
reserved add up to what its plan requires (`Accounted`), and a campaign that is not
executable has no batch at work (`IdleAtRest`). A plan may change until the
campaign is validated, so the account starts there: before, nothing is reserved,
consumed or posted (`NothingBefore`). A plan written over later puts the campaign
in `rewritten`, and so does a closing that writes its status over another. What a
campaign holds is never more than its plan asks for (`HeldIsRequired`), so a completed
campaign whose plan names no component holds none. `OutputPostedOnce` needs that output
is only ever posted by the step that completes a batch (`OutputOfCompleted`).
`OutputHasComponents` counts the batches of a campaign that have posted: each step that
adds one consumes a share, which is a unit at least, and the last one leaves all that
the plan requires consumed (`Accounted`), which is a unit for every batch there is.
`ReservationsBacked` is about a sum over all campaigns. It is written as
the number of pairs of a campaign and a unit it reserves (`ReservedUnits`), and what
a step adds or releases is a disjoint part of that finite set: the theorems on
cardinality do what an induction over the campaigns would.

*Support.* `PostedAtMostOnce` rests on the row of a message, which is unique: a
request that is about to post one has created its row, so it is the only one
and nothing was posted before (`Posts`). That fails for the opening text, which is
posted before its row exists, and the property excepts it. `SentIsStored` needs that
an answer of success to a message means its row exists, and that a request stays
of the kind it was through time-outs and crashes (`CallsFit`).
`AcknowledgedIsReceived` needs that a synchronisation has received the answers
that lie behind its position in the batch (`Pulled`), which an answer recorded
later cannot disturb as it is in no batch yet; and that a run waits for one
call at a time (`Awaited`), so a late answer does not move it.

`ConversationCorrect` needs the reason for everything the two sides do (`CInv`, in
`SupportConversationProofs`): a call carries a message the installation keeps, what
it is about to post, store or answer has a ticket at the relay, an update of
Telegram was made by a volunteer (`Sound`); the calls a run has left are those of
messages it keeps or of a closing somebody asked for (`Caused`); a ticket that is
known or shown exists at the relay, and a closed one was closed by somebody
(`Sides`). Each such reason is a fact that only grows (`StepGrows`: tickets, kept
messages and what the people did are never taken back), so no step of another
actor destroys the reason of one under way.
That is one lemma for the steps that do not touch the call, and one short lemma
per step that does.

What stays with TLC: liveness (`SendsSettle`, `EveryUpdateEnds`, `MessagesLeave`,
`AnswersArrive`), which is out of the prover's reach, and the violated properties
of section 4.

## 6. Abstractions and limits

* One order, one draft. That two simultaneous `resumeDraft` or `create` requests
  may make two drafts of one supplier is listed as a hazard.
* The content of an order is the set of saves it is made of, which is what
  immutability and lost saves are about. Lines, prices and totals are data.
* Permissions, organisation scoping and input validation are taken as passed.
* Resend is external: modelled as the code uses it, with idempotency keys and
  refusal of the same key with another payload. Resend forgets a key after about a
  day, which is not modelled: `ResendOncePerKey` speaks of retries within that time.
  SMTP, Google and Microsoft deliver each time. The PDF is part of the fallible transmission.
* That the commit of `complete` succeeds and its answer is lost is not modelled.
* One site and one location: each product has one stock row. Several lines of a
  receipt that bring one product read and write that row one after the other under
  one lock, which is one read and one write of their sum in the model.
* Quantities of a receipt are natural numbers, in the units of the order for what is
  received and in those of the stock for what enters; the product of the two
  decimals is not computed, only that the two are different quantities.
* `StockReception.purchaseReceiptId` is unique in the schema, a second barrier
  behind the advisory lock. It is not modelled: `PostedOnce` shows that the lock alone suffices.
* A validation locks products line by line; the database's choice of a victim
  when two do it in opposite orders, a timeout and a lost connection are all
  `ValidateAbort`, which may happen at any moment of the transaction.
* Price valuation, HACCP checks, lots and OCR status of a reception are written in
  the same transaction and no property reads them.
* Clock skew does not exist: one process reads the clock.
* Three behaviours of dispatch look wrong and are reachable: a
  request overtaken under its own key after the timeout can fail last and turn the
  SENT dispatch to FAILED (`purchase-dispatch.service.ts:179`), and a FAILED key is
  retried without a look at a fresh SENDING row under another key (line 53), so two
  requests can transmit at once, of which `OneWinner` lets one mark the order sent;
  and a confirmation that falls between the queries of `reserve` (lines 31 and 70)
  lets a second key send the order again, without marking it.
  `SentRowLossHasCause` and `SecondEmailHasCause` say that nothing else leads there.
  A create or duplicate over an existing draft replaces saves nobody showed it
  (`purchase-order-command.service.ts:76`); `SavesKept` excepts them.
* In receiving, a decrement by production between the read and the write of a
  stock by a validation is lost while its movement stays
  (`stocks-reception-inventory.service.ts:47`): `ReceivedIsInStock` is an
  inequality for that reason.
* Stock rows: the product has a row at each site, so the branch of `applyStock` that
  creates one is left out, where two creations can both succeed. Lots, locations,
  units and average prices are data. A movement is checked against nothing: the
  code lets stock be negative, and so does the model.
* Campaigns: one component of one site. Shelf life, lots, substitution and the
  HACCP sessions of a batch are left out. The batches of a campaign are given: that
  `Reschedule` replaces them by as many as the new quantity makes is not modelled, nor
  that a plan is moved to another day. A share that a batch consumes is any
  quantity from one unit to what the plan asks for.
  A campaign completed through changeStatus or closeRealization, one whose plan is
  recalculated after its validation (`production.service.ts:93` and 96 look at no
  status), one whose status a closing writes over (`production-day-closure.service.ts:447`),
  and one restarted by restartBatch without a validation are excepted from the
  properties they can break, and the history variables say so. They do break them: a
  component that left the recipe stays reserved on a completed campaign, and a plan
  that was raised is completed with what the old one reserved. Until the validation
  a plan may be rewritten at will; `OutputHasComponents` is then about the shares of
  the plan that was validated. What WriteStock takes away is counted, not refused:
  nothing in the stock module looks at reservations.
* Serializable transactions are atomic: the conflict and its retry are a stutter.
  Under READ COMMITTED the stock module's own absolute writes are cut in
  `StockInventory`, and one action here.
* Update: versions are numbers in order of publication, and one tag stands for the
  pair of images of API and web, which a pull replaces together. Under `latest` the
  API compares the version of its package file with the latest release; it may find
  an update where there is none, and so may the model. A rollback to `latest` pulls
  what it names at that moment, so the first update of an installation as the env
  examples ship it (`.env.docker.example:44`), once its health check fails, ends on
  the release that failed, with status "rollback" (`docker/updater/server.js:295` and 326);
  `StatusShownIsTrue` and `RestsOnWorkingVersion` say so, by `moved`. Writing the
  env file is one step that does not fail; a stop in the middle of `writeFileSync`
  (`docker/updater/server.js:228`) could truncate it. The backups are a step that may fail; that
  a rollback keeps the migrated database is not modelled.
* Support: one ticket of one installation, so one relay identity. Attachments,
  signatures and quotas are refusals or part of a step; the purge after 90 days is
  left out, and so is the limit of 100 events per pull. The other tickets are the
  Boolean `crowded`, which changes at will when `Busy`: nothing is assumed of how
  long fifty of them stay older. In the code they may for ever, as a pass touches
  neither those it has nothing to send for nor closed ones without a relay ticket
  (`human-support.service.ts:159` and 162): what the ticket behind them keeps is then never
  sent. A late status event, or an
  answer, can reopen a ticket that was closed on one side (`Follow` of
  `SupportConversation` allows that, and only for a recorded take or answer);
  events pulled before the installation knows its relay ticket are ignored and
  acknowledged (`human-support.service.ts:91`), hence `heard`.
* `Contents`, `MaxTime`, `MaxFaults` and the sets of requests are the bounds of the
  models; the proofs put no bound on them.

Not modelled, and why: reads, rendering, dashboards, imports of documents,
language-model assistants, backups and authentication have no step of several
actors that a model would tell more about than a test; clients and installers,
which are most of the source by size, are the environment. The remaining
services with several actors are in section 7.

## 7. What could come next

1. The rest of day closure (`production-day-closure.service.ts`): the closing row is
   checked outside its transaction, over the output lots of `ProductionCampaign`,
   which would then be tracked one by one.
2. The rest of production execution: transitionStock on reserved lots.
3. HACCP sensor alarms (an alarm per excursion under late and repeated readings)
   and the synchronisation cursors of the finance imports (a sale counted once).
4. Sharper statements of what is proved: what `SystemUpdate` and
   `StockInventory` promise of each step (a tag is only ever replaced by one whose
   images are there, an applied inventory is final), and an abstract installation
   that `SystemUpdate` implements.
