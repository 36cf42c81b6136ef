-------------------------- MODULE PurchaseReceiving --------------------------
(***************************************************************************)
(* A sent purchase order until it is received, closed or cancelled.        *)
(* Delivery notes become receipts (create, update), each receipt is        *)
(* validated into one stock reception which enters its goods in stock, and *)
(* clerks acknowledge, cancel or close the order, while production takes   *)
(* goods from the same stock.  Isolation is READ COMMITTED: a transaction  *)
(* reads what is committed, waits for the locks of the rows it writes, and *)
(* shows its writes at its commit.  The receipts of the order go to one    *)
(* location of one site, so a product has one stock row.                   *)
(***************************************************************************)
EXTENDS PurchaseOrderPolicy, Naturals

CONSTANTS
  Lines,        \* lines of the order
  Ordered,      \* orderedQuantity of each line
  Products,     \* products a delivery note may bring into stock
  Receipts,     \* delivery notes
  Contents,     \* what a delivery note may be entered as, see Content
  Validations,  \* requests to validate a receipt
  Updates,      \* requests to update a receipt
  Clerks,       \* requests to acknowledge, cancel or close the order
  Consumers,    \* consumptions of a product by production
  NoProduct,    \* not a product
  NoReceipt     \* not a receipt

\* The lines of a receipt, by what validation tells apart: the quantity
\* accepted of each order line, in its order unit; the quantity that enters
\* stock of each product, which is the accepted one times the units per order
\* unit of the receipt's line, of lines the order does not have too; the
\* quantity accepted on lines no product was found for; and whether an accepted
\* line is still to be reviewed.  A line may bring another product than the one
\* that was ordered, so the first two are independent.
Content == [accepted : [Lines -> Nat], entering : [Products -> Nat],
            unmatched : Nat, review : BOOLEAN]

ASSUME OrderedAssumption == Ordered \in [Lines -> Nat \ {0}]
ASSUME ContentsAssumption == Contents # {} /\ Contents \subseteq Content
ASSUME NoneAssumption == NoProduct \notin Products /\ NoReceipt \notin Receipts

VARIABLES
  status, received,           \* the PurchaseOrder row and its lines'
                              \* receivedQuantity
  rStatus, rContent,          \* the PurchaseReceipt rows
  stockReception,             \* the StockReception of a receipt
  posted,                     \* times a receipt was posted
  stock, moved,               \* Stock rows, RECEPTION movements per product
  consumed, consumerPc,       \* quantities consumed, each consumption
  productLock, receiptLock,   \* ProductSite row locks, advisory locks
  createPc, updatePc, updateOn, clerkPc, clerkTo,
  vPc, vOn,                   \* a validate request and its receipt,
  vOrder, vContent,           \* what its transaction read of order and receipt,
  vTodo, vProduct,            \* products to enter, the one being entered,
  vStock, vNext               \* stock and order status it is about to write

orderVars == <<status, received>>
receiptVars == <<rStatus, rContent>>
stockVars == <<stockReception, posted, stock, moved>>
consumerVars == <<consumed, consumerPc>>
lockVars == <<productLock, receiptLock>>
updateVars == <<updatePc, updateOn>>
clerkVars == <<clerkPc, clerkTo>>
readVars == <<vOn, vOrder, vContent>>
writeVars == <<vTodo, vProduct, vStock, vNext>>
txnVars == <<vPc, readVars, writeVars>>
vars == <<orderVars, receiptVars, stockVars, consumerVars, lockVars, createPc,
          updateVars, clerkVars, txnVars>>

Zero == [l \in Lines |-> 0]
NoStock == [p \in Products |-> 0]
NoContent == [accepted |-> Zero, entering |-> NoStock, unmatched |-> 0,
              review |-> FALSE]

ClerkTargets == {"ACKNOWLEDGED", "CANCELLED", "CLOSED"}

TypeOK ==
  /\ status \in OrderStatus
  /\ received \in [Lines -> Nat]
  /\ rStatus \in [Receipts -> {"none", "DRAFT", "REVIEW_NEEDED", "VALIDATED",
                               "CANCELLED"}]
  /\ rContent \in [Receipts -> Content]
  /\ stockReception \in [Receipts -> {"none", "VALIDATED", "CANCELLED"}]
  /\ posted \in [Receipts -> Nat]
  /\ stock \in [Products -> Nat]
  /\ moved \in [Products -> Nat]
  /\ consumed \in [Products -> Nat]
  /\ consumerPc \in [Consumers -> {"idle", "done"}]
  /\ productLock \in [Products -> SUBSET Validations]
  /\ receiptLock \in [Receipts -> SUBSET Validations]
  /\ createPc \in [Receipts -> {"idle", "acking", "creating", "done"}]
  /\ updatePc \in [Updates -> {"idle", "read", "done"}]
  /\ updateOn \in [Updates -> Receipts \union {NoReceipt}]
  /\ clerkPc \in [Clerks -> {"idle", "checked", "done"}]
  /\ clerkTo \in [Clerks -> ClerkTargets]
  /\ vPc \in [Validations -> {"idle", "checked", "applying", "committing",
                              "done", "aborted"}]
  /\ vOn \in [Validations -> Receipts \union {NoReceipt}]
  /\ vOrder \in [Validations -> OrderStatus]
  /\ vContent \in [Validations -> Content]
  /\ vTodo \in [Validations -> SUBSET Products]
  /\ vProduct \in [Validations -> Products \union {NoProduct}]
  /\ vStock \in [Validations -> [Products -> Nat]]
  /\ vNext \in [Validations -> OrderStatus]

\* The order was just sent; stock is counted from here.
Init ==
  /\ status = "SENT"
  /\ received = Zero
  /\ rStatus = [r \in Receipts |-> "none"]
  /\ rContent = [r \in Receipts |-> NoContent]
  /\ stockReception = [r \in Receipts |-> "none"]
  /\ posted = [r \in Receipts |-> 0]
  /\ stock = NoStock
  /\ moved = NoStock
  /\ consumed = NoStock
  /\ consumerPc = [k \in Consumers |-> "idle"]
  /\ productLock = [p \in Products |-> {}]
  /\ receiptLock = [r \in Receipts |-> {}]
  /\ createPc = [r \in Receipts |-> "idle"]
  /\ updatePc = [u \in Updates |-> "idle"]
  /\ updateOn = [u \in Updates |-> NoReceipt]
  /\ clerkPc = [c \in Clerks |-> "idle"]
  /\ clerkTo \in [Clerks -> ClerkTargets]
  /\ vPc = [v \in Validations |-> "idle"]
  /\ vOn = [v \in Validations |-> NoReceipt]
  /\ vOrder = [v \in Validations |-> "SENT"]
  /\ vContent = [v \in Validations |-> NoContent]
  /\ vTodo = [v \in Validations |-> {}]
  /\ vProduct = [v \in Validations |-> NoProduct]
  /\ vStock = [v \in Validations |-> NoStock]
  /\ vNext = [v \in Validations |-> "SENT"]

-------------------------------------------------------------------------------
(* Clerks: acknowledge, cancel and close of PurchaseOrderCommandService *)

\* Variant of ClerkCheck: the transition is not checked.
ClerkCheckNone(c) ==
  /\ clerkPc[c] = "idle"
  /\ clerkPc' = [clerkPc EXCEPT ![c] = "checked"]
  /\ UNCHANGED <<orderVars, receiptVars, stockVars, consumerVars, lockVars,
                 createPc, updateVars, clerkTo, txnVars>>

\* The status is read and the transition checked ...
ClerkCheck(c) ==
  /\ clerkPc[c] = "idle"
  /\ CanTransition(status, clerkTo[c])
  /\ clerkPc' = [clerkPc EXCEPT ![c] = "checked"]
  /\ UNCHANGED <<orderVars, receiptVars, stockVars, consumerVars, lockVars,
                 createPc, updateVars, clerkTo, txnVars>>

\* ... and the new status written whatever the order has become.
ClerkWrite(c) ==
  /\ clerkPc[c] = "checked"
  /\ status' = clerkTo[c]
  /\ clerkPc' = [clerkPc EXCEPT ![c] = "done"]
  /\ UNCHANGED <<received, receiptVars, stockVars, consumerVars, lockVars,
                 createPc, updateVars, clerkTo, txnVars>>

-------------------------------------------------------------------------------
(* Entering receipts: PurchaseReceiptService *)

Receivable == {"ACKNOWLEDGED", "PARTIALLY_RECEIVED"}

\* create reads the order; a SENT order will be acknowledged on the way.
CreateRead(r) ==
  /\ createPc[r] = "idle"
  /\ \/ status = "SENT" /\ createPc' = [createPc EXCEPT ![r] = "acking"]
     \/ status \in Receivable /\ createPc' = [createPc EXCEPT ![r] = "creating"]
  /\ UNCHANGED <<orderVars, receiptVars, stockVars, consumerVars, lockVars,
                 updateVars, clerkVars, txnVars>>

CreateAcknowledge(r) ==
  /\ createPc[r] = "acking"
  /\ status' = "ACKNOWLEDGED"
  /\ createPc' = [createPc EXCEPT ![r] = "creating"]
  /\ UNCHANGED <<received, receiptVars, stockVars, consumerVars, lockVars,
                 updateVars, clerkVars, txnVars>>

\* A line has no product yet or is flagged for review.
Open(c) == c.review \/ c.unmatched > 0

\* Variant of OpenStatus: the status of a line instead of that of a receipt.
OpenStatusOfLine(c) == IF Open(c) THEN "NEEDS_REVIEW" ELSE "DRAFT"

\* status(): a receipt with an open match is to be reviewed.
OpenStatus(c) == IF Open(c) THEN "REVIEW_NEEDED" ELSE "DRAFT"

Enter(r, c) ==
  /\ rContent' = [rContent EXCEPT ![r] = c]
  /\ rStatus' = [rStatus EXCEPT ![r] = OpenStatus(c)]

CreateInsert(r) ==
  /\ createPc[r] = "creating"
  /\ \E c \in Contents : Enter(r, c)
  /\ createPc' = [createPc EXCEPT ![r] = "done"]
  /\ UNCHANGED <<orderVars, stockVars, consumerVars, lockVars, updateVars,
                 clerkVars, txnVars>>

\* update refuses the status it reads when that is VALIDATED ...
UpdateRead(u) ==
  /\ updatePc[u] = "idle"
  /\ \E r \in Receipts :
       /\ rStatus[r] \notin {"none", "VALIDATED"}
       /\ updateOn' = [updateOn EXCEPT ![u] = r]
  /\ updatePc' = [updatePc EXCEPT ![u] = "read"]
  /\ UNCHANGED <<orderVars, receiptVars, stockVars, consumerVars, lockVars,
                 createPc, clerkVars, txnVars>>

\* ... and replaces lines and status, unguarded, in its transaction.
UpdateWrite(u) ==
  /\ updatePc[u] = "read"
  /\ \E c \in Contents : Enter(updateOn[u], c)
  /\ updatePc' = [updatePc EXCEPT ![u] = "done"]
  /\ UNCHANGED <<orderVars, stockVars, consumerVars, lockVars, createPc,
                 updateOn, clerkVars, txnVars>>

-------------------------------------------------------------------------------
(* Validating a receipt: PurchaseReceiptValidationService.validate *)

InTxn(v) == vPc[v] \in {"applying", "committing"}

\* The lines of the order with an accepted quantity, the products that enter.
Accepted(c) == {l \in Lines : c.accepted[l] > 0}
Entering(c) == {p \in Products : c.entering[p] > 0}

\* acceptedTotal > 0.
AnyAccepted(c) == Accepted(c) # {} \/ Entering(c) # {} \/ c.unmatched > 0

\* Before the transaction: not validated yet, every accepted line matched.
ValidateCheck(v) ==
  /\ vPc[v] = "idle"
  /\ \E r \in Receipts :
       /\ rStatus[r] \notin {"none", "VALIDATED"}
       /\ ~Open(rContent[r])
       /\ vOn' = [vOn EXCEPT ![v] = r]
  /\ vPc' = [vPc EXCEPT ![v] = "checked"]
  /\ UNCHANGED <<orderVars, receiptVars, stockVars, consumerVars, lockVars,
                 createPc, updateVars, clerkVars, vOrder, vContent, writeVars>>

\* Variant of Enters: no advisory lock.
EntersUnlocked(v) == vPc[v] = "checked"

\* The transaction begins once it has the advisory lock of the receipt.
Enters(v) == vPc[v] = "checked" /\ receiptLock[vOn[v]] = {}

\* The receipt has its stock reception already: it is returned as it is.
ValidateDuplicate(v) ==
  /\ Enters(v)
  /\ stockReception[vOn[v]] # "none"
  /\ vPc' = [vPc EXCEPT ![v] = "done"]
  /\ UNCHANGED <<orderVars, receiptVars, stockVars, consumerVars, lockVars,
                 createPc, updateVars, clerkVars, readVars, writeVars>>

\* Otherwise receipt and order are read again, the open matches are not.
ValidateBegin(v) ==
  /\ Enters(v)
  /\ stockReception[vOn[v]] = "none"
  /\ receiptLock' = [receiptLock EXCEPT ![vOn[v]] = {v}]
  /\ vPc' = [vPc EXCEPT ![v] = "applying"]
  /\ vOrder' = [vOrder EXCEPT ![v] = status]
  /\ vContent' = [vContent EXCEPT ![v] = rContent[vOn[v]]]
  /\ vTodo' = [vTodo EXCEPT ![v] = Entering(rContent[vOn[v]])]
  /\ UNCHANGED <<orderVars, receiptVars, stockVars, consumerVars, productLock,
                 createPc, updateVars, clerkVars, vOn, vProduct, vStock, vNext>>

\* Variant of ProductFree: the ProductSite row is left alone.
ProductFreeAlways(p) == TRUE

\* No transaction in progress has upserted the ProductSite row.
ProductFree(p) == productLock[p] = {}

\* The upsert of the ProductSite row locks it to the end of the transaction;
\* then applyValidatedLineTx reads the stock of the product and computes the
\* new quantity from it (from there on the product is the transaction's, so
\* several lines of a product are one read and one write here) ...
ReadStock(v) ==
  /\ vPc[v] = "applying"
  /\ vProduct[v] = NoProduct
  /\ \E p \in vTodo[v] :
       /\ ProductFree(p)
       /\ productLock' = [productLock EXCEPT ![p] = {v}]
       /\ vProduct' = [vProduct EXCEPT ![v] = p]
       /\ vStock' = [vStock EXCEPT ![v][p] = stock[p] + vContent[v].entering[p]]
  /\ UNCHANGED <<orderVars, receiptVars, stockVars, consumerVars, receiptLock,
                 createPc, updateVars, clerkVars, vPc, readVars, vTodo, vNext>>

\* Variant of WriteStock: the row is written outside the transaction.
WriteStockOutside(v) ==
  /\ vPc[v] = "applying"
  /\ vProduct[v] # NoProduct
  /\ stock' = [stock EXCEPT ![vProduct[v]] = vStock[v][vProduct[v]]]
  /\ vTodo' = [vTodo EXCEPT ![v] = vTodo[v] \ {vProduct[v]}]
  /\ vProduct' = [vProduct EXCEPT ![v] = NoProduct]
  /\ UNCHANGED <<orderVars, receiptVars, stockReception, posted, moved,
                 consumerVars, lockVars, createPc, updateVars, clerkVars, vPc,
                 readVars, vStock, vNext>>

\* ... and writes that quantity.
WriteStock(v) ==
  /\ vPc[v] = "applying"
  /\ vProduct[v] # NoProduct
  /\ vTodo' = [vTodo EXCEPT ![v] = vTodo[v] \ {vProduct[v]}]
  /\ vProduct' = [vProduct EXCEPT ![v] = NoProduct]
  /\ UNCHANGED <<orderVars, receiptVars, stockVars, consumerVars, lockVars,
                 createPc, updateVars, clerkVars, vPc, readVars, vStock, vNext>>

\* A stock row is locked from its write to the end of the transaction.
RowLocked(p) ==
  \E v \in Validations : InTxn(v) /\ p \in Entering(vContent[v]) \ vTodo[v]

\* Production decrements a stock row in one guarded statement, with its
\* movement; production does not know of ProductSite locks.
Consume(k) ==
  /\ consumerPc[k] = "idle"
  /\ \E p \in Products :
       /\ stock[p] >= 1
       /\ ~RowLocked(p)
       /\ stock' = [stock EXCEPT ![p] = stock[p] - 1]
       /\ consumed' = [consumed EXCEPT ![p] = consumed[p] + 1]
  /\ consumerPc' = [consumerPc EXCEPT ![k] = "done"]
  /\ UNCHANGED <<orderVars, receiptVars, stockReception, posted, moved, lockVars,
                 createPc, updateVars, clerkVars, txnVars>>

\* The lines' received quantities as v sees them after its own increments.
ReceivedAfter(v) == [l \in Lines |-> received[l] + vContent[v].accepted[l]]

\* Variant of NextStatus: some line instead of every line.
NextStatusSome(v) ==
  IF \E l \in Lines : ReceivedAfter(v)[l] >= Ordered[l] THEN "RECEIVED"
  ELSE IF \E l \in Lines : ReceivedAfter(v)[l] > 0 THEN "PARTIALLY_RECEIVED"
  ELSE vOrder[v]

\* The status the validation gives the order.
NextStatus(v) ==
  LET after == ReceivedAfter(v) IN
  IF ~AnyAccepted(vContent[v]) THEN vOrder[v]
  ELSE IF \A l \in Lines : after[l] >= Ordered[l] THEN "RECEIVED"
  ELSE IF \E l \in Lines : after[l] > 0 THEN "PARTIALLY_RECEIVED"
  ELSE vOrder[v]

ProductsEntered(v) == vPc[v] = "applying" /\ vTodo[v] = {} /\ vProduct[v] = NoProduct

\* A line is locked from its increment to the end of the transaction.
LinesFree(v) ==
  \A w \in Validations :
    vPc[w] = "committing" =>
      Accepted(vContent[w]) \intersect Accepted(vContent[v]) = {}

\* The received quantities are incremented and read back, the next status is
\* computed from the order status read when the transaction began.
ReceiveLines(v) ==
  /\ ProductsEntered(v)
  /\ LinesFree(v)
  /\ NextStatus(v) = vOrder[v] \/ CanTransition(vOrder[v], NextStatus(v))
  /\ vPc' = [vPc EXCEPT ![v] = "committing"]
  /\ vNext' = [vNext EXCEPT ![v] = NextStatus(v)]
  /\ UNCHANGED <<orderVars, receiptVars, stockVars, consumerVars, lockVars,
                 createPc, updateVars, clerkVars, readVars, vTodo, vProduct,
                 vStock>>

\* The transaction ends: its locks are released, its local values dropped.
Ends(v, outcome) ==
  /\ productLock' = [p \in Products |-> productLock[p] \ {v}]
  /\ receiptLock' = [r \in Receipts |-> receiptLock[r] \ {v}]
  /\ vPc' = [vPc EXCEPT ![v] = outcome]
  /\ vOrder' = [vOrder EXCEPT ![v] = "SENT"]
  /\ vContent' = [vContent EXCEPT ![v] = NoContent]
  /\ vTodo' = [vTodo EXCEPT ![v] = {}]
  /\ vProduct' = [vProduct EXCEPT ![v] = NoProduct]
  /\ vStock' = [vStock EXCEPT ![v] = NoStock]
  /\ vNext' = [vNext EXCEPT ![v] = "SENT"]
  /\ UNCHANGED vOn

\* VALIDATED, or CANCELLED when everything was refused.
Outcome(c) == IF AnyAccepted(c) THEN "VALIDATED" ELSE "CANCELLED"

\* Every write of the transaction becomes visible.
ValidateCommit(v) ==
  LET r == vOn[v]
      c == vContent[v]
  IN
  /\ vPc[v] = "committing"
  /\ stock' = [p \in Products |->
                 IF p \in Entering(c) THEN vStock[v][p] ELSE stock[p]]
  /\ moved' = [p \in Products |-> moved[p] + c.entering[p]]
  /\ stockReception' = [stockReception EXCEPT ![r] = Outcome(c)]
  /\ posted' = [posted EXCEPT ![r] = posted[r] + 1]
  /\ received' = ReceivedAfter(v)
  /\ status' = vNext[v]
  /\ rStatus' = [rStatus EXCEPT ![r] = Outcome(c)]
  /\ Ends(v, "done")
  /\ UNCHANGED <<rContent, consumerVars, createPc, updateVars, clerkVars>>

\* The transaction is rolled back: a refused transition, the victim of a
\* deadlock, its timeout, a lost connection or the end of the process.
ValidateAbort(v) ==
  /\ InTxn(v)
  /\ Ends(v, "aborted")
  /\ UNCHANGED <<orderVars, receiptVars, stockVars, consumerVars, createPc,
                 updateVars, clerkVars>>

-------------------------------------------------------------------------------
Next ==
  \/ \E k \in Consumers : Consume(k)
  \/ \E c \in Clerks : ClerkCheck(c) \/ ClerkWrite(c)
  \/ \E r \in Receipts : CreateRead(r) \/ CreateAcknowledge(r) \/ CreateInsert(r)
  \/ \E u \in Updates : UpdateRead(u) \/ UpdateWrite(u)
  \/ \E v \in Validations :
       \/ ValidateCheck(v) \/ ValidateDuplicate(v) \/ ValidateBegin(v)
       \/ ReadStock(v) \/ WriteStock(v) \/ ReceiveLines(v)
       \/ ValidateCommit(v) \/ ValidateAbort(v)

Spec == Init /\ [][Next]_vars

-------------------------------------------------------------------------------
(* Properties that hold *)

Fulfilled == \A l \in Lines : received[l] >= Ordered[l]

\* One stock reception and one set of movements per receipt, however often and
\* however concurrently it is validated, and whatever updates come between.
PostedOnce ==
  \A r \in Receipts : posted[r] = (IF stockReception[r] = "none" THEN 0 ELSE 1)

\* Goods received are never lost from stock: validations read a stock and write
\* it back, and the ProductSite row they upsert before keeps them apart.
ReceivedIsInStock == \A p \in Products : stock[p] + consumed[p] >= moved[p]

\* An order marked RECEIVED has everything it ordered.
ReceivedIsFulfilled == status = "RECEIVED" => Fulfilled

\* An order marked PARTIALLY_RECEIVED or CLOSED has received something.
PartialHasGoods ==
  status \in {"PARTIALLY_RECEIVED", "CLOSED"} => \E l \in Lines : received[l] > 0

\* Seen from outside, the round trips of these requests are a reception desk: a
\* receipt is posted once and whole, to the order and to the stock, whatever
\* transactions run beside it or are rolled back, received quantities never go
\* down, stock never exceeds what entered, and every status written over another
\* one is still true of the goods.
Reception == INSTANCE GoodsReception WITH
  reception <- stockReception, entered <- moved,
  Deliveries <- {[received |-> c.accepted, entered |-> c.entering] : c \in Contents}
ReceptionSpec == Reception!Spec

-------------------------------------------------------------------------------
(* A property the documentation states and the code does not keep *)

\* A cancellation interrupts an order before any reception: the cancel request
\* checked its transition before a validation committed.
CancelledHasNoGoods == status = "CANCELLED" => \A l \in Lines : received[l] = 0

===============================================================================
