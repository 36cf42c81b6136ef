---------------------------- MODULE GoodsReception ----------------------------
(***************************************************************************)
(* What the reception of an order promises.  A delivery note is posted     *)
(* once, in one step, with all its lines: the order has received them, in  *)
(* its units, and the products they bring are in stock, in theirs.         *)
(* Nothing else receives, and nothing that was received is taken back.     *)
(* Production takes what is in stock.  The order says RECEIVED only when   *)
(* it is, PARTIALLY_RECEIVED or CLOSED only with goods.                    *)
(***************************************************************************)
EXTENDS PurchaseOrderPolicy, Naturals

CONSTANTS
  Lines, Ordered, Products,
  Receipts,
  Deliveries     \* what a delivery note may bring: received of each line of the
                 \* order, entered of each product

VARIABLES
  status, received,
  reception,       \* the stock reception of each delivery note
  entered,         \* what the notes posted brought of each product
  stock, consumed

desk == <<status, received, reception, entered, stock, consumed>>

Zero == [l \in Lines |-> 0]
NoStock == [p \in Products |-> 0]

Init ==
  /\ status = "SENT"
  /\ received = Zero
  /\ entered = NoStock /\ stock = NoStock /\ consumed = NoStock
  /\ reception = [r \in Receipts |-> "none"]

\* What a status claims of the goods.
Claimed(s, goods) ==
  /\ s = "RECEIVED" => \A l \in Lines : goods[l] >= Ordered[l]
  /\ s \in {"PARTIALLY_RECEIVED", "CLOSED"} => \E l \in Lines : goods[l] > 0

\* A note that brings goods is accepted.  A unit that production took while the
\* note was posted may be back in stock, never one that no note brought.
Post(r) ==
  /\ reception[r] = "none"
  /\ \E q \in Deliveries :
       /\ received' = [l \in Lines |-> received[l] + q.received[l]]
       /\ entered' = [p \in Products |-> entered[p] + q.entered[p]]
       /\ \A p \in Products :
            /\ stock[p] + q.entered[p] <= stock'[p] /\ stock'[p] <= entered'[p]
            /\ q.entered[p] = 0 => stock'[p] = stock[p]
       /\ \E s \in {"VALIDATED", "CANCELLED"} :
            /\ q.received # Zero \/ q.entered # NoStock => s = "VALIDATED"
            /\ reception' = [reception EXCEPT ![r] = s]
  /\ status' \in OrderStatus /\ Claimed(status', received')
  /\ UNCHANGED consumed

\* A clerk acknowledges, cancels or closes the order.
Decide ==
  /\ status' \in {"ACKNOWLEDGED", "CANCELLED", "CLOSED"}
  /\ Claimed(status', received)
  /\ UNCHANGED <<received, reception, entered, stock, consumed>>

\* Production takes a unit.
Take(p) ==
  /\ stock[p] > 0
  /\ stock' = [stock EXCEPT ![p] = @ - 1]
  /\ consumed' = [consumed EXCEPT ![p] = @ + 1]
  /\ UNCHANGED <<status, received, reception, entered>>

Next ==
  \/ \E r \in Receipts : Post(r)
  \/ Decide
  \/ \E p \in Products : Take(p)

Spec == Init /\ [][Next]_desk
===============================================================================
