----------------------- MODULE PurchaseReceivingProofs -----------------------
(***************************************************************************)
(* Proofs about PurchaseReceiving, for every order, every set of delivery  *)
(* notes and every number of concurrent requests.                          *)
(***************************************************************************)
EXTENDS PurchaseReceiving, TLAPS

(***************************************************************************)
(* The inductive invariant.  A transaction in progress owns the advisory   *)
(* lock of its receipt, which has no stock reception yet; what it knows of *)
(* the order when it began still bounds the order when it commits, because *)
(* received quantities only grow.                                          *)
(***************************************************************************)

Holds ==
  \A v \in Validations :
    /\ vPc[v] # "idle" => vOn[v] \in Receipts
    /\ InTxn(v) => /\ receiptLock[vOn[v]] = {v}
                   /\ stockReception[vOn[v]] = "none"

UpdatesChosen == \A u \in Updates : updatePc[u] = "read" => updateOn[u] \in Receipts

HasGoods == \E l \in Lines : received[l] > 0

\* What v read of the order, and what it is about to write.
KnowsFulfilled ==
  \A v \in Validations :
    /\ InTxn(v) /\ vOrder[v] = "RECEIVED" => Fulfilled
    /\ vPc[v] = "committing" /\ vNext[v] = "RECEIVED" =>
         \A l \in Lines : ReceivedAfter(v)[l] >= Ordered[l]

KnowsGoods ==
  /\ \A c \in Clerks :
       clerkPc[c] = "checked" /\ clerkTo[c] = "CLOSED" => HasGoods
  /\ \A v \in Validations :
       /\ InTxn(v) /\ vOrder[v] \in {"PARTIALLY_RECEIVED", "CLOSED"}
            => HasGoods
       /\ vPc[v] = "committing" /\ vNext[v] \in {"PARTIALLY_RECEIVED", "CLOSED"}
            => \E l \in Lines : ReceivedAfter(v)[l] > 0

\* The products whose stock v has read; they are locked, and what v is about to
\* write still covers the movements, its own included.
Held(v) == {p \in Entering(vContent[v]) : p \notin vTodo[v] \/ p = vProduct[v]}

KnowsStock ==
  \A v \in Validations :
    /\ ~InTxn(v) => vProduct[v] = NoProduct
    /\ InTxn(v) =>
         /\ vTodo[v] \subseteq Entering(vContent[v])
         /\ vPc[v] = "committing" => vTodo[v] = {}
         /\ \A p \in Held(v) :
              /\ productLock[p] = {v}
              /\ vStock[v][p] + consumed[p] >= moved[p] + vContent[v].entering[p]

IInv ==
  /\ TypeOK /\ Holds /\ UpdatesChosen
  /\ PostedOnce
  /\ ReceivedIsInStock /\ KnowsStock
  /\ ReceivedIsFulfilled /\ KnowsFulfilled
  /\ PartialHasGoods /\ KnowsGoods

-------------------------------------------------------------------------------
LEMMA NoneType ==
  NoContent \in Content /\ Zero \in [Lines -> Nat] /\ NoStock \in [Products -> Nat]
  BY DEF NoContent, Content, Zero, NoStock

LEMMA InitTypeOK == Init => TypeOK
  BY NoneType DEF Init, TypeOK, OrderStatus

LEMMA NextTypeOK ==
  TypeOK /\ Holds /\ UpdatesChosen /\ [Next]_vars
    => TypeOK'
<1> SUFFICES ASSUME TypeOK, Holds, UpdatesChosen, [Next]_vars
             PROVE  TypeOK'
  OBVIOUS
<1> USE DEF TypeOK, orderVars, receiptVars, stockVars, consumerVars, lockVars,
     updateVars, clerkVars, readVars, writeVars, txnVars, vars
<1>1. ASSUME NEW p \in Consumers, Consume(p) PROVE TypeOK'
  BY <1>1 DEF Consume
<1>2. ASSUME NEW c \in Clerks, ClerkCheck(c) PROVE TypeOK'
  BY <1>2 DEF ClerkCheck
<1>3. ASSUME NEW c \in Clerks, ClerkWrite(c) PROVE TypeOK'
  BY <1>3 DEF ClerkWrite, ClerkTargets, OrderStatus
<1>4. ASSUME NEW r \in Receipts, CreateRead(r) PROVE TypeOK'
  BY <1>4 DEF CreateRead
<1>5. ASSUME NEW r \in Receipts, CreateAcknowledge(r) PROVE TypeOK'
  BY <1>5 DEF CreateAcknowledge, OrderStatus
<1>6. ASSUME NEW r \in Receipts, CreateInsert(r) PROVE TypeOK'
  BY <1>6, ContentsAssumption DEF CreateInsert, Enter, OpenStatus
<1>7. ASSUME NEW u \in Updates, UpdateRead(u) PROVE TypeOK'
  BY <1>7 DEF UpdateRead
<1>8. ASSUME NEW u \in Updates, UpdateWrite(u) PROVE TypeOK'
  BY <1>8, ContentsAssumption DEF UpdateWrite, Enter, OpenStatus, UpdatesChosen
<1>9. ASSUME NEW v \in Validations, ValidateCheck(v) PROVE TypeOK'
  BY <1>9 DEF ValidateCheck
<1>10. ASSUME NEW v \in Validations, ValidateDuplicate(v) PROVE TypeOK'
  BY <1>10 DEF ValidateDuplicate
<1>11. ASSUME NEW v \in Validations, ValidateBegin(v) PROVE TypeOK'
  BY <1>11 DEF ValidateBegin, Enters, Holds, Entering
<1>12. ASSUME NEW v \in Validations, ReadStock(v) PROVE TypeOK'
  BY <1>12 DEF ReadStock, Content
<1>13. ASSUME NEW v \in Validations, WriteStock(v) PROVE TypeOK'
  BY <1>13 DEF WriteStock
<1>14. ASSUME NEW v \in Validations, ReceiveLines(v) PROVE TypeOK'
  BY <1>14 DEF ReceiveLines, NextStatus, OrderStatus
<1>15. ASSUME NEW v \in Validations, ValidateCommit(v) PROVE TypeOK'
  BY <1>15, NoneType DEF ValidateCommit, Holds, InTxn, Ends, ReceivedAfter, Outcome,
     Content, OrderStatus
<1>16. ASSUME NEW v \in Validations, ValidateAbort(v) PROVE TypeOK'
  BY <1>16, NoneType DEF ValidateAbort, Ends, OrderStatus
<1>17. CASE UNCHANGED vars
  BY <1>17
<1> QED
  BY <1>1, <1>2, <1>3, <1>4, <1>5, <1>6, <1>7, <1>8, <1>9, <1>10, <1>11,
     <1>12, <1>13, <1>14, <1>15, <1>16, <1>17 DEF Next

\* Only an order received in part is closed.
LEMMA ClosedIsPartial ==
  ASSUME CanTransition(status, "CLOSED") PROVE status = "PARTIALLY_RECEIVED"
  BY DEF CanTransition, Transitions, OrderStatus

\* Increments only add, so what an order has received is never taken back.
LEMMA AfterGrows ==
  ASSUME TypeOK, NEW v \in Validations
  PROVE  /\ ReceivedAfter(v) \in [Lines -> Nat]
         /\ \A l \in Lines : ReceivedAfter(v)[l] >= received[l]
  BY DEF TypeOK, ReceivedAfter, Content

\* A validation finds the order fulfilled, or with goods, only when it is so
\* with its own increments.
LEMMA NextStatusKnows ==
  ASSUME TypeOK, KnowsFulfilled, KnowsGoods,
         NEW v \in Validations, InTxn(v)
  PROVE  /\ NextStatus(v) = "RECEIVED" =>
              \A l \in Lines : ReceivedAfter(v)[l] >= Ordered[l]
         /\ NextStatus(v) \in {"PARTIALLY_RECEIVED", "CLOSED"} =>
              \E l \in Lines : ReceivedAfter(v)[l] > 0
<1>1. /\ ReceivedAfter(v) \in [Lines -> Nat]
      /\ \A l \in Lines : ReceivedAfter(v)[l] >= received[l]
  BY AfterGrows
<1>2. received \in [Lines -> Nat] /\ Ordered \in [Lines -> Nat]
  BY OrderedAssumption DEF TypeOK
<1>3. CASE NextStatus(v) = vOrder[v]
  <2>1. vOrder[v] = "RECEIVED" => \A l \in Lines : ReceivedAfter(v)[l] >= Ordered[l]
    BY <1>1, <1>2 DEF KnowsFulfilled, Fulfilled
  <2>2. vOrder[v] \in {"PARTIALLY_RECEIVED", "CLOSED"} =>
          \E l \in Lines : ReceivedAfter(v)[l] > 0
    BY <1>1, <1>2 DEF KnowsGoods, HasGoods
  <2> QED
    BY <1>3, <2>1, <2>2
<1>4. CASE NextStatus(v) # vOrder[v]
  BY <1>4 DEF NextStatus
<1> QED
  BY <1>3, <1>4

\* Locks: the transaction of a receipt without stock reception is alone in it.
LEMMA NextHolds ==
  TypeOK /\ Holds /\ UpdatesChosen /\ PostedOnce /\ [Next]_vars
    => (Holds /\ PostedOnce)'
<1> SUFFICES ASSUME TypeOK, Holds, UpdatesChosen, PostedOnce, [Next]_vars
             PROVE  (Holds /\ PostedOnce)'
  OBVIOUS
<1> USE DEF TypeOK, Holds, InTxn, PostedOnce, orderVars, receiptVars,
     stockVars, consumerVars, lockVars, updateVars, clerkVars, readVars,
     writeVars, txnVars, vars
<1>1. ASSUME NEW p \in Consumers, Consume(p) PROVE (Holds /\ PostedOnce)'
  BY <1>1 DEF Consume
<1>2. ASSUME NEW c \in Clerks, ClerkCheck(c) PROVE (Holds /\ PostedOnce)'
  BY <1>2 DEF ClerkCheck
<1>3. ASSUME NEW c \in Clerks, ClerkWrite(c) PROVE (Holds /\ PostedOnce)'
  BY <1>3 DEF ClerkWrite
<1>4. ASSUME NEW r \in Receipts, CreateRead(r) PROVE (Holds /\ PostedOnce)'
  BY <1>4 DEF CreateRead
<1>5. ASSUME NEW r \in Receipts, CreateAcknowledge(r) PROVE (Holds /\ PostedOnce)'
  BY <1>5 DEF CreateAcknowledge
<1>6. ASSUME NEW r \in Receipts, CreateInsert(r) PROVE (Holds /\ PostedOnce)'
  BY <1>6 DEF CreateInsert
<1>7. ASSUME NEW u \in Updates, UpdateRead(u) PROVE (Holds /\ PostedOnce)'
  BY <1>7 DEF UpdateRead
<1>8. ASSUME NEW u \in Updates, UpdateWrite(u) PROVE (Holds /\ PostedOnce)'
  BY <1>8 DEF UpdateWrite
<1>9. ASSUME NEW v \in Validations, ValidateCheck(v) PROVE (Holds /\ PostedOnce)'
  BY <1>9 DEF ValidateCheck
<1>10. ASSUME NEW v \in Validations, ValidateDuplicate(v) PROVE (Holds /\ PostedOnce)'
  BY <1>10 DEF ValidateDuplicate, Enters
<1>11. ASSUME NEW v \in Validations, ValidateBegin(v) PROVE (Holds /\ PostedOnce)'
  <2>1. /\ vPc[v] = "checked" /\ vOn[v] \in Receipts /\ receiptLock[vOn[v]] = {}
        /\ stockReception[vOn[v]] = "none"
        /\ vPc' = [vPc EXCEPT ![v] = "applying"]
        /\ receiptLock' = [receiptLock EXCEPT ![vOn[v]] = {v}]
        /\ UNCHANGED <<vOn, stockReception, posted>>
    BY <1>11 DEF ValidateBegin, Enters
  <2>2. \A w \in Validations : InTxn(w) => w \in receiptLock[vOn[w]]
    OBVIOUS
  <2>3. \A w \in Validations \ {v} : InTxn(w) => vOn[w] # vOn[v]
    BY <2>1, <2>2
  <2> QED
    BY <2>1, <2>3
<1>12. ASSUME NEW v \in Validations, ReadStock(v) PROVE (Holds /\ PostedOnce)'
  BY <1>12 DEF ReadStock
<1>13. ASSUME NEW v \in Validations, WriteStock(v) PROVE (Holds /\ PostedOnce)'
  BY <1>13 DEF WriteStock
<1>14. ASSUME NEW v \in Validations, ReceiveLines(v) PROVE (Holds /\ PostedOnce)'
  BY <1>14 DEF ReceiveLines, ProductsEntered
<1>15. ASSUME NEW v \in Validations, ValidateCommit(v) PROVE (Holds /\ PostedOnce)'
  <2>1. /\ vOn[v] \in Receipts /\ receiptLock[vOn[v]] = {v}
        /\ stockReception[vOn[v]] = "none" /\ posted[vOn[v]] = 0
    BY <1>15 DEF ValidateCommit
  <2>2. /\ vPc' = [vPc EXCEPT ![v] = "done"] /\ vOn' = vOn
        /\ receiptLock' = [r \in Receipts |-> receiptLock[r] \ {v}]
        /\ posted' = [posted EXCEPT ![vOn[v]] = posted[vOn[v]] + 1]
        /\ stockReception' = [stockReception EXCEPT ![vOn[v]] = Outcome(vContent[v])]
    BY <1>15 DEF ValidateCommit, Ends
  <2>3. \A w \in Validations : InTxn(w) => w \in receiptLock[vOn[w]]
    OBVIOUS
  <2>4. \A w \in Validations \ {v} : InTxn(w) => vOn[w] # vOn[v]
    BY <2>1, <2>3
  <2>5. Holds'
    BY <2>1, <2>2, <2>4
  <2>6. PostedOnce'
    BY <2>1, <2>2 DEF Outcome
  <2> QED
    BY <2>5, <2>6
<1>16. ASSUME NEW v \in Validations, ValidateAbort(v) PROVE (Holds /\ PostedOnce)'
  BY <1>16 DEF ValidateAbort, Ends
<1>17. CASE UNCHANGED vars
  BY <1>17
<1> QED
  BY <1>1, <1>2, <1>3, <1>4, <1>5, <1>6, <1>7, <1>8, <1>9, <1>10, <1>11,
     <1>12, <1>13, <1>14, <1>15, <1>16, <1>17 DEF Next

LEMMA NextUpdatesChosen ==
  TypeOK /\ UpdatesChosen /\ [Next]_vars
    => UpdatesChosen'
<1> SUFFICES ASSUME TypeOK, UpdatesChosen, [Next]_vars
             PROVE  UpdatesChosen'
  OBVIOUS
<1> USE DEF TypeOK, UpdatesChosen, orderVars, receiptVars, stockVars,
     consumerVars, lockVars, updateVars, clerkVars, readVars, writeVars,
     txnVars, vars
<1>1. ASSUME NEW p \in Consumers, Consume(p) PROVE UpdatesChosen'
  BY <1>1 DEF Consume
<1>2. ASSUME NEW c \in Clerks, ClerkCheck(c) PROVE UpdatesChosen'
  BY <1>2 DEF ClerkCheck
<1>3. ASSUME NEW c \in Clerks, ClerkWrite(c) PROVE UpdatesChosen'
  BY <1>3 DEF ClerkWrite
<1>4. ASSUME NEW r \in Receipts, CreateRead(r) PROVE UpdatesChosen'
  BY <1>4 DEF CreateRead
<1>5. ASSUME NEW r \in Receipts, CreateAcknowledge(r) PROVE UpdatesChosen'
  BY <1>5 DEF CreateAcknowledge
<1>6. ASSUME NEW r \in Receipts, CreateInsert(r) PROVE UpdatesChosen'
  BY <1>6 DEF CreateInsert
<1>7. ASSUME NEW u \in Updates, UpdateRead(u) PROVE UpdatesChosen'
  BY <1>7 DEF UpdateRead
<1>8. ASSUME NEW u \in Updates, UpdateWrite(u) PROVE UpdatesChosen'
  BY <1>8 DEF UpdateWrite
<1>9. ASSUME NEW v \in Validations, ValidateCheck(v) PROVE UpdatesChosen'
  BY <1>9 DEF ValidateCheck
<1>10. ASSUME NEW v \in Validations, ValidateDuplicate(v) PROVE UpdatesChosen'
  BY <1>10 DEF ValidateDuplicate
<1>11. ASSUME NEW v \in Validations, ValidateBegin(v) PROVE UpdatesChosen'
  BY <1>11 DEF ValidateBegin
<1>12. ASSUME NEW v \in Validations, ReadStock(v) PROVE UpdatesChosen'
  BY <1>12 DEF ReadStock
<1>13. ASSUME NEW v \in Validations, WriteStock(v) PROVE UpdatesChosen'
  BY <1>13 DEF WriteStock
<1>14. ASSUME NEW v \in Validations, ReceiveLines(v) PROVE UpdatesChosen'
  BY <1>14 DEF ReceiveLines
<1>15. ASSUME NEW v \in Validations, ValidateCommit(v) PROVE UpdatesChosen'
  BY <1>15 DEF ValidateCommit, Ends
<1>16. ASSUME NEW v \in Validations, ValidateAbort(v) PROVE UpdatesChosen'
  BY <1>16 DEF ValidateAbort, Ends
<1>17. CASE UNCHANGED vars
  BY <1>17
<1> QED
  BY <1>1, <1>2, <1>3, <1>4, <1>5, <1>6, <1>7, <1>8, <1>9, <1>10, <1>11,
     <1>12, <1>13, <1>14, <1>15, <1>16, <1>17 DEF Next

LEMMA NextFulfilled ==
  TypeOK /\ Holds /\ ReceivedIsFulfilled /\ KnowsFulfilled /\ KnowsGoods /\
  [Next]_vars
    => (ReceivedIsFulfilled /\ KnowsFulfilled)'
<1> SUFFICES ASSUME TypeOK, Holds, ReceivedIsFulfilled, KnowsFulfilled,
                    KnowsGoods, [Next]_vars
             PROVE  (ReceivedIsFulfilled /\ KnowsFulfilled)'
  OBVIOUS
<1> USE DEF TypeOK, InTxn, ReceivedIsFulfilled, KnowsFulfilled, Fulfilled,
     orderVars, receiptVars, stockVars, consumerVars, lockVars, updateVars,
     clerkVars, readVars, writeVars, txnVars, vars
<1>1. ASSUME NEW p \in Consumers, Consume(p) PROVE (ReceivedIsFulfilled /\ KnowsFulfilled)'
  BY <1>1 DEF Consume, ReceivedAfter
<1>2. ASSUME NEW c \in Clerks, ClerkCheck(c) PROVE (ReceivedIsFulfilled /\ KnowsFulfilled)'
  BY <1>2 DEF ClerkCheck, ReceivedAfter
<1>3. ASSUME NEW c \in Clerks, ClerkWrite(c) PROVE (ReceivedIsFulfilled /\ KnowsFulfilled)'
  BY <1>3 DEF ClerkWrite, ClerkTargets, ReceivedAfter
<1>4. ASSUME NEW r \in Receipts, CreateRead(r) PROVE (ReceivedIsFulfilled /\ KnowsFulfilled)'
  BY <1>4 DEF CreateRead, ReceivedAfter
<1>5. ASSUME NEW r \in Receipts, CreateAcknowledge(r) PROVE (ReceivedIsFulfilled /\ KnowsFulfilled)'
  BY <1>5 DEF CreateAcknowledge, ReceivedAfter
<1>6. ASSUME NEW r \in Receipts, CreateInsert(r) PROVE (ReceivedIsFulfilled /\ KnowsFulfilled)'
  BY <1>6 DEF CreateInsert, ReceivedAfter
<1>7. ASSUME NEW u \in Updates, UpdateRead(u) PROVE (ReceivedIsFulfilled /\ KnowsFulfilled)'
  BY <1>7 DEF UpdateRead, ReceivedAfter
<1>8. ASSUME NEW u \in Updates, UpdateWrite(u) PROVE (ReceivedIsFulfilled /\ KnowsFulfilled)'
  BY <1>8 DEF UpdateWrite, ReceivedAfter
<1>9. ASSUME NEW v \in Validations, ValidateCheck(v) PROVE (ReceivedIsFulfilled /\ KnowsFulfilled)'
  BY <1>9 DEF ValidateCheck, ReceivedAfter
<1>10. ASSUME NEW v \in Validations, ValidateDuplicate(v) PROVE (ReceivedIsFulfilled /\ KnowsFulfilled)'
  BY <1>10 DEF ValidateDuplicate, ReceivedAfter
<1>11. ASSUME NEW v \in Validations, ValidateBegin(v) PROVE (ReceivedIsFulfilled /\ KnowsFulfilled)'
  BY <1>11 DEF ValidateBegin, ReceivedAfter
<1>12. ASSUME NEW v \in Validations, ReadStock(v) PROVE (ReceivedIsFulfilled /\ KnowsFulfilled)'
  BY <1>12 DEF ReadStock, ReceivedAfter
<1>13. ASSUME NEW v \in Validations, WriteStock(v) PROVE (ReceivedIsFulfilled /\ KnowsFulfilled)'
  BY <1>13 DEF WriteStock, ReceivedAfter
<1>14. ASSUME NEW v \in Validations, ReceiveLines(v) PROVE (ReceivedIsFulfilled /\ KnowsFulfilled)'
  <2>1. InTxn(v) /\ vPc' = [vPc EXCEPT ![v] = "committing"]
        /\ vNext' = [vNext EXCEPT ![v] = NextStatus(v)]
        /\ UNCHANGED <<status, received, clerkPc, clerkTo, vOrder, vContent>>
    BY <1>14 DEF ReceiveLines, ProductsEntered
  <2>2. \A w \in Validations : ReceivedAfter(w)' = ReceivedAfter(w)
    BY <2>1 DEF ReceivedAfter
  <2> QED
    BY <2>1, <2>2, NextStatusKnows
<1>15. ASSUME NEW v \in Validations, ValidateCommit(v) PROVE (ReceivedIsFulfilled /\ KnowsFulfilled)'
  <2>1. vPc[v] = "committing" /\ received' = ReceivedAfter(v) /\ status' = vNext[v]
    BY <1>15 DEF ValidateCommit
  <2>2. /\ vPc' = [vPc EXCEPT ![v] = "done"]
        /\ \A w \in Validations \ {v} :
             vOrder'[w] = vOrder[w] /\ vNext'[w] = vNext[w] /\ vContent'[w] = vContent[w]
        /\ UNCHANGED clerkVars
    BY <1>15 DEF ValidateCommit, Ends
  <2>3. /\ received' \in [Lines -> Nat]
        /\ \A l \in Lines : received'[l] >= received[l]
    BY <2>1, AfterGrows
  <2>4. Ordered \in [Lines -> Nat]
    BY OrderedAssumption
  <2>5. ReceivedIsFulfilled'
    BY <2>1
  <2>6. KnowsFulfilled'
    <3> SUFFICES ASSUME NEW w \in Validations
                 PROVE  (/\ InTxn(w) /\ vOrder[w] = "RECEIVED" => Fulfilled
                         /\ vPc[w] = "committing" /\ vNext[w] = "RECEIVED" =>
                              \A l \in Lines : ReceivedAfter(w)[l] >= Ordered[l])'
      OBVIOUS
    <3>1. CASE w = v
      BY <2>2, <3>1
    <3>2. CASE w # v
      <4>1. /\ vPc'[w] = vPc[w] /\ vOrder'[w] = vOrder[w] /\ vNext'[w] = vNext[w]
        BY <2>2, <3>2
      <4>2. Fulfilled => Fulfilled'
        BY <2>3, <2>4
      <4>3. vContent'[w] = vContent[w] /\ vContent[w].accepted \in [Lines -> Nat]
        BY <2>2, <3>2 DEF Content
      <4>4. (\A l \in Lines : ReceivedAfter(w)[l] >= Ordered[l]) =>
              (\A l \in Lines : ReceivedAfter(w)[l] >= Ordered[l])'
        BY <2>3, <2>4, <4>3 DEF ReceivedAfter
      <4> QED
        BY <4>1, <4>2, <4>4
    <3> QED
      BY <3>1, <3>2
  <2> QED
    BY <2>5, <2>6
<1>16. ASSUME NEW v \in Validations, ValidateAbort(v) PROVE (ReceivedIsFulfilled /\ KnowsFulfilled)'
  BY <1>16 DEF ValidateAbort, Ends, ReceivedAfter
<1>17. CASE UNCHANGED vars
  BY <1>17 DEF ReceivedAfter
<1> QED
  BY <1>1, <1>2, <1>3, <1>4, <1>5, <1>6, <1>7, <1>8, <1>9, <1>10, <1>11,
     <1>12, <1>13, <1>14, <1>15, <1>16, <1>17 DEF Next

LEMMA NextGoods ==
  TypeOK /\ Holds /\ KnowsFulfilled /\ PartialHasGoods /\ KnowsGoods /\
  [Next]_vars
    => (PartialHasGoods /\ KnowsGoods)'
<1> SUFFICES ASSUME TypeOK, Holds, KnowsFulfilled, PartialHasGoods,
                    KnowsGoods, [Next]_vars
             PROVE  (PartialHasGoods /\ KnowsGoods)'
  OBVIOUS
<1> USE DEF TypeOK, InTxn, PartialHasGoods, KnowsGoods, HasGoods, orderVars,
     receiptVars, stockVars, consumerVars, lockVars, updateVars, clerkVars,
     readVars, writeVars, txnVars, vars
<1>1. ASSUME NEW p \in Consumers, Consume(p) PROVE (PartialHasGoods /\ KnowsGoods)'
  BY <1>1 DEF Consume, ReceivedAfter
<1>2. ASSUME NEW c \in Clerks, ClerkCheck(c) PROVE (PartialHasGoods /\ KnowsGoods)'
  <2>1. clerkTo[c] = "CLOSED" => HasGoods
    BY <1>2, ClosedIsPartial DEF ClerkCheck
  <2>2. /\ clerkPc' = [clerkPc EXCEPT ![c] = "checked"]
        /\ UNCHANGED <<status, received, clerkTo, vPc, vOrder, vNext, vContent>>
    BY <1>2 DEF ClerkCheck
  <2> QED
    BY <2>1, <2>2 DEF ReceivedAfter
<1>3. ASSUME NEW c \in Clerks, ClerkWrite(c) PROVE (PartialHasGoods /\ KnowsGoods)'
  BY <1>3 DEF ClerkWrite, ClerkTargets, ReceivedAfter
<1>4. ASSUME NEW r \in Receipts, CreateRead(r) PROVE (PartialHasGoods /\ KnowsGoods)'
  BY <1>4 DEF CreateRead, ReceivedAfter
<1>5. ASSUME NEW r \in Receipts, CreateAcknowledge(r) PROVE (PartialHasGoods /\ KnowsGoods)'
  BY <1>5 DEF CreateAcknowledge, ReceivedAfter
<1>6. ASSUME NEW r \in Receipts, CreateInsert(r) PROVE (PartialHasGoods /\ KnowsGoods)'
  BY <1>6 DEF CreateInsert, ReceivedAfter
<1>7. ASSUME NEW u \in Updates, UpdateRead(u) PROVE (PartialHasGoods /\ KnowsGoods)'
  BY <1>7 DEF UpdateRead, ReceivedAfter
<1>8. ASSUME NEW u \in Updates, UpdateWrite(u) PROVE (PartialHasGoods /\ KnowsGoods)'
  BY <1>8 DEF UpdateWrite, ReceivedAfter
<1>9. ASSUME NEW v \in Validations, ValidateCheck(v) PROVE (PartialHasGoods /\ KnowsGoods)'
  BY <1>9 DEF ValidateCheck, ReceivedAfter
<1>10. ASSUME NEW v \in Validations, ValidateDuplicate(v) PROVE (PartialHasGoods /\ KnowsGoods)'
  BY <1>10 DEF ValidateDuplicate, ReceivedAfter
<1>11. ASSUME NEW v \in Validations, ValidateBegin(v) PROVE (PartialHasGoods /\ KnowsGoods)'
  BY <1>11 DEF ValidateBegin, ReceivedAfter
<1>12. ASSUME NEW v \in Validations, ReadStock(v) PROVE (PartialHasGoods /\ KnowsGoods)'
  BY <1>12 DEF ReadStock, ReceivedAfter
<1>13. ASSUME NEW v \in Validations, WriteStock(v) PROVE (PartialHasGoods /\ KnowsGoods)'
  BY <1>13 DEF WriteStock, ReceivedAfter
<1>14. ASSUME NEW v \in Validations, ReceiveLines(v) PROVE (PartialHasGoods /\ KnowsGoods)'
  <2>1. InTxn(v) /\ vPc' = [vPc EXCEPT ![v] = "committing"]
        /\ vNext' = [vNext EXCEPT ![v] = NextStatus(v)]
        /\ UNCHANGED <<status, received, clerkPc, clerkTo, vOrder, vContent>>
    BY <1>14 DEF ReceiveLines, ProductsEntered
  <2>2. \A w \in Validations : ReceivedAfter(w)' = ReceivedAfter(w)
    BY <2>1 DEF ReceivedAfter
  <2>3. PartialHasGoods' /\ HasGoods' = HasGoods
    BY <2>1
  <2>4. NextStatus(v) \in {"PARTIALLY_RECEIVED", "CLOSED"} =>
          \E l \in Lines : ReceivedAfter(v)[l] > 0
    BY <2>1, NextStatusKnows
  <2>5. \A w \in Validations :
          vNext'[w] = IF w = v THEN NextStatus(v) ELSE vNext[w]
    BY <2>1
  <2>6. \A w \in Validations :
          vPc'[w] = "committing" /\ vNext'[w] \in {"PARTIALLY_RECEIVED", "CLOSED"}
            => \E l \in Lines : ReceivedAfter(w)[l] > 0
    BY <2>1, <2>4, <2>5
  <2>7. KnowsGoods'
    BY <2>1, <2>2, <2>3, <2>6
  <2> QED
    BY <2>3, <2>7
<1>15. ASSUME NEW v \in Validations, ValidateCommit(v) PROVE (PartialHasGoods /\ KnowsGoods)'
  <2>1. vPc[v] = "committing" /\ received' = ReceivedAfter(v) /\ status' = vNext[v]
    BY <1>15 DEF ValidateCommit
  <2>2. /\ vPc' = [vPc EXCEPT ![v] = "done"]
        /\ \A w \in Validations \ {v} :
             vOrder'[w] = vOrder[w] /\ vNext'[w] = vNext[w] /\ vContent'[w] = vContent[w]
        /\ UNCHANGED clerkVars
    BY <1>15 DEF ValidateCommit, Ends
  <2>3. /\ received' \in [Lines -> Nat]
        /\ \A l \in Lines : received'[l] >= received[l]
    BY <2>1, AfterGrows
  <2>4. PartialHasGoods'
    BY <2>1
  <2>5. HasGoods => HasGoods'
    BY <2>3
  <2>6. ASSUME NEW w \in Validations
        PROVE  (/\ InTxn(w) /\ vOrder[w] \in {"PARTIALLY_RECEIVED", "CLOSED"}
                     => HasGoods
                /\ vPc[w] = "committing" /\ vNext[w] \in {"PARTIALLY_RECEIVED", "CLOSED"}
                     => \E l \in Lines : ReceivedAfter(w)[l] > 0)'
    <3>1. CASE w = v
      BY <2>2, <3>1
    <3>2. CASE w # v
      <4>1. /\ vPc'[w] = vPc[w] /\ vOrder'[w] = vOrder[w] /\ vNext'[w] = vNext[w]
        BY <2>2, <3>2
      <4>2. vContent'[w] = vContent[w] /\ vContent[w].accepted \in [Lines -> Nat]
        BY <2>2, <3>2 DEF Content
      <4>3. (\E l \in Lines : ReceivedAfter(w)[l] > 0) =>
              (\E l \in Lines : ReceivedAfter(w)[l] > 0)'
        BY <2>3, <4>2 DEF ReceivedAfter
      <4> QED
        BY <4>1, <4>3, <2>5
    <3> QED
      BY <3>1, <3>2
  <2>7. KnowsGoods'
    BY <2>2, <2>5, <2>6
  <2> QED
    BY <2>4, <2>7
<1>16. ASSUME NEW v \in Validations, ValidateAbort(v) PROVE (PartialHasGoods /\ KnowsGoods)'
  BY <1>16 DEF ValidateAbort, Ends, ReceivedAfter
<1>17. CASE UNCHANGED vars
  BY <1>17 DEF ReceivedAfter
<1> QED
  BY <1>1, <1>2, <1>3, <1>4, <1>5, <1>6, <1>7, <1>8, <1>9, <1>10, <1>11,
     <1>12, <1>13, <1>14, <1>15, <1>16, <1>17 DEF Next

LEMMA NextStock ==
  TypeOK /\ ReceivedIsInStock /\ KnowsStock /\ [Next]_vars
    => (ReceivedIsInStock /\ KnowsStock)'
<1> SUFFICES ASSUME TypeOK, ReceivedIsInStock, KnowsStock, [Next]_vars
             PROVE  (ReceivedIsInStock /\ KnowsStock)'
  OBVIOUS
<1> USE DEF TypeOK, InTxn, ReceivedIsInStock, KnowsStock, Held, Entering,
     Content, orderVars, receiptVars, stockVars, consumerVars, lockVars,
     updateVars, clerkVars, readVars, writeVars, txnVars, vars
<1>1. ASSUME NEW p \in Consumers, Consume(p) PROVE (ReceivedIsInStock /\ KnowsStock)'
  BY <1>1 DEF Consume
<1>2. ASSUME NEW c \in Clerks, ClerkCheck(c) PROVE (ReceivedIsInStock /\ KnowsStock)'
  BY <1>2 DEF ClerkCheck
<1>3. ASSUME NEW c \in Clerks, ClerkWrite(c) PROVE (ReceivedIsInStock /\ KnowsStock)'
  BY <1>3 DEF ClerkWrite
<1>4. ASSUME NEW r \in Receipts, CreateRead(r) PROVE (ReceivedIsInStock /\ KnowsStock)'
  BY <1>4 DEF CreateRead
<1>5. ASSUME NEW r \in Receipts, CreateAcknowledge(r) PROVE (ReceivedIsInStock /\ KnowsStock)'
  BY <1>5 DEF CreateAcknowledge
<1>6. ASSUME NEW r \in Receipts, CreateInsert(r) PROVE (ReceivedIsInStock /\ KnowsStock)'
  BY <1>6 DEF CreateInsert
<1>7. ASSUME NEW u \in Updates, UpdateRead(u) PROVE (ReceivedIsInStock /\ KnowsStock)'
  BY <1>7 DEF UpdateRead
<1>8. ASSUME NEW u \in Updates, UpdateWrite(u) PROVE (ReceivedIsInStock /\ KnowsStock)'
  BY <1>8 DEF UpdateWrite
<1>9. ASSUME NEW v \in Validations, ValidateCheck(v) PROVE (ReceivedIsInStock /\ KnowsStock)'
  BY <1>9 DEF ValidateCheck
<1>10. ASSUME NEW v \in Validations, ValidateDuplicate(v) PROVE (ReceivedIsInStock /\ KnowsStock)'
  BY <1>10 DEF ValidateDuplicate, Enters
<1>11. ASSUME NEW v \in Validations, ValidateBegin(v) PROVE (ReceivedIsInStock /\ KnowsStock)'
  <2>1. /\ vPc[v] = "checked"
        /\ vPc' = [vPc EXCEPT ![v] = "applying"]
        /\ vContent' = [vContent EXCEPT ![v] = rContent[vOn[v]]]
        /\ vTodo' = [vTodo EXCEPT ![v] = Entering(rContent[vOn[v]])]
        /\ UNCHANGED <<stock, moved, consumed, productLock, vProduct, vStock>>
    BY <1>11 DEF ValidateBegin, Enters
  <2>2. ReceivedIsInStock'
    BY <2>1
  <2>3. vProduct'[v] = NoProduct /\ vTodo'[v] = Entering(vContent'[v]) /\ vPc'[v] = "applying"
    <3>1. vProduct'[v] = NoProduct /\ vPc'[v] = "applying" /\ vContent'[v] = rContent[vOn[v]]
      BY <2>1
    <3>2. vTodo'[v] = Entering(rContent[vOn[v]])
      BY <2>1
    <3> QED
      BY <3>1, <3>2
  <2>4. Held(v)' = {}
    BY <2>3, NoneAssumption
  <2>5. \A w \in Validations \ {v} : Held(w)' = Held(w)
    BY <2>1
  <2>6. KnowsStock'
    <3> HIDE DEF Held
    <3> QED
      BY <2>1, <2>3, <2>4, <2>5
  <2> QED
    BY <2>2, <2>6
<1>12. ASSUME NEW v \in Validations, ReadStock(v) PROVE (ReceivedIsInStock /\ KnowsStock)'
  <2>pick. PICK l \in vTodo[v] :
         /\ productLock[l] = {}
         /\ productLock' = [productLock EXCEPT ![l] = {v}]
         /\ vProduct' = [vProduct EXCEPT ![v] = l]
         /\ vStock' = [vStock EXCEPT ![v][l] = stock[l] + vContent[v].entering[l]]
    BY <1>12 DEF ReadStock, ProductFree
  <2>1. /\ vPc[v] = "applying" /\ vProduct[v] = NoProduct
        /\ UNCHANGED <<stock, moved, consumed, vPc, vContent, vTodo>>
    BY <1>12 DEF ReadStock
  <2>2. ReceivedIsInStock'
    BY <2>1
  <2>3. Held(v)' = Held(v) \union {l} /\ l \in Products
    BY <2>pick, <2>1, NoneAssumption
  <2>4. \A w \in Validations \ {v} : Held(w)' = Held(w) /\ vStock'[w] = vStock[w]
    BY <2>pick, <2>1
  <2>5. \A w \in Validations : InTxn(w) => l \notin Held(w)
    <3> SUFFICES ASSUME NEW w \in Validations, InTxn(w), l \in Held(w) PROVE FALSE
      OBVIOUS
    <3>1. productLock[l] = {w}
      <4> HIDE DEF Held
      <4> QED
        OBVIOUS
    <3> QED
      BY <2>pick, <3>1
  <2>6. ASSUME NEW w \in Validations, InTxn(w)', NEW k \in Held(w)'
        PROVE  /\ productLock'[k] = {w}
               /\ vStock'[w][k] + consumed'[k] >= moved'[k] + vContent'[w].entering[k]
    <3>1. CASE w = v /\ k = l
      BY <2>pick, <2>1, <2>3, <3>1
    <3>2. CASE ~(w = v /\ k = l)
      <4>1. k \in Held(w) /\ InTxn(w) /\ k \in Products
        BY <2>1, <2>3, <2>4, <2>6, <3>2
      <4>2. k # l
        BY <2>5, <4>1
      <4>3. productLock'[k] = productLock[k] /\ vStock'[w][k] = vStock[w][k]
        BY <2>pick, <2>3, <2>4, <4>1, <4>2
      <4> QED
        BY <2>1, <4>1, <4>3
    <3> QED
      BY <3>1, <3>2
  <2>7. \A w \in Validations :
          /\ ~InTxn(w)' => vProduct'[w] = NoProduct
          /\ InTxn(w)' => vTodo'[w] \subseteq Entering(vContent'[w])
          /\ vPc'[w] = "committing" => vTodo'[w] = {}
    BY <2>pick, <2>1
  <2>8. KnowsStock'
    <3> HIDE DEF Held, Entering
    <3> QED
      BY <2>6, <2>7
  <2> QED
    BY <2>2, <2>8
<1>13. ASSUME NEW v \in Validations, WriteStock(v) PROVE (ReceivedIsInStock /\ KnowsStock)'
  <2>1. /\ vPc[v] = "applying" /\ vProduct[v] # NoProduct
        /\ vTodo' = [vTodo EXCEPT ![v] = vTodo[v] \ {vProduct[v]}]
        /\ vProduct' = [vProduct EXCEPT ![v] = NoProduct]
        /\ UNCHANGED <<stock, moved, consumed, productLock, vPc, vContent, vStock>>
    BY <1>13 DEF WriteStock
  <2>2. ReceivedIsInStock'
    BY <2>1
  <2>3. \A w \in Validations : Held(w)' \subseteq Held(w)
    BY <2>1, NoneAssumption
  <2>4. KnowsStock'
    <3> HIDE DEF Held
    <3> QED
      BY <2>1, <2>3
  <2> QED
    BY <2>2, <2>4
<1>14. ASSUME NEW v \in Validations, ReceiveLines(v) PROVE (ReceivedIsInStock /\ KnowsStock)'
  BY <1>14 DEF ReceiveLines, ProductsEntered
<1>15. ASSUME NEW v \in Validations, ValidateCommit(v) PROVE (ReceivedIsInStock /\ KnowsStock)'
  <2>1. /\ vPc[v] = "committing"
        /\ stock' = [l \in Products |-> IF l \in Entering(vContent[v]) THEN vStock[v][l]
                                     ELSE stock[l]]
        /\ moved' = [l \in Products |-> moved[l] + vContent[v].entering[l]]
        /\ consumed' = consumed
    BY <1>15 DEF ValidateCommit, consumerVars
  <2>2. /\ productLock' = [l \in Products |-> productLock[l] \ {v}]
        /\ vPc' = [vPc EXCEPT ![v] = "done"] /\ vProduct' = [vProduct EXCEPT ![v] = NoProduct]
        /\ \A w \in Validations \ {v} :
             /\ vContent'[w] = vContent[w] /\ vTodo'[w] = vTodo[w]
             /\ vStock'[w] = vStock[w]
    BY <1>15 DEF ValidateCommit, Ends
  <2>3. Held(v) = Entering(vContent[v])
    BY <2>1
  <2>4. ReceivedIsInStock'
    BY <2>1, <2>3
  <2>5. ASSUME NEW w \in Validations, InTxn(w)', NEW k \in Held(w)'
        PROVE  /\ productLock'[k] = {w}
               /\ vStock'[w][k] + consumed'[k] >= moved'[k] + vContent'[w].entering[k]
    <3>1. w # v /\ InTxn(w) /\ k \in Held(w) /\ k \in Products
      BY <2>2, <2>5
    <3>2. productLock[k] = {w}
      BY <3>1
    <3>3. k \notin Entering(vContent[v])
      <4> SUFFICES ASSUME k \in Held(v) PROVE FALSE
        BY <2>3
      <4>1. v \in productLock[k]
        BY <2>1
      <4> QED
        BY <3>1, <3>2, <4>1
    <3>4. vContent[v].entering[k] = 0
      BY <3>1, <3>3
    <3> QED
      BY <2>1, <2>2, <3>1, <3>2, <3>4
  <2>6. KnowsStock'
    <3>1. \A w \in Validations :
            /\ ~InTxn(w)' => vProduct'[w] = NoProduct
            /\ InTxn(w)' => vTodo'[w] \subseteq Entering(vContent'[w])
            /\ vPc'[w] = "committing" => vTodo'[w] = {}
      BY <2>1, <2>2
    <3> HIDE DEF Held, Entering
    <3> QED
      BY <2>5, <3>1
  <2> QED
    BY <2>4, <2>6
<1>16. ASSUME NEW v \in Validations, ValidateAbort(v) PROVE (ReceivedIsInStock /\ KnowsStock)'
  BY <1>16 DEF ValidateAbort, Ends
<1>17. CASE UNCHANGED vars
  BY <1>17
<1> QED
  BY <1>1, <1>2, <1>3, <1>4, <1>5, <1>6, <1>7, <1>8, <1>9, <1>10, <1>11,
     <1>12, <1>13, <1>14, <1>15, <1>16, <1>17 DEF Next

-------------------------------------------------------------------------------
LEMMA InitIInv == Init => IInv
<1> SUFFICES ASSUME Init PROVE IInv
  OBVIOUS
<1>1. TypeOK
  BY InitTypeOK
<1>2. Holds /\ UpdatesChosen /\ PostedOnce
  BY DEF Init, Holds, InTxn, UpdatesChosen, PostedOnce
<1>3. ReceivedIsFulfilled /\ KnowsFulfilled /\ PartialHasGoods /\ KnowsGoods
  BY DEF Init, ReceivedIsFulfilled, KnowsFulfilled, PartialHasGoods, KnowsGoods,
     InTxn
<1>4. ReceivedIsInStock /\ KnowsStock
  BY NoneType DEF Init, ReceivedIsInStock, KnowsStock, InTxn, NoStock
<1> QED
  BY <1>1, <1>2, <1>3, <1>4 DEF IInv

LEMMA NextIInv == IInv /\ [Next]_vars => IInv'
  BY NextTypeOK, NextHolds, NextUpdatesChosen, NextFulfilled, NextGoods,
     NextStock DEF IInv

\* The invariant holds of every reachable state.
THEOREM Inductive == Spec => []IInv
  BY InitIInv, NextIInv, PTL DEF Spec

\* Every variable keeps its type, whatever the orders, notes and requests are.
THEOREM TypeCorrect == Spec => []TypeOK
  BY Inductive, PTL DEF IInv

\* However many requests validate, update and abort, each receipt is posted
\* exactly when it has a stock reception, and then once.
THEOREM PostedOnceCorrect == Spec => []PostedOnce
  BY Inductive, PTL DEF IInv

\* What receipts moved into stock and production did not consume is in stock:
\* of two validations of one product neither overwrites what the other added.
THEOREM ReceivedIsInStockCorrect == Spec => []ReceivedIsInStock
  BY Inductive, PTL DEF IInv

\* An order is never marked RECEIVED while a line of it is short, although the
\* status is computed in transactions that do not see each other.
THEOREM ReceivedIsFulfilledCorrect == Spec => []ReceivedIsFulfilled
  BY Inductive, PTL DEF IInv

\* An order is marked PARTIALLY_RECEIVED, or closed, only with goods received.
THEOREM PartialHasGoodsCorrect == Spec => []PartialHasGoods
  BY Inductive, PTL DEF IInv

-------------------------------------------------------------------------------
(***************************************************************************)
(* The transactions implement a reception desk.  Their commit is its       *)
(* posting: what a transaction is about to write into a stock row lies     *)
(* between what is there now and what has entered, its own delivery     *)
(* included, whatever production took since it read the row.               *)
(***************************************************************************)
Entered ==
  /\ \A r \in Receipts : rStatus[r] # "none" => rContent[r] \in Contents
  /\ \A v \in Validations :
       /\ vPc[v] \in {"checked", "applying", "committing"} => rStatus[vOn[v]] # "none"
       /\ InTxn(v) => vContent[v] \in Contents

Bounds ==
  /\ \A l \in Products : stock[l] <= moved[l]
  /\ \A v \in Validations : InTxn(v) =>
       \A l \in Held(v) :
         /\ stock[l] + vContent[v].entering[l] <= vStock[v][l]
         /\ vStock[v][l] <= moved[l] + vContent[v].entering[l]

LEMMA NextEntered == TypeOK /\ Holds /\ UpdatesChosen /\ Entered /\ [Next]_vars => Entered'
<1> SUFFICES ASSUME TypeOK, Holds, UpdatesChosen, Entered, [Next]_vars
             PROVE  Entered'
  OBVIOUS
<1> USE DEF TypeOK, Entered, InTxn, orderVars, receiptVars, stockVars, consumerVars,
     lockVars, updateVars, clerkVars, readVars, writeVars, txnVars, vars
<1>1. ASSUME NEW r \in Receipts, NEW c \in Contents, Enter(r, c), UNCHANGED txnVars
      PROVE  Entered'
  <2>1. rStatus'[r] # "none" /\ rContent'[r] = c
    BY <1>1 DEF Enter, OpenStatus
  <2>2. \A s \in Receipts \ {r} : rStatus'[s] = rStatus[s] /\ rContent'[s] = rContent[s]
    BY <1>1 DEF Enter
  <2>3. \A v \in Validations : vPc[v] # "idle" => vOn[v] \in Receipts
    BY DEF Holds
  <2>4. \A s \in Receipts : rStatus'[s] # "none" => rContent'[s] \in Contents
    BY <2>1, <2>2
  <2>5. \A s \in Receipts : rStatus[s] # "none" => rStatus'[s] # "none"
    BY <2>1, <2>2
  <2>6. vPc' = vPc /\ vOn' = vOn /\ vContent' = vContent
    BY <1>1
  <2> QED BY <2>3, <2>4, <2>5, <2>6
<1>2. ASSUME NEW r \in Receipts, CreateInsert(r) PROVE Entered'
  BY <1>1, <1>2 DEF CreateInsert
<1>3. ASSUME NEW u \in Updates, UpdateWrite(u) PROVE Entered'
  BY <1>1, <1>3 DEF UpdateWrite, UpdatesChosen
<1>4. ASSUME NEW v \in Validations, ValidateCheck(v) PROVE Entered'
  BY <1>4 DEF ValidateCheck
<1>5. ASSUME NEW v \in Validations, ValidateBegin(v) PROVE Entered'
  BY <1>5 DEF ValidateBegin, Enters, Holds
<1>6. ASSUME NEW v \in Validations, ValidateCommit(v) PROVE Entered'
  <2>1. /\ vPc' = [vPc EXCEPT ![v] = "done"]
        /\ vContent' = [vContent EXCEPT ![v] = NoContent]
        /\ rStatus' = [rStatus EXCEPT ![vOn[v]] = Outcome(vContent[v])]
        /\ UNCHANGED <<vOn, rContent>>
    BY <1>6 DEF ValidateCommit, Ends
  <2>2. rStatus[vOn[v]] # "none" /\ Outcome(vContent[v]) # "none"
    BY <1>6 DEF ValidateCommit, Outcome
  <2> QED BY <2>1, <2>2
<1>7. ASSUME NEW v \in Validations, ValidateAbort(v) PROVE Entered'
  BY <1>7 DEF ValidateAbort, Ends
<1>8. ASSUME NEW v \in Validations,
             ValidateDuplicate(v) \/ ReadStock(v) \/ WriteStock(v) \/ ReceiveLines(v)
      PROVE  Entered'
  BY <1>8 DEF ValidateDuplicate, ReadStock, WriteStock, ReceiveLines, ProductsEntered
<1>9. ASSUME \/ \E p \in Consumers : Consume(p)
             \/ \E c \in Clerks : ClerkCheck(c) \/ ClerkWrite(c)
             \/ \E r \in Receipts : CreateRead(r) \/ CreateAcknowledge(r)
             \/ \E u \in Updates : UpdateRead(u)
             \/ UNCHANGED vars
      PROVE  Entered'
  BY <1>9 DEF Consume, ClerkCheck, ClerkWrite, CreateRead, CreateAcknowledge, UpdateRead
<1> QED BY <1>2, <1>3, <1>4, <1>5, <1>6, <1>7, <1>8, <1>9 DEF Next

LEMMA NextBounds == TypeOK /\ KnowsStock /\ Bounds /\ [Next]_vars => Bounds'
<1> SUFFICES ASSUME TypeOK, KnowsStock, Bounds, [Next]_vars
             PROVE  Bounds'
  OBVIOUS
<1> USE DEF TypeOK, InTxn, Bounds, orderVars, receiptVars, stockVars,
     consumerVars, lockVars, updateVars, clerkVars, readVars, writeVars, txnVars, vars
<1>1. ASSUME NEW p \in Consumers, Consume(p) PROVE Bounds'
  <2>1. PICK k \in Products : stock[k] >= 1 /\ stock' = [stock EXCEPT ![k] = stock[k] - 1]
    BY <1>1 DEF Consume
  <2>2. UNCHANGED <<moved, txnVars>>
    BY <1>1 DEF Consume
  <2>3. \A l \in Products : stock'[l] \in Nat /\ stock'[l] <= stock[l]
    BY <2>1
  <2>4. \A v \in Validations : Held(v)' = Held(v) /\ Held(v) \subseteq Products
    BY <2>2 DEF Held, Entering
  <2>5. \A v \in Validations : vContent[v].entering \in [Products -> Nat]
    BY DEF Content
  <2>6. \A l \in Products : stock'[l] <= moved'[l]
    BY <2>2, <2>3
  <2>7. ASSUME NEW v \in Validations, InTxn(v), NEW l \in Held(v)
        PROVE  /\ stock'[l] + vContent[v].entering[l] <= vStock[v][l]
               /\ vStock[v][l] <= moved[l] + vContent[v].entering[l]
    BY <2>3, <2>4, <2>5, <2>7
  <2> QED BY <2>2, <2>4, <2>6, <2>7
<1>2. ASSUME NEW v \in Validations, ValidateBegin(v) PROVE Bounds'
  <2>1. /\ vPc[v] = "checked"
        /\ vPc' = [vPc EXCEPT ![v] = "applying"]
        /\ vContent' = [vContent EXCEPT ![v] = rContent[vOn[v]]]
        /\ vTodo' = [vTodo EXCEPT ![v] = Entering(rContent[vOn[v]])]
        /\ UNCHANGED <<stock, moved, vProduct, vStock>>
    BY <1>2 DEF ValidateBegin, Enters
  <2>2. vProduct'[v] = NoProduct
    BY <2>1 DEF KnowsStock
  <2>3. vContent'[v] = rContent[vOn[v]] /\ vTodo'[v] = Entering(rContent[vOn[v]])
    BY <2>1
  <2>4. Held(v)' = {}
    BY <2>2, <2>3, NoneAssumption DEF Held, Entering
  <2>5. \A w \in Validations \ {v} : Held(w)' = Held(w)
    BY <2>1 DEF Held, Entering
  <2> QED BY <2>1, <2>4, <2>5
<1>3. ASSUME NEW v \in Validations, ReadStock(v) PROVE Bounds'
  <2>1. PICK l \in vTodo[v] :
          /\ productLock[l] = {}
          /\ vProduct' = [vProduct EXCEPT ![v] = l]
          /\ vStock' = [vStock EXCEPT ![v][l] = stock[l] + vContent[v].entering[l]]
    BY <1>3 DEF ReadStock, ProductFree
  <2>2. /\ vPc[v] = "applying" /\ vProduct[v] = NoProduct
        /\ UNCHANGED <<stock, moved, vPc, vContent, vTodo>>
    BY <1>3 DEF ReadStock
  <2>3. l \in Products
    BY <2>1
  <2>4. Held(v)' = Held(v) \union {l}
    BY <2>1, <2>2, <2>3, NoneAssumption DEF Held, KnowsStock, Entering
  <2>5. \A w \in Validations \ {v} : Held(w)' = Held(w) /\ vStock'[w] = vStock[w]
    BY <2>1, <2>2 DEF Held, Entering
  <2>6. l \notin Held(v)
    BY <2>1, <2>2, <2>3, NoneAssumption DEF Held
  <2>7. ASSUME NEW w \in Validations, InTxn(w)', NEW k \in Held(w)'
        PROVE  /\ stock'[k] + vContent'[w].entering[k] <= vStock'[w][k]
               /\ vStock'[w][k] <= moved'[k] + vContent'[w].entering[k]
    <3>1. CASE w = v /\ k = l
      <4>1. vStock'[v][l] = stock[l] + vContent[v].entering[l]
        BY <2>1, <2>3
      <4>2. vContent[v].entering[l] \in Nat
        BY <2>3 DEF Content
      <4> QED BY <2>2, <2>3, <3>1, <4>1, <4>2
    <3>2. CASE ~(w = v /\ k = l)
      <4>1. k \in Held(w) /\ InTxn(w) /\ vStock'[w][k] = vStock[w][k]
        BY <2>1, <2>2, <2>3, <2>4, <2>5, <2>6, <2>7, <3>2 DEF Held, Entering
      <4> QED BY <2>2, <4>1
    <3> QED BY <3>1, <3>2
  <2> QED BY <2>2, <2>7
<1>4. ASSUME NEW v \in Validations, WriteStock(v) PROVE Bounds'
  <2>1. /\ vTodo' = [vTodo EXCEPT ![v] = vTodo[v] \ {vProduct[v]}]
        /\ vProduct' = [vProduct EXCEPT ![v] = NoProduct]
        /\ UNCHANGED <<stock, moved, vPc, vContent, vStock>>
    BY <1>4 DEF WriteStock
  <2>2. \A w \in Validations : Held(w)' \subseteq Held(w)
    BY <2>1, NoneAssumption DEF Held, Entering
  <2> QED BY <2>1, <2>2
<1>5. ASSUME NEW v \in Validations, ValidateCommit(v) PROVE Bounds'
  <2>1. /\ vPc[v] = "committing"
        /\ stock' = [l \in Products |-> IF l \in Entering(vContent[v]) THEN vStock[v][l]
                                     ELSE stock[l]]
        /\ moved' = [l \in Products |-> moved[l] + vContent[v].entering[l]]
    BY <1>5 DEF ValidateCommit
  <2>2. /\ vPc' = [vPc EXCEPT ![v] = "done"]
        /\ \A w \in Validations \ {v} :
             /\ vContent'[w] = vContent[w] /\ vTodo'[w] = vTodo[w]
             /\ vStock'[w] = vStock[w] /\ vProduct'[w] = vProduct[w]
    BY <1>5 DEF ValidateCommit, Ends
  <2>3. Held(v) = Entering(vContent[v])
    BY <2>1 DEF Held, KnowsStock
  <2>4. \A w \in Validations : vContent[w].entering \in [Products -> Nat]
    BY DEF Content
  <2>5. ASSUME NEW l \in Products
        PROVE  stock'[l] <= moved'[l] /\ moved[l] <= moved'[l]
    <3>1. CASE l \in Entering(vContent[v])
      BY <2>1, <2>3, <2>4, <3>1
    <3>2. CASE l \notin Entering(vContent[v])
      BY <2>1, <2>4, <3>2
    <3> QED BY <3>1, <3>2
  <2>6. ASSUME NEW w \in Validations, InTxn(w)', NEW k \in Held(w)'
        PROVE  /\ stock'[k] + vContent'[w].entering[k] <= vStock'[w][k]
               /\ vStock'[w][k] <= moved'[k] + vContent'[w].entering[k]
    <3>1. w # v /\ InTxn(w) /\ k \in Held(w) /\ k \in Products
      BY <2>2, <2>6 DEF Held, Entering
    <3>2. k \notin Entering(vContent[v])
      <4> SUFFICES ASSUME k \in Held(v) PROVE FALSE
        BY <2>3
      <4>1. productLock[k] = {v} /\ productLock[k] = {w}
        BY <2>1, <3>1 DEF KnowsStock
      <4> QED BY <3>1, <4>1
    <3>3. stock'[k] = stock[k] /\ moved'[k] = moved[k]
      BY <2>1, <2>4, <3>1, <3>2 DEF Entering
    <3>4. /\ stock[k] + vContent[w].entering[k] <= vStock[w][k]
          /\ vStock[w][k] <= moved[k] + vContent[w].entering[k]
      BY <3>1
    <3> QED BY <2>2, <3>1, <3>3, <3>4
  <2> QED BY <2>5, <2>6
<1>6. ASSUME NEW v \in Validations, ValidateAbort(v) PROVE Bounds'
  <2>1. /\ UNCHANGED <<stock, moved>>
        /\ vPc' = [vPc EXCEPT ![v] = "aborted"]
        /\ \A w \in Validations \ {v} :
             /\ vContent'[w] = vContent[w] /\ vTodo'[w] = vTodo[w]
             /\ vStock'[w] = vStock[w] /\ vProduct'[w] = vProduct[w]
    BY <1>6 DEF ValidateAbort, Ends
  <2>2. \A w \in Validations \ {v} : Held(w)' = Held(w)
    BY <2>1 DEF Held, Entering
  <2> QED BY <2>1, <2>2
<1>7. ASSUME \/ \E c \in Clerks : ClerkCheck(c) \/ ClerkWrite(c)
             \/ \E r \in Receipts : CreateRead(r) \/ CreateAcknowledge(r) \/ CreateInsert(r)
             \/ \E u \in Updates : UpdateRead(u) \/ UpdateWrite(u)
             \/ \E v \in Validations :
                  ValidateCheck(v) \/ ValidateDuplicate(v) \/ ReceiveLines(v)
             \/ UNCHANGED vars
      PROVE  Bounds'
  <2>1. /\ UNCHANGED <<stock, moved, vContent, vTodo, vProduct, vStock>>
        /\ \A w \in Validations : InTxn(w)' => InTxn(w)
    BY <1>7 DEF ClerkCheck, ClerkWrite, CreateRead, CreateAcknowledge, CreateInsert,
       UpdateRead, UpdateWrite, ValidateCheck, ValidateDuplicate, Enters, ReceiveLines,
       ProductsEntered
  <2>2. \A w \in Validations : Held(w)' = Held(w)
    BY <2>1 DEF Held, Entering
  <2> QED BY <2>1, <2>2
<1> QED BY <1>1, <1>2, <1>3, <1>4, <1>5, <1>6, <1>7 DEF Next

LEMMA StepReception ==
  IInv /\ Entered /\ Bounds /\ [Next]_vars => [Reception!Next]_(Reception!desk)
<1> SUFFICES ASSUME IInv, Entered, Bounds, [Next]_vars
             PROVE  [Reception!Next]_(Reception!desk)
  OBVIOUS
<1> USE DEF Reception!desk, orderVars, receiptVars, stockVars, consumerVars, lockVars,
     updateVars, clerkVars, readVars, writeVars, txnVars, vars
<1>1. ASSUME NEW k \in Consumers, Consume(k) PROVE \E p \in Products : Reception!Take(p)
  <2>1. PICK p \in Products :
          /\ stock[p] >= 1
          /\ stock' = [stock EXCEPT ![p] = stock[p] - 1]
          /\ consumed' = [consumed EXCEPT ![p] = consumed[p] + 1]
    BY <1>1 DEF Consume
  <2>2. stock[p] > 0
    BY <2>1 DEF IInv, TypeOK
  <2> QED BY <1>1, <2>1, <2>2 DEF Consume, Reception!Take
<1>2. ASSUME NEW c \in Clerks, ClerkWrite(c) PROVE Reception!Decide
  <2>1. clerkPc[c] = "checked" /\ clerkTo[c] \in ClerkTargets /\ status' = clerkTo[c]
    BY <1>2 DEF ClerkWrite, IInv, TypeOK
  <2>2. clerkTo[c] = "CLOSED" => \E l \in Lines : received[l] > 0
    BY <2>1 DEF IInv, KnowsGoods, HasGoods
  <2> QED
    BY <1>2, <2>1, <2>2 DEF ClerkWrite, ClerkTargets, Reception!Decide, Reception!Claimed
<1>3. ASSUME NEW r \in Receipts, CreateAcknowledge(r) PROVE Reception!Decide
  BY <1>3 DEF CreateAcknowledge, Reception!Decide, Reception!Claimed
<1>4. ASSUME NEW v \in Validations, ValidateCommit(v) PROVE Reception!Post(vOn[v])
  <2> DEFINE c == vContent[v]
             q == [received |-> c.accepted, entered |-> c.entering]
  <2>1. /\ vPc[v] = "committing"
        /\ stock' = [p \in Products |->
                       IF p \in Entering(c) THEN vStock[v][p] ELSE stock[p]]
        /\ moved' = [p \in Products |-> moved[p] + q.entered[p]]
        /\ stockReception' = [stockReception EXCEPT ![vOn[v]] = Outcome(c)]
        /\ received' = [l \in Lines |-> received[l] + q.received[l]]
        /\ status' = vNext[v]
        /\ UNCHANGED consumed
    BY <1>4 DEF ValidateCommit, ReceivedAfter
  <2>2. InTxn(v) /\ stockReception[vOn[v]] = "none" /\ c \in Contents
    BY <2>1 DEF InTxn, IInv, Holds, Entered
  <2>3. /\ q \in {[received |-> d.accepted, entered |-> d.entering] : d \in Contents}
        /\ q.received \in [Lines -> Nat] /\ q.entered \in [Products -> Nat]
    BY <2>2 DEF IInv, TypeOK, Content
  <2>4. ASSUME NEW p \in Products
        PROVE  /\ stock[p] + q.entered[p] <= stock'[p] /\ stock'[p] <= moved'[p]
               /\ q.entered[p] = 0 => stock'[p] = stock[p]
    <3>m. moved'[p] = moved[p] + q.entered[p]
      BY <2>1
    <3>1. CASE q.entered[p] > 0
      <4>1. p \in Held(v) /\ stock'[p] = vStock[v][p]
        BY <2>1, <2>2, <3>1 DEF Held, Entering, IInv, KnowsStock
      <4>2. /\ stock[p] + q.entered[p] <= vStock[v][p]
            /\ vStock[v][p] <= moved[p] + q.entered[p]
        BY <2>2, <4>1 DEF Bounds
      <4> QED BY <2>3, <3>m, <3>1, <4>1, <4>2
    <3>2. CASE q.entered[p] = 0
      <4>1. stock'[p] = stock[p]
        BY <2>1, <3>2 DEF Entering
      <4>2. stock[p] \in Nat /\ moved[p] \in Nat /\ stock[p] <= moved[p]
        BY DEF IInv, TypeOK, Bounds
      <4> QED BY <3>m, <3>2, <4>1, <4>2
    <3> QED BY <2>3, <3>1, <3>2
  <2>5. Outcome(c) \in {"VALIDATED", "CANCELLED"}
    BY DEF Outcome
  <2>6. q.received # Reception!Zero \/ q.entered # Reception!NoStock
          => Outcome(c) = "VALIDATED"
    <3>1. ASSUME q.received # Reception!Zero PROVE AnyAccepted(c)
      <4>1. PICK l \in Lines : q.received[l] # 0
        BY <2>3, <3>1 DEF Reception!Zero
      <4> QED BY <2>3, <4>1 DEF AnyAccepted, Accepted
    <3>2. ASSUME q.entered # Reception!NoStock PROVE AnyAccepted(c)
      <4>1. PICK p \in Products : q.entered[p] # 0
        BY <2>3, <3>2 DEF Reception!NoStock
      <4> QED BY <2>3, <4>1 DEF AnyAccepted, Entering
    <3> QED BY <3>1, <3>2 DEF Outcome
  <2>7. status' \in OrderStatus /\ Reception!Claimed(status', received')
    <3>1. vNext[v] \in OrderStatus
      BY DEF IInv, TypeOK
    <3>2. vNext[v] = "RECEIVED" => \A l \in Lines : received'[l] >= Ordered[l]
      BY <2>1 DEF IInv, KnowsFulfilled, ReceivedAfter
    <3>3. vNext[v] \in {"PARTIALLY_RECEIVED", "CLOSED"} => \E l \in Lines : received'[l] > 0
      BY <2>1 DEF IInv, KnowsGoods, ReceivedAfter
    <3> QED BY <2>1, <3>1, <3>2, <3>3 DEF Reception!Claimed
  <2> HIDE DEF c, q
  <2> QED
    BY <2>1, <2>2, <2>3, <2>4, <2>5, <2>6, <2>7
    DEF Reception!Post, Reception!OrderStatus, OrderStatus
<1>5. ASSUME \/ \E c \in Clerks : ClerkCheck(c)
             \/ \E r \in Receipts : CreateRead(r) \/ CreateInsert(r)
             \/ \E u \in Updates : UpdateRead(u) \/ UpdateWrite(u)
             \/ \E v \in Validations :
                  \/ ValidateCheck(v) \/ ValidateDuplicate(v) \/ ValidateBegin(v)
                  \/ ReadStock(v) \/ WriteStock(v) \/ ReceiveLines(v) \/ ValidateAbort(v)
             \/ UNCHANGED vars
      PROVE  UNCHANGED Reception!desk
  BY <1>5 DEF ClerkCheck, CreateRead, CreateInsert, UpdateRead, UpdateWrite,
     ValidateCheck, ValidateDuplicate, ValidateBegin, ReadStock, WriteStock, ReceiveLines,
     ValidateAbort
<1>6. ASSUME NEW v \in Validations, ValidateCommit(v) PROVE vOn[v] \in Receipts
  BY <1>6 DEF ValidateCommit, IInv, Holds
<1> QED BY <1>1, <1>2, <1>3, <1>4, <1>5, <1>6 DEF Next, Reception!Next

\* Create, update and validate, with clerks and production beside them, implement
\* a reception desk that posts each delivery note once, whole and in one step.
THEOREM ReceptionCorrect == Spec => ReceptionSpec
<1>1. Init => Entered /\ Bounds
  BY NoneType DEF Init, Entered, Bounds, InTxn, Zero
<1>2. IInv /\ Entered /\ Bounds /\ [Next]_vars => Entered' /\ Bounds'
  BY NextEntered, NextBounds DEF IInv
<1>3. Init => Reception!Init
  BY DEF Init, Reception!Init, Zero, Reception!Zero, NoStock, Reception!NoStock
<1> QED
  BY <1>1, <1>2, <1>3, StepReception, Inductive, PTL
  DEF Spec, ReceptionSpec, Reception!Spec
===============================================================================
