------------------------ MODULE ProductionCampaignProofs ------------------------
(***************************************************************************)
(* Proofs about ProductionCampaign, for every set of campaigns, every      *)
(* split into batches and every quantity in stock.                         *)
(***************************************************************************)
EXTENDS ProductionCampaign, FunctionTheorems, FiniteSetTheorems, TLAPS

(***************************************************************************)
(* The inductive invariant.  A campaign that is not executable has no      *)
(* batch at work, so nothing is consumed on its behalf; one that is holds, *)
(* with what it has consumed, all its plan asks for.  Before a validation  *)
(* there is nothing to account for, so the plan may still change.          *)
(***************************************************************************)

\* Output is posted by the step that completes the batch.
OutputOfCompleted == \A b \in Batches : output[b] > 0 => batch[b] = "COMPLETED"

\* Campaigns whose status and plan nobody wrote over, and that nobody resumed.
Regular == Orders \ (rewritten \union resumed)

IdleAtRest ==
  \A o \in Regular : order[o] \notin Executable =>
    \A b \in BatchesOf(o) : batch[b] # "PREPARING"

NothingBefore ==
  \A o \in Orders \ rewritten : order[o] = "PROPOSED" =>
    reserved[o] = 0 /\ consumed[o] = 0 /\ \A b \in BatchesOf(o) : output[b] = 0

\* What the plan asks for is one of the quantities that it may ask for, and what is
\* held is for something that it asks for.
PlanKnown == \A o \in Orders : required[o] \in Plans[o]

HeldIsRequired == \A o \in Orders \ rewritten : reserved[o] <= required[o]

Accounted ==
  \A o \in Regular \ overridden :
    order[o] \in Executable \union {"COMPLETED"} =>
      consumed[o] + reserved[o] = required[o]

IInv ==
  /\ TypeOK
  /\ OutputPostedOnce /\ OutputOfCompleted
  /\ ClosedHoldsNothing
  /\ PlanKnown /\ HeldIsRequired
  /\ IdleAtRest /\ NothingBefore /\ Accounted

-------------------------------------------------------------------------------
\* Each batch belongs to a campaign, and to the batches of that campaign.
LEMMA BatchOfOrder ==
  ASSUME NEW b \in Batches
  PROVE  OrderOf[b] \in Orders /\ b \in BatchesOf(OrderOf[b])
BY OrderOfAssumption DEF BatchesOf

LEMMA InitInv == Init => IInv
<1> SUFFICES ASSUME Init PROVE IInv
  OBVIOUS
<1>1. required \in [Orders -> Nat] /\ PlanKnown
  BY PlansAssumption DEF Init, PlanKnown
<1> QED
  BY <1>1, StockAssumption
  DEF Init, IInv, TypeOK, OrderStatuses, OutputPostedOnce, OutputOfCompleted,
      ClosedHoldsNothing, IdleAtRest, NothingBefore, HeldIsRequired, Accounted,
      Executable, Regular, BatchesOf

LEMMA ValidateInv ==
  ASSUME IInv, NEW o \in Orders, Validate(o)
  PROVE  IInv'
<1> USE DEF Validate, plan
<1>1. PICK n \in 0 .. required[o] :
        /\ reserved' = [reserved EXCEPT ![o] = n]
        /\ overridden' = IF n < required[o] THEN overridden \union {o} ELSE overridden
  OBVIOUS
<1>2. n \in Nat /\ required[o] \in Nat /\ n <= required[o]
  BY DEF IInv, TypeOK
<1>4. TypeOK'
  BY <1>1, <1>2 DEF IInv, TypeOK, OrderStatuses
<1>5. OutputPostedOnce' /\ OutputOfCompleted'
  BY DEF IInv, OutputPostedOnce, OutputOfCompleted
<1>6. ClosedHoldsNothing' /\ HeldIsRequired' /\ PlanKnown'
  BY <1>1, <1>2 DEF IInv, TypeOK, ClosedHoldsNothing, HeldIsRequired, PlanKnown
<1>7. IdleAtRest' /\ NothingBefore'
  BY <1>1 DEF IInv, TypeOK, IdleAtRest, NothingBefore, Regular, Executable, BatchesOf
<1>8. Accounted'
  <2> SUFFICES ASSUME NEW p \in (Regular \ overridden)',
                      order'[p] \in Executable \union {"COMPLETED"}
               PROVE  consumed'[p] + reserved'[p] = required[p]
    BY DEF Accounted, Regular
  <2>1. p \in Regular \ overridden
    BY <1>1 DEF Regular
  <2>2. CASE p = o
    BY <1>1, <1>2, <2>1, <2>2 DEF IInv, TypeOK, NothingBefore, Regular
  <2>3. CASE p # o
    BY <1>1, <2>1, <2>3 DEF IInv, TypeOK, Accounted, Regular
  <2> QED BY <2>2, <2>3
<1> QED BY <1>4, <1>5, <1>6, <1>7, <1>8 DEF IInv

\* Both cancellations release what is reserved and cancel the batches.
LEMMA CancelInv ==
  ASSUME IInv, NEW o \in Orders, Cancel(o) \/ CancelExpired(o)
  PROVE  IInv'
<1>1. /\ order' = [order EXCEPT ![o] = "CANCELLED"]
      /\ Releases(o) /\ CancelsBatches(o)
      /\ UNCHANGED <<stock, output, consumed, plan, history>>
  BY DEF Cancel, CancelExpired
<1> USE <1>1 DEF Releases, CancelsBatches, plan, history
<1>2. TypeOK'
  BY DEF IInv, TypeOK, OrderStatuses
<1>3. OutputPostedOnce' /\ OutputOfCompleted'
  BY DEF IInv, TypeOK, OutputPostedOnce, OutputOfCompleted
<1>4. ClosedHoldsNothing' /\ HeldIsRequired' /\ PlanKnown'
  BY DEF IInv, TypeOK, ClosedHoldsNothing, HeldIsRequired, PlanKnown
<1>5. IdleAtRest'
  BY DEF IInv, TypeOK, IdleAtRest, Regular, Executable, BatchesOf
<1>6. NothingBefore' /\ Accounted'
  BY DEF IInv, TypeOK, NothingBefore, Accounted, Regular, Executable, BatchesOf
<1> QED BY <1>2, <1>3, <1>4, <1>5, <1>6 DEF IInv

LEMMA ChangeStatusInv ==
  ASSUME IInv, NEW o \in Orders, ChangeStatus(o)
  PROVE  IInv'
<1> USE DEF ChangeStatus, CancelsBatches, plan
<1>1. PICK s \in OrderStatuses : order' = [order EXCEPT ![o] = s]
  OBVIOUS
<1>2. \A b \in Batches : batch'[b] \in {batch[b], "CANCELLED"}
                         /\ (batch[b] = "COMPLETED" => batch'[b] = "COMPLETED")
                         /\ (OrderOf[b] # o => batch'[b] = batch[b])
  BY DEF IInv, TypeOK
<1>3. TypeOK'
  BY <1>1 DEF IInv, TypeOK
<1>4. OutputPostedOnce' /\ OutputOfCompleted'
  BY <1>2 DEF IInv, OutputPostedOnce, OutputOfCompleted
<1>5. ClosedHoldsNothing' /\ HeldIsRequired' /\ PlanKnown'
  BY <1>1 DEF IInv, TypeOK, ClosedHoldsNothing, HeldIsRequired, PlanKnown
<1>6. IdleAtRest'
  BY <1>1, <1>2 DEF IInv, TypeOK, IdleAtRest, Regular, BatchesOf
<1>7. NothingBefore' /\ Accounted'
  BY <1>1 DEF IInv, TypeOK, NothingBefore, Accounted, Regular, BatchesOf
<1> QED BY <1>3, <1>4, <1>5, <1>6, <1>7 DEF IInv

\* A plan that changes is that of a campaign with nothing to account for, or of one
\* that is then known to be written over.
LEMMA ReplanInv ==
  ASSUME IInv, NEW o \in Orders, Replan(o)
  PROVE  IInv'
<1> USE DEF Replan
<1>1. PICK q \in Plans[o] :
        /\ required' = [required EXCEPT ![o] = q]
        /\ rewritten' = IF order[o] = "PROPOSED" \/ q = required[o]
                        THEN rewritten ELSE rewritten \union {o}
  OBVIOUS
<1>2. q \in Nat
  BY PlansAssumption
<1>3. TypeOK'
  BY <1>1, <1>2 DEF IInv, TypeOK
<1>4. OutputPostedOnce' /\ OutputOfCompleted' /\ ClosedHoldsNothing'
  BY <1>1 DEF IInv, OutputPostedOnce, OutputOfCompleted, ClosedHoldsNothing
<1>5. PlanKnown' /\ HeldIsRequired'
  BY <1>1, <1>2 DEF IInv, TypeOK, PlanKnown, HeldIsRequired, NothingBefore
<1>6. IdleAtRest' /\ NothingBefore'
  BY <1>1 DEF IInv, IdleAtRest, NothingBefore, Regular, BatchesOf
<1>7. Accounted'
  BY <1>1 DEF IInv, TypeOK, Accounted, Regular, Executable
<1> QED BY <1>3, <1>4, <1>5, <1>6, <1>7 DEF IInv

LEMMA RescheduleInv ==
  ASSUME IInv, NEW o \in Orders, Reschedule(o)
  PROVE  IInv'
<1> USE DEF Reschedule, Releases, history
<1>1. PICK q \in Plans[o] : required' = [required EXCEPT ![o] = q]
  OBVIOUS
<1>2. q \in Nat
  BY PlansAssumption
<1>3. TypeOK'
  BY <1>1, <1>2 DEF IInv, TypeOK
<1>4. OutputPostedOnce' /\ OutputOfCompleted' /\ ClosedHoldsNothing'
  BY DEF IInv, TypeOK, OutputPostedOnce, OutputOfCompleted, ClosedHoldsNothing
<1>5. PlanKnown' /\ HeldIsRequired'
  BY <1>1, <1>2 DEF IInv, TypeOK, PlanKnown, HeldIsRequired
<1>6. IdleAtRest' /\ NothingBefore'
  BY DEF IInv, TypeOK, IdleAtRest, NothingBefore, Regular, BatchesOf
<1>7. Accounted'
  BY <1>1 DEF IInv, TypeOK, Accounted, Regular, Executable
<1> QED BY <1>3, <1>4, <1>5, <1>6, <1>7 DEF IInv

LEMMA CloseDayInv ==
  ASSUME IInv, NEW o \in Orders, CloseDay(o)
  PROVE  IInv'
<1> USE DEF CloseDay, history
<1>1. TypeOK'
  BY DEF IInv, TypeOK
<1> QED
  BY <1>1 DEF IInv, OutputPostedOnce, OutputOfCompleted, ClosedHoldsNothing, PlanKnown,
              HeldIsRequired, IdleAtRest, NothingBefore, Accounted, Regular, BatchesOf

\* A closing completes a campaign that asks for nothing any more, and has got
\* nothing, unless it writes over what became of it.
LEMMA CarryOverInv ==
  ASSUME IInv, NEW o \in Orders, CarryOver(o)
  PROVE  IInv'
<1> USE DEF CarryOver
<1>1. PICK q \in Plans[o], s \in {"PROPOSED", "COMPLETED"} :
        /\ s = "COMPLETED" => q = 0
        /\ required' = [required EXCEPT ![o] = q]
        /\ order' = [order EXCEPT ![o] = s]
  OBVIOUS
<1>2. q \in Nat
  BY PlansAssumption
<1>3. /\ rewritten \subseteq rewritten'
      /\ o \notin rewritten' => order[o] = "PROPOSED" /\ o \notin rewritten
  OBVIOUS
<1>4. TypeOK'
  BY <1>1, <1>2 DEF IInv, TypeOK, OrderStatuses
<1>5. OutputPostedOnce' /\ OutputOfCompleted'
  BY DEF IInv, OutputPostedOnce, OutputOfCompleted
<1>6. PlanKnown'
  BY <1>1 DEF IInv, TypeOK, PlanKnown
<1>7. ClosedHoldsNothing' /\ HeldIsRequired'
  BY <1>1, <1>2, <1>3 DEF IInv, TypeOK, ClosedHoldsNothing, HeldIsRequired,
     NothingBefore
<1>8. IdleAtRest'
  BY <1>1, <1>3 DEF IInv, TypeOK, IdleAtRest, Regular, Executable, BatchesOf
<1>9. NothingBefore'
  BY <1>1, <1>3 DEF IInv, TypeOK, NothingBefore, BatchesOf
<1>10. Accounted'
  <2> SUFFICES ASSUME NEW p \in (Regular \ overridden)',
                      order'[p] \in Executable \union {"COMPLETED"}
               PROVE  consumed'[p] + reserved'[p] = required'[p]
    BY DEF Accounted
  <2>1. p \in Regular \ overridden /\ p \in Orders
    BY <1>3 DEF Regular
  <2>2. CASE p = o
    <3>1. s = "COMPLETED" /\ required'[p] = 0
      BY <1>1, <1>2, <2>2 DEF IInv, TypeOK, Executable
    <3>2. consumed[p] = 0 /\ reserved[p] = 0
      BY <1>3, <2>2 DEF IInv, NothingBefore, Regular
    <3> QED BY <3>1, <3>2
  <2>3. CASE p # o
    BY <1>1, <2>1, <2>3 DEF IInv, TypeOK, Accounted
  <2> QED BY <2>2, <2>3
<1> QED BY <1>4, <1>5, <1>6, <1>7, <1>8, <1>9, <1>10 DEF IInv

LEMMA StartBatchInv ==
  ASSUME IInv, NEW b \in Batches, StartBatch(b)
  PROVE  IInv'
<1> USE BatchOfOrder DEF StartBatch, plan, history
<1>2. TypeOK'
  BY DEF IInv, TypeOK, OrderStatuses
<1>3. OutputPostedOnce' /\ OutputOfCompleted'
  BY DEF IInv, TypeOK, OutputPostedOnce, OutputOfCompleted
<1>4. ClosedHoldsNothing' /\ HeldIsRequired' /\ PlanKnown'
  BY DEF IInv, TypeOK, ClosedHoldsNothing, HeldIsRequired, PlanKnown
<1>5. IdleAtRest'
  BY DEF IInv, TypeOK, IdleAtRest, Regular, Executable, BatchesOf
<1>6. NothingBefore' /\ Accounted'
  BY DEF IInv, TypeOK, NothingBefore, Accounted, Regular, Executable, BatchesOf
<1> QED BY <1>2, <1>3, <1>4, <1>5, <1>6 DEF IInv

LEMMA RestartBatchInv ==
  ASSUME IInv, NEW b \in Batches, RestartBatch(b)
  PROVE  IInv'
<1> USE BatchOfOrder DEF RestartBatch, Resumes, plan
<1>1. Restarted(b) \in Executable
  BY DEF Restarted, Executable
<1>2. TypeOK'
  BY <1>1 DEF IInv, TypeOK, OrderStatuses, Executable
<1>3. OutputPostedOnce' /\ OutputOfCompleted'
  BY DEF IInv, TypeOK, OutputPostedOnce, OutputOfCompleted
<1>4. ClosedHoldsNothing' /\ HeldIsRequired' /\ PlanKnown'
  BY <1>1 DEF IInv, TypeOK, ClosedHoldsNothing, HeldIsRequired, PlanKnown, Executable
<1>5. IdleAtRest'
  BY <1>1 DEF IInv, TypeOK, IdleAtRest, Regular, Executable, BatchesOf
<1>6. NothingBefore' /\ Accounted'
  BY <1>1 DEF IInv, TypeOK, NothingBefore, Accounted, Regular, Executable, BatchesOf
<1> QED BY <1>2, <1>3, <1>4, <1>5, <1>6 DEF IInv

LEMMA CompleteBatchInv ==
  ASSUME IInv, NEW b \in Batches, CompleteBatch(b)
  PROVE  IInv'
<1> DEFINE o == OrderOf[b]
           last == Open(o) \subseteq {b}
<1>1. o \in Orders /\ b \in BatchesOf(o)
  BY BatchOfOrder
<1>2. PICK n \in Share(o, last) :
        /\ batch[b] = "PREPARING"
        /\ n <= reserved[o] /\ n <= stock /\ stock' = stock - n
        /\ reserved' = [reserved EXCEPT ![o] = @ - n]
        /\ consumed' = [consumed EXCEPT ![o] = @ + n]
        /\ output' = [output EXCEPT ![b] = @ + 1]
        /\ batch' = [batch EXCEPT ![b] = "COMPLETED"]
        /\ order' = [order EXCEPT ![o] = IF last THEN "COMPLETED" ELSE "PARTIALLY_COMPLETED"]
        /\ UNCHANGED <<required, closing, overridden, rewritten, resumed, removed>>
  BY DEF CompleteBatch, Takes, plan, history
<1>3. n \in Nat /\ reserved[o] \in Nat /\ stock \in Nat /\ consumed[o] \in Nat
      /\ required[o] \in Nat
  BY <1>1 DEF IInv, TypeOK, Share
<1>4. last => n = reserved[o] \/ required[o] = 0
  BY DEF Share
<1>5. last => \A c \in BatchesOf(o) : c # b => batch[c] # "PREPARING"
  BY DEF Open
<1> HIDE DEF o, last
<1>6. TypeOK'
  <2>1. stock' \in Nat
    BY <1>2, <1>3
  <2>2. reserved' \in [Orders -> Nat] /\ consumed' \in [Orders -> Nat]
    BY <1>1, <1>2, <1>3 DEF IInv, TypeOK
  <2>3. output' \in [Batches -> Nat]
    BY <1>2 DEF IInv, TypeOK
  <2> QED
    BY <1>2, <2>1, <2>2, <2>3 DEF IInv, TypeOK, OrderStatuses
<1>7. OutputPostedOnce' /\ OutputOfCompleted'
  <2>1. output[b] = 0
    BY <1>2 DEF IInv, TypeOK, OutputOfCompleted
  <2> QED
    BY <1>2, <2>1 DEF IInv, TypeOK, OutputPostedOnce, OutputOfCompleted
<1>8. PlanKnown' /\ HeldIsRequired'
  BY <1>1, <1>2, <1>3 DEF IInv, TypeOK, PlanKnown, HeldIsRequired
<1>9. ClosedHoldsNothing'
  BY <1>1, <1>2, <1>3, <1>4, <1>8 DEF IInv, TypeOK, ClosedHoldsNothing, HeldIsRequired
<1>10. IdleAtRest'
  BY <1>1, <1>2, <1>5 DEF IInv, TypeOK, IdleAtRest, Regular, Executable, BatchesOf
<1>11. NothingBefore'
  BY <1>1, <1>2 DEF IInv, TypeOK, NothingBefore, BatchesOf
<1>12. Accounted'
  <2> SUFFICES ASSUME NEW p \in Regular \ overridden,
                      order'[p] \in Executable \union {"COMPLETED"}
               PROVE  consumed'[p] + reserved'[p] = required[p]
    BY <1>1, <1>2 DEF Accounted, Regular
  <2>1. CASE p = o
    <3>1. order[o] \in Executable
      BY <1>1, <1>2, <2>1 DEF IInv, IdleAtRest, Regular
    <3>2. consumed[o] + reserved[o] = required[o]
      BY <3>1, <2>1 DEF IInv, Accounted
    <3>3. consumed'[o] = consumed[o] + n /\ reserved'[o] = reserved[o] - n
      BY <1>1, <1>2 DEF IInv, TypeOK
    <3> QED
      BY <1>3, <2>1, <3>2, <3>3
  <2>2. CASE p # o
    BY <1>2, <2>2 DEF IInv, TypeOK, Accounted, Regular
  <2> QED BY <2>1, <2>2
<1> QED BY <1>6, <1>7, <1>8, <1>9, <1>10, <1>11, <1>12 DEF IInv

LEMMA WriteStockInv ==
  ASSUME IInv, WriteStock
  PROVE  IInv'
<1> USE DEF WriteStock, plan
<1>1. TypeOK'
  BY StockAssumption DEF IInv, TypeOK
<1> QED
  BY <1>1 DEF IInv, OutputPostedOnce, OutputOfCompleted, ClosedHoldsNothing, PlanKnown,
              HeldIsRequired, IdleAtRest, NothingBefore, Accounted, Regular, BatchesOf

LEMMA StutterInv == IInv /\ UNCHANGED vars => IInv'
BY DEF vars, plan, history, IInv, TypeOK, OutputPostedOnce, OutputOfCompleted,
       ClosedHoldsNothing, PlanKnown, HeldIsRequired, IdleAtRest, NothingBefore,
       Accounted, Regular, BatchesOf

-------------------------------------------------------------------------------
\* The invariant holds in every reachable state: what campaigns hold, consume
\* and post is accounted for against the plan they have.
THEOREM Inductive == Spec => []IInv
<1>1. Init => IInv
  BY InitInv
<1>2. IInv /\ [Next]_vars => IInv'
  BY ValidateInv, CancelInv, ChangeStatusInv, ReplanInv, RescheduleInv, CloseDayInv,
     CarryOverInv, StartBatchInv, RestartBatchInv, CompleteBatchInv, WriteStockInv,
     StutterInv DEF Next
<1> QED BY <1>1, <1>2, PTL DEF Spec

\* Every variable keeps its type; in particular no stock, reservation or
\* consumption is ever negative.
THEOREM TypeCorrect == Spec => []TypeOK
<1>1. IInv => TypeOK
  BY DEF IInv
<1> QED BY Inductive, <1>1, PTL

\* The output of a batch is posted once.
THEOREM OutputPostedOnceCorrect == Spec => []OutputPostedOnce
<1>1. IInv => OutputPostedOnce
  BY DEF IInv
<1> QED BY Inductive, <1>1, PTL

\* A completed or cancelled campaign holds no component, unless its status or, after
\* its validation, its plan was written over.
THEOREM ClosedHoldsNothingCorrect == Spec => []ClosedHoldsNothing
<1>1. IInv => ClosedHoldsNothing
  BY DEF IInv
<1> QED BY Inductive, <1>1, PTL

\* A completed campaign has consumed what its plan asked for, unless a shortage was
\* overridden, its status or plan written over or one of its batches restarted.
THEOREM ProducedFromComponentsCorrect == Spec => []ProducedFromComponents
<1>1. IInv => ProducedFromComponents
  <2> SUFFICES ASSUME IInv, NEW o \in AsPlanned, order[o] = "COMPLETED"
               PROVE  consumed[o] = required[o]
    BY DEF ProducedFromComponents
  <2>1. consumed[o] + reserved[o] = required[o]
    BY DEF IInv, Accounted, Regular, AsPlanned
  <2>2. reserved[o] = 0 /\ consumed[o] \in Nat
    BY DEF IInv, TypeOK, ClosedHoldsNothing, AsPlanned
  <2> QED BY <2>1, <2>2
<1> QED BY Inductive, <1>1, PTL

\* The step that posts an output consumes for it: one unit, or all that is left
\* of what the campaign required for every one of its batches.
LEMMA CompleteHasComponents ==
  ASSUME IInv, IInv', OutputHasComponents, NEW b \in Batches, CompleteBatch(b)
  PROVE  OutputHasComponents'
<1> DEFINE o == OrderOf[b]
           last == Open(o) \subseteq {b}
<1>1. o \in Orders /\ b \in BatchesOf(o)
  BY BatchOfOrder
<1>2. PICK n \in Share(o, last) :
        /\ batch[b] = "PREPARING"
        /\ consumed' = [consumed EXCEPT ![o] = @ + n]
        /\ output' = [output EXCEPT ![b] = @ + 1]
        /\ order' = [order EXCEPT ![o] = IF last THEN "COMPLETED" ELSE "PARTIALLY_COMPLETED"]
        /\ UNCHANGED <<required, overridden, rewritten, resumed>>
  BY DEF CompleteBatch, Takes, plan, history
<1>3. last \/ required[o] = 0 \/ (n \in Nat /\ n >= 1)
  BY <1>1 DEF Share, IInv, TypeOK
<1> HIDE DEF o, last
<1> SUFFICES ASSUME NEW p \in AsPlanned, required[p] > 0
             PROVE  Cardinality(Produced(p)') <= consumed'[p]
  BY <1>2 DEF OutputHasComponents, AsPlanned
<1>4. IsFiniteSet(BatchesOf(p)) /\ Produced(p) \subseteq BatchesOf(p)
  BY FinitenessAssumption, FS_Subset DEF BatchesOf, Produced
<1>5. IsFiniteSet(Produced(p)) /\ Cardinality(Produced(p)) \in Nat
  BY <1>4, FS_Subset, FS_CardinalityType
<1>6. Cardinality(Produced(p)) <= consumed[p]
  BY DEF OutputHasComponents
<1>7. CASE p # o
  <2>1. Produced(p)' = Produced(p)
    BY <1>1, <1>2, <1>7 DEF Produced, BatchesOf, IInv, TypeOK
  <2>2. consumed'[p] = consumed[p]
    BY <1>2, <1>7 DEF IInv, TypeOK, AsPlanned
  <2> QED BY <1>6, <2>1, <2>2
<1>8. CASE p = o /\ last
  <2>1. order'[p] = "COMPLETED"
    BY <1>2, <1>8 DEF IInv, TypeOK, AsPlanned
  <2>2. consumed'[p] + reserved'[p] = required[p]
    BY <1>2, <2>1 DEF IInv, Accounted, Regular, AsPlanned
  <2>3. reserved'[p] = 0 /\ consumed'[p] \in Nat
    BY <1>2, <2>1 DEF IInv, ClosedHoldsNothing, TypeOK, AsPlanned
  <2>4. Produced(p)' \subseteq BatchesOf(p)
    BY DEF Produced, BatchesOf
  <2>5. Cardinality(BatchesOf(p)) <= required[p]
    BY PlansAssumption DEF IInv, PlanKnown, AsPlanned
  <2>6. /\ Cardinality(Produced(p)') <= Cardinality(BatchesOf(p))
        /\ Cardinality(BatchesOf(p)) \in Nat /\ Cardinality(Produced(p)') \in Nat
    BY <1>4, <2>4, FS_Subset, FS_CardinalityType
  <2>7. required[p] \in Nat
    BY DEF IInv, TypeOK, AsPlanned
  <2> QED BY <2>2, <2>3, <2>5, <2>6, <2>7
<1>9. CASE p = o /\ n \in Nat /\ n >= 1
  <2>1. b \notin Produced(p) /\ Produced(p)' = Produced(p) \union {b}
    BY <1>1, <1>2, <1>9 DEF Produced, BatchesOf, IInv, TypeOK, OutputOfCompleted
  <2>2. Cardinality(Produced(p)') = Cardinality(Produced(p)) + 1
    BY <1>5, <2>1, FS_AddElement
  <2>3. consumed'[p] = consumed[p] + n /\ consumed[p] \in Nat
    BY <1>1, <1>2, <1>9 DEF IInv, TypeOK
  <2> QED BY <1>5, <1>6, <1>9, <2>2, <2>3
<1>10. p # o \/ required[o] # 0
  BY <1>3
<1> QED BY <1>3, <1>7, <1>8, <1>9, <1>10

\* A plan changes while nothing has been posted, or that of a campaign that is then
\* known to be written over.
LEMMA PlanHasComponents ==
  ASSUME IInv, IInv', OutputHasComponents, NEW o \in Orders,
         UNCHANGED <<output, consumed, overridden, resumed>>,
         rewritten \subseteq rewritten',
         \A p \in Orders \ {o} : required'[p] = required[p],
         \/ o \in rewritten'
         \/ required'[o] = required[o]
         \/ order[o] = "PROPOSED"
  PROVE  OutputHasComponents'
<1> SUFFICES ASSUME NEW p \in AsPlanned', required'[p] > 0
             PROVE  Cardinality(Produced(p)') <= consumed'[p]
  BY DEF OutputHasComponents
<1>1. p \in AsPlanned /\ p \in Orders
  BY DEF AsPlanned
<1>2. Produced(p)' = Produced(p) /\ consumed'[p] = consumed[p]
  BY DEF Produced, BatchesOf
<1>3. CASE required'[p] = required[p]
  BY <1>1, <1>2, <1>3 DEF OutputHasComponents
<1>4. CASE p = o /\ order[o] = "PROPOSED"
  <2>1. Produced(p) = {} /\ consumed[p] = 0
    BY <1>1, <1>4 DEF IInv, NothingBefore, Produced, AsPlanned, BatchesOf, TypeOK
  <2> QED BY <1>2, <2>1, FS_EmptySet
<1> QED BY <1>1, <1>3, <1>4 DEF AsPlanned

\* Every output that was posted has had its components, unless a shortage was
\* overridden, the status or plan written over or a batch restarted out of turn.
THEOREM OutputHasComponentsCorrect == Spec => []OutputHasComponents
<1>1. Init => OutputHasComponents
  <2> SUFFICES ASSUME Init, NEW o \in Orders
               PROVE  Cardinality(Produced(o)) <= consumed[o]
    BY DEF OutputHasComponents, AsPlanned
  <2>1. Produced(o) = {} /\ consumed[o] = 0
    BY DEF Init, Produced, BatchesOf
  <2> QED BY <2>1, FS_EmptySet
<1>2. ASSUME IInv, IInv', OutputHasComponents, [Next]_vars
      PROVE  OutputHasComponents'
  <2>1. ASSUME NEW b \in Batches, CompleteBatch(b) PROVE OutputHasComponents'
    BY <1>2, <2>1, CompleteHasComponents
  <2>2. ASSUME NEW o \in Orders, Replan(o) \/ Reschedule(o) \/ CarryOver(o)
        PROVE  OutputHasComponents'
    <3>1. PICK q \in Nat : required' = [required EXCEPT ![o] = q]
      BY <2>2, PlansAssumption DEF Replan, Reschedule, CarryOver
    <3>2. \A p \in Orders \ {o} : required'[p] = required[p]
      BY <1>2, <3>1 DEF IInv, TypeOK
    <3>3. /\ UNCHANGED <<output, consumed, overridden, resumed>>
          /\ rewritten \subseteq rewritten'
      BY <2>2 DEF Replan, Reschedule, CarryOver, history
    <3>4. \/ o \in rewritten'
          \/ required'[o] = required[o]
          \/ order[o] = "PROPOSED"
      BY <1>2, <2>2 DEF Replan, Reschedule, CarryOver, IInv, TypeOK
    <3> QED BY <1>2, <3>2, <3>3, <3>4, PlanHasComponents
  <2>3. ASSUME UNCHANGED <<output, consumed, required>>,
               rewritten \subseteq rewritten', overridden \subseteq overridden',
               resumed \subseteq resumed'
        PROVE  OutputHasComponents'
    <3>1. \A o \in Orders : Produced(o)' = Produced(o)
      BY <2>3 DEF Produced, BatchesOf
    <3> QED BY <1>2, <2>3, <3>1 DEF OutputHasComponents, AsPlanned
  <2>4. ASSUME ~\E b \in Batches : CompleteBatch(b),
               ~\E o \in Orders : Replan(o) \/ Reschedule(o) \/ CarryOver(o)
        PROVE  /\ UNCHANGED <<output, consumed, required>>
               /\ rewritten \subseteq rewritten' /\ overridden \subseteq overridden'
               /\ resumed \subseteq resumed'
    BY <1>2, <2>4 DEF Next, Validate, Cancel, CancelExpired, ChangeStatus, CloseDay,
       StartBatch, RestartBatch, Resumes, WriteStock, plan, history, vars
  <2> QED BY <2>1, <2>2, <2>3, <2>4
<1> QED BY <1>1, <1>2, Inductive, PTL DEF Spec

-------------------------------------------------------------------------------
(***************************************************************************)
(* What campaigns reserve together.  The units of one campaign and those   *)
(* of the others are disjoint, so a change of one reservation changes the  *)
(* sum by as much.                                                         *)
(***************************************************************************)
UnitsOf(r, S) == UNION {{o} \X (1 .. r[o]) : o \in S}

LEMMA UnitsFinite ==
  ASSUME NEW r \in [Orders -> Nat], NEW S \in SUBSET Orders
  PROVE  IsFiniteSet(UnitsOf(r, S))
<1> DEFINE Each == {{o} \X (1 .. r[o]) : o \in S}
           f == [o \in S |-> {o} \X (1 .. r[o])]
<1>1. IsFiniteSet(S)
  BY FinitenessAssumption, FS_Subset
<1>2. f \in Surjection(S, Each)
  BY DEF Surjection
<1>3. IsFiniteSet(Each)
  BY <1>1, <1>2, FS_Surjection
<1>4. ASSUME NEW o \in S
      PROVE  IsFiniteSet({o} \X (1 .. r[o]))
  <2>1. IsFiniteSet({o})
    BY FS_Singleton
  <2>2. IsFiniteSet(1 .. r[o])
    BY FS_Interval
  <2> QED BY <2>1, <2>2, FS_Product
<1>5. \A T \in Each : IsFiniteSet(T)
  BY <1>4
<1>6. IsFiniteSet(UNION Each)
  BY <1>3, <1>5, FS_UNION
<1> QED BY <1>6 DEF UnitsOf

LEMMA UnitsSplit ==
  ASSUME NEW r \in [Orders -> Nat], NEW o \in Orders
  PROVE  /\ Cardinality(UnitsOf(r, Orders)) \in Nat
         /\ Cardinality(UnitsOf(r, Orders \ {o})) \in Nat
         /\ Cardinality(UnitsOf(r, Orders))
              = Cardinality(UnitsOf(r, Orders \ {o})) + r[o]
<1> DEFINE Own == {o} \X (1 .. r[o])
           Others == UnitsOf(r, Orders \ {o})
<1>1. IsFiniteSet(Others) /\ IsFiniteSet(UnitsOf(r, Orders))
  BY UnitsFinite
<1>2. IsFiniteSet({o}) /\ Cardinality({o}) = 1
  BY FS_Singleton
<1>3. r[o] \in Nat
  OBVIOUS
<1>4. IsFiniteSet(1 .. r[o]) /\ Cardinality(1 .. r[o]) = r[o]
  BY <1>3, FS_Interval
<1>5. IsFiniteSet(Own) /\ Cardinality(Own) = 1 * r[o]
  BY <1>2, <1>4, FS_Product
<1>6. UnitsOf(r, Orders) = Others \union Own
  BY DEF UnitsOf
<1>7. Others \intersect Own = {}
  BY DEF UnitsOf
<1>8. Cardinality(Others \intersect Own) = 0
  BY <1>7, FS_EmptySet
<1>9. Cardinality(Others) \in Nat /\ Cardinality(UnitsOf(r, Orders)) \in Nat
  BY <1>1, FS_CardinalityType
<1>10. Cardinality(Others \union Own)
         = Cardinality(Others) + Cardinality(Own) - Cardinality(Others \intersect Own)
  BY <1>1, <1>5, FS_Union
<1> QED BY <1>3, <1>5, <1>6, <1>8, <1>9, <1>10

\* A step that writes the reservation of one campaign leaves those of the others.
LEMMA UnitsKept ==
  ASSUME NEW r, NEW q, NEW S, \A o \in S : q[o] = r[o]
  PROVE  UnitsOf(q, S) = UnitsOf(r, S)
BY DEF UnitsOf

\* The sum after a step that writes the reservation of o.
LEMMA ReservedChange ==
  ASSUME TypeOK, TypeOK', NEW o \in Orders,
         \A p \in Orders \ {o} : reserved'[p] = reserved[p]
  PROVE  /\ ReservedBy(Orders) \in Nat /\ ReservedBy(Orders \ {o}) \in Nat
         /\ ReservedBy(Orders) = ReservedBy(Orders \ {o}) + reserved[o]
         /\ ReservedBy(Orders)' = ReservedBy(Orders \ {o}) + reserved'[o]
<1>1. /\ Cardinality(UnitsOf(reserved, Orders)) \in Nat
      /\ Cardinality(UnitsOf(reserved, Orders \ {o})) \in Nat
      /\ Cardinality(UnitsOf(reserved, Orders))
           = Cardinality(UnitsOf(reserved, Orders \ {o})) + reserved[o]
  BY UnitsSplit DEF TypeOK
<1>2. Cardinality(UnitsOf(reserved', Orders))
        = Cardinality(UnitsOf(reserved', Orders \ {o})) + reserved'[o]
  BY UnitsSplit DEF TypeOK
<1>3. UnitsOf(reserved', Orders \ {o}) = UnitsOf(reserved, Orders \ {o})
  BY UnitsKept
<1>4. ReservedBy(Orders)' = Cardinality(UnitsOf(reserved', Orders))
  BY DEF ReservedBy, ReservedUnits, UnitsOf
<1>5. /\ ReservedBy(Orders) = Cardinality(UnitsOf(reserved, Orders))
      /\ ReservedBy(Orders \ {o}) = Cardinality(UnitsOf(reserved, Orders \ {o}))
  BY DEF ReservedBy, ReservedUnits, UnitsOf
<1> QED BY <1>1, <1>2, <1>3, <1>4, <1>5

LEMMA ReservedSame ==
  ASSUME UNCHANGED reserved
  PROVE  ReservedBy(Orders)' = ReservedBy(Orders)
BY DEF ReservedBy, ReservedUnits

LEMMA ReservedNat ==
  ASSUME TypeOK
  PROVE  ReservedBy(Orders) \in Nat
<1>1. IsFiniteSet(UnitsOf(reserved, Orders))
  BY UnitsFinite DEF TypeOK
<1> QED
  BY <1>1, FS_CardinalityType DEF ReservedBy, ReservedUnits, UnitsOf

-------------------------------------------------------------------------------
LEMMA InitBacked == Init => ReservationsBacked
<1> SUFFICES ASSUME Init PROVE ReservationsBacked
  OBVIOUS
<1>1. ReservedUnits(Orders) = {}
  BY DEF Init, ReservedUnits
<1> QED
  BY <1>1, FS_EmptySet, StockAssumption DEF Init, ReservationsBacked, ReservedBy

\* A validation reserves what fits beside the reservations of the others.
LEMMA ValidateBacked ==
  ASSUME TypeOK, TypeOK', ReservationsBacked, NEW o \in Orders, Validate(o)
  PROVE  ReservationsBacked'
<1>1. PICK n \in 0 .. required[o] :
        MostThatFits(o, n) /\ reserved' = [reserved EXCEPT ![o] = n]
  BY DEF Validate
<1>2. n \in Nat
  BY <1>1 DEF TypeOK
<1>3. /\ reserved'[o] = n
      /\ \A p \in Orders \ {o} : reserved'[p] = reserved[p]
      /\ stock' = stock /\ removed' = removed
  BY <1>1 DEF TypeOK, Validate
<1>4. n = 0 \/ n + ReservedBy(Orders \ {o}) <= stock
  BY <1>1 DEF MostThatFits, Fits
<1>5. /\ ReservedBy(Orders) \in Nat /\ ReservedBy(Orders \ {o}) \in Nat
      /\ ReservedBy(Orders) = ReservedBy(Orders \ {o}) + reserved[o]
      /\ ReservedBy(Orders)' = ReservedBy(Orders \ {o}) + n
  BY <1>3, ReservedChange
<1>6. reserved[o] \in Nat /\ stock \in Nat /\ removed \in Nat
  BY DEF TypeOK
<1>7. ReservedBy(Orders)' <= stock + removed
  BY <1>2, <1>4, <1>5, <1>6 DEF ReservationsBacked
<1> QED BY <1>3, <1>7 DEF ReservationsBacked

LEMMA ReleaseBacked ==
  ASSUME TypeOK, TypeOK', ReservationsBacked, NEW o \in Orders,
         Cancel(o) \/ CancelExpired(o) \/ Reschedule(o)
  PROVE  ReservationsBacked'
<1>1. /\ reserved'[o] = 0
      /\ \A p \in Orders \ {o} : reserved'[p] = reserved[p]
      /\ stock' = stock /\ removed' = removed
  BY DEF TypeOK, Cancel, CancelExpired, Reschedule, Releases, history
<1>2. /\ ReservedBy(Orders) \in Nat /\ ReservedBy(Orders \ {o}) \in Nat
      /\ ReservedBy(Orders) = ReservedBy(Orders \ {o}) + reserved[o]
      /\ ReservedBy(Orders)' = ReservedBy(Orders \ {o}) + 0
  BY <1>1, ReservedChange
<1>3. reserved[o] \in Nat /\ stock \in Nat /\ removed \in Nat
  BY DEF TypeOK
<1>4. ReservedBy(Orders)' <= stock + removed
  BY <1>2, <1>3 DEF ReservationsBacked
<1> QED BY <1>1, <1>4 DEF ReservationsBacked

\* A completion takes the same units from the stock and from the reservation.
LEMMA CompleteBacked ==
  ASSUME TypeOK, TypeOK', ReservationsBacked, NEW b \in Batches, CompleteBatch(b)
  PROVE  ReservationsBacked'
<1> DEFINE o == OrderOf[b]
<1>1. o \in Orders
  BY BatchOfOrder
<1>2. PICK n \in Share(o, Open(o) \subseteq {b}) :
        /\ n <= reserved[o] /\ n <= stock /\ stock' = stock - n
        /\ reserved' = [reserved EXCEPT ![o] = @ - n]
        /\ removed' = removed
  BY DEF CompleteBatch, Takes, history
<1>3. n \in Nat /\ reserved[o] \in Nat /\ stock \in Nat /\ removed \in Nat
  BY <1>1 DEF TypeOK, Share
<1>4. /\ reserved'[o] = reserved[o] - n
      /\ \A p \in Orders \ {o} : reserved'[p] = reserved[p]
  BY <1>1, <1>2 DEF TypeOK
<1>5. /\ ReservedBy(Orders) \in Nat /\ ReservedBy(Orders \ {o}) \in Nat
      /\ ReservedBy(Orders) = ReservedBy(Orders \ {o}) + reserved[o]
      /\ ReservedBy(Orders)' = ReservedBy(Orders \ {o}) + (reserved[o] - n)
  BY <1>1, <1>4, ReservedChange
<1>6. ReservedBy(Orders)' <= (stock - n) + removed
  BY <1>3, <1>5 DEF ReservationsBacked
<1> QED BY <1>2, <1>6 DEF ReservationsBacked

LEMMA WriteStockBacked ==
  ASSUME TypeOK, TypeOK', ReservationsBacked, WriteStock
  PROVE  ReservationsBacked'
<1>1. ReservedBy(Orders) \in Nat /\ ReservedBy(Orders)' = ReservedBy(Orders)
  BY ReservedNat, ReservedSame DEF WriteStock
<1>2. stock \in Nat /\ removed \in Nat
  BY DEF TypeOK
<1>3. PICK q \in 0 .. MaxStock :
        /\ stock' = q
        /\ removed' = IF q < stock THEN removed + (stock - q) ELSE removed
  BY DEF WriteStock
<1>4. q \in Nat
  BY <1>3, StockAssumption
<1>5. PICK r \in Nat : removed' = r /\ stock + removed <= q + r
  BY <1>2, <1>3, <1>4
<1>6. ReservedBy(Orders) <= q + r
  BY <1>1, <1>2, <1>4, <1>5 DEF ReservationsBacked
<1> QED BY <1>1, <1>3, <1>5, <1>6 DEF ReservationsBacked

LEMMA OtherBacked ==
  ASSUME TypeOK, ReservationsBacked,
         \/ \E o \in Orders : ChangeStatus(o) \/ Replan(o) \/ CloseDay(o) \/ CarryOver(o)
         \/ \E b \in Batches : StartBatch(b) \/ RestartBatch(b)
         \/ UNCHANGED vars
  PROVE  ReservationsBacked'
<1>1. UNCHANGED <<reserved, stock, removed>>
  BY DEF ChangeStatus, Replan, CloseDay, CarryOver, StartBatch, RestartBatch, Resumes,
     vars, history
<1>2. ReservedBy(Orders)' = ReservedBy(Orders)
  BY <1>1, ReservedSame
<1> QED BY <1>1, <1>2 DEF ReservationsBacked

\* Campaigns together reserve no more than the stock holds, but for what the
\* stock module took away: no unit is promised to two campaigns.
THEOREM ReservationsBackedCorrect == Spec => []ReservationsBacked
<1>1. Init => ReservationsBacked
  BY InitBacked
<1>2. TypeOK /\ TypeOK' /\ ReservationsBacked /\ [Next]_vars => ReservationsBacked'
  BY ValidateBacked, ReleaseBacked, CompleteBacked, WriteStockBacked, OtherBacked
  DEF Next
<1> QED BY <1>1, <1>2, TypeCorrect, PTL DEF Spec
===============================================================================
