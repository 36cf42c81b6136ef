-------------------------- MODULE ProductionCampaign --------------------------
(***************************************************************************)
(* Production campaigns that use one component of one site, and their      *)
(* batches.  ProductionExecutionService runs each operation in one         *)
(* SERIALIZABLE transaction that it retries, so an operation is one        *)
(* action.  The older ProductionService writes the same rows without       *)
(* looking at what holds them: changeStatus and closeRealization a status, *)
(* updateOrder and recalculateOrder the requirements; and so does the      *)
(* closing of the day before, on what it has read of the campaign.  A      *)
(* campaign that is validated reserves its component, a batch that is      *)
(* completed consumes its share, the last one what is left.  The stock row *)
(* is also written by the whole of the stock module.                       *)
(***************************************************************************)
EXTENDS Naturals, FiniteSets

CONSTANTS
  Orders, Batches,
  OrderOf,      \* the campaign of each batch
  NextDay,      \* the campaigns of the day after one that is closed
  InitialStock,
  Plans,        \* what a plan of each campaign may ask of the component
  MaxStock,     \* bound on what the stock module writes
  MaxRemoved    \* bound on what it takes away

ASSUME OrderOfAssumption == OrderOf \in [Batches -> Orders]
ASSUME FinitenessAssumption == IsFiniteSet(Orders) /\ IsFiniteSet(Batches)
ASSUME StockAssumption ==
  InitialStock \in Nat /\ MaxStock \in Nat /\ MaxRemoved \in Nat

BatchesOf(o) == {b \in Batches : OrderOf[b] = o}

\* Nothing, when the recipe has no such component, or enough for a share of every
\* batch: the unit is one that no share is smaller than.
ASSUME PlansAssumption ==
  /\ Plans \in [Orders -> SUBSET Nat]
  /\ \A o \in Orders : \A q \in Plans[o] : q = 0 \/ q >= Cardinality(BatchesOf(o))

VARIABLES
  order, batch,  \* statuses
  required,      \* what the plan of each campaign asks of the component
  reserved,      \* the ACTIVE component reservations of each campaign
  stock,         \* the component in stock
  output,        \* output lots posted for each batch
  consumed,      \* component consumed for each campaign
  closing,       \* campaigns that the closing of the day before has read
  overridden,    \* history: campaigns validated in spite of a shortage
  rewritten,     \* history: campaigns whose status was set by hand, or whose plan
                 \* or status was written over after their validation
  resumed,       \* history: campaigns a restart took back from where they ended,
                 \* or made executable without a validation
  removed        \* history: what the stock module took away

history == <<overridden, rewritten, resumed, removed>>
plan == <<required, closing>>
vars == <<order, batch, reserved, stock, output, consumed, plan, history>>

\* PROPOSED stands for DRAFT, PLANNED and BLOCKED as well, PREPARING for COOKING,
\* COOLING and FREEZING, COMPLETED of a batch for PARTIALLY_LOST: the code treats
\* them alike.
OrderStatuses == {"PROPOSED", "VALIDATED", "IN_PROGRESS", "PARTIALLY_COMPLETED",
                  "COMPLETED", "CANCELLED"}
Executable == {"VALIDATED", "IN_PROGRESS", "PARTIALLY_COMPLETED"}
Cancellable == {"PROPOSED", "VALIDATED"}

TypeOK ==
  /\ order \in [Orders -> OrderStatuses]
  /\ batch \in [Batches -> {"TO_PREPARE", "PREPARING", "COMPLETED", "CANCELLED"}]
  /\ reserved \in [Orders -> Nat] /\ stock \in Nat
  /\ output \in [Batches -> Nat] /\ consumed \in [Orders -> Nat]
  /\ required \in [Orders -> Nat] /\ closing \subseteq Orders
  /\ overridden \subseteq Orders /\ rewritten \subseteq Orders
  /\ resumed \subseteq Orders /\ removed \in Nat

\* Campaigns as createCampaign leaves them.
Init ==
  /\ order = [o \in Orders |-> "PROPOSED"]
  /\ batch = [b \in Batches |-> "TO_PREPARE"]
  /\ required \in [Orders -> UNION {Plans[o] : o \in Orders}]
  /\ \A o \in Orders : required[o] \in Plans[o]
  /\ reserved = [o \in Orders |-> 0] /\ stock = InitialStock
  /\ output = [b \in Batches |-> 0] /\ consumed = [o \in Orders |-> 0]
  /\ closing = {}
  /\ overridden = {} /\ rewritten = {} /\ resumed = {} /\ removed = 0

-------------------------------------------------------------------------------
(* Campaigns *)

\* The units of the component that the campaigns of S reserve, and their number.
ReservedUnits(S) == UNION {{o} \X (1 .. reserved[o]) : o \in S}
ReservedBy(S) == Cardinality(ReservedUnits(S))

\* Variant of Fits: a stock row is free whatever is reserved on it.
FitsGross(o, n) == n <= stock

\* reserveProductFefo finds n free of the reservations of the other campaigns;
\* those of o have just been released.
Fits(o, n) == n = 0 \/ n + ReservedBy(Orders \ {o}) <= stock

MostThatFits(o, n) == Fits(o, n) /\ \A k \in n + 1 .. required[o] : ~Fits(o, k)

\* Variant of Validate: a shortage is no obstacle.
ValidateShort(o) ==
  /\ order[o] = "PROPOSED"
  /\ \E n \in 0 .. required[o] :
       MostThatFits(o, n) /\ reserved' = [reserved EXCEPT ![o] = n]
  /\ order' = [order EXCEPT ![o] = "VALIDATED"]
  /\ UNCHANGED <<batch, stock, output, consumed, plan, history>>

\* validateCampaign: what fits is reserved, a shortage needs an override.
Validate(o) ==
  /\ order[o] = "PROPOSED"
  /\ \E n \in 0 .. required[o] :
       /\ MostThatFits(o, n)
       /\ reserved' = [reserved EXCEPT ![o] = n]
       /\ overridden' = IF n < required[o] THEN overridden \union {o} ELSE overridden
  /\ order' = [order EXCEPT ![o] = "VALIDATED"]
  /\ UNCHANGED <<batch, stock, output, consumed, plan, rewritten, resumed, removed>>

\* Variant of Releases: the reservations stay.
ReleasesNot(o) == UNCHANGED reserved

Releases(o) == reserved' = [reserved EXCEPT ![o] = 0]

CancelsBatches(o) ==
  batch' = [b \in Batches |->
              IF OrderOf[b] = o /\ batch[b] # "COMPLETED" THEN "CANCELLED" ELSE batch[b]]

\* cancelCampaign.
Cancel(o) ==
  /\ order[o] \in Cancellable
  /\ \A b \in BatchesOf(o) : batch[b] = "TO_PREPARE"
  /\ order' = [order EXCEPT ![o] = "CANCELLED"]
  /\ Releases(o) /\ CancelsBatches(o)
  /\ UNCHANGED <<stock, output, consumed, plan, history>>

\* cancelExpiredUnassignedCampaigns, for a campaign of a day gone by whose tasks,
\* those of its cancelled batches apart, all wait to be done.
CancelExpired(o) ==
  /\ order[o] \in Cancellable
  /\ \E b \in BatchesOf(o) : batch[b] = "TO_PREPARE"
  /\ \A b \in BatchesOf(o) : batch[b] \in {"TO_PREPARE", "CANCELLED"}
  /\ order' = [order EXCEPT ![o] = "CANCELLED"]
  /\ Releases(o) /\ CancelsBatches(o)
  /\ UNCHANGED <<stock, output, consumed, plan, history>>

\* changeStatus writes any status, and cancels the batches with the campaign;
\* closeRealization writes COMPLETED.
ChangeStatus(o) ==
  /\ \E s \in OrderStatuses :
       /\ order' = [order EXCEPT ![o] = s]
       /\ IF s = "CANCELLED" THEN CancelsBatches(o) ELSE UNCHANGED batch
  /\ rewritten' = rewritten \union {o}
  /\ UNCHANGED <<reserved, stock, output, consumed, plan, overridden, resumed, removed>>

-------------------------------------------------------------------------------
(* Plans *)

\* updateOrder, given other portions, and recalculateOrder write the requirements
\* anew from the recipe, whatever the status; what is reserved stays as it is.  The
\* rows that a closing has read are gone, and it fails.
Replan(o) ==
  /\ \E q \in Plans[o] :
       /\ required' = [required EXCEPT ![o] = q]
       /\ rewritten' = IF order[o] = "PROPOSED" \/ q = required[o]
                       THEN rewritten ELSE rewritten \union {o}
  /\ closing' = closing \ {o}
  /\ UNCHANGED <<order, batch, reserved, stock, output, consumed, overridden, resumed,
                 removed>>

\* rescheduleCampaign replaces the requirements and the batches of a campaign that
\* nobody has started on, and releases what it holds.
Reschedule(o) ==
  /\ order[o] = "PROPOSED"
  /\ \A b \in BatchesOf(o) : batch[b] = "TO_PREPARE"
  /\ \E q \in Plans[o] : required' = [required EXCEPT ![o] = q]
  /\ closing' = closing \ {o}
  /\ Releases(o)
  /\ UNCHANGED <<order, batch, stock, output, consumed, history>>

\* close of a day: rebaseNextProductionDay reads the campaigns of the next day that
\* are not validated, ...
CloseDay(o) ==
  /\ o \in NextDay /\ order[o] = "PROPOSED"
  /\ closing' = closing \union {o}
  /\ UNCHANGED <<order, batch, required, reserved, stock, output, consumed, history>>

\* ... and scales their requirements to what is not carried over.  It writes the
\* status too, the one that it has read or, when nothing is left to make,
\* COMPLETED, whatever became of the campaign meanwhile.
CarryOver(o) ==
  /\ o \in closing
  /\ \E q \in Plans[o], s \in {"PROPOSED", "COMPLETED"} :
       /\ required[o] = 0 \/ s = "COMPLETED" => q = 0
       /\ required' = [required EXCEPT ![o] = q]
       /\ order' = [order EXCEPT ![o] = s]
  /\ closing' = closing \ {o}
  /\ rewritten' = IF order[o] = "PROPOSED" THEN rewritten ELSE rewritten \union {o}
  /\ UNCHANGED <<batch, reserved, stock, output, consumed, overridden, resumed, removed>>

-------------------------------------------------------------------------------
(* Batches *)

\* startBatch asks for the status of the campaign; a cancelled batch starts too.
StartBatch(b) ==
  /\ batch[b] # "COMPLETED"
  /\ order[OrderOf[b]] \in Executable
  /\ order' = [order EXCEPT ![OrderOf[b]] = "IN_PROGRESS"]
  /\ batch' = [batch EXCEPT ![b] = "PREPARING"]
  /\ UNCHANGED <<reserved, stock, output, consumed, plan, history>>

\* Where restartBatch leaves the campaign.
Restarted(b) ==
  IF \E c \in BatchesOf(OrderOf[b]) \ {b} : batch[c] = "PREPARING"
  THEN "IN_PROGRESS" ELSE "VALIDATED"

Resumes(o) ==
  /\ resumed' = IF order[o] \in Executable THEN resumed ELSE resumed \union {o}
  /\ UNCHANGED <<overridden, rewritten, removed>>

\* Variant of RestartBatch: a completed batch is reopened.
RestartCompleted(b) ==
  /\ order' = [order EXCEPT ![OrderOf[b]] = Restarted(b)]
  /\ batch' = [batch EXCEPT ![b] = "TO_PREPARE"]
  /\ Resumes(OrderOf[b])
  /\ UNCHANGED <<reserved, stock, output, consumed, plan>>

\* restartBatch does not ask for the status of the campaign.
RestartBatch(b) ==
  /\ batch[b] # "COMPLETED"
  /\ order' = [order EXCEPT ![OrderOf[b]] = Restarted(b)]
  /\ batch' = [batch EXCEPT ![b] = "TO_PREPARE"]
  /\ Resumes(OrderOf[b])
  /\ UNCHANGED <<reserved, stock, output, consumed, plan>>

Open(o) == {b \in BatchesOf(o) : batch[b] \notin {"COMPLETED", "CANCELLED"}}

\* Variant of Takes: the stock is decremented without its condition.
TakesAnyway(o, n) ==
  /\ n <= reserved[o]
  /\ stock' = stock - n
  /\ reserved' = [reserved EXCEPT ![o] = @ - n]
  /\ consumed' = [consumed EXCEPT ![o] = @ + n]

\* consumeReservations: a missing reservation, or a row that holds less, fails
\* the whole completion.
Takes(o, n) ==
  /\ n <= reserved[o] /\ n <= stock
  /\ stock' = stock - n
  /\ reserved' = [reserved EXCEPT ![o] = @ - n]
  /\ consumed' = [consumed EXCEPT ![o] = @ + n]

\* Variant of Share: everything is consumed with the last batch.
ShareAtEnd(o, last) == IF last THEN {reserved[o]} ELSE {0}

\* What a batch consumes: a share of what the plan now asks for, or all that is
\* reserved once no other is open; of what the plan does not name, nothing.
Share(o, last) ==
  IF required[o] = 0 THEN {0}
  ELSE IF last THEN {reserved[o]} ELSE 1 .. required[o]

\* completeBatch consumes the share of the batch and posts its output.  A second
\* request changes nothing: it finds its key, or the status.
CompleteBatch(b) ==
  LET o == OrderOf[b]
      last == Open(o) \subseteq {b} IN
  /\ batch[b] = "PREPARING"
  /\ \E n \in Share(o, last) : Takes(o, n)
  /\ output' = [output EXCEPT ![b] = @ + 1]
  /\ batch' = [batch EXCEPT ![b] = "COMPLETED"]
  /\ order' = [order EXCEPT ![o] = IF last THEN "COMPLETED" ELSE "PARTIALLY_COMPLETED"]
  /\ UNCHANGED <<plan, history>>

-------------------------------------------------------------------------------
(* The stock module: a movement, an adjustment or an inventory *)

WriteStock ==
  /\ \E q \in 0 .. MaxStock :
       /\ stock' = q
       /\ removed' = IF q < stock THEN removed + (stock - q) ELSE removed
  /\ removed' <= MaxRemoved
  /\ UNCHANGED <<order, batch, reserved, output, consumed, plan, overridden, rewritten,
                 resumed>>

-------------------------------------------------------------------------------
Next ==
  \/ \E o \in Orders : Validate(o) \/ Cancel(o) \/ CancelExpired(o) \/ ChangeStatus(o)
  \/ \E o \in Orders : Replan(o) \/ Reschedule(o) \/ CloseDay(o) \/ CarryOver(o)
  \/ \E b \in Batches : StartBatch(b) \/ RestartBatch(b) \/ CompleteBatch(b)
  \/ WriteStock

Spec == Init /\ [][Next]_vars

-------------------------------------------------------------------------------
(* Properties that hold *)

\* The output of a batch is posted once, whatever is retried, restarted,
\* cancelled or set by hand in between.
OutputPostedOnce == \A b \in Batches : output[b] <= 1

\* Campaigns reserve no more than there is, but for what the stock module took
\* away: validations share the stock, and a consumption takes from both.
ReservationsBacked == ReservedBy(Orders) <= stock + removed

\* A campaign that is completed or cancelled holds no component, unless its status
\* or, after the validation, its plan was written by those that do not look at what
\* it holds: a component that left the plan stays reserved for good.
ClosedHoldsNothing ==
  \A o \in Orders \ rewritten :
    order[o] \in {"COMPLETED", "CANCELLED"} => reserved[o] = 0

\* A campaign is produced from the components its plan asked for, and a shortage
\* stops it unless it was overridden: whatever other campaigns consume and the stock
\* module writes meanwhile.  Left out are a status or plan written over, and a
\* restart of a batch of a campaign that was not executable.
AsPlanned == Orders \ (rewritten \union overridden \union resumed)

ProducedFromComponents ==
  \A o \in AsPlanned : order[o] = "COMPLETED" => consumed[o] = required[o]

\* No output before its components: each batch that has posted its output, in
\* whatever order the batches end, has consumed a share of its own, with the same
\* exceptions.
Produced(o) == {b \in BatchesOf(o) : output[b] > 0}

OutputHasComponents ==
  \A o \in AsPlanned : required[o] > 0 => Cardinality(Produced(o)) <= consumed[o]

===============================================================================
