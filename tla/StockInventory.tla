---------------------------- MODULE StockInventory ----------------------------
(***************************************************************************)
(* The stock rows of one product, one per site, and the requests of        *)
(* StocksService that write them: movements and transfers, adjustments     *)
(* from the product sheet, counts posted by the assistant, and an          *)
(* inventory of one site that is created, counted and validated.           *)
(* applyStock reads a row and writes back an absolute quantity, so each    *)
(* request is cut into its reads, its writes and its commit under READ     *)
(* COMMITTED; what protects the reads is the update of the ProductSite     *)
(* row, where a request makes one.                                         *)
(***************************************************************************)
EXTENDS Integers, Sequences

CONSTANTS
  Sites,          \* sites with a stock row of the product
  InventorySite,  \* the site that is counted
  Movers,         \* createMovement requests
  Adjusters,      \* adjustProductStock requests
  Assistants,     \* createAssistantInventoryAdjustment requests
  Validators,     \* validateInventory requests
  Counters,       \* updateInventoryCounts requests
  Quantities,     \* quantities moved
  Counts,         \* quantities counted, and targets of adjustments
  InitialStock,
  Nobody,         \* not a request
  NoValue         \* not a quantity

Writers == Movers \union Adjusters \union Assistants \union Validators
Requests == Writers \union Counters

ASSUME RequestsAssumption ==
  /\ Movers \intersect (Adjusters \union Assistants \union Validators) = {}
  /\ Adjusters \intersect (Assistants \union Validators) = {}
  /\ Assistants \intersect Validators = {}
  /\ Counters \intersect Writers = {}
ASSUME SitesAssumption == InventorySite \in Sites
ASSUME QuantitiesAssumption ==
  Quantities \subseteq Nat /\ Counts \subseteq Int /\ InitialStock \in Int
ASSUME NoneAssumption == Nobody \notin Requests /\ NoValue \notin Int

VARIABLES
  stock,        \* committed quantity of each row
  moved,        \* what the committed movements add up to
  pc,           \* each request
  legs,         \* the applyStock calls a writer has left: site and delta
  read,         \* the quantity the call under way has read
  written,      \* the uncommitted quantities of a writer
  posted,       \* the movements it will commit, by site
  siteLock,     \* who holds the ProductSite row of a site
  lineLock,     \* who holds the inventory line
  inventory, theoretical, counted,   \* the inventory and its line
  applied,      \* history: the variance each committed validation applied
  stale,        \* history: <<r, by>>: by committed over what r has read
  diverged      \* history: sites where such an r committed

requestVars == <<pc, legs, read, written, posted>>
lockVars == <<siteLock, lineLock>>
inventoryVars == <<inventory, theoretical, counted>>
history == <<applied, stale, diverged>>
vars == <<stock, moved, requestVars, lockVars, inventoryVars, history>>

Leg == [site : Sites, delta : Int]
Nothing == [s \in Sites |-> 0]
Unwritten == [s \in Sites |-> NoValue]

TypeOK ==
  /\ stock \in [Sites -> Int] /\ moved \in [Sites -> Int]
  /\ pc \in [Requests -> {"idle", "checked", "open", "done", "refused"}]
  /\ legs \in [Writers -> Seq(Leg)]
  /\ read \in [Writers -> Int \union {NoValue}]
  /\ written \in [Writers -> [Sites -> Int \union {NoValue}]]
  /\ posted \in [Writers -> [Sites -> Int]]
  /\ siteLock \in [Sites -> Writers \union {Nobody}]
  /\ lineLock \in Validators \union {Nobody}
  /\ inventory \in {"NONE", "DRAFT", "VALIDATED"}
  /\ theoretical \in Int
  /\ counted \in Int \union {NoValue}
  /\ applied \in [Validators -> Int \union {NoValue}]
  /\ stale \subseteq Writers \X Writers
  /\ diverged \subseteq Sites

Init ==
  /\ stock = [s \in Sites |-> InitialStock] /\ moved = stock
  /\ pc = [r \in Requests |-> "idle"]
  /\ legs = [r \in Writers |-> <<>>]
  /\ read = [r \in Writers |-> NoValue]
  /\ written = [r \in Writers |-> Unwritten]
  /\ posted = [r \in Writers |-> Nothing]
  /\ siteLock = [s \in Sites |-> Nobody] /\ lineLock = Nobody
  /\ inventory = "NONE" /\ theoretical = 0 /\ counted = NoValue
  /\ applied = [r \in Validators |-> NoValue] /\ stale = {} /\ diverged = {}

-------------------------------------------------------------------------------
(* Opening a transaction *)

\* Variant of TakesSites: the ProductSite rows are left alone.
TakesSitesNot(r, S) == UNCHANGED siteLock

\* The update of the ProductSite rows waits for the transactions that hold them.
TakesSites(r, S) ==
  /\ \A s \in S : siteLock[s] = Nobody
  /\ siteLock' = [s \in Sites |-> IF s \in S THEN r ELSE siteLock[s]]

\* Variant of Entry: the movement is recorded without its sign.
EntryUnsigned(s, d) ==
  [t \in Sites |-> IF t # s THEN 0 ELSE IF d < 0 THEN -d ELSE d]

\* What the movement of a request says of each site: so much in or out of one,
\* or from one to another.
Entry(s, d) == [t \in Sites |-> IF t = s THEN d ELSE 0]
Between(s, t, q) ==
  [u \in Sites |-> (IF u = t THEN q ELSE 0) - (IF u = s THEN q ELSE 0)]

\* The transaction of r has these applyStock calls to make, and this movement.
Opens(r, calls, movement) ==
  /\ pc' = [pc EXCEPT ![r] = "open"]
  /\ legs' = [legs EXCEPT ![r] = calls]
  /\ posted' = [posted EXCEPT ![r] = movement]

At(s, d) == [site |-> s, delta |-> d]

\* createMovement: in, out, or a transfer.
Move(r) ==
  /\ pc[r] = "idle"
  /\ \E q \in Quantities, s \in Sites :
       \/ \E d \in {q, -q} : TakesSites(r, {s}) /\ Opens(r, <<At(s, d)>>, Entry(s, d))
       \/ \E t \in Sites : /\ TakesSites(r, {s, t})
                           /\ Opens(r, <<At(s, -q), At(t, q)>>, Between(s, t, q))
  /\ UNCHANGED <<stock, moved, read, written, lineLock, inventoryVars, history>>

\* adjustProductStock reads the row, and refuses the quantity it finds there ...
AdjustRead(r) ==
  /\ pc[r] = "idle"
  /\ \E s \in Sites, target \in Counts :
       /\ target # stock[s]
       /\ legs' = [legs EXCEPT ![r] = <<At(s, target - stock[s])>>]
       /\ read' = [read EXCEPT ![r] = stock[s]]
  /\ pc' = [pc EXCEPT ![r] = "checked"]
  /\ UNCHANGED <<stock, moved, written, posted, lockVars, inventoryVars, history>>

\* ... before the transaction that upserts the ProductSite row.
AdjustOpen(r) ==
  /\ pc[r] = "checked"
  /\ LET leg == Head(legs[r]) IN
       TakesSites(r, {leg.site}) /\ Opens(r, <<leg>>, Entry(leg.site, leg.delta))
  /\ UNCHANGED <<stock, moved, read, written, lineLock, inventoryVars, history>>

\* createAssistantInventoryAdjustment.
Assist(r) ==
  /\ pc[r] = "idle"
  /\ \E q \in Quantities, s \in Sites : \E d \in {q, -q} \ {0} :
       Opens(r, <<At(s, d)>>, Entry(s, d))
  /\ UNCHANGED <<stock, moved, read, written, lockVars, inventoryVars, history>>

-------------------------------------------------------------------------------
(* The inventory *)

\* createInventory: a line with what the site holds.
CreateInventory ==
  /\ inventory = "NONE"
  /\ inventory' = "DRAFT"
  /\ theoretical' = stock[InventorySite]
  /\ UNCHANGED <<stock, moved, requestVars, lockVars, counted, history>>

\* updateInventoryCounts checks the status ...
CountCheck(r) ==
  /\ pc[r] = "idle"
  /\ inventory # "NONE"
  /\ pc' = [pc EXCEPT ![r] = IF inventory = "DRAFT" THEN "checked" ELSE "refused"]
  /\ UNCHANGED <<stock, moved, legs, read, written, posted, lockVars,
                 inventoryVars, history>>

\* ... and writes the line once no validation holds it.
CountWrite(r) ==
  /\ pc[r] = "checked"
  /\ lineLock = Nobody
  /\ counted' \in Counts
  /\ pc' = [pc EXCEPT ![r] = "done"]
  /\ UNCHANGED <<stock, moved, legs, read, written, posted, lockVars, inventory,
                 theoretical, history>>

\* validateInventory reads the inventory with its lines and checks the status.
\* A line without a count, or without a variance, moves nothing.
ValidateCheck(r) ==
  /\ pc[r] = "idle"
  /\ inventory # "NONE"
  /\ \/ /\ inventory = "DRAFT"
        /\ pc' = [pc EXCEPT ![r] = "checked"]
        /\ legs' = [legs EXCEPT ![r] =
             IF counted \in {NoValue, theoretical} THEN <<>>
             ELSE <<At(InventorySite, counted - theoretical)>>]
     \/ /\ inventory = "VALIDATED"
        /\ pc' = [pc EXCEPT ![r] = "refused"]
        /\ UNCHANGED legs
  /\ UNCHANGED <<stock, moved, read, written, posted, lockVars, inventoryVars,
                 history>>

\* Its transaction writes the variance of the line first, unless the line has
\* no count.
ValidateOpen(r) ==
  /\ pc[r] = "checked"
  /\ \/ lineLock = Nobody /\ lineLock' = r
     \/ legs[r] = <<>> /\ UNCHANGED lineLock
  /\ Opens(r, legs[r], IF legs[r] = <<>> THEN Nothing
                       ELSE Entry(InventorySite, Head(legs[r]).delta))
  /\ UNCHANGED <<stock, moved, read, written, siteLock, inventoryVars, history>>

-------------------------------------------------------------------------------
(* applyStock, commit and rollback *)

Calls(r) == pc[r] = "open" /\ legs[r] # <<>>

\* Variant of Seen: only its own write, or nothing.
SeenOwn(r, s) == written[r][s]

\* The row as r sees it: its own write, or what is committed.
Seen(r, s) == IF written[r][s] = NoValue THEN stock[s] ELSE written[r][s]

ReadRow(r) ==
  /\ Calls(r)
  /\ read[r] = NoValue
  /\ read' = [read EXCEPT ![r] = Seen(r, Head(legs[r]).site)]
  /\ UNCHANGED <<stock, moved, pc, legs, written, posted, lockVars,
                 inventoryVars, history>>

\* The update waits for the writer that holds the row.
WriteRow(r) ==
  /\ Calls(r)
  /\ read[r] # NoValue
  /\ LET s == Head(legs[r]).site IN
       /\ \A q \in Writers \ {r} : written[q][s] = NoValue
       /\ written' = [written EXCEPT ![r][s] = read[r] + Head(legs[r]).delta]
  /\ legs' = [legs EXCEPT ![r] = Tail(@)]
  /\ read' = [read EXCEPT ![r] = NoValue]
  /\ UNCHANGED <<stock, moved, pc, posted, lockVars, inventoryVars, history>>

\* Whatever ends a transaction gives its locks and its uncommitted rows back.
Ends(r, how) ==
  /\ pc' = [pc EXCEPT ![r] = how]
  /\ legs' = [legs EXCEPT ![r] = <<>>]
  /\ read' = [read EXCEPT ![r] = NoValue]
  /\ written' = [written EXCEPT ![r] = Unwritten]
  /\ posted' = [posted EXCEPT ![r] = Nothing]
  /\ siteLock' = [s \in Sites |-> IF siteLock[s] = r THEN Nobody ELSE siteLock[s]]
  /\ lineLock' = IF lineLock = r THEN Nobody ELSE lineLock

\* The others that have read a row r is about to commit, and will write it.
Overtaken(r) ==
  {q \in Writers \ {r} : /\ legs[q] # <<>> /\ read[q] # NoValue
                         /\ written[r][Head(legs[q]).site] # NoValue}

Touches(r) == {s \in Sites : written[r][s] # NoValue}

\* Variant of Commit: the validated status is written by a transaction of its
\* own, which may not come.
CommitNoStatus(r) ==
  /\ pc[r] = "open" /\ legs[r] = <<>>
  /\ stock' = [s \in Sites |-> Seen(r, s)]
  /\ moved' = [s \in Sites |-> moved[s] + posted[r][s]]
  /\ applied' = IF r \in Validators
                THEN [applied EXCEPT ![r] = posted[r][InventorySite]] ELSE applied
  /\ stale' = stale \union (Overtaken(r) \X {r})
  /\ diverged' = IF \E q \in Writers : <<r, q>> \in stale
                 THEN diverged \union Touches(r) ELSE diverged
  /\ Ends(r, "done")
  /\ UNCHANGED inventoryVars

\* The movements are inserted and, after a validation, the status is written.
Commit(r) ==
  /\ pc[r] = "open" /\ legs[r] = <<>>
  /\ stock' = [s \in Sites |-> Seen(r, s)]
  /\ moved' = [s \in Sites |-> moved[s] + posted[r][s]]
  /\ inventory' = IF r \in Validators THEN "VALIDATED" ELSE inventory
  /\ applied' = IF r \in Validators
                THEN [applied EXCEPT ![r] = posted[r][InventorySite]] ELSE applied
  /\ stale' = stale \union (Overtaken(r) \X {r})
  /\ diverged' = IF \E q \in Writers : <<r, q>> \in stale
                 THEN diverged \union Touches(r) ELSE diverged
  /\ Ends(r, "done")
  /\ UNCHANGED <<theoretical, counted>>

\* A failed statement, the transaction timeout or a lost connection.
Abort(r) ==
  /\ pc[r] = "open"
  /\ Ends(r, "refused")
  /\ UNCHANGED <<stock, moved, inventoryVars, history>>

-------------------------------------------------------------------------------
Next ==
  \/ \E r \in Movers : Move(r)
  \/ \E r \in Adjusters : AdjustRead(r) \/ AdjustOpen(r)
  \/ \E r \in Assistants : Assist(r)
  \/ CreateInventory
  \/ \E r \in Counters : CountCheck(r) \/ CountWrite(r)
  \/ \E r \in Validators : ValidateCheck(r) \/ ValidateOpen(r)
  \/ \E r \in Writers : ReadRow(r) \/ WriteRow(r) \/ Commit(r) \/ Abort(r)

Spec == Init /\ [][Next]_vars

-------------------------------------------------------------------------------
(* Properties that hold *)

\* As long as no request has written over a row that changed after it read it,
\* the stock rows are a ledger: a request moves what its movements say in one
\* step or nothing, a transfer that fails half-way included, and an inventory is
\* validated in the step that corrects the stock.
Ledger == INSTANCE StockLedger WITH
  Sites <- Sites, InventorySite <- InventorySite,
  Movements <- Writers \ Validators, Corrections <- Validators,
  balance <- [s \in Sites |-> IF s \in diverged THEN moved[s] ELSE stock[s]],
  announced <- posted, inventory <- inventory
IsLedger == Ledger!Spec

\* The stock differs from its movements only where a request has written over
\* a row that changed after it read it: nothing else loses a movement.
DivergesOnlyByOvertaking ==
  \A s \in Sites : stock[s] # moved[s] => s \in diverged

\* What a movement has read is overtaken by the assistant or by an inventory
\* only: the ProductSite rows keep the movements and the adjustments of a site
\* apart, and hold an adjustment off until a movement has committed.
MovementsReadFresh ==
  \A p \in stale : p[1] \in Movers => p[2] \in Assistants \union Validators

\* A validated inventory has been applied, and an inventory that is not
\* validated has not: the status and the corrections commit together.
StatusTellsApplied ==
  inventory = "VALIDATED" <=> \E r \in Validators : applied[r] # NoValue

-------------------------------------------------------------------------------
(* A property the repository states and the code does not keep *)

\* An inventory is validated, and its variances applied, once.
AppliedOnce ==
  \A r, q \in Validators :
    applied[r] \notin {0, NoValue} /\ applied[q] \notin {0, NoValue} => r = q
===============================================================================
