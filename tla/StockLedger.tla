----------------------------- MODULE StockLedger -----------------------------
(***************************************************************************)
(* What the stock of one product promises.  A request that is accepted     *)
(* announces what it will move: an amount in or out of one site, a         *)
(* transfer between two, or the correction of the counted site.  It then   *)
(* either moves exactly that, in one step, or nothing.  The step of a      *)
(* correction is the one that makes the inventory validated.               *)
(***************************************************************************)
EXTENDS Integers

CONSTANTS
  Sites, InventorySite,
  Movements,   \* requests that move stock
  Corrections  \* requests that validate the inventory

VARIABLES balance, announced, inventory

ledger == <<balance, announced, inventory>>

Entries == Movements \union Corrections
Nothing == [s \in Sites |-> 0]

InOneSite(move) == \E s \in Sites : \A t \in Sites \ {s} : move[t] = 0

BetweenTwo(move) ==
  \E s, t \in Sites : /\ s # t /\ move[s] + move[t] = 0
                      /\ \A u \in Sites \ {s, t} : move[u] = 0

Init ==
  /\ balance \in [Sites -> Int]
  /\ announced = [e \in Entries |-> Nothing]
  /\ inventory = "NONE"

Open == inventory = "NONE" /\ inventory' = "DRAFT" /\ UNCHANGED <<balance, announced>>

Announce(e) ==
  /\ announced[e] = Nothing
  /\ announced' = [announced EXCEPT ![e] = announced'[e]]
  /\ announced'[e] \in [Sites -> Int]
  /\ \/ InOneSite(announced'[e])
     \/ BetweenTwo(announced'[e])
  /\ e \in Corrections => \A s \in Sites \ {InventorySite} : announced'[e][s] = 0
  /\ UNCHANGED <<balance, inventory>>

Withdraw(e) ==
  /\ announced' = [announced EXCEPT ![e] = Nothing]
  /\ UNCHANGED <<balance, inventory>>

\* A validated inventory may be corrected again, as the code allows.
Move(e) ==
  /\ balance' = [s \in Sites |-> balance[s] + announced[e][s]]
  /\ announced' = [announced EXCEPT ![e] = Nothing]
  /\ IF e \in Corrections
     THEN inventory # "NONE" /\ inventory' = "VALIDATED"
     ELSE UNCHANGED inventory

Next == Open \/ \E e \in Entries : Announce(e) \/ Withdraw(e) \/ Move(e)

Spec == Init /\ [][Next]_ledger
===============================================================================
