------------------------ MODULE PurchaseOrderLifecycle ------------------------
(***************************************************************************)
(* What the purchasing module promises of an order seen from outside: one  *)
(* status, moved only along the table of PurchaseOrderPolicy; a content    *)
(* that is rewritten while the order is a draft and frozen afterwards; and *)
(* a draft, nothing else, may be deleted.                                  *)
(***************************************************************************)
EXTENDS PurchaseOrderPolicy

CONSTANT Contents      \* the contents an order can have

VARIABLES status, content

vars == <<status, content>>

Init == status = "DRAFT" /\ content \in Contents

\* A draft is rewritten.
Edit ==
  /\ Mutable(status)
  /\ content' \in Contents
  /\ UNCHANGED status

\* The order moves along the table, its content untouched.
Move ==
  /\ \E to \in OrderStatus : CanTransition(status, to) /\ status' = to
  /\ UNCHANGED content

\* A draft is deleted.
Delete ==
  /\ Mutable(status)
  /\ status' = Deleted
  /\ UNCHANGED content

Next == Edit \/ Move \/ Delete

Spec == Init /\ [][Next]_vars
===============================================================================
