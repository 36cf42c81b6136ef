------------------------- MODULE PurchaseOrderPolicy -------------------------
(***************************************************************************)
(* The status table of a purchase order (purchase-order.policy.ts) and the *)
(* two questions every purchasing service asks of it.                      *)
(***************************************************************************)

OrderStatus ==
  {"DRAFT", "SENT", "ACKNOWLEDGED", "PARTIALLY_RECEIVED", "RECEIVED",
   "CLOSED", "CANCELLED"}

\* An order whose row was deleted has no status; every look-up of it fails.
Deleted == "deleted"

\* TRANSITIONS: the statuses each status may be followed by.
Transitions ==
  [DRAFT              |-> {"SENT", "CANCELLED"},
   SENT               |-> {"ACKNOWLEDGED", "CANCELLED"},
   ACKNOWLEDGED       |-> {"PARTIALLY_RECEIVED", "RECEIVED", "CANCELLED"},
   PARTIALLY_RECEIVED |-> {"PARTIALLY_RECEIVED", "RECEIVED", "CLOSED"},
   RECEIVED           |-> {},
   CLOSED             |-> {},
   CANCELLED          |-> {}]

\* canTransition, and assertTransition as a guard.
CanTransition(from, to) == from \in OrderStatus /\ to \in Transitions[from]

\* assertMutable: the content of an order changes in DRAFT only.
Mutable(status) == status = "DRAFT"
==============================================================================
