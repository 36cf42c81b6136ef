\* Two campaigns that need three units between them, and two in stock.
CONSTANTS
  o1 = o1  o2 = o2  b1 = b1  b2 = b2  b3 = b3
  Orders = {o1, o2}
  Batches = {b1, b2, b3}
  OrderOf <- MCOrderOf
  NextDay = {o1}
  InitialStock = 2
  Plans <- MCPlans
  MaxStock = 1
  MaxRemoved = 1
SPECIFICATION Spec
SYMMETRY MCSymmetry
INVARIANTS
  TypeOK
  OutputPostedOnce
  ReservationsBacked
  ClosedHoldsNothing
  ProducedFromComponents
  OutputHasComponents
CHECK_DEADLOCK FALSE
