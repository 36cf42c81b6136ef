\* Two delivery notes, two validations, an update and a clerk.
CONSTANTS
  l1 = l1  l2 = l2  r1 = r1  r2 = r2
  v1 = v1  v2 = v2
  x1 = x1  x2 = x2  u1 = u1  c1 = c1  k1 = k1
  Lines <- MCLines
  Ordered <- MCOrdered
  Contents <- MCNotes
  Products = {x1, x2}
  Receipts = {r1, r2}
  Validations = {v1, v2}
  Updates = {u1}
  Clerks = {c1}
  Consumers = {k1}
  NoProduct = NoProduct
  NoReceipt = NoReceipt
SPECIFICATION Spec
SYMMETRY MCSymmetry
CHECK_DEADLOCK FALSE
INVARIANTS
  TypeOK
  PostedOnce
  PartialHasGoods
  ReceivedIsInStock
  ReceivedIsFulfilled
PROPERTY ReceptionSpec
