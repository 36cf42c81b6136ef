\* Two validations of one inventory, sent before either has committed.
CONSTANTS
  Sites = {s1}
  InventorySite = s1
  Movers = {}
  Adjusters = {}
  Assistants = {}
  Validators = {v1, v2}
  Counters = {c1}
  Quantities = {1}
  Counts = {3}
  InitialStock = 2
  Nobody = Nobody
  NoValue = NoValue
SPECIFICATION Spec
INVARIANTS
  AppliedOnce
CHECK_DEADLOCK FALSE
