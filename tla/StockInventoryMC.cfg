CONSTANTS
  Sites = {s1, s2}
  InventorySite = s1
  Movers = {m1}
  Adjusters = {a1}
  Assistants = {i1}
  Validators = {v1}
  Counters = {c1}
  Quantities = {1}
  Counts = {0, 3}
  InitialStock = 2
  Nobody = Nobody
  NoValue = NoValue
SPECIFICATION Spec
INVARIANTS
  TypeOK
  DivergesOnlyByOvertaking
  MovementsReadFresh
  StatusTellsApplied
PROPERTIES
  IsLedger
CHECK_DEADLOCK FALSE
