SPECIFICATION ServiceSpec
CONSTANTS
  a1 = a1
  a2 = a2
  h1 = h1
  h2 = h2
  NoApp = NoApp
  NoEvent = NoEvent
  Users = {u1}
  AppIds = {a1}
  Actors = {"system", "analyst", "internal", "scheduler", "handler", "h1", "h2"}
  MaxVersion = 20
  Workers = {w1}
  EventIds = {"h1", "h2"}
  Events <- NoEvents
  VendorProvider = "stub"
  MaxDeliveries = 1
  MaxRestarts = 0
  Slots = {h1, h2}
  MaxHits = 1
  ScreeningThreshold = 1
  SchedulerStarted = FALSE
  Budget <- Documents
INVARIANTS
  CompleteDocumentsAdvance
SYMMETRY SlotSymmetry
CHECK_DEADLOCK FALSE
