\* Requests and webhook deliveries together, across a restart of the process.
SPECIFICATION ServiceSpec
CONSTANTS
  a1 = a1
  a2 = a2
  h1 = h1
  h2 = h2
  NoApp = NoApp
  NoEvent = NoEvent
  Users = {u1}
  AppIds = {a1}
  Actors = {"system", "analyst", "internal", "scheduler", "handler", "h1", "h2"}
  MaxVersion = 20
  Workers = {w1}
  EventIds = {"h1", "h2"}
  Events <- ClearAndRefer
  VendorProvider = "stub"
  MaxDeliveries = 2
  MaxRestarts = 1
  Slots = {h1}
  MaxHits = 1
  ScreeningThreshold = 1
  SchedulerStarted = TRUE
  Budget <- ReviewAndRestart
INVARIANTS
  UnreviewedPassExplained
CHECK_DEADLOCK FALSE
