SPECIFICATION HookSpec
CONSTANTS
  a1 = a1
  NoApp = NoApp
  NoEvent = NoEvent
  Users = {u1}
  AppIds = {a1}
  Actors = {"handler", "h1", "h2", "no-id"}
  MaxVersion = 7
  Workers = {w1, w2}
  EventIds = {"h1", "h2"}
  Events <- Clearance
  VendorProvider = "stub"
  MaxDeliveries = 2
  MaxRestarts = 1
INVARIANTS
  ReplayNeverAdvancesTwice
CHECK_DEADLOCK FALSE
