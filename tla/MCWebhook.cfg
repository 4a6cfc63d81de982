\* Overlapping deliveries of every kind of event, a restart, other handlers.
SPECIFICATION HookSpec
CONSTANTS
  a1 = a1
  NoApp = NoApp
  NoEvent = NoEvent
  Users = {u1}
  AppIds = {a1}
  Actors = {"handler", "h1", "no-id"}
  MaxVersion = 5
  Workers = {w1, w2}
  EventIds = {"h1"}
  Events <- Mixed
  VendorProvider = "stub"
  MaxDeliveries = 3
  MaxRestarts = 1
INVARIANTS
  AdvancesOncePerProcess
  SkippedOnlyOnRetry
PROPERTIES
  AdvancesWhatItRead
  EveryEventAcknowledged
CHECK_DEADLOCK FALSE
