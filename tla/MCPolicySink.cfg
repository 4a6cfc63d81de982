\* Every interleaving of two publishers, the drainer and Stop.
SPECIFICATION FairSinkSpec
CONSTANTS
  Publishers = {p1, p2}
  Transitions = {t1, t2, t3}
  NoTransition = NoTransition
  QueueCap = 1
  MaxAttempts = 2
INVARIANTS
  OnlyStopLosesEvents
  RepeatsBounded
PROPERTIES
  EveryTransitionAudited
  QueuedIsSettled
  StopReturns
CHECK_DEADLOCK FALSE
