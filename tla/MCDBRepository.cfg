\* Two overlapping calls on one user's applications, one of them may be lost.
SPECIFICATION DBSpec
CONSTANTS
  NoApp = NoApp
  Users = {u1}
  AppIds = {a1, a2, a3}
  Callers = {c1, c2}
  FirstStates <- StartedOrAlmostDecided
  MaxVersion = 3
  MaxCrashes = 1
INVARIANTS
  OneActivePerUser
  DecidedRowIsScheduled
  NoUserForgotten
  AnnouncementsAccounted
  CommitsReplay
PROPERTIES
  RowVersionNamesContent
  ImplementsLifecycleUnlessRaced
SYMMETRY IdSymmetry
CHECK_DEADLOCK FALSE
