\* Two users, three ids that callers may reuse, every version and target.
SPECIFICATION Spec
CONSTANTS
  NoApp = NoApp
  Users = {u1, u2}
  AppIds = {a1, a2, a3}
  Actors = {"caller"}
  MaxVersion = 6
INVARIANTS
  TypeOK
  OwnerIndexed
  TrailReplays
  DecidedIsScheduled
PROPERTIES
  VersionNamesContent
  ImplementsLifecycle
CHECK_DEADLOCK FALSE
