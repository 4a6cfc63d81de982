\* Two instances starting together, one operator, three migrations.
SPECIFICATION FairMigrationsSpec
CONSTANTS
  Instances = {i1, i2}
  Operators = {o1}
  N = 3
  MaxCrashes = 2
  MaxDowns = 2
INVARIANTS
  RecordedIsInEffect
PROPERTIES
  SucceedsOnFullSchema
  EveryInstanceComesUp
