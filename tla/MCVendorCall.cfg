\* Both clients, with the default cap.
SPECIFICATION CallSpec
CONSTANTS
  Clients = {"http", "onfido"}
  maxAttempts = 5
INVARIANTS
  GivesUpAtTheCap
  NoBodyLeaked
PROPERTIES
  CallEnds
CHECK_DEADLOCK FALSE
