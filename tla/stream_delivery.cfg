SPECIFICATION Spec
CONSTANTS
  Keys = {k1,k2}
  Consumers = {c1,c2}
  NoOne = NoOne
  MaxRetries = 1
  BatchSize = 2
  MaxLen = 1
  MaxPublish = 2
  MaxFaults = 1
SYMMETRY Symmetry
INVARIANTS TypeOK NoMessageLost RepeatsAreAccountedFor DeadLetterAfterRetries
CHECK_DEADLOCK TRUE
