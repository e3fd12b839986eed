SPECIFICATION FairSpec
CONSTANTS
  Keys = {k1}
  Consumers = {c1,c2}
  NoOne = NoOne
  MaxRetries = 1
  BatchSize = 2
  MaxLen = 1
  MaxPublish = 2
  MaxFaults = 1
PROPERTIES EventuallyHandled
CHECK_DEADLOCK TRUE
