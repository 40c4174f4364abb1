SPECIFICATION FairSpec
CONSTANTS
  Relays = 2
  Alive <- LastAlive
  ConnectTimeout = 1
  Deadline = 2
  BackoffMax = 2
  MaxBook = 2
  MaxEpoch = 2
  None = None
CHECK_DEADLOCK FALSE
INVARIANTS RegistrationCurrent FailureHonest
PROPERTIES FailsOver
