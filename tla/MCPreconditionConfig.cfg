SPECIFICATION FairSpec
CONSTANTS
  ConfigModes = {"ONCE", "CONTINUOUS", "PERSISTENT"}
  Commands = {}
  Callers = {c1}
  Debounce = 1
  CarStartDelay = 2
  RetryAfter = 2
  StartedTimeout = 3
  NudgeInterval = 4
  MaxRetries = 2
  StartTicks = 2
  StopTicks = 2
INVARIANTS
  LatchFollowsSession
  OnceRetryBudget
PROPERTIES
  ImplementsSession
  AttemptsResolve
