SPECIFICATION Spec
CONSTANTS
  ConfigModes = {"ONCE"}
  Commands = {"ONCE", "PERSISTENT", "cancel"}
  Callers = {c1}
  Debounce = 0
  CarStartDelay = 1
  RetryAfter = 1
  StartedTimeout = 2
  NudgeInterval = 2
  MaxRetries = 1
  StartTicks = 2
  StopTicks = 2
INVARIANTS
  CarOffStartsNothing
