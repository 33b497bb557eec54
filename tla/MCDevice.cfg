SPECIFICATION DeviceSpec
CONSTANTS
  MaxRetries = 3
  Dispatches = {"start", "stop", "renudge"}
  Configs <- Setups
  MaxEvents = 1
  SleepVolt = 1
  SleepTime = 3
  DataSizes = {2, 3}
  ItemSizes = {1, 3}
  Packets = 2
  MaxBytes = 8
  FilterSets <- NoneOrFour
  RxEnabled = TRUE
  Frames <- SomeFrames
  Arrays <- SomeArrays
  Depth = 2
  BatchMax = 2
INVARIANTS
  NoLostUpdate
  BytesReachPhone
PROPERTIES
  EventuallySaved
  SleepsDark
  Reachable
  SleepEarned
  FiltersServed
CHECK_DEADLOCK FALSE
