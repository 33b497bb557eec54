SPECIFICATION CanSpec
CONSTANTS
  Senders = {s1, s2}
  Controllers = {c1}
  Recovery = rec
  Slots = {1, 2}
  Configs = {normal}
  None = none
  Texts = {t1, t2}
  HeadText = head
  Families = {apps, bluetooth}
  Fallback = apps
  Silent = silent
  TriggerFrames = 3
  QueueDepth = 1
  TxDepthMcp = 2
  Workloads <- MixedLoads
INVARIANTS
  SlotsHeld
  PermitsKept
  TxPipeline
  HoldShowsText
  NoAnswerLeaks
PROPERTIES
  NodeLives
  BusOffEnds
  FlagsServed
  QueueDrains
