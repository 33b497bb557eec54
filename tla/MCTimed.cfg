SPECIFICATION TimedSpec
CONSTANTS
  Triggers <- MCTriggers
  Rules <- MCRules
  Tags = {0, 1}
  Cooldown = 1
  Window = 1
  ResetAfter = 1
  VerifyAfter = 1
  Oldest = 2
  Clients = {c1}
  Sizes = {2}
  BlockSizes = {0}
  MaxWait = 1
  SeqModulus = 2
PROPERTIES
  OncePerPress
  ClicksInWindow
  ComboHeld
  
  EveryTransferEnds
