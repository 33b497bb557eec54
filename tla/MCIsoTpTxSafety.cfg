SPECIFICATION IsoSpec
CONSTANTS
  Clients = {c1, c2}
  Sizes = {1, 3}
  BlockSizes = {0, 1}
  MaxWait = 1
  SeqModulus = 2
SYMMETRY ClientSymmetry
INVARIANTS
  FramesInOrder
  SuccessIsDelivered
PROPERTIES
  ImplementsService
