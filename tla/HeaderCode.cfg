SPECIFICATION FairSpec
CONSTANTS
  Threads = {t1, t2, t3}
  MaxWaits = 2
  FVecs = {0, 1, 2, 3}
  IVecs = {96}
  Bools = {104}
  Types = {vertex}
  Matrices = {m, n}
  Numbers = {257}
  BoundTo = vertex
  BoundAt = 0
  Rows = 2
  StackSize = 2
  Binding = "C"
  Commands = {0, 32767}
  Normals = {0, 1, 63}
  MaxItems = 2
  HandleNumbers = {1, 2, 62}
  StaticSizes = {0, 262143}
  PXISizes = {0, 16777215}
  BufferSizes = {0, 268435455}
  BufferIds = {0, 15}
  Sides = {8, 16, 64}
  Depths = {4, 16, 32}
  Biases = {257, 9000}
  Centers = {0, 2, 4}
  MaxSize = 32
  Reach = 1
INVARIANTS UpToDate ReadAsBuilt LevelsTile SamplesAsAsked CenterKept TurnsTogether
PROPERTIES ImplementsAtomicWord SomeoneFinishes
