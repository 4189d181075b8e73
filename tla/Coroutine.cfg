SPECIFICATION CoSpec
CONSTANTS
  Generators = {g}
  AsyncFunctions = {}
  AsyncGenerators = {h}
  Plain = plain
  Values = {0, 1}
  MaxOps = 1
  MaxFrames = 3
  MaxStack = 6
INVARIANTS FramesIntact OneVariable
