SPECIFICATION Spec
CONSTANTS
  Values = {v1, v2}
  None = None
  MaxDepth = 4
  MaxCalls = 2
INVARIANTS HandlersMatchPosition
PROPERTIES ImplementsECMA FinallyBeforeLeaving
