SPECIFICATION FairSpec
CONSTANTS
  Generators = {1, 2}
  MaxAsked = 2
  MaxAwaits = 2
CHECK_DEADLOCK FALSE
INVARIANTS OneBody QueueExact
PROPERTIES ImplementsRequestQueue EveryRequestAnswered
