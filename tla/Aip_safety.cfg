CONSTANTS
    Calls = {c1, c2}
    None = None
    SeqMod = 2
    Wire = 1
    MaxEvents = 1
    Closers = {"client", "server"}
SPECIFICATION Spec
CHECK_DEADLOCK FALSE
SYMMETRY Symmetry
INVARIANTS OwnAnswer ReadLoopNotHeldUp
