CONSTANTS
    Calls = {c1}
    None = None
    SeqMod = 2
    Wire = 1
    MaxEvents = 2
    Closers = {"client", "server"}
SPECIFICATION FairSpec
CHECK_DEADLOCK FALSE
PROPERTIES CallReturns ServerForgetsClient
