\* Two worlds on one worker thread; one native reducer and one WASM reducer.
CONSTANTS
    w1 = w1
    w2 = w2
    World = {w1, w2}
    Name = {"n", "g"}
    Native = {"n"}
    Policy = "Continue"
    NRows = 2
    MaxHostCalls = 2
    MaxFuel = 4
    MaxPages = 2
    MaxScan = 1
    MaxEvents = 1
    PerTick = 2
    NativeOps = 1
    MaxCalls = 2
SPECIFICATION HostSpec
CHECK_DEADLOCK FALSE
INVARIANTS
    CallsAreAtomic
PROPERTIES
    AnswersAreTrue
    GuestsEnd
