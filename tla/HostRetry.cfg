\* One world that goes on after a failed tick, one native reducer.
CONSTANTS
    w1 = w1
    World = {w1}
    Name = {"n"}
    Native = {"n"}
    Policy = "Continue"
    NRows = 2
    MaxHostCalls = 1
    MaxFuel = 2
    MaxPages = 2
    MaxScan = 1
    MaxEvents = 1
    PerTick = 2
    NativeOps = 2
    MaxCalls = 2
SPECIFICATION HostFairSpec
CHECK_DEADLOCK FALSE
PROPERTY CallsGetAnswered
