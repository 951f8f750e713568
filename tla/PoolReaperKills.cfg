SPECIFICATION Spec
CONSTANTS
    Clients = {c1, c2}
    Envs = {e1, e2, e3, e4}
    NoEnv = NoEnv
    MinIdle = 2
    MaxSize = 2
    Cancellable = {}
    FaultKinds = {}
    MaxFaults = 0
SYMMETRY Symmetry
INVARIANT ReaperNeverTouchesInUse
