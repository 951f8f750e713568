SPECIFICATION Spec
CONSTANTS
    Clients = {c1, c2, c3}
    Envs = {e1, e2, e3, e4}
    NoEnv = NoEnv
    MinIdle = 1
    MaxSize = 2
    Cancellable = {c3}
    FaultKinds = {"crash", "create", "destroy"}
    MaxFaults = 1
SYMMETRY Symmetry
INVARIANTS TypeOK SlotsAccounted TotalBounded StrictBound OneOwner ReaperSparesLeased ShutdownClean
PROPERTIES NoContainerLost ServiceSpec
