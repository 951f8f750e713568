SPECIFICATION Spec
CONSTANTS
    Clients = {"c1", "c2"}
    Envs = {e1}
    NoEnv = NoEnv
    Workspaces = {"wsA", "wsB"}
    NoWs = NoWs
    Execs = {"x0", "x1"}
    Streams = {}
    By <- MCBy
    Home <- MCHome
    Timeout <- MCTimeout
    MaxOutput = 2
    Kind <- MCKind
    Mark = Mark
    FaultKinds = {}
    MaxFaults = 0
INVARIANT OwnWorkspace

CHECK_DEADLOCK FALSE
