SPECIFICATION FairSpec
CONSTANTS
    Clients = {"c1", "c2"}
    Envs = {e1}
    NoEnv = NoEnv
    Workspaces = {"wsA", "wsB"}
    NoWs = NoWs
    Execs = {"s1", "x1"}
    Streams = {"s1"}
    By <- MCBy
    Home <- MCHome
    Timeout <- MCTimeout
    MaxOutput = 2
    Kind <- MCKind
    Mark = Mark
    FaultKinds = {"pull", "start", "install", "rollback", "cancel", "crash", "destroy", "stream", "link"}
    MaxFaults = 1
INVARIANTS ResultHonest OwnWhileAlone HandedOutWorks
PROPERTIES ExecEnds
CHECK_DEADLOCK FALSE
