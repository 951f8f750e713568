SPECIFICATION FairSpec
CONSTANTS
    Clients = {c1, c2}
    Envs = {e1, e2, e3}
    NoEnv = NoEnv
    MinIdle = 1
    MaxSize = 1
    Cancellable = {}
    FaultKinds = {"crash"}
    MaxFaults = 1
PROPERTIES ServiceAnswers ShutdownCompletes ScalesBack
