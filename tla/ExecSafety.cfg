SPECIFICATION Spec
CONSTANTS
    Workspaces = {w}
    Execs = {x1, x2, x3}
    Creates = {c}
    Deletes = {d}
    Target <- OneTarget
    Key <- OneKey
    NoKey = NoKey
    FaultKinds = {"crash", "infra", "write", "commit", "fs"}
    MaxFaults = 2
    ExitCodes = {0, 124}
    NoAnswer = NoAnswer
    EmptyCommands = {x3}
    Unkeyed = {x3}
    Cancellable = {c, x1, x2}
SYMMETRY Symmetry
INVARIANTS AtMostOnce RunOnRecord SuccessDurable ReadyHasDirectory
PROPERTIES StatusForward KeepsPromise
