SPECIFICATION EventsSpec
CONSTANTS
    Workspaces = {w}
    Execs = {x1}
    Creates = {}
    Deletes = {d}
    Target <- OneTarget
    Key <- NoKeys
    NoKey = NoKey
    FaultKinds = {"crash", "infra", "write", "commit", "fs"}
    MaxFaults = 2
    ExitCodes = {0}
    NoAnswer = NoAnswer
    EmptyCommands = {}
    Cancellable = {x1}
    Subscribers = {s1, s2}
    Remote = {s2}
    Events <- MCEvents
    Asked <- MCAsked
    QueueSize = 2
    WireSize = 1
INVARIANTS LossCounted EventsMatchRows
PROPERTIES KeepsOrder
CHECK_DEADLOCK FALSE
