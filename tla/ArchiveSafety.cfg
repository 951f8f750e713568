SPECIFICATION Spec
CONSTANTS
    FaultKinds = {"write", "commit", "fs", "archive", "crash"}
    MaxFaults = 1
    Workspaces = {"ws", "new"}
    Snapshots = {"snap1"}
    Exports = {"art1"}
    Restores = {"restore1"}
    Deletes = {"delete1", "delete2"}
    Target <- MCTarget
    Source <- MCSource
    Files = {"a", "log"}
    Skipped = {"log"}
    Versions = {v1, v2}
    Exported <- MCExported
    Nothing = Nothing
    MaxEdits = 1
    Cancellable = {"restore1", "snap1"}
INVARIANTS RowHasFile FailedRestoreCleaned NoStrayFile ReportedDurable
PROPERTIES RestoredAsItWas
SYMMETRY AnyVersion
