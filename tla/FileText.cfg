SPECIFICATION Spec
CONSTANTS
    Letters = {"a", "b"}
    MaxPattern = 5
    MaxPath = 4
INVARIANTS GlobAgrees PagesCover
CHECK_DEADLOCK FALSE
