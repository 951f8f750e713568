SPECIFICATION Spec
CONSTANTS
    Workspaces = {"ws1", "ws2"}
    Names = {"a", "b", ".forge"}
    Meta = ".forge"
    Origin <- MCOrigin
    MaxRead = 5
    ReadLimit = 2
    Requests <- MCRequests
    Batches <- MCBatches
    Texts <- MCTexts
    Targets <- MCTargets
    InitialTrees <- MCTrees
    Refusing = TRUE
    MaxCalls = 1
    MaxBatches = 1
    MaxEdits = 1
INVARIANTS Isolated PutAccounted
PROPERTIES Confined OnlyLateLinks EditExact
CHECK_DEADLOCK FALSE
