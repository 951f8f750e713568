SPECIFICATION FairSpec
CONSTANTS
    Calls = {c1, c2, c3}
    Empty = {c2}
    Timed = {c1, c2}
    Streams = {s1, s2}
    Readers = {s1}
    MaxStarts = 3
    StartFaults = {"connect", "migrate", "cancel"}
    CallFaults = {"statement", "spill", "cancel"}
INVARIANTS DownIsClean RowsSettled
PROPERTIES StopEnds
CHECK_DEADLOCK FALSE
