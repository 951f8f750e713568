------------------------------ MODULE MCArchive ------------------------------
\* An instance of ArchiveService for TLC: a snapshot of a workspace and an export from
\* it, a restore, and the deletion of either workspace.
EXTENDS ArchiveService, TLC

MCTarget == [snap1 |-> "ws", art1 |-> "ws", restore1 |-> "new", delete1 |-> "ws",
             delete2 |-> "new"]
MCSource == [restore1 |-> "snap1"]
MCExported == [art1 |-> "a"]

\* What is in a file matters only as equal or different.
AnyVersion == Permutations(Versions)
==============================================================================
