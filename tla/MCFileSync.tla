----------------------------- MODULE MCFileSync -----------------------------
EXTENDS FileSync

CONSTANTS f1, f2, x, y, z

MCContents == [1..NumChunks -> Chunks]

MCSizeOf == [c \in MCContents |-> NumChunks]
\* No child; a child nested on both sides; one nested on one side only.
MCTerritories ==
    LET own == {{}, {f1}} IN [local : own, remote : own]
=============================================================================
