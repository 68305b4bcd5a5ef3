----------------------------- MODULE MCPullSync -----------------------------
EXTENDS PullSync

CONSTANTS f1, f2, x, y

MCContents == [1..NumChunks -> Chunks]

\* Contents of one length: only the mtime can tell them apart in a lite scan.
MCSizeOf == [c \in MCContents |-> NumChunks]
\* No child, or one: the puller looks at remote paths only.
MCTerritories == [local : {{}}, remote : {{}, {f1}}]
=============================================================================
