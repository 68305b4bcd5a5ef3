----------------------------- MODULE MCPushSync -----------------------------
EXTENDS PushSync

CONSTANTS f1, f2, a, b, big

\* Two contents of the same length: only the mtime can tell them apart in a lite scan.
MCSizeOf == [c \in Contents |-> IF c = big THEN 2 ELSE 1]
\* No child, or children in the folder of which one is nested remotely as well.
MCTerritories == {[local |-> {}, remote |-> {}], [local |-> {f1, f2}, remote |-> {f2}]}

\* a and b are interchangeable, so the folder starts without b; one file starts large.
MCInit == Init /\ DataOf(local[f1]) # b /\ DataOf(local[f2]) \in {None, a}

MCSpec == MCInit /\ [][Next]_vars /\ WF_vars(PushStep)
=============================================================================
