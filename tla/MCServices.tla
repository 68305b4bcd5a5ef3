----------------------------- MODULE MCServices -----------------------------
EXTENDS Services

CONSTANTS c1, c2, h1, h2, k1, k2, q1, q2, x1, x2, l1, l2, r1, a1, a2, f1, f2,
          top, sub, doc, link, old, new

MCBound == [configuration |-> 2, requests |-> 2, activity |-> 1, update |-> 3,
            events |-> 3, migration |-> 2]

\* sub lies inside top, as when the local folder is widened to its parent.
MCUnder == [r \in Roots |-> IF r = top THEN {top, sub} ELSE {sub}]

\* Hosts, keys and contents are interchangeable; a service that does not run starts
\* in one state only.
MCInit ==
    /\ Init
    /\ conn = [c \in Conns |-> [host |-> h1, key |-> k1]]
    /\ local = [n \in Names |-> old]
    /\ part = "configuration" \/ mem = Blank
    /\ part = "activity" \/ files = {}
    /\ sse = (IF part = "events" THEN "connecting" ELSE "open")
    /\ part = "migration" \/ (root = top /\ remote[Plain(root, doc)] # None)

MCSpec == MCInit /\ [][Next]_allVars /\ Fairness
=============================================================================
