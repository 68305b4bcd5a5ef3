---- MODULE OutsideEvents ----
\* The models of the client's services know a value None, and draw what happens to
\* them from outside (edits by the user, failing calls, restarts) from one budget.
EXTENDS Naturals

CONSTANTS
    None,
    MaxEvents   \* bound: events from outside in one behaviour

ASSUME MaxEventsIsNat == MaxEvents \in Nat

VARIABLE spare      \* how many of them may still happen

Event == spare > 0 /\ spare' = spare - 1
====
