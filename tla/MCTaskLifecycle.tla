--------------------------- MODULE MCTaskLifecycle ---------------------------
(* Instances of TaskLifecycle: tasks that share a name, and a named queue    *)
(* that holds one task at a time.                                            *)
EXTENDS TaskLifecycle

CONSTANTS a, b, c, shared, other

SameName == [t \in Tasks |-> 1]
OwnNames == [t \in Tasks |-> CASE t = a -> 1 [] t = b -> 2 [] OTHER -> 3]

\* a and b are in a queue of their own, c is in the default one.
TwoQueues == [t \in Tasks |-> IF t = c THEN other ELSE shared]
OneQueue == [t \in Tasks |-> other]
SharedHoldsOne == [q \in {shared, other} |-> IF q = shared THEN 1 ELSE 0]
=============================================================================
