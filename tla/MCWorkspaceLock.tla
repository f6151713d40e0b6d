-------------------------- MODULE MCWorkspaceLock --------------------------
(* WorkspaceLock on small sets of processes and calls. *)
EXTENDS WorkspaceLock

CONSTANTS p1, p2, p3, a1, a2, b1, b2, c1

\* Two calls of each of two processes, and one of a third.
MCProc == [a \in Acquires |-> IF a \in {a1, a2} THEN p1 ELSE IF a \in {b1, b2} THEN p2 ELSE p3]
============================================================================
