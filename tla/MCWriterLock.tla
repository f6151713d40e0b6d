---------------------------- MODULE MCWriterLock ----------------------------
(* WriterLock with three containers: the first uses a pid twice, the others share an identity. *)
EXTENDS WriterLock

CONSTANTS p1, p2, p3, p4, p5, h1, h2, h3, g1, g2

MCHost == [p \in Procs |-> IF p = p4 THEN h2 ELSE IF p = p5 THEN h3 ELSE h1]
MCPid == [p \in Procs |-> IF p = p3 THEN 22 ELSE 21]
MCGeneration == [p \in Procs |-> IF p \in {p4, p5} THEN g2 ELSE g1]
=============================================================================
