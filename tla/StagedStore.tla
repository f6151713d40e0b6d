---------------------------- MODULE StagedStore ----------------------------
(***************************************************************************)
(* What the user store promises: operations take effect whole, an          *)
(* acknowledged operation has taken effect, and no effect is ever undone,  *)
(* through crashes and failed saves.                                       *)
(***************************************************************************)
CONSTANT Ops

VARIABLES committed, acked

vars == <<committed, acked>>

Init == committed = {} /\ acked = {}

\* One save may make several operations durable at once.
Commit == /\ committed' \in SUBSET Ops /\ committed \subseteq committed'
          /\ UNCHANGED acked

\* The save that acknowledges an operation has committed it, at the latest in that step.
Acknowledge == /\ committed' \in SUBSET Ops /\ committed \subseteq committed'
               /\ \E op \in committed' : acked' = acked \cup {op}

Next == Commit \/ Acknowledge

Spec == Init /\ [][Next]_vars
============================================================================
