--------------------------- MODULE ExclusiveLease ---------------------------
(***************************************************************************)
(* What a workspace lock promises its callers: it is granted to one call   *)
(* at a time, to each call at most once, and it ends only when its holder  *)
(* gives it up or the holder's process dies.                               *)
(***************************************************************************)
CONSTANTS Procs, Acquires, Proc, None

VARIABLES holder, granted, alive

vars == <<holder, granted, alive>>

Init == holder = None /\ granted = {} /\ alive = Procs

Grant(a) ==
    /\ holder = None /\ a \notin granted /\ Proc[a] \in alive
    /\ holder' = a /\ granted' = granted \cup {a}
    /\ UNCHANGED alive

GiveUp ==
    /\ holder # None /\ holder' = None
    /\ UNCHANGED <<granted, alive>>

Die(p) ==
    /\ p \in alive /\ alive' = alive \ {p}
    /\ holder' = IF holder # None /\ Proc[holder] = p THEN None ELSE holder
    /\ UNCHANGED granted

Next == (\E a \in Acquires : Grant(a)) \/ GiveUp \/ \E p \in Procs : Die(p)

Spec == Init /\ [][Next]_vars
============================================================================
