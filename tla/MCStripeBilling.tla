-------------------------- MODULE MCStripeBilling --------------------------
(* Instance of StripeBilling for TLC.                                      *)
EXTENDS StripeBilling

CONSTANTS s1, s2, r1, r2

Ask(type, ref, amount) == [type |-> type, ref |-> ref, amount |-> amount]

(* Two reservations, so that closing one twice would draw on the other;    *)
(* one is closed, also with a wrong amount.                                *)
MCRequests ==
  {Ask("reserve", r1, 1), Ask("reserve", r2, 1), Ask("spend", r1, 1),
   Ask("release", r1, 1), Ask("spend", r1, 2)}

MCReferences == {r1, r2}

MCSessions == {s1, s2}

=============================================================================
