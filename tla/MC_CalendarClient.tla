------------------------- MODULE MC_CalendarClient -------------------------
(* Two calls that race for the same event.                                 *)
EXTENDS CalendarClient, TLC

CONSTANTS c1, c2, k1

TwoCalls == {c1, c2}
OneKey == {k1}
RaceForOne == (c1 :> k1) @@ (c2 :> k1)
=============================================================================
