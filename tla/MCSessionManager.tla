-------------------------- MODULE MCSessionManager --------------------------
(* Small instances of SessionManager for TLC.                               *)
EXTENDS SessionManager

CONSTANTS g1, g2, g3, k1, k2, warm

MCCallers == {g1, g2, g3}
MCKeys    == {k1, k2}
\* Two callers race for one conversation; a third has its own.
MCKeyOf   == [g \in MCCallers |-> IF g = g3 THEN k2 ELSE k1]
MCIds     == 1..4
=============================================================================
