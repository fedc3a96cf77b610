---------------------------- MODULE MCInteraction ----------------------------
(* A small instance of Interaction for TLC.                                 *)
EXTENDS Interaction, TLC

CONSTANTS a1, a2, s

\* Two asks; if both are approvals, they are for the same command.
TwoAsks  == {a1, a2}
SameCall == [q \in TwoAsks |-> s]
AskSymmetry == Permutations(Asks)
=============================================================================
