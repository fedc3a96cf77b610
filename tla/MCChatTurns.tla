---------------------------- MODULE MCChatTurns ----------------------------
(* Small instances of ChatTurns for TLC.                                    *)
EXTENDS ChatTurns, TLC

CONSTANTS t1, t2, t3, c1, socket, workflow

MCTurns == {t1, t2, t3}
Pair    == {t1, t2}

\* Messages and follow-ups race in one conversation.
OneConv   == {c1}
SameConv  == [t \in Turns |-> c1]

OneCaller   == {socket}
FromSocket  == [t \in Turns |-> socket]
\* One request comes from a workflow's chat trigger (Gateway.StartChat).
TwoCallers  == {socket, workflow}
MixedCaller == [t \in Turns |-> IF t = t2 THEN workflow ELSE socket]

\* The two turns of the socket are interchangeable.
SocketSymmetry == Permutations({t1, t3})
=============================================================================
