---------------------------- MODULE MCAgentStream ----------------------------
(* Small instances of AgentStream for TLC.                                  *)
EXTENDS AgentStream

CONSTANTS p1, p2, s1

OnePrompt  == {p1}
TwoPrompts == {p1, p2}
OneSession == {s1}
\* A follow-up reuses its predecessor's session.
FollowUp   == [p \in Prompts |-> s1]
=============================================================================
