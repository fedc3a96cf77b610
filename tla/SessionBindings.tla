--------------------------- MODULE SessionBindings ---------------------------
(***************************************************************************)
(* What a session manager promises its callers: a bounded table in which a *)
(* conversation is bound to at most one agent session, a session serves    *)
(* one conversation only, and a binding changes only by being dropped.     *)
(***************************************************************************)
EXTENDS Naturals, FiniteSets

CONSTANTS Keys, Ids, MaxSessions, None

VARIABLES
    binding,  \* the session each conversation is bound to
    issued    \* sessions ever bound

Init == binding = [k \in Keys |-> None] /\ issued = {}

Drop(D) == [k \in Keys |-> IF k \in D THEN None ELSE binding[k]]

\* Make room and bind a conversation that has no session to a fresh one.
Bind(k, id) ==
    /\ binding[k] = None
    /\ id \notin issued
    /\ issued' = issued \cup {id}
    /\ \E D \in SUBSET Keys :
          /\ binding' = [Drop(D) EXCEPT ![k] = id]
          /\ Cardinality({j \in Keys : binding'[j] # None}) <= MaxSessions

Forget == \E D \in SUBSET Keys : binding' = Drop(D) /\ UNCHANGED issued

Next == Forget \/ \E k \in Keys, id \in Ids : Bind(k, id)

Spec == Init /\ [][Next]_<<binding, issued>>
=============================================================================
