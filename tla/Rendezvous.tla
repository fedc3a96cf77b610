------------------------------ MODULE Rendezvous ------------------------------
(***************************************************************************)
(* What the interaction broker promises whoever asks the user something:   *)
(* one outcome per question, never revised, and an answer only if the user *)
(* gave that answer to that question.                                      *)
(***************************************************************************)
CONSTANTS Asks, Answers, Excuses, None

VARIABLES
    clicked,  \* pairs <<ask, answer>> the user has given
    outcome   \* what each ask was told, None while it is open

Init == clicked = {} /\ outcome = [q \in Asks |-> None]

Answer(q, o) == clicked' = clicked \cup {<<q, o>>} /\ UNCHANGED outcome

Decide(q) ==
    /\ outcome[q] = None
    /\ \E d \in Excuses \cup {o \in Answers : <<q, o>> \in clicked} :
          outcome' = [outcome EXCEPT ![q] = d]
    /\ UNCHANGED clicked

Next == \E q \in Asks : Decide(q) \/ \E o \in Answers : Answer(q, o)

Spec == Init /\ [][Next]_<<clicked, outcome>>
=============================================================================
