----------------------------- MODULE Interaction -----------------------------
(***************************************************************************)
(* interaction.Broker and the approval gates over it.  An ask posts a      *)
(* prompt with buttons (or, for a form, one button that opens a modal),    *)
(* and blocks its turn until the gateway's event loop delivers a click, a  *)
(* timer fires or the turn's context ends.  Clicks arrive late and twice.  *)
(*                                                                         *)
(* A form's submission is an answer like a click; the approval gate        *)
(* (GateApprover) is the ask of a tool call, with a set of summaries that  *)
(* the user approved for the rest of the run.  A tool call of a headless   *)
(* run has nobody to ask and is not gated.                                 *)
(***************************************************************************)
CONSTANTS
    Asks,       \* correlation ids, one per Ask or AskForm
    Summaries,  \* what a gated tool call would do
    SummaryOf,  \* the summary of each ask that is gated
    None

ASSUME InteractionAssumption ==
    /\ SummaryOf \in [Asks -> Summaries]
    /\ None \notin {"approve", "approve_always", "deny", "submit",
                    "timed out", "cancelled", "failed", "run", "skip"}

Kinds   == {"gate", "headless", "form"}
Answers == {"approve", "approve_always", "deny", "submit"}
Excuses == {"timed out", "cancelled", "failed"}

VARIABLES
    kind,      \* what each ask is
    pc,        \* where each ask is
    pending,   \* Broker.pending and Broker.formPending
    forms,     \* Broker.forms
    ch,        \* the rendezvous channel of each ask, one answer deep
    taken,     \* an answer Resolve has removed the entry for, not yet sent
    decision,  \* what the ask was told
    cancelled, \* asks whose turn is over
    message,   \* the prompt in Slack
    modal,     \* forms whose modal the user has, or is about to have, open
    clicked,   \* answers the user has given, each delivered once or more
    accepted,  \* those for which Resolve returned true
    allowed,   \* GateApprover.allowed
    verdict    \* what the gate told the tool call

brokerVars == <<pending, forms, ch, taken, accepted>>
slackVars  == <<message, modal, clicked>>
gateVars   == <<allowed, verdict>>
vars == <<kind, pc, decision, cancelled, brokerVars, slackVars, gateVars>>

Form(q) == kind[q] = "form"
Gate(q) == kind[q] = "gate"
Offers(q) == IF Form(q) THEN {"submit"} ELSE Answers \ {"submit"}

TypeOK ==
    /\ kind \in [Asks -> Kinds]
    /\ pc \in [Asks -> {"idle", "posting", "waiting", "editing", "leaving", "returned"}]
    /\ pending \subseteq Asks
    /\ forms \subseteq {q \in Asks : Form(q)}
    /\ ch \in [Asks -> Answers \cup {None}]
    /\ taken \in [Asks -> Answers \cup {None}]
    /\ decision \in [Asks -> Answers \cup Excuses \cup {None}]
    /\ cancelled \subseteq Asks
    /\ message \in [Asks -> {"none", "live", "outcome", "deleted"}]
    /\ modal \in [Asks -> {"closed", "opening", "open"}]
    /\ clicked \subseteq Asks \X Answers
    /\ accepted \subseteq clicked
    /\ allowed \subseteq Summaries
    /\ verdict \in [Asks -> {"run", "skip", None}]

Init ==
    /\ kind \in [Asks -> Kinds]
    /\ pc = [q \in Asks |-> "idle"]
    /\ pending = {}
    /\ forms = {}
    /\ ch = [q \in Asks |-> None]
    /\ taken = [q \in Asks |-> None]
    /\ decision = [q \in Asks |-> None]
    /\ cancelled = {}
    /\ message = [q \in Asks |-> "none"]
    /\ modal = [q \in Asks |-> "closed"]
    /\ clicked = {}
    /\ accepted = {}
    /\ allowed = {}
    /\ verdict = [q \in Asks |-> None]

Goto(q, label) == pc' = [pc EXCEPT ![q] = label]

-----------------------------------------------------------------------------
(* Ask and AskForm.                                                         *)

\* GateApprover.Approve does not ask: the run has no Slack conversation, or
\* the user allowed the summary for good.
NotAsked(q) == kind[q] = "headless" \/ (Gate(q) /\ SummaryOf[q] \in allowed)

SilentApprove(q) ==
    /\ pc[q] = "idle"
    /\ NotAsked(q)
    /\ Goto(q, "returned")
    /\ verdict' = [verdict EXCEPT ![q] = "run"]
    /\ UNCHANGED <<decision, cancelled, brokerVars, slackVars, allowed>>

\* The ask is registered before its prompt is posted.
Ask(q) ==
    /\ pc[q] = "idle"
    /\ ~NotAsked(q)
    /\ Goto(q, "posting")
    /\ pending' = pending \cup {q}
    /\ forms' = IF Form(q) THEN forms \cup {q} ELSE forms
    /\ UNCHANGED <<ch, taken, accepted, decision, cancelled, slackVars, gateVars>>

Posted(q) ==
    /\ pc[q] = "posting"
    /\ Goto(q, "waiting")
    /\ message' = [message EXCEPT ![q] = "live"]
    /\ UNCHANGED <<decision, cancelled, brokerVars, modal, clicked, gateVars>>

\* Mutant of Leave: the deferred delete is missing.
LeaveEntry(q) == UNCHANGED <<pending, forms>>

Leave(q) == pending' = pending \ {q} /\ forms' = forms \ {q}

\* Mutant of Approves: whatever is not a denial approves.
NotDenied(d) == d # "deny"

Approves(d) == d \in {"approve", "approve_always"}

\* What GateApprover.Approve makes of the decision.
GateReturns(q, d) ==
    IF Gate(q)
    THEN /\ verdict' = [verdict EXCEPT ![q] = IF Approves(d) THEN "run" ELSE "skip"]
         /\ allowed' = IF d = "approve_always" THEN allowed \cup {SummaryOf[q]} ELSE allowed
    ELSE UNCHANGED gateVars

\* chat.postMessage returns an error; if the turn ended while it was on its
\* way, Slack may have posted the prompt all the same.
PostFails(q) ==
    /\ pc[q] = "posting"
    /\ \/ UNCHANGED message
       \/ q \in cancelled /\ message' = [message EXCEPT ![q] = "live"]
    /\ Goto(q, "returned")
    /\ decision' = [decision EXCEPT ![q] = "failed"]
    /\ Leave(q)
    /\ GateReturns(q, "failed")
    /\ UNCHANGED <<ch, taken, accepted, cancelled, modal, clicked>>

Decide(q, d) ==
    /\ pc[q] = "waiting"
    /\ Goto(q, "editing")
    /\ decision' = [decision EXCEPT ![q] = d]

\* The three cases of the select; a ready one may lose to another.
Answered(q) ==
    /\ ch[q] # None
    /\ Decide(q, ch[q])
    /\ ch' = [ch EXCEPT ![q] = None]
    /\ UNCHANGED <<pending, forms, taken, accepted, cancelled, slackVars, gateVars>>

TimesOut(q) ==
    /\ Decide(q, "timed out")
    /\ UNCHANGED <<cancelled, brokerVars, slackVars, gateVars>>

TurnEnds(q) ==
    /\ q \in cancelled
    /\ Decide(q, "cancelled")
    /\ UNCHANGED <<cancelled, brokerVars, slackVars, gateVars>>

\* editOutcome, best effort.
Edit(q) ==
    /\ pc[q] = "editing"
    /\ Goto(q, "leaving")
    /\ \/ message' = [message EXCEPT ![q] = "outcome"]
       \/ UNCHANGED message
    /\ UNCHANGED <<decision, cancelled, brokerVars, modal, clicked, gateVars>>

\* The deferred delete, and what the caller makes of the decision.
Return(q) ==
    /\ pc[q] = "leaving"
    /\ Goto(q, "returned")
    /\ Leave(q)
    /\ GateReturns(q, decision[q])
    /\ UNCHANGED <<ch, taken, accepted, decision, cancelled, slackVars>>

\* An approval's outcome is deleted after a while, edited or not.
Dismiss(q) ==
    /\ Gate(q)
    /\ pc[q] \in {"leaving", "returned"}
    /\ decision[q] \notin {None, "failed"}
    /\ message[q] # "deleted"
    /\ message' = [message EXCEPT ![q] = "deleted"]
    /\ UNCHANGED <<pc, decision, cancelled, brokerVars, modal, clicked, gateVars>>

-----------------------------------------------------------------------------
(* The gateway's side.                                                      *)

\* Mutant of Take: the entry stays for a second click.
TakeAgain(q) == UNCHANGED <<pending, forms>>

Take(q) == pending' = pending \ {q} /\ forms' = forms \ {q}

\* Mutant of Addressed: the correlation id is ignored.
AnyAddressed(q, o) == \E r \in Asks : <<r, o>> \in clicked

\* An answer that carries the ask's correlation id.
Addressed(q, o) == <<q, o>> \in clicked

\* Resolve and ResolveForm: the entry is removed under the lock ...
Resolve(q, o) ==
    /\ Addressed(q, o)
    /\ q \in pending
    /\ Take(q)
    /\ taken' = [taken EXCEPT ![q] = o]
    /\ accepted' = accepted \cup {<<q, o>>}
    /\ UNCHANGED <<pc, ch, decision, cancelled, slackVars, gateVars>>

\* ... and the answer sent after it, if the channel has room.
Send(q) ==
    /\ taken[q] # None
    /\ ch' = [ch EXCEPT ![q] = IF ch[q] = None THEN taken[q] ELSE ch[q]]
    /\ taken' = [taken EXCEPT ![q] = None]
    /\ UNCHANGED <<pc, pending, forms, accepted, decision, cancelled, slackVars, gateVars>>

\* OpenForm: the spec is looked up, and views.open may still fail.
OpenForm(q) ==
    /\ message[q] # "none"
    /\ q \in forms
    /\ modal[q] = "closed"
    /\ modal' = [modal EXCEPT ![q] = "opening"]
    /\ UNCHANGED <<pc, decision, cancelled, brokerVars, message, clicked, gateVars>>

ViewOpened(q) ==
    /\ modal[q] = "opening"
    /\ modal' = [modal EXCEPT ![q] = "open"]
    /\ UNCHANGED <<pc, decision, cancelled, brokerVars, message, clicked, gateVars>>

\* views.open fails, or the user closes the modal.
ModalCloses(q) ==
    /\ modal[q] # "closed"
    /\ modal' = [modal EXCEPT ![q] = "closed"]
    /\ UNCHANGED <<pc, decision, cancelled, brokerVars, message, clicked, gateVars>>

-----------------------------------------------------------------------------
(* The user and the turn.                                                   *)

Click(q, o) ==
    /\ ~Form(q)
    /\ o \in Offers(q)
    /\ message[q] = "live"
    /\ clicked' = clicked \cup {<<q, o>>}
    /\ UNCHANGED <<pc, decision, cancelled, brokerVars, message, modal, gateVars>>

Submit(q, o) ==
    /\ modal[q] = "open"
    /\ o \in Offers(q)
    /\ clicked' = clicked \cup {<<q, o>>}
    /\ modal' = [modal EXCEPT ![q] = "closed"]
    /\ UNCHANGED <<pc, decision, cancelled, brokerVars, message, gateVars>>

Cancel(q) ==
    /\ pc[q] # "returned"
    /\ q \notin cancelled
    /\ cancelled' = cancelled \cup {q}
    /\ UNCHANGED <<pc, decision, brokerVars, slackVars, gateVars>>

-----------------------------------------------------------------------------
AskStep(q) ==
    \/ SilentApprove(q) \/ Ask(q) \/ Posted(q) \/ PostFails(q)
    \/ Answered(q) \/ TimesOut(q) \/ TurnEnds(q) \/ Edit(q) \/ Return(q)

Next ==
    /\ UNCHANGED kind
    /\ \/ \E q \in Asks :
             \/ AskStep(q) \/ Dismiss(q) \/ Send(q) \/ Cancel(q)
             \/ OpenForm(q) \/ ViewOpened(q) \/ ModalCloses(q)
       \/ \E q \in Asks, o \in Answers : Resolve(q, o) \/ Click(q, o) \/ Submit(q, o)

Spec == Init /\ [][Next]_vars

-----------------------------------------------------------------------------
(* Properties.                                                              *)

\* The broker is a rendezvous: one outcome per ask, never revised, and an
\* answer only if the user gave it to that very ask (Ask, Resolve).
Promise == INSTANCE Rendezvous WITH outcome <- decision
OneHonestOutcome == Promise!Spec

\* In a chat a tool call runs only if the user approved that call, or approved another
\* with the same summary for the rest of the run (GateApprover.Approve).
RunsOnlyWithConsent ==
    \A q \in Asks : Gate(q) /\ verdict[q] = "run" =>
        \/ <<q, "approve">> \in clicked
        \/ \E r \in Asks : SummaryOf[r] = SummaryOf[q] /\ <<r, "approve_always">> \in clicked

\* An ask that has returned is forgotten: a late click finds no entry and no
\* form to open.
ReturnedForgotten == \A q \in Asks : pc[q] = "returned" => q \notin pending \cup forms

\* An answer that Resolve accepted is the outcome, or came too late to be one;
\* the ask is never told another answer, however often the user clicks and
\* Slack delivers.
AcceptedUncontradicted ==
    \A q \in Asks, o \in Answers :
        <<q, o>> \in accepted => decision[q] \in {o, None} \cup Excuses

\* Whatever clicks come when, an ask is told at most what was accepted for it and
\* is gone once it has returned.
AnswersSettled == ReturnedForgotten /\ AcceptedUncontradicted
=============================================================================
