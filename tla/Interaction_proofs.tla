-------------------------- MODULE Interaction_proofs --------------------------
(***************************************************************************)
(* Proofs about Interaction, for any number of asks of any kind and any    *)
(* summaries: the broker is the rendezvous of Rendezvous, forgets what it  *)
(* has answered, and a gated command runs only with the user's consent.    *)
(***************************************************************************)
EXTENDS Interaction, TLAPS

Waiting == {"posting", "waiting", "editing", "leaving"}

\* An entry belongs to an ask at work, which nothing was accepted for yet; at
\* most one answer is ever accepted, and what is on its way to the ask, or was
\* told to it, is that answer.
EntryAtWork == \A q \in pending \cup forms : pc[q] \in Waiting
NotToldYet  == \A q \in Asks : pc[q] \in {"idle", "posting", "waiting"} => decision[q] = None
NothingYet  == \A q \in Asks, o \in Answers :
                  q \in pending \/ pc[q] = "idle" => <<q, o>> \notin accepted
OneAnswer   == \A q \in Asks, o, a \in Answers :
                  <<q, o>> \in accepted /\ <<q, a>> \in accepted => o = a
OnItsWay    == \A q \in Asks :
                  /\ ch[q] # None => <<q, ch[q]>> \in accepted
                  /\ taken[q] # None => <<q, taken[q]>> \in accepted
                  /\ decision[q] \in Answers => <<q, decision[q]>> \in accepted
BrokerInv   == EntryAtWork /\ NotToldYet /\ NothingYet /\ OneAnswer /\ OnItsWay

\* A summary that is allowed for good was approved so by the user.
AllowedByUser ==
    \A s \in allowed : \E r \in Asks : SummaryOf[r] = s /\ <<r, "approve_always">> \in clicked

ConsentInv == AllowedByUser /\ RunsOnlyWithConsent

\* What lets a gated command run.
Consent(q) ==
    \/ <<q, "approve">> \in clicked
    \/ \E r \in Asks : SummaryOf[r] = SummaryOf[q] /\ <<r, "approve_always">> \in clicked

-----------------------------------------------------------------------------
\* Every variable keeps its type.
THEOREM TypeCorrect == Spec => []TypeOK
<1>1. Init => TypeOK
  <2> SUFFICES ASSUME Init PROVE TypeOK
    OBVIOUS
  <2>1. forms = {} /\ pending = {} /\ clicked = {} /\ accepted = {} /\ allowed = {}
    BY DEF Init
  <2>2. QED
    BY <2>1 DEF Init, TypeOK
<1>2. TypeOK /\ [Next]_vars => TypeOK'
  <2> SUFFICES ASSUME TypeOK, [Next]_vars PROVE TypeOK'
    OBVIOUS
  <2> USE InteractionAssumption DEF TypeOK, Form, Gate, Goto, brokerVars, slackVars,
          gateVars, vars
  <2> kind' = kind
    BY DEF Next
  <2>1. ASSUME NEW q \in Asks, SilentApprove(q) \/ Ask(q) \/ Posted(q) PROVE TypeOK'
    BY <2>1 DEF SilentApprove, Ask, Posted
  <2>2. ASSUME NEW q \in Asks, PostFails(q) PROVE TypeOK'
    BY <2>2 DEF PostFails, Leave, GateReturns, Excuses
  <2>3. ASSUME NEW q \in Asks, Answered(q) \/ TimesOut(q) \/ TurnEnds(q) PROVE TypeOK'
    <3>1. ASSUME NEW d \in Answers \cup Excuses, Decide(q, d)
          PROVE  /\ pc' \in [Asks -> {"idle", "posting", "waiting", "editing", "leaving", "returned"}]
                 /\ decision' \in [Asks -> Answers \cup Excuses \cup {None}]
      BY <3>1 DEF Decide
    <3>2. CASE Answered(q)
      <4>1. ch[q] \in Answers
        BY <3>2 DEF Answered
      <4>2. QED
        BY <3>1, <3>2, <4>1 DEF Answered
    <3>3. CASE TimesOut(q) \/ TurnEnds(q)
      BY <3>1, <3>3 DEF TimesOut, TurnEnds, Excuses
    <3>4. QED
      BY <2>3, <3>2, <3>3
  <2>4. ASSUME NEW q \in Asks, Edit(q) \/ Dismiss(q) PROVE TypeOK'
    BY <2>4 DEF Edit, Dismiss
  <2>5. ASSUME NEW q \in Asks, Return(q) PROVE TypeOK'
    <3>1. verdict' \in [Asks -> {"run", "skip", None}] /\ allowed' \subseteq Summaries
      <4>1. SummaryOf[q] \in Summaries
        OBVIOUS
      <4>2. CASE Gate(q)
        <5>1. allowed' \subseteq Summaries
          <6>1. allowed' = allowed \/ allowed' = allowed \cup {SummaryOf[q]}
            BY <2>5, <4>2 DEF Return, GateReturns
          <6>2. QED
            BY <4>1, <6>1, Zenon DEF TypeOK
        <5>2. PICK v \in {"run", "skip"} : verdict' = [verdict EXCEPT ![q] = v]
          BY <2>5, <4>2 DEF Return, GateReturns
        <5>3. QED
          BY <5>1, <5>2
      <4>3. CASE ~Gate(q)
        BY <2>5, <4>3 DEF Return, GateReturns
      <4>4. QED
        BY <4>2, <4>3
    <3>2. QED
      BY <2>5, <3>1 DEF Return, Leave
  <2>6. ASSUME NEW q \in Asks, NEW o \in Answers, Resolve(q, o) PROVE TypeOK'
    BY <2>6 DEF Resolve, Addressed, Take
  <2>7. ASSUME NEW q \in Asks, Send(q) PROVE TypeOK'
    BY <2>7 DEF Send
  <2>8. ASSUME NEW q \in Asks, OpenForm(q) \/ ViewOpened(q) \/ ModalCloses(q) PROVE TypeOK'
    BY <2>8 DEF OpenForm, ViewOpened, ModalCloses
  <2>9. ASSUME NEW q \in Asks, NEW o \in Answers, Click(q, o) \/ Submit(q, o) PROVE TypeOK'
    <3>1. clicked' = clicked \cup {<<q, o>>}
      BY <2>9 DEF Click, Submit
    <3> DEFINE new == <<q, o>>
    <3>2. clicked' \subseteq Asks \X Answers /\ accepted \subseteq clicked'
      <4>1. new \in Asks \X Answers
        OBVIOUS
      <4> HIDE DEF new
      <4>2. clicked' = clicked \cup {new}
        BY <3>1 DEF new
      <4>3. QED
        BY <4>1, <4>2, Zenon
    <3>3. CASE Click(q, o)
      BY <3>2, <3>3 DEF Click
    <3>4. CASE Submit(q, o)
      BY <3>2, <3>4 DEF Submit
    <3>5. QED
      BY <2>9, <3>3, <3>4
  <2>10. ASSUME NEW q \in Asks, Cancel(q) PROVE TypeOK'
    BY <2>10 DEF Cancel
  <2>11. CASE UNCHANGED vars
    BY <2>11
  <2>12. QED
    BY <2>1, <2>2, <2>3, <2>4, <2>5, <2>6, <2>7, <2>8, <2>9, <2>10, <2>11 DEF Next, AskStep
<1>3. QED
  BY <1>1, <1>2, PTL DEF Spec

-----------------------------------------------------------------------------
\* What a step does that takes, sends and tells no answer.
LEMMA EntriesMove ==
    ASSUME TypeOK, BrokerInv, NEW q \in Asks, NEW label, label \notin {"idle", "posting", "waiting"},
           pc' = [pc EXCEPT ![q] = label], UNCHANGED <<ch, taken, accepted, decision>>,
           \/ label \in Waiting /\ UNCHANGED <<pending, forms>>
           \/ pending' = pending \ {q} /\ forms' = forms \ {q}
    PROVE  BrokerInv'
<1> USE DEF TypeOK, BrokerInv
<1>1. EntryAtWork'
  BY DEF EntryAtWork, Waiting
<1>2. NotToldYet'
  BY DEF NotToldYet
<1>3. pending' \subseteq pending /\ \A r \in Asks : pc'[r] = "idle" => pc[r] = "idle"
  OBVIOUS
<1>4. NothingYet'
  BY <1>3, Zenon DEF NothingYet
<1>5. OneAnswer' /\ OnItsWay'
  BY DEF OneAnswer, OnItsWay
<1>6. QED
  BY <1>1, <1>2, <1>4, <1>5

LEMMA BrokerNext == TypeOK /\ BrokerInv /\ [Next]_vars => BrokerInv'
<1> SUFFICES ASSUME TypeOK, BrokerInv, [Next]_vars PROVE BrokerInv'
  OBVIOUS
<1> USE InteractionAssumption DEF Goto, brokerVars, slackVars, gateVars, vars
<1>1. ASSUME NEW q \in Asks, SilentApprove(q) PROVE BrokerInv'
  BY <1>1, EntriesMove DEF SilentApprove, TypeOK, BrokerInv, EntryAtWork, NotToldYet, NothingYet,
        OneAnswer, OnItsWay, Waiting
<1>2. ASSUME NEW q \in Asks, Ask(q) PROVE BrokerInv'
  <2> USE <1>2 DEF Ask, TypeOK, BrokerInv
  <2>1. EntryAtWork'
    BY DEF EntryAtWork, Waiting
  <2>2. NotToldYet'
    BY DEF NotToldYet
  <2>3. NothingYet'
    <3>1. \A r \in Asks : r \in pending' \/ pc'[r] = "idle" => r \in pending \/ pc[r] = "idle"
      OBVIOUS
    <3>2. QED
      BY <3>1, Zenon DEF NothingYet
  <2>4. OneAnswer' /\ OnItsWay'
    BY DEF OneAnswer, OnItsWay
  <2>5. QED
    BY <2>1, <2>2, <2>3, <2>4
<1>3. ASSUME NEW q \in Asks, Posted(q) PROVE BrokerInv'
  BY <1>3 DEF Posted, TypeOK, BrokerInv, EntryAtWork, NotToldYet, NothingYet, OneAnswer,
        OnItsWay, Waiting
<1>4. ASSUME NEW q \in Asks, PostFails(q) PROVE BrokerInv'
  <2> USE <1>4 DEF PostFails, Leave, TypeOK, BrokerInv
  <2>1. EntryAtWork'
    BY DEF EntryAtWork, Waiting
  <2>2. NotToldYet'
    BY DEF NotToldYet
  <2>3. NothingYet'
    <3>1. \A r \in Asks : r \in pending' \/ pc'[r] = "idle" => r \in pending \/ pc[r] = "idle"
      OBVIOUS
    <3>2. QED
      BY <3>1, Zenon DEF NothingYet
  <2>4. OneAnswer' /\ OnItsWay'
    BY DEF OneAnswer, OnItsWay, Answers
  <2>5. QED
    BY <2>1, <2>2, <2>3, <2>4
<1>5. ASSUME NEW q \in Asks, Answered(q) PROVE BrokerInv'
  BY <1>5 DEF Answered, Decide, TypeOK, BrokerInv, EntryAtWork, NotToldYet, NothingYet,
        OneAnswer, OnItsWay, Waiting
<1>6. ASSUME NEW q \in Asks, TimesOut(q) \/ TurnEnds(q) PROVE BrokerInv'
  <2> USE <1>6 DEF TimesOut, TurnEnds, Decide, TypeOK, BrokerInv
  <2>1. EntryAtWork' /\ NotToldYet'
    <3>1. pc' = [pc EXCEPT ![q] = "editing"] /\ UNCHANGED <<pending, forms>>
      OBVIOUS
    <3>2. \A r \in Asks : r # q => decision'[r] = decision[r]
      OBVIOUS
    <3>3. EntryAtWork'
      BY <3>1 DEF EntryAtWork, Waiting
    <3>4. QED
      BY <3>1, <3>2, <3>3 DEF NotToldYet
  <2>2. NothingYet'
    <3>1. \A r \in Asks : pc'[r] = "idle" => pc[r] = "idle"
      OBVIOUS
    <3>2. QED
      BY <3>1, Zenon DEF NothingYet
  <2>3. OneAnswer' /\ OnItsWay'
    BY DEF OneAnswer, OnItsWay, Answers
  <2>4. QED
    BY <2>1, <2>2, <2>3
<1>7. ASSUME NEW q \in Asks, Edit(q) PROVE BrokerInv'
  BY <1>7, EntriesMove DEF Edit, Waiting
<1>8. ASSUME NEW q \in Asks, Return(q) PROVE BrokerInv'
  BY <1>8, EntriesMove DEF Return, Leave
<1>9. ASSUME NEW q \in Asks, NEW o \in Answers, Resolve(q, o) PROVE BrokerInv'
  BY <1>9 DEF Resolve, Take, TypeOK, BrokerInv, EntryAtWork, NotToldYet, NothingYet, OneAnswer,
        OnItsWay, Waiting
<1>10. ASSUME NEW q \in Asks, Send(q) PROVE BrokerInv'
  BY <1>10 DEF Send, TypeOK, BrokerInv, EntryAtWork, NotToldYet, NothingYet, OneAnswer, OnItsWay,
        Waiting
<1>11. ASSUME UNCHANGED <<pc, pending, forms, ch, taken, accepted, decision>> PROVE BrokerInv'
  BY <1>11 DEF BrokerInv, EntryAtWork, NotToldYet, NothingYet, OneAnswer, OnItsWay
<1>12. QED
  BY <1>1, <1>2, <1>3, <1>4, <1>5, <1>6, <1>7, <1>8, <1>9, <1>10, <1>11
     DEF Next, AskStep, Dismiss, Cancel, OpenForm, ViewOpened, ModalCloses, Click, Submit

LEMMA BrokerHolds == Spec => []BrokerInv
<1>1. Init => BrokerInv
  BY InteractionAssumption DEF Init, BrokerInv, EntryAtWork, NotToldYet, NothingYet, OneAnswer,
     OnItsWay, Answers
<1>2. QED
  BY <1>1, BrokerNext, TypeCorrect, PTL DEF Spec

\* An ask that has returned can be neither answered nor opened.
THEOREM AsksAreForgotten == Spec => []ReturnedForgotten
<1>1. TypeOK /\ BrokerInv => ReturnedForgotten
  BY DEF TypeOK, BrokerInv, EntryAtWork, Waiting, ReturnedForgotten
<1>2. QED
  BY <1>1, TypeCorrect, BrokerHolds, PTL

\* The answer Resolve accepted is never contradicted by what the ask is told.
THEOREM AcceptedAnswerStands == Spec => []AcceptedUncontradicted
<1>1. TypeOK /\ BrokerInv => AcceptedUncontradicted
  BY DEF TypeOK, BrokerInv, OneAnswer, OnItsWay, AcceptedUncontradicted
<1>2. QED
  BY <1>1, TypeCorrect, BrokerHolds, PTL

\* An ask is told at most what was accepted for it, and is gone once it returned.
THEOREM AnswersStaySettled == Spec => []AnswersSettled
<1>1. ReturnedForgotten /\ AcceptedUncontradicted => AnswersSettled
  BY DEF AnswersSettled
<1>2. QED
  BY <1>1, AsksAreForgotten, AcceptedAnswerStands, PTL

-----------------------------------------------------------------------------
\* The broker implements the rendezvous.
THEOREM BrokerImplementsRendezvous == Spec => OneHonestOutcome
<1>1. Init => Promise!Init
  BY DEF Init, Promise!Init
<1>2. TypeOK /\ BrokerInv /\ [Next]_vars => [Promise!Next]_<<clicked, decision>>
  <2> SUFFICES ASSUME TypeOK, BrokerInv, [Next]_vars
               PROVE  [Promise!Next]_<<clicked, decision>>
    OBVIOUS
  <2> USE DEF Promise!Next
  <2>1. ASSUME NEW q \in Asks, NEW d \in Excuses, decision[q] = None, UNCHANGED clicked,
               decision' = [decision EXCEPT ![q] = d]
        PROVE  Promise!Decide(q)
    BY <2>1 DEF Promise!Decide
  <2>2. ASSUME NEW q \in Asks, Answered(q) PROVE Promise!Decide(q)
    <3>1. <<q, ch[q]>> \in clicked /\ ch[q] \in Answers /\ decision[q] = None
      BY <2>2 DEF Answered, Decide, TypeOK, BrokerInv, NotToldYet, OnItsWay
    <3>2. decision' = [decision EXCEPT ![q] = ch[q]] /\ UNCHANGED clicked
      BY <2>2 DEF Answered, Decide, slackVars
    <3>3. QED
      BY <3>1, <3>2 DEF Promise!Decide
  <2>3. ASSUME NEW q \in Asks, PostFails(q) \/ TimesOut(q) \/ TurnEnds(q)
        PROVE  Promise!Decide(q)
    <3>1. decision[q] = None /\ UNCHANGED clicked
      BY <2>3 DEF PostFails, TimesOut, TurnEnds, Decide, TypeOK, BrokerInv, NotToldYet, slackVars
    <3>2. \E d \in Excuses : decision' = [decision EXCEPT ![q] = d]
      BY <2>3 DEF PostFails, TimesOut, TurnEnds, Decide, Excuses
    <3>3. QED
      BY <2>1, <3>1, <3>2
  <2>4. ASSUME NEW q \in Asks, NEW o \in Answers, Click(q, o) \/ Submit(q, o)
        PROVE  Promise!Answer(q, o)
    BY <2>4 DEF Click, Submit, Promise!Answer
  <2>5. ASSUME NEW q \in Asks,
               \/ SilentApprove(q) \/ Ask(q) \/ Posted(q) \/ Edit(q) \/ Return(q)
               \/ Dismiss(q) \/ Send(q) \/ Cancel(q)
               \/ OpenForm(q) \/ ViewOpened(q) \/ ModalCloses(q)
               \/ \E o \in Answers : Resolve(q, o)
        PROVE  UNCHANGED <<clicked, decision>>
    BY <2>5 DEF SilentApprove, Ask, Posted, Edit, Return, Dismiss, Send, Cancel, OpenForm,
                ViewOpened, ModalCloses, Resolve, slackVars
  <2>6. CASE UNCHANGED vars
    BY <2>6 DEF vars, slackVars
  <2>7. QED
    BY <2>2, <2>3, <2>4, <2>5, <2>6 DEF Next, AskStep
<1>3. QED
  BY <1>1, <1>2, TypeCorrect, BrokerHolds, PTL DEF Spec, Promise!Spec, OneHonestOutcome

-----------------------------------------------------------------------------
\* A decision that approves was given by the user.
LEMMA DecisionWasClicked ==
    ASSUME TypeOK, BrokerInv, NEW q \in Asks, decision[q] \in Answers
    PROVE  <<q, decision[q]>> \in clicked
  BY DEF TypeOK, BrokerInv, OnItsWay

LEMMA ConsentNext == TypeOK /\ BrokerInv /\ ConsentInv /\ [Next]_vars => ConsentInv'
<1> SUFFICES ASSUME TypeOK, BrokerInv, ConsentInv, [Next]_vars PROVE ConsentInv'
  OBVIOUS
<1> USE InteractionAssumption
<1>1. clicked \subseteq clicked' /\ kind' = kind
  BY DEF Next, AskStep, SilentApprove, Ask, Posted, PostFails, Answered, TimesOut, TurnEnds,
         Edit, Return, Dismiss, Send, Cancel, OpenForm, ViewOpened, ModalCloses, Resolve,
         Click, Submit, slackVars, vars
<1>2. ASSUME UNCHANGED gateVars PROVE ConsentInv'
  BY <1>1, <1>2 DEF gateVars, ConsentInv, AllowedByUser, RunsOnlyWithConsent, Gate
<1>3. ASSUME NEW q \in Asks, NEW v, verdict' = [verdict EXCEPT ![q] = v],
             v = "run" /\ Gate(q) => Consent(q), AllowedByUser'
      PROVE  ConsentInv'
  <2>1. \A r \in Asks : Gate(r) /\ verdict'[r] = "run" => Consent(r)
    BY <1>3 DEF TypeOK, ConsentInv, RunsOnlyWithConsent, Consent
  <2>2. RunsOnlyWithConsent'
    BY <1>1, <2>1, Zenon DEF RunsOnlyWithConsent, Gate, Consent
  <2>3. QED
    BY <1>3, <2>2 DEF ConsentInv
<1>4. ASSUME UNCHANGED allowed PROVE AllowedByUser'
  BY <1>1, <1>4, Zenon DEF ConsentInv, AllowedByUser
<1>5. ASSUME NEW q \in Asks, SilentApprove(q) PROVE ConsentInv'
  <2>1. Gate(q) => Consent(q)
    BY <1>5 DEF SilentApprove, NotAsked, Gate, ConsentInv, AllowedByUser, Consent
  <2>2. QED
    BY <1>3, <1>4, <1>5, <2>1 DEF SilentApprove
<1>6. ASSUME NEW q \in Asks, PostFails(q) PROVE ConsentInv'
  <2>1. CASE Gate(q)
    <3>1. verdict' = [verdict EXCEPT ![q] = "skip"] /\ UNCHANGED allowed
      BY <1>6, <2>1 DEF PostFails, GateReturns, Approves
    <3>2. QED
      BY <1>3, <1>4, <3>1
  <2>2. CASE ~Gate(q)
    BY <1>2, <1>6, <2>2 DEF PostFails, GateReturns
  <2>3. QED
    BY <2>1, <2>2
<1>7. ASSUME NEW q \in Asks, Return(q) PROVE ConsentInv'
  <2>1. Approves(decision[q]) => <<q, decision[q]>> \in clicked
    BY DecisionWasClicked DEF Answers, Approves
  <2>2. CASE Gate(q) /\ Approves(decision[q])
    <3>1. verdict' = [verdict EXCEPT ![q] = "run"]
      BY <1>7, <2>2 DEF Return, GateReturns
    <3>2. Consent(q)
      BY <2>1, <2>2 DEF Approves, Consent
    <3>3. AllowedByUser'
      <4>1. CASE decision[q] = "approve_always"
        <5>1. allowed' = allowed \cup {SummaryOf[q]}
          BY <1>7, <2>2, <4>1 DEF Return, GateReturns
        <5>2. <<q, "approve_always">> \in clicked
          BY <2>1, <2>2, <4>1
        <5>3. QED
          BY <1>1, <5>1, <5>2, Zenon DEF ConsentInv, AllowedByUser
      <4>2. CASE decision[q] # "approve_always"
        BY <1>4, <1>7, <2>2, <4>2 DEF Return, GateReturns
      <4>3. QED
        BY <4>1, <4>2
    <3>4. QED
      BY <1>3, <3>1, <3>2, <3>3
  <2>3. CASE Gate(q) /\ ~Approves(decision[q])
    <3>1. verdict' = [verdict EXCEPT ![q] = "skip"] /\ UNCHANGED allowed
      BY <1>7, <2>3 DEF Return, GateReturns, Approves
    <3>2. QED
      BY <1>3, <1>4, <3>1
  <2>4. CASE ~Gate(q)
    BY <1>2, <1>7, <2>4 DEF Return, GateReturns
  <2>5. QED
    BY <2>2, <2>3, <2>4
<1>8. QED
  BY <1>2, <1>5, <1>6, <1>7
     DEF Next, AskStep, Ask, Posted, Answered, TimesOut, TurnEnds, Edit, Dismiss, Send, Cancel,
         OpenForm, ViewOpened, ModalCloses, Resolve, Click, Submit, vars

\* A gated command runs only if the user approved it, or all its likes.
THEOREM CommandsRunWithConsent == Spec => []RunsOnlyWithConsent
<1>1. Init => ConsentInv
  <2> SUFFICES ASSUME Init PROVE ConsentInv
    OBVIOUS
  <2>1. allowed = {} /\ \A q \in Asks : verdict[q] # "run"
    BY InteractionAssumption DEF Init
  <2>2. QED
    BY <2>1 DEF ConsentInv, AllowedByUser, RunsOnlyWithConsent
<1>2. ConsentInv => RunsOnlyWithConsent
  BY DEF ConsentInv
<1>3. QED
  BY <1>1, <1>2, ConsentNext, TypeCorrect, BrokerHolds, PTL DEF Spec
=============================================================================
