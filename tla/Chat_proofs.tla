------------------------------ MODULE Chat_proofs ------------------------------
(***************************************************************************)
(* Proofs about what becomes of a Slack message: the turn it starts        *)
(* (Ingress, with ChatRoutes, AgentBuild and Configuration under it) and    *)
(* what a turn does until it is over (ChatTurns).  They hold for every set *)
(* of messages, configurations, renames, turns, conversations and callers, *)
(* and every value of the bounds.                                          *)
(***************************************************************************)
EXTENDS ChatTurns, Ingress, FiniteSetTheorems, WellFoundedInduction, TLAPS

(* ----------------------------- ChatTurns ------------------------------- *)

\* SessionManager.session, in every outcome.
BindStep(t) ==
    ReuseSession(t) \/ OpenSession(t) \/ SessionOpened(t) \/ OpenFails(t) \/ OpenCancelled(t)

\* A live turn is the entry of its conversation as long as nobody invoked its
\* closure or took it out to invoke it; what was taken out is in good hands.
RegistryInv ==
    /\ \A c \in Convs : entries[c] # None =>
          /\ Live(entries[c]) /\ ConvOf[entries[c]] = c
          /\ phase[entries[c]] # "leaving"
    /\ \A t \in Turns : Live(t) => (entries[ConvOf[t]] = t <=> closure[t] = "idle" /\ ~Held(t))
    /\ \A t \in Turns : ~Live(t) /\ phase[t] # "done" =>
          closure[t] = "idle" /\ ~ctxCancelled[t] /\ ~Held(t)
    /\ \A t \in Turns : Live(t) /\ ctxCancelled[t] => closure[t] # "idle"
    /\ \A t \in Turns : taken[t] # None => phase[t] \in {"registered", "leaving"}

-----------------------------------------------------------------------------
\* Every variable keeps its type, whatever the interleaving.
THEOREM TypeCorrect == Spec => []TypeOK
<1>1. Init => TypeOK
  BY TurnsAssumption DEF Init, TypeOK, Phases, Closures
<1>2. TypeOK /\ [Next]_vars => TypeOK'
  <2> SUFFICES ASSUME TypeOK, [Next]_vars PROVE TypeOK'
    OBVIOUS
  <2> USE TurnsAssumption DEF TypeOK, Phases, Closures, registryVars, sessionVars,
          managerVars, historyVars, boundVars, vars
  <2>1. ASSUME NEW t \in Turns, CallerStep(t) PROVE TypeOK'
    <3>1. CASE WaitForManager(t) \/ StartChat(t)
      BY <3>1 DEF WaitForManager, StartChat
    <3>2. CASE CheckActive(t)
      BY <3>2 DEF CheckActive, Defer
    <3>3. CASE Register(t)
      BY <3>3 DEF Register
    <3>4. CASE Spawn(t)
      BY <3>4 DEF Spawn, InvokePrevious, Invoke
    <3>5. QED
      BY <2>1, <3>1, <3>2, <3>3, <3>4 DEF CallerStep
  <2>2. ASSUME WarmStep PROVE TypeOK'
    BY <2>2 DEF WarmStep, WarmBegins, WarmEnds, ResolveInterruptible
  <2>3. ASSUME NEW t \in Turns, ClosureStep(t) PROVE TypeOK'
    BY <2>3 DEF ClosureStep, ClosureLookup, ClosureCancelCtx, CancelCtx
  <2>4. ASSUME NEW t \in Turns, BindStep(t) \/ PromptFails(t) \/ SendPrompt(t)
        PROVE TypeOK'
    <3>1. CASE ReuseSession(t) \/ OpenSession(t)
      BY <3>1 DEF ReuseSession, OpenSession
    <3>2. CASE SessionOpened(t)
      BY <3>2 DEF SessionOpened, Evict, InitializedByMessage
    <3>3. CASE OpenAbandoned(t)
      BY <3>3 DEF OpenAbandoned, Evict, Return, InitializedByMessage
    <3>4. CASE PromptFails(t) \/ SendPrompt(t)
      BY <3>4 DEF PromptFails, SendPrompt, Return
    <3>5. QED
      BY <2>4, <3>1, <3>2, <3>3, <3>4 DEF BindStep, OpenFails, OpenCancelled
  <2>5. ASSUME NEW t \in Turns,
               PromptCancelled(t) \/ ToolCeiling(t) \/ AgentAnswers(t)
        PROVE TypeOK'
    BY <2>5 DEF PromptCancelled, ToolCeiling, AgentAnswers, Return, Discard
  <2>6. ASSUME NEW t \in Turns, IdleTimeout(t) \/ IdleDiscard(t) PROVE TypeOK'
    BY <2>6 DEF IdleTimeout, IdleDiscard, Discard, Return
  <2>7. ASSUME NEW t \in Turns, RenderFails(t) PROVE TypeOK'
    BY <2>7 DEF RenderFails, Return
  <2>8. ASSUME NEW t \in Turns, Leave(t) \/ Teardown(t) PROVE TypeOK'
    <3>1. CASE Leave(t)
      BY <3>1 DEF Leave, RemoveEntry, LeaveRegistry
    <3>2. CASE Teardown(t)
      BY <3>2 DEF Teardown, CancelCtx, Invoke
    <3>3. QED
      BY <2>8, <3>1, <3>2
  <2>9. ASSUME NEW c \in Convs, Stop(c) PROVE TypeOK'
    BY <2>9 DEF Stop, RemoveEntry, Active
  <2>10. ASSUME StopCancels PROVE TypeOK'
    BY <2>10 DEF StopCancels, Invoke
  <2>11. CASE UNCHANGED vars
    BY <2>11
  <2>12. QED
    BY <2>1, <2>2, <2>3, <2>4, <2>5, <2>6, <2>7, <2>8, <2>9, <2>10, <2>11
       DEF Next, HandleStep, OpenAnswered, BindStep
<1>3. QED
  BY <1>1, <1>2, PTL DEF Spec

-----------------------------------------------------------------------------
LEMMA RegistryInit == Init => RegistryInv
  BY TurnsAssumption DEF Init, RegistryInv, Live, LivePhases, Held

\* The steps that take an entry out of the registry, or put one in.
LEMMA RegistryNext == TypeOK /\ RegistryInv /\ [Next]_vars => RegistryInv'
<1> SUFFICES ASSUME TypeOK, RegistryInv, [Next]_vars PROVE RegistryInv'
  OBVIOUS
<1> USE TurnsAssumption DEF TypeOK, RegistryInv, Live, LivePhases, Phases, Closures, Held
<1>1. ASSUME NEW t \in Turns, WaitForManager(t) \/ StartChat(t) \/ CheckActive(t)
      PROVE RegistryInv'
  BY <1>1 DEF WaitForManager, StartChat, CheckActive, Defer, Begins, registryVars
<1>2. ASSUME NEW t \in Turns, Register(t) PROVE RegistryInv'
  BY <1>2 DEF Register
<1>3. ASSUME NEW t \in Turns, Spawn(t) PROVE RegistryInv'
  BY <1>3 DEF Spawn, InvokePrevious, Invoke
<1>4. ASSUME NEW t \in Turns, ClosureStep(t) PROVE RegistryInv'
  BY <1>4 DEF ClosureStep, ClosureLookup, ClosureCancelCtx, CancelCtx
<1>5. ASSUME NEW t \in Turns, BindStep(t) \/ PromptFails(t) \/ SendPrompt(t)
      PROVE RegistryInv'
  BY <1>5 DEF BindStep, ReuseSession, OpenSession, SessionOpened, OpenFails,
     OpenCancelled, OpenAbandoned, PromptFails, SendPrompt, Return, registryVars
<1>6. ASSUME NEW t \in Turns, PromptCancelled(t) \/ ToolCeiling(t) \/ AgentAnswers(t)
      PROVE RegistryInv'
  BY <1>6 DEF PromptCancelled, ToolCeiling, AgentAnswers, Return, registryVars
<1>7. ASSUME NEW t \in Turns, IdleTimeout(t) \/ IdleDiscard(t) \/ RenderFails(t)
      PROVE RegistryInv'
  BY <1>7 DEF IdleTimeout, IdleDiscard, RenderFails, Return, registryVars
<1>8. ASSUME NEW t \in Turns, Leave(t) PROVE RegistryInv'
  BY <1>8 DEF Leave, RemoveEntry, LeaveRegistry
<1>9. ASSUME NEW t \in Turns, Teardown(t) PROVE RegistryInv'
  BY <1>9 DEF Teardown, CancelCtx, Invoke
<1>10. ASSUME NEW c \in Convs, Stop(c) PROVE RegistryInv'
  BY <1>10 DEF Stop, RemoveEntry, Busy, Active, vars, registryVars
<1>11. ASSUME StopCancels PROVE RegistryInv'
  BY <1>11 DEF StopCancels, Invoke
<1>12. CASE WarmStep \/ UNCHANGED vars
  BY <1>12 DEF WarmStep, WarmBegins, WarmEnds, ResolveInterruptible, vars, registryVars
<1>13. QED
  BY <1>1, <1>2, <1>3, <1>4, <1>5, <1>6, <1>7, <1>8, <1>9, <1>10, <1>11, <1>12
     DEF Next, CallerStep, HandleStep, OpenAnswered, BindStep

LEMMA RegistryHolds == Spec => []RegistryInv
  BY TypeCorrect, RegistryInit, RegistryNext, PTL DEF Spec

\* A conversation's registry entry never outlives its turn.
THEOREM RegistryHasNoStaleEntry == Spec => []NoStaleEntry
<1>1. RegistryInv => NoStaleEntry
  BY DEF RegistryInv, NoStaleEntry
<1>2. QED
  BY <1>1, RegistryHolds, PTL

\* A turn whose context was cancelled cannot be found by /stop any more.
LEMMA CancelledHaveLeft == TypeOK /\ RegistryInv => CancelledLeftRegistry
  BY TurnsAssumption DEF TypeOK, RegistryInv, CancelledLeftRegistry, Live

THEOREM CancelledTurnsLeave == Spec => []CancelledLeftRegistry
  BY CancelledHaveLeft, TypeCorrect, RegistryHolds, PTL

\* The registry and the turns agree.
THEOREM RegistryStaysSound == Spec => []RegistrySound
<1>1. NoStaleEntry /\ CancelledLeftRegistry => RegistrySound
  BY DEF RegistrySound
<1>2. QED
  BY <1>1, RegistryHasNoStaleEntry, CancelledTurnsLeave, PTL

\* However many messages race in a conversation, at most one of its live turns
\* has not been told to stop and is not about to be.
THEOREM AtMostOneCurrentTurn == Spec => []OneCurrentTurn
<1>1. RegistryInv => OneCurrentTurn
  BY DEF RegistryInv, OneCurrentTurn
<1>2. QED
  BY <1>1, RegistryHolds, PTL

-----------------------------------------------------------------------------
(***************************************************************************)
(* startChat's promise of exclusivity: two prompts of one session, only if *)
(* one of the turns was told to stop or could not be shown; and a message  *)
(* tells a turn of its own caller to stop only if it was not held back by  *)
(* the verdict, whatever other callers do.                                 *)
(***************************************************************************)
Unprompted(t) ==
    phase[t] \in {"new", "blocked", "checked", "deferred", "admitted", "registered",
                  "spawned", "opening"}

\* Sessions are named by the turn that opened them, for its conversation.
SessionNames ==
    /\ \A c \in Convs : session[c] # None =>
          ~Unprompted(session[c]) /\ ConvOf[session[c]] = c
    /\ \A t \in Turns : sid[t] # None =>
          /\ ~Unprompted(sid[t])
          /\ ConvOf[sid[t]] = ConvOf[t]
          /\ phase[t] \in {"bound", "idle"}
    /\ \A t \in Turns : generating[t] # None =>
          /\ ~Unprompted(generating[t])
          /\ ConvOf[generating[t]] = ConvOf[t]
          /\ phase[t] \in {"prompting", "idle", "returned", "leaving", "done"}
    /\ \A t \in Turns : phase[t] = "bound" => sid[t] # None

\* Calling is being inside startChat.
Calling(t) == phase[t] \in {"blocked", "checked", "admitted", "registered"}

\* A caller has one startChat under way at a time, so what a held-back message
\* did not find its own caller cannot register behind its back.
CallerInv ==
    /\ \A t, u \in Turns : Calling(t) /\ Calling(u) /\ CallerOf[t] = CallerOf[u] => t = u
    /\ \A t \in asked : phase[t] \notin {"new", "blocked", "checked", "deferred"}
    /\ \A t \in asked : phase[t] = "admitted" /\ entries[ConvOf[t]] # None =>
          CallerOf[entries[ConvOf[t]]] # CallerOf[t]
    /\ \A t \in Turns : cut[t] # None =>
          /\ Live(cut[t]) \/ phase[cut[t]] = "done"
          /\ cut[t] \notin asked \/ CallerOf[cut[t]] # CallerOf[t]

Told(t) == t \in loose \/ cut[t] # None

\* A turn nobody told to stop keeps its entry until it leaves by itself; a session
\* it leaves behind with a prompt under way is never handed out again.
ExclusiveInv ==
    /\ \A t \in Turns : Live(t) /\ phase[t] # "leaving" /\ ~Told(t) => entries[ConvOf[t]] = t
    /\ \A t \in Turns :
          generating[t] # None /\ phase[t] \in {"returned", "leaving", "done"} /\ ~Told(t) =>
            /\ session[ConvOf[t]] # generating[t]
            /\ \A u \in Turns : ~Told(u) => sid[u] # generating[t]
    /\ \A t, u \in Turns :
          generating[t] # None /\ generating[t] = generating[u] /\ t # u => Told(t) \/ Told(u)

LEMMA SessionNamesNext == TypeOK /\ SessionNames /\ [Next]_vars => SessionNames'
<1> SUFFICES ASSUME TypeOK, SessionNames, [Next]_vars PROVE SessionNames'
  OBVIOUS
<1> USE TurnsAssumption DEF TypeOK, SessionNames, Unprompted, Phases
<1>1. ASSUME NEW t \in Turns, CallerStep(t) PROVE SessionNames'
  BY <1>1 DEF CallerStep, WaitForManager, StartChat, Begins, CheckActive, Defer, Register,
              Spawn, sessionVars
<1>2. ASSUME NEW t \in Turns, ClosureStep(t) PROVE SessionNames'
  BY <1>2 DEF ClosureStep, ClosureLookup, ClosureCancelCtx, CancelCtx, sessionVars
<1>3. ASSUME NEW t \in Turns, BindStep(t) PROVE SessionNames'
  <2>1. CASE ReuseSession(t)
    BY <2>1 DEF ReuseSession
  <2>2. CASE OpenSession(t)
    BY <2>2 DEF OpenSession, sessionVars
  <2>3. CASE SessionOpened(t)
    BY <2>3 DEF SessionOpened, Evict
  <2>4. CASE OpenAbandoned(t)
    BY <2>4 DEF OpenAbandoned, Evict, Return
  <2>5. QED
    BY <1>3, <2>1, <2>2, <2>3, <2>4 DEF BindStep, OpenFails, OpenCancelled
<1>4. ASSUME NEW t \in Turns, PromptFails(t) \/ SendPrompt(t) PROVE SessionNames'
  BY <1>4 DEF PromptFails, SendPrompt, Return
<1>5. ASSUME NEW t \in Turns, PromptCancelled(t) \/ ToolCeiling(t) \/ AgentAnswers(t)
      PROVE SessionNames'
  BY <1>5 DEF PromptCancelled, ToolCeiling, AgentAnswers, Return, Discard, sessionVars
<1>6. ASSUME NEW t \in Turns, IdleTimeout(t) PROVE SessionNames'
  BY <1>6 DEF IdleTimeout, Return
<1>7. ASSUME NEW t \in Turns, IdleDiscard(t) PROVE SessionNames'
  BY <1>7 DEF IdleDiscard, Return, Discard
<1>8. ASSUME NEW t \in Turns, RenderFails(t) \/ Leave(t) \/ Teardown(t) PROVE SessionNames'
  BY <1>8 DEF RenderFails, Leave, Teardown, Return, sessionVars
<1>9. ASSUME NEW c \in Convs, Stop(c) PROVE SessionNames'
  BY <1>9 DEF Stop, vars, sessionVars
<1>10. CASE WarmStep \/ StopCancels \/ UNCHANGED vars
  BY <1>10 DEF WarmStep, WarmBegins, WarmEnds, ResolveInterruptible, StopCancels, vars,
               sessionVars
<1>11. QED
  BY <1>1, <1>2, <1>3, <1>4, <1>5, <1>6, <1>7, <1>8, <1>9, <1>10
     DEF Next, HandleStep, OpenAnswered, BindStep

LEMMA SessionNamesHold == Spec => []SessionNames
<1>1. Init => SessionNames
  BY TurnsAssumption DEF Init, SessionNames, Unprompted
<1>2. QED
  BY <1>1, SessionNamesNext, TypeCorrect, PTL DEF Spec

\* Steps of Handle, of the closures and of Warm leave the callers alone.
LEMMA CallersUndisturbed ==
    ASSUME TypeOK, CallerInv, NEW t \in Turns, Live(t),
           \E p \in LivePhases \cup {"done"} : p # "registered" /\ phase' = [phase EXCEPT ![t] = p],
           UNCHANGED <<asked, cut>>,
           \A c \in Convs : entries'[c] \in {entries[c], None}
    PROVE  CallerInv'
<1>1. PICK p \in LivePhases \cup {"done"} : p # "registered" /\ phase' = [phase EXCEPT ![t] = p]
  OBVIOUS
<1>2. \A u \in Turns : phase'[u] = IF u = t THEN p ELSE phase[u]
  BY <1>1 DEF TypeOK
<1>3. \A u \in Turns : /\ Calling(u)' => Calling(u)
                       /\ Live(u) \/ phase[u] = "done" => Live(u)' \/ phase'[u] = "done"
                       /\ phase'[u] = "admitted" => phase[u] = "admitted"
                       /\ phase'[u] \in {"new", "blocked", "checked", "deferred"} =>
                            phase'[u] = phase[u]
  BY <1>1, <1>2 DEF Calling, Live, LivePhases
<1>4. \A u \in asked : entries'[ConvOf[u]] # None => entries'[ConvOf[u]] = entries[ConvOf[u]]
  BY TurnsAssumption DEF TypeOK
<1>5. \A u \in Turns : cut[u] # None => cut[u] \in Turns
  BY DEF TypeOK
<1>6. asked \subseteq Turns
  BY DEF TypeOK
<1>7. QED
  BY <1>3, <1>4, <1>5, <1>6 DEF CallerInv

LEMMA CallerNext == TypeOK /\ RegistryInv /\ CallerInv /\ [Next]_vars => CallerInv'
<1> SUFFICES ASSUME TypeOK, RegistryInv, CallerInv, [Next]_vars PROVE CallerInv'
  OBVIOUS
<1> USE TurnsAssumption DEF TypeOK
<1>1. ASSUME NEW t \in Turns, WaitForManager(t) \/ StartChat(t) PROVE CallerInv'
  <2>1. /\ \/ phase[t] = "new" /\ \A u \in Turns : Calling(u) => CallerOf[u] # CallerOf[t]
           \/ phase[t] = "blocked"
        /\ UNCHANGED <<entries, asked, cut>>
    BY <1>1 DEF WaitForManager, StartChat, Begins, Busy, Calling, registryVars, historyVars
  <2>2. PICK p \in {"blocked", "checked", "admitted"} : phase' = [phase EXCEPT ![t] = p]
    BY <1>1 DEF WaitForManager, StartChat
  <2>3. t \notin asked /\ ~Live(t)
    BY <2>1 DEF CallerInv, Live, LivePhases
  <2>4. \A u \in Turns : phase'[u] = IF u = t THEN p ELSE phase[u]
    BY <2>2
  <2>5. \A u, v \in Turns :
          Calling(u)' /\ Calling(v)' /\ CallerOf[u] = CallerOf[v] => u = v
    BY <2>1, <2>2, <2>4 DEF CallerInv, Calling
  <2>6. \A u \in Turns : cut[u] # None =>
          cut[u] # t /\ (Live(cut[u])' \/ phase'[cut[u]] = "done")
    BY <2>1, <2>3, <2>4 DEF CallerInv, Live
  <2>7. QED
    BY <2>1, <2>3, <2>4, <2>5, <2>6 DEF CallerInv
<1>2. ASSUME NEW t \in Turns, CheckActive(t) PROVE CallerInv'
  BY <1>2 DEF CheckActive, Defer, Active, CallerInv, Calling, Live, LivePhases, registryVars
<1>3. ASSUME NEW t \in Turns, Register(t) PROVE CallerInv'
  BY <1>3 DEF Register, RegistryInv, CallerInv, Calling, Live, LivePhases
<1>4. ASSUME NEW t \in Turns, Spawn(t) PROVE CallerInv'
  BY <1>4 DEF Spawn, CallerInv, Calling, Live, LivePhases, historyVars
<1>5. ASSUME UNCHANGED <<phase, asked, cut>>,
             \A c \in Convs : entries'[c] \in {entries[c], None}
      PROVE CallerInv'
  BY <1>5 DEF CallerInv, Calling, Live, LivePhases
<1>6. ASSUME NEW t \in Turns, HandleStep(t) \/ OpenAnswered(t)
      PROVE CallerInv'
  <2>1. Live(t) /\ UNCHANGED <<asked, cut>>
    BY <1>6 DEF HandleStep, OpenAnswered, ReuseSession, OpenSession, SessionOpened, OpenFails,
       OpenCancelled, OpenAbandoned, PromptFails, SendPrompt, PromptCancelled, IdleDiscard,
       Leave, Teardown, Live, LivePhases, historyVars
  <2>2. \A c \in Convs : entries'[c] \in {entries[c], None}
    BY <1>6 DEF HandleStep, OpenAnswered, ReuseSession, OpenSession, SessionOpened, OpenFails,
       OpenCancelled, OpenAbandoned, PromptFails, SendPrompt, PromptCancelled, IdleDiscard,
       Leave, Teardown, LeaveRegistry, RemoveEntry, registryVars
  <2>3. \E p \in LivePhases \cup {"done"} : p # "registered" /\ phase' = [phase EXCEPT ![t] = p]
    BY <1>6 DEF HandleStep, OpenAnswered, ReuseSession, OpenSession, SessionOpened, OpenFails,
       OpenCancelled, OpenAbandoned, PromptFails, SendPrompt, PromptCancelled, IdleDiscard,
       Leave, Teardown, Return, LivePhases
  <2>4. QED
    BY <2>1, <2>2, <2>3, CallersUndisturbed
<1>7. ASSUME NEW t \in Turns, IdleTimeout(t) \/ ToolCeiling(t) \/ RenderFails(t)
      PROVE CallerInv'
  <2>1. /\ Live(t) /\ UNCHANGED <<asked, cut, entries>>
        /\ \E p \in LivePhases \cup {"done"} : p # "registered" /\ phase' = [phase EXCEPT ![t] = p]
    BY <1>7 DEF IdleTimeout, ToolCeiling, RenderFails, Return, Live, LivePhases, registryVars,
       historyVars
  <2>2. QED
    BY <2>1, CallersUndisturbed
<1>8. ASSUME NEW t \in Turns, AgentAnswers(t) PROVE CallerInv'
  <2>1. UNCHANGED <<asked, cut, entries>>
    BY <1>8 DEF AgentAnswers, registryVars, historyVars
  <2>2. CASE phase[t] = "prompting"
    <3>1. Live(t) /\ \E p \in LivePhases \cup {"done"} :
                        p # "registered" /\ phase' = [phase EXCEPT ![t] = p]
      BY <1>8, <2>2 DEF AgentAnswers, Return, Live, LivePhases
    <3>2. QED
      BY <2>1, <3>1, CallersUndisturbed
  <2>3. CASE phase[t] # "prompting"
    BY <1>5, <1>8, <2>1, <2>3 DEF AgentAnswers
  <2>4. QED
    BY <2>2, <2>3
<1>9. ASSUME NEW c \in Convs, Stop(c) PROVE CallerInv'
  BY <1>5, <1>9 DEF Stop, RemoveEntry, vars, registryVars, historyVars
<1>10. ASSUME NEW t \in Turns, ClosureStep(t) PROVE CallerInv'
  BY <1>5, <1>10 DEF ClosureStep, ClosureLookup, ClosureCancelCtx, historyVars
<1>11. CASE WarmStep \/ StopCancels \/ UNCHANGED vars
  BY <1>5, <1>11 DEF WarmStep, WarmBegins, WarmEnds, ResolveInterruptible, StopCancels, vars,
     registryVars, historyVars
<1>12. QED
  BY <1>1, <1>2, <1>3, <1>4, <1>6, <1>7, <1>8, <1>9, <1>10, <1>11 DEF Next, CallerStep

LEMMA CallersHold == Spec => []CallerInv
<1>1. Init => CallerInv
  BY TurnsAssumption DEF Init, CallerInv, Calling
<1>2. QED
  BY <1>1, CallerNext, TypeCorrect, RegistryHolds, PTL DEF Spec

LEMMA ExclusiveNext ==
    TypeOK /\ RegistryInv /\ SessionNames /\ ExclusiveInv /\ [Next]_vars => ExclusiveInv'
<1> SUFFICES ASSUME TypeOK, RegistryInv, SessionNames, ExclusiveInv, [Next]_vars
             PROVE ExclusiveInv'
  OBVIOUS
<1>a. CancelledLeftRegistry
  BY CancelledHaveLeft
<1> USE TurnsAssumption DEF TypeOK, ExclusiveInv, Live, LivePhases, Told
<1>1. ASSUME NEW t \in Turns, WaitForManager(t) \/ StartChat(t) \/ CheckActive(t) \/ Spawn(t)
      PROVE ExclusiveInv'
  BY <1>1 DEF WaitForManager, StartChat, Begins, CheckActive, Defer, Spawn, registryVars,
     sessionVars, historyVars
<1>2. ASSUME NEW t \in Turns, Register(t) PROVE ExclusiveInv'
  BY <1>2 DEF Register, RegistryInv, SessionNames, Unprompted, sessionVars
<1>3. ASSUME NEW t \in Turns, ClosureStep(t) PROVE ExclusiveInv'
  BY <1>3 DEF ClosureStep, ClosureLookup, ClosureCancelCtx, sessionVars, historyVars
<1>4. ASSUME NEW t \in Turns, BindStep(t) PROVE ExclusiveInv'
  <2>1. CASE ReuseSession(t)
    BY <2>1 DEF ReuseSession, SessionNames, Unprompted, registryVars, historyVars
  <2>2. CASE OpenSession(t)
    BY <2>2 DEF OpenSession, registryVars, sessionVars, historyVars
  <2>3. CASE SessionOpened(t)
    BY <2>3 DEF SessionOpened, Evict, SessionNames, Unprompted, registryVars, historyVars
  <2>4. CASE OpenAbandoned(t)
    BY <2>4 DEF OpenAbandoned, Evict, SessionNames, Unprompted, Return, registryVars, historyVars
  <2>5. QED
    BY <1>4, <2>1, <2>2, <2>3, <2>4 DEF BindStep, OpenFails, OpenCancelled
<1>5. ASSUME NEW t \in Turns, PromptFails(t) PROVE ExclusiveInv'
  BY <1>5 DEF PromptFails, SessionNames, Return, registryVars, historyVars
<1>6. ASSUME NEW t \in Turns, SendPrompt(t) PROVE ExclusiveInv'
  BY <1>6 DEF SendPrompt, SessionNames, registryVars, historyVars
<1>7. ASSUME NEW t \in Turns, AgentAnswers(t) PROVE ExclusiveInv'
  BY <1>7 DEF AgentAnswers, Return, registryVars, sessionVars, historyVars
<1>8. ASSUME NEW t \in Turns, PromptCancelled(t) PROVE ExclusiveInv'
  BY <1>8, <1>a DEF PromptCancelled, CancelledLeftRegistry, Return, registryVars, sessionVars,
     historyVars
<1>9. ASSUME NEW t \in Turns, IdleTimeout(t) PROVE ExclusiveInv'
  BY <1>9 DEF IdleTimeout, SessionNames, Return, registryVars, historyVars
<1>10. ASSUME NEW t \in Turns, IdleDiscard(t) \/ ToolCeiling(t) PROVE ExclusiveInv'
  <2>1. CASE IdleDiscard(t)
    BY <2>1 DEF IdleDiscard, SessionNames, Return, Discard, registryVars, historyVars
  <2>2. CASE ToolCeiling(t)
    BY <2>2 DEF ToolCeiling, SessionNames, Return, Discard, registryVars, historyVars
  <2>3. QED
    BY <1>10, <2>1, <2>2
<1>11. ASSUME NEW t \in Turns, RenderFails(t) PROVE ExclusiveInv'
  BY <1>11 DEF RenderFails, Return, registryVars, sessionVars
<1>12. ASSUME NEW t \in Turns, Leave(t) \/ Teardown(t) PROVE ExclusiveInv'
  <2>1. CASE Leave(t)
    BY <2>1 DEF Leave, RemoveEntry, LeaveRegistry, sessionVars
  <2>2. CASE Teardown(t)
    BY <2>2 DEF Teardown, sessionVars, historyVars
  <2>3. QED
    BY <1>12, <2>1, <2>2
<1>13. ASSUME NEW c \in Convs, Stop(c) PROVE ExclusiveInv'
  BY <1>13 DEF Stop, RemoveEntry, Active, vars, registryVars, sessionVars, historyVars
<1>14. CASE WarmStep \/ StopCancels \/ UNCHANGED vars
  BY <1>14 DEF WarmStep, WarmBegins, WarmEnds, ResolveInterruptible, StopCancels, vars,
     registryVars, sessionVars, historyVars
<1>15. QED
  BY <1>1, <1>2, <1>3, <1>4, <1>5, <1>6, <1>7, <1>8, <1>9, <1>10, <1>11, <1>12,
     <1>13, <1>14 DEF Next, CallerStep, HandleStep, OpenAnswered, BindStep

\* For any callers and whatever they do at once: an agent works on two prompts of
\* one session only if a turn was let go by a /stop, a predecessor's teardown, a
\* reply that failed, another caller's message or one not held back by the verdict.
THEOREM ExclusiveSessions == Spec => []OnePromptPerSession
<1>1. Init => ExclusiveInv
  BY TurnsAssumption DEF Init, ExclusiveInv, Live, LivePhases
<1>2. CallerInv /\ ExclusiveInv => OnePromptPerSession
  BY DEF CallerInv, ExclusiveInv, OnePromptPerSession, LetGo, Told
<1>3. QED
  BY <1>1, <1>2, ExclusiveNext, CallersHold, TypeCorrect, RegistryHolds, SessionNamesHold, PTL
     DEF Spec

-----------------------------------------------------------------------------
(* Sequences laid end to end.                                               *)

\* What FlattenSeq computes on the way: f[i] is the concatenation of the first i sequences.
Flattens(f, s) ==
    f = [i \in 1..Len(s) |-> IF i = 1 THEN s[i] ELSE f[i - 1] \o s[i]]

First(s, k) == [j \in 1..k |-> s[j]]

LEMMA LeastExists ==
    ASSUME NEW S, S \subseteq Nat, S # {}
    PROVE  \E x \in S : \A y \in S : x <= y
<1>1. PICK x \in S : \A y \in S : ~(<<y, x>> \in OpToRel(<, Nat))
  BY NatLessThanWellFounded, WFMin
<1>2. \A y \in S : ~(y < x)
  BY <1>1 DEF OpToRel
<1>3. QED
  BY <1>2

LEMMA FirstIs ==
    ASSUME NEW T, NEW s \in Seq(T), NEW k \in 0..Len(s)
    PROVE  First(s, k) \in Seq(T) /\ Len(First(s, k)) = k /\ \A i \in 1..k : First(s, k)[i] = s[i]
  BY DEF First

LEMMA FlattensExists ==
    ASSUME NEW T, NEW s \in Seq(T), NEW n \in 0..Len(s)
    PROVE  \E f : Flattens(f, First(s, n))
<1> DEFINE Bad == {k \in 0..Len(s) : ~\E f : Flattens(f, First(s, k))}
<1> SUFFICES ASSUME Bad # {} PROVE FALSE
  OBVIOUS
<1>1. PICK k \in Bad : \A y \in Bad : k <= y
  <2>1. Bad \subseteq Nat
    OBVIOUS
  <2> HIDE DEF Bad
  <2>2. QED
    BY <2>1, LeastExists
<1>2. k \in 0..Len(s) /\ ~\E f : Flattens(f, First(s, k))
  BY <1>1
<1>3. CASE k = 0
  <2> DEFINE g == [i \in {} |-> 0]
  <2>1. Len(First(s, 0)) = 0 /\ 1..0 = {}
    BY FirstIs
  <2>2. g = [i \in {} |-> IF i = 1 THEN First(s, 0)[i] ELSE g[i - 1] \o First(s, 0)[i]]
    OBVIOUS
  <2>3. QED
    BY <1>2, <1>3, <2>1, <2>2 DEF Flattens
<1>4. CASE k # 0
  <2>1. k \in Nat /\ k - 1 \in 0..Len(s) /\ k - 1 \notin Bad
    BY <1>1, <1>4
  <2>2. PICK f : Flattens(f, First(s, k - 1))
    BY <2>1
  <2> DEFINE g == [i \in 1..k |-> IF i < k THEN f[i]
                                  ELSE IF i = 1 THEN s[i] ELSE f[i - 1] \o s[i]]
  <2>3. Len(First(s, k)) = k /\ \A i \in 1..k : First(s, k)[i] = s[i]
    BY <1>2, FirstIs
  <2>4. f = [i \in 1..(k - 1) |-> IF i = 1 THEN s[i] ELSE f[i - 1] \o s[i]]
    <3>1. Len(First(s, k - 1)) = k - 1 /\ \A i \in 1..(k - 1) : First(s, k - 1)[i] = s[i]
      BY <2>1, FirstIs
    <3>2. QED
      BY <2>2, <3>1 DEF Flattens
  <2>5. \A i \in 1..k : g[i] = IF i = 1 THEN s[i] ELSE g[i - 1] \o s[i]
    <3> SUFFICES ASSUME NEW i \in 1..k
                 PROVE  g[i] = IF i = 1 THEN s[i] ELSE g[i - 1] \o s[i]
      OBVIOUS
    <3>1. CASE i = k
      <4>1. i # 1 => i - 1 \in 1..k /\ i - 1 < k
        BY <2>1
      <4>2. QED
        BY <3>1, <4>1
    <3>2. CASE i # k
      <4>1. i \in 1..(k - 1) /\ i < k /\ (i # 1 => i - 1 \in 1..k /\ i - 1 < k)
        BY <2>1, <3>2
      <4>2. f[i] = IF i = 1 THEN s[i] ELSE f[i - 1] \o s[i]
        BY <2>4, <4>1
      <4>3. QED
        BY <4>1, <4>2
    <3>3. QED
      BY <3>1, <3>2
  <2>6. g = [i \in 1..k |-> IF i = 1 THEN s[i] ELSE g[i - 1] \o s[i]]
    <3>1. DOMAIN g = 1..k /\ g = [i \in 1..k |-> g[i]]
      OBVIOUS
    <3> HIDE DEF g
    <3>2. QED
      BY <2>5, <3>1
  <2> HIDE DEF g
  <2>7. Flattens(g, First(s, k))
    BY <2>3, <2>6 DEF Flattens
  <2>8. QED
    BY <1>2, <2>7
<1>5. QED
  BY <1>3, <1>4

\* FlattenSeq itself, in terms of such a function.
LEMMA FlattenIs ==
    ASSUME NEW s, Len(s) # 0, \E f : Flattens(f, s)
    PROVE  \E f : Flattens(f, s) /\ FlattenSeq(s) = f[Len(s)]
<1> DEFINE f == CHOOSE f : f = [i \in 1..Len(s) |-> IF i = 1 THEN s[i] ELSE f[i - 1] \o s[i]]
<1>1. Flattens(f, s)
  BY DEF Flattens
<1>2. FlattenSeq(s) = f[Len(s)]
  BY DEF FlattenSeq
<1>3. QED
  BY <1>1, <1>2

LEMMA FlattensStep ==
    ASSUME NEW T, NEW s \in Seq(T), NEW k \in 0..Len(s), NEW f, Flattens(f, First(s, k)),
           NEW i \in 1..k
    PROVE  f[i] = IF i = 1 THEN s[i] ELSE f[i - 1] \o s[i]
<1>1. Len(First(s, k)) = k /\ First(s, k)[i] = s[i]
  BY FirstIs
<1>2. QED
  BY <1>1 DEF Flattens

LEMMA FlattensAgree ==
    ASSUME NEW T, NEW s \in Seq(T), NEW k \in 0..Len(s), NEW m \in 0..Len(s), k <= m,
           NEW f, Flattens(f, First(s, k)), NEW g, Flattens(g, First(s, m))
    PROVE  \A i \in 1..k : f[i] = g[i]
<1> DEFINE Bad == {i \in 1..k : f[i] # g[i]}
<1> SUFFICES ASSUME Bad # {} PROVE FALSE
  OBVIOUS
<1>1. PICK i \in Bad : \A j \in Bad : i <= j
  <2>1. Bad \subseteq Nat
    OBVIOUS
  <2> HIDE DEF Bad
  <2>2. QED
    BY <2>1, LeastExists
<1>2. i \in 1..k /\ i \in 1..m /\ f[i] # g[i]
  BY <1>1
<1>3. /\ f[i] = IF i = 1 THEN s[i] ELSE f[i - 1] \o s[i]
      /\ g[i] = IF i = 1 THEN s[i] ELSE g[i - 1] \o s[i]
  BY <1>2, FlattensStep
<1>4. CASE i # 1
  <2>1. i - 1 \in 1..k /\ ~(i <= i - 1)
    BY <1>2, <1>4
  <2>2. i - 1 \notin Bad
    BY <1>1, <2>1
  <2>3. f[i - 1] = g[i - 1]
    BY <2>1, <2>2
  <2>4. QED
    BY <1>2, <1>3, <2>3
<1>5. QED
  BY <1>2, <1>3, <1>4

\* The first k sequences of s, one after the other.
Joined(s, k) == FlattenSeq(First(s, k))

LEMMA JoinedStep ==
    ASSUME NEW T, NEW s \in Seq(Seq(T)), NEW k \in 1..Len(s), Joined(s, k - 1) \in Seq(T)
    PROVE  Joined(s, k) = Joined(s, k - 1) \o s[k] /\ Joined(s, k) \in Seq(T)
<1>1. k - 1 \in 0..Len(s) /\ k \in 0..Len(s) /\ k - 1 <= k /\ k \in Nat /\ k # 0 /\ s[k] \in Seq(T)
  OBVIOUS
<1>2. Len(First(s, k)) = k /\ Len(First(s, k - 1)) = k - 1
  BY <1>1, FirstIs
<1>3. \E f : Flattens(f, First(s, k))
  BY <1>1, FlattensExists
<1>4. \E f : Flattens(f, First(s, k)) /\ FlattenSeq(First(s, k)) = f[k]
  <2> DEFINE q == First(s, k)
  <2>1. Len(q) = k /\ Len(q) # 0 /\ \E f : Flattens(f, q)
    BY <1>1, <1>2, <1>3
  <2> HIDE DEF q
  <2>2. \E f : Flattens(f, q) /\ FlattenSeq(q) = f[k]
    BY <2>1, FlattenIs
  <2>3. QED
    BY <2>2 DEF q
<1>5. PICK f : Flattens(f, First(s, k)) /\ Joined(s, k) = f[k]
  BY <1>4 DEF Joined
<1>6. f[k] = IF k = 1 THEN s[k] ELSE f[k - 1] \o s[k]
  BY <1>1, <1>5, FlattensStep
<1>7. CASE k = 1
  <2>1. First(s, 0) = <<>>
    BY DEF First
  <2>2. Joined(s, k - 1) = <<>>
    BY <1>7, <2>1 DEF Joined, FlattenSeq
  <2>3. s[k] = <<>> \o s[k]
    BY <1>1
  <2>4. QED
    BY <1>1, <1>5, <1>6, <1>7, <2>2, <2>3
<1>8. CASE k # 1
  <2> DEFINE h == k - 1
  <2>1. h \in 0..Len(s) /\ h \in Nat /\ h # 0 /\ h <= k /\ Len(First(s, h)) = h /\ h \in 1..h
    BY <1>1, <1>2, <1>8
  <2> HIDE DEF h
  <2>2. \E g : Flattens(g, First(s, h))
    BY <2>1, FlattensExists
  <2>3. \E g : Flattens(g, First(s, h)) /\ FlattenSeq(First(s, h)) = g[h]
    <3> DEFINE q == First(s, h)
    <3>1. Len(q) = h /\ Len(q) # 0 /\ \E g : Flattens(g, q)
      BY <2>1, <2>2
    <3> HIDE DEF q
    <3>2. \E g : Flattens(g, q) /\ FlattenSeq(q) = g[h]
      BY <3>1, FlattenIs
    <3>3. QED
      BY <3>2 DEF q
  <2>4. PICK g : Flattens(g, First(s, h)) /\ Joined(s, h) = g[h]
    BY <2>3 DEF Joined
  <2>5. Flattens(f, First(s, k)) /\ k \in 0..Len(s)
    BY <1>1, <1>5
  <2>6. \A i \in 1..h : g[i] = f[i]
    BY <2>1, <2>4, <2>5, FlattensAgree
  <2>7. f[h] = Joined(s, h)
    BY <2>1, <2>4, <2>6
  <2>8. Joined(s, k) = Joined(s, k - 1) \o s[k]
    BY <1>5, <1>6, <1>8, <2>7 DEF h
  <2>9. QED
    BY <1>1, <2>8
<1>9. QED
  BY <1>7, <1>8

\* Each sequence is found in the concatenation behind those before it.
LEMMA JoinedType ==
    ASSUME NEW T, NEW s \in Seq(Seq(T))
    PROVE  \A k \in 0..Len(s) : Joined(s, k) \in Seq(T)
<1> DEFINE Bad == {k \in 0..Len(s) : Joined(s, k) \notin Seq(T)}
<1> SUFFICES ASSUME Bad # {} PROVE FALSE
  OBVIOUS
<1>1. PICK k \in Bad : \A j \in Bad : k <= j
  <2>1. Bad \subseteq Nat
    OBVIOUS
  <2> HIDE DEF Bad
  <2>2. QED
    BY <2>1, LeastExists
<1>2. k \in 0..Len(s) /\ Joined(s, k) \notin Seq(T)
  BY <1>1
<1>3. CASE k = 0
  <2>1. First(s, 0) = <<>>
    BY DEF First
  <2>2. Joined(s, 0) = <<>>
    BY <2>1 DEF Joined, FlattenSeq
  <2>3. <<>> \in Seq(T)
    OBVIOUS
  <2>4. QED
    BY <1>2, <1>3, <2>2, <2>3
<1>4. CASE k # 0
  <2>1. k \in 1..Len(s) /\ k - 1 \in 0..Len(s) /\ ~(k <= k - 1)
    BY <1>2, <1>4
  <2>2. Joined(s, k - 1) \in Seq(T)
    BY <1>1, <2>1
  <2>3. QED
    BY <1>2, <2>1, <2>2, JoinedStep
<1>5. QED
  BY <1>3, <1>4

LEMMA JoinedStepAll ==
    ASSUME NEW T, NEW s \in Seq(Seq(T))
    PROVE  \A k \in 1..Len(s) :
             Joined(s, k - 1) \in Seq(T) => Joined(s, k) = Joined(s, k - 1) \o s[k]
<1> SUFFICES ASSUME NEW k \in 1..Len(s), Joined(s, k - 1) \in Seq(T)
             PROVE  Joined(s, k) = Joined(s, k - 1) \o s[k]
  OBVIOUS
<1>1. Joined(s, k) = Joined(s, k - 1) \o s[k] /\ Joined(s, k) \in Seq(T)
  BY JoinedStep
<1>2. QED
  BY <1>1

LEMMA JoinedSteps ==
    ASSUME NEW T, NEW s \in Seq(Seq(T))
    PROVE  \A k \in 1..Len(s) : /\ s[k] \in Seq(T) /\ Joined(s, k - 1) \in Seq(T)
                                /\ Joined(s, k) = Joined(s, k - 1) \o s[k]
<1>1. \A k \in 1..Len(s) : s[k] \in Seq(T) /\ k - 1 \in 0..Len(s)
  OBVIOUS
<1>2. \A k \in 0..Len(s) : Joined(s, k) \in Seq(T)
  BY JoinedType
<1>3. \A k \in 1..Len(s) :
        Joined(s, k - 1) \in Seq(T) => Joined(s, k) = Joined(s, k - 1) \o s[k]
  BY JoinedStepAll
<1>4. QED
  BY <1>1, <1>2, <1>3

LEMMA ConcatHolds ==
    ASSUME NEW T, NEW a \in Seq(T), NEW b \in Seq(T)
    PROVE  /\ Len(a) \in Nat /\ Len(b) \in Nat /\ Len(a \o b) = Len(a) + Len(b)
           /\ \A x \in 1..Len(a) : (a \o b)[x] = a[x]
           /\ \A x \in 1..Len(b) : (a \o b)[Len(a) + x] = b[x]
  OBVIOUS

LEMMA BehindConcat ==
    ASSUME NEW T, NEW a \in Seq(T), NEW b \in Seq(T), NEW j, j = a \o b
    PROVE  /\ Len(a) + Len(b) <= Len(j)
           /\ \A x \in 1..Len(b) : j[Len(a) + x] = b[x]
<1>1. /\ Len(a) \in Nat /\ Len(b) \in Nat /\ Len(a \o b) = Len(a) + Len(b)
      /\ \A x \in 1..Len(b) : (a \o b)[Len(a) + x] = b[x]
  BY ConcatHolds
<1>2. QED
  BY <1>1

LEMMA InsideConcat ==
    ASSUME NEW T, NEW a \in Seq(T), NEW b \in Seq(T), NEW c \in Seq(T), NEW n \in Nat
    PROVE  (n + Len(c) <= Len(a) /\ \A x \in 1..Len(c) : a[n + x] = c[x]) =>
             n + Len(c) <= Len(a \o b) /\ \A x \in 1..Len(c) : (a \o b)[n + x] = c[x]
<1> SUFFICES ASSUME n + Len(c) <= Len(a), \A x \in 1..Len(c) : a[n + x] = c[x]
             PROVE  n + Len(c) <= Len(a \o b) /\ \A x \in 1..Len(c) : (a \o b)[n + x] = c[x]
  OBVIOUS
<1>1. /\ Len(a) \in Nat /\ Len(b) \in Nat /\ Len(a \o b) = Len(a) + Len(b)
      /\ \A x \in 1..Len(a) : (a \o b)[x] = a[x]
  BY ConcatHolds
<1>2. Len(c) \in Nat
  OBVIOUS
<1>3. \A x \in 1..Len(c) : n + x \in 1..Len(a)
  BY <1>1, <1>2
<1>4. QED
  BY <1>1, <1>2, <1>3

LEMMA JoinedHolds ==
    ASSUME NEW T, NEW s \in Seq(Seq(T)), NEW k \in 1..Len(s)
    PROVE  \A m \in k..Len(s) :
             /\ Len(Joined(s, k - 1)) + Len(s[k]) <= Len(Joined(s, m))
             /\ \A x \in 1..Len(s[k]) : Joined(s, m)[Len(Joined(s, k - 1)) + x] = s[k][x]
<1> DEFINE n == Len(Joined(s, k - 1))
           Here(m) == /\ n + Len(s[k]) <= Len(Joined(s, m))
                      /\ \A x \in 1..Len(s[k]) : Joined(s, m)[n + x] = s[k][x]
           Bad == {m \in k..Len(s) : ~Here(m)}
<1>1. \A m \in 0..Len(s) : Joined(s, m) \in Seq(T) /\ Len(Joined(s, m)) \in Nat
  BY JoinedType
<1>2. k - 1 \in 0..Len(s) /\ k \in Nat /\ Len(s) \in Nat /\ n \in Nat
      /\ s[k] \in Seq(T) /\ Len(s[k]) \in Nat
  BY <1>1
<1> SUFFICES ASSUME Bad # {} PROVE FALSE
  OBVIOUS
<1>3. PICK m \in Bad : \A j \in Bad : m <= j
  <2> HIDE DEF Here
  <2>1. Bad \subseteq Nat
    BY <1>2
  <2> HIDE DEF Bad
  <2>2. QED
    BY <2>1, LeastExists
<1>4. m \in k..Len(s) /\ ~Here(m)
  BY <1>3
<1>5. m \in 1..Len(s) /\ m - 1 \in 0..Len(s)
  BY <1>2, <1>4
<1>6. Joined(s, m) = Joined(s, m - 1) \o s[m]
  <2> HIDE DEF Bad, Here, n
  <2>1. QED
    BY <1>5, JoinedSteps
<1>7. s[m] \in Seq(T) /\ Joined(s, m - 1) \in Seq(T)
  BY <1>1, <1>5
<1>8. CASE m = k
  <2>1. Joined(s, k - 1) \in Seq(T) /\ s[k] \in Seq(T) /\ Joined(s, m) = Joined(s, k - 1) \o s[k]
    BY <1>6, <1>7, <1>8
  <2>2. Here(m)
    <3> HIDE DEF Bad
    <3>1. QED
      BY <2>1, BehindConcat
  <2>3. QED
    BY <1>4, <2>2
<1>9. CASE m # k
  <2>1. m - 1 \in k..Len(s) /\ ~(m <= m - 1)
    BY <1>2, <1>4, <1>9
  <2>2. Here(m - 1)
    BY <1>3, <2>1
  <2>3. Here(m)
    <3> DEFINE a == Joined(s, m - 1)
               b == s[m]
               c == s[k]
               j == Joined(s, m)
    <3>1. /\ a \in Seq(T) /\ b \in Seq(T) /\ j = a \o b /\ c \in Seq(T) /\ n \in Nat
          /\ n + Len(c) <= Len(a)
          /\ \A x \in 1..Len(c) : a[n + x] = c[x]
      BY <1>2, <1>6, <1>7, <2>2
    <3>2. n + Len(c) <= Len(j) /\ \A x \in 1..Len(c) : j[n + x] = c[x]
      <4> HIDE DEF a, b, c, j, n, Here, Bad
      <4>1. a \in Seq(T) /\ b \in Seq(T) /\ c \in Seq(T) /\ n \in Nat
        BY <3>1
      <4>2. (n + Len(c) <= Len(a) /\ \A x \in 1..Len(c) : a[n + x] = c[x]) =>
              n + Len(c) <= Len(a \o b) /\ \A x \in 1..Len(c) : (a \o b)[n + x] = c[x]
        BY <4>1, InsideConcat
      <4>3. QED
        BY <3>1, <4>2
    <3>3. QED
      BY <3>2
  <2>4. QED
    BY <1>4, <2>3
<1>10. QED
  BY <1>8, <1>9
-----------------------------------------------------------------------------
(* Ingress: from the events to the turns.                                   *)

\* turns is a sequence of turns, as Append and EXCEPT leave it.
TurnFields == {"req", "known", "route", "registered", "at", "key", "reply", "display"}
TurnsShaped ==
    /\ \E T : turns \in Seq(T)
    /\ \A i \in 1..Len(turns) : DOMAIN turns[i] = TurnFields

LEMMA AppendIs ==
    ASSUME NEW T, NEW s \in Seq(T), NEW x
    PROVE  /\ Append(s, x) \in Seq(T \cup {x}) /\ Len(s) \in Nat
           /\ Len(Append(s, x)) = Len(s) + 1
           /\ \A i \in 1..Len(s) : Append(s, x)[i] = s[i]
           /\ Append(s, x)[Len(s) + 1] = x
  OBVIOUS

LEMMA ReplacedIs ==
    ASSUME NEW T, NEW s \in Seq(T), NEW i \in 1..Len(s), NEW x
    PROVE  /\ [s EXCEPT ![i] = x] \in Seq(T \cup {x}) /\ Len([s EXCEPT ![i] = x]) = Len(s)
           /\ \A j \in 1..Len(s) : [s EXCEPT ![i] = x][j] = IF j = i THEN x ELSE s[j]
  OBVIOUS

\* What Accept and SlashChat append, and what Handle changes.
Begun(req, t) ==
    /\ DOMAIN t = TurnFields /\ t.req = req /\ t.known = NameFor(req.channel)
    /\ t.at = "started"

LEMMA BeginTurnIs ==
    ASSUME NEW req, NEW r, TurnsShaped, BeginTurn(req, r)
    PROVE  /\ TurnsShaped' /\ Len(turns) \in Nat /\ Len(turns') = Len(turns) + 1
           /\ \A i \in 1..Len(turns) : turns'[i] = turns[i]
           /\ Begun(req, turns'[Len(turns) + 1])
<1>1. PICK T : turns \in Seq(T)
  BY DEF TurnsShaped
<1>2. PICK route : turns' = Append(turns,
         [req |-> req, known |-> NameFor(req.channel), route |-> route,
          registered |-> ConversationKey(req, route.threaded), at |-> "started",
          key |-> NotHandled, reply |-> "", display |-> ""])
  BY DEF BeginTurn
<1> DEFINE t == [req |-> req, known |-> NameFor(req.channel), route |-> route,
          registered |-> ConversationKey(req, route.threaded), at |-> "started",
          key |-> NotHandled, reply |-> "", display |-> ""]
<1>3. Begun(req, t)
  BY DEF Begun, TurnFields
<1> HIDE DEF t
<1>4. turns' = Append(turns, t)
  BY <1>2 DEF t
<1>5. /\ turns' \in Seq(T \cup {t}) /\ Len(turns) \in Nat
      /\ Len(turns') = Len(turns) + 1
      /\ \A i \in 1..Len(turns) : turns'[i] = turns[i]
      /\ turns'[Len(turns) + 1] = t
  BY <1>1, <1>4, AppendIs
<1>6. \A i \in 1..Len(turns') : DOMAIN turns'[i] = TurnFields
  BY <1>3, <1>5 DEF TurnsShaped, Begun
<1>7. TurnsShaped'
  BY <1>5, <1>6 DEF TurnsShaped
<1>8. QED
  BY <1>3, <1>5, <1>7

LEMMA HandleIs ==
    ASSUME NEW i \in 1..Len(turns), TurnsShaped, Handle(i)
    PROVE  /\ TurnsShaped' /\ Len(turns') = Len(turns)
           /\ \A j \in 1..Len(turns) : turns'[j].req = turns[j].req
                                       /\ turns'[j].known = turns[j].known
           /\ \A j \in 1..Len(turns) : j # i => turns'[j] = turns[j]
           /\ \E route \in Routes(turns[i].req, NameFor(turns[i].req.channel), config.chat) :
                /\ turns'[i].route = route
                /\ turns'[i].at = "no agent" => route.agent \notin built
<1>1. PICK T : turns \in Seq(T)
  BY DEF TurnsShaped
<1> DEFINE req == turns[i].req
<1>2. PICK route \in Routes(req, NameFor(req.channel), config.chat) :
        turns' = [turns EXCEPT ![i] = [@ EXCEPT
            !.route = route,
            !.key = ConversationKey(req, route.threaded),
            !.reply = ReplyThreadTS(req, route.threaded),
            !.display = EffectiveProgressDisplay(config, route.agent),
            !.at = CASE route.agent \notin built          -> "no agent"
                     [] req.empty                         -> "empty prompt"
                     [] req.thread = "" /\ req.ts = ""    -> "no timestamp"
                     [] OTHER                             -> "answering"]]
  BY DEF Handle
<1> DEFINE k == ConversationKey(req, route.threaded)
           p == ReplyThreadTS(req, route.threaded)
           d == EffectiveProgressDisplay(config, route.agent)
           a == CASE route.agent \notin built          -> "no agent"
                  [] req.empty                         -> "empty prompt"
                  [] req.thread = "" /\ req.ts = ""    -> "no timestamp"
                  [] OTHER                             -> "answering"
           t == [turns[i] EXCEPT !.route = route, !.key = k, !.reply = p,
                                 !.display = d, !.at = a]
<1>3. a = "no agent" => route.agent \notin built
  OBVIOUS
<1>4. turns' = [turns EXCEPT ![i] = t]
  BY <1>2
<1>5. DOMAIN turns[i] = TurnFields
  BY DEF TurnsShaped
<1> HIDE DEF k, p, d, a
<1>6. DOMAIN t = TurnFields
  BY <1>5
<1>7. t.req = turns[i].req /\ t.known = turns[i].known
  BY <1>5 DEF TurnFields
<1>8. t.route = route /\ t.at = a
  BY <1>5 DEF TurnFields
<1> HIDE DEF t
<1>9. /\ turns' \in Seq(T \cup {t}) /\ Len(turns') = Len(turns)
      /\ \A j \in 1..Len(turns) : turns'[j] = IF j = i THEN t ELSE turns[j]
  BY <1>1, <1>4, ReplacedIs
<1>10. TurnsShaped'
  BY <1>6, <1>9 DEF TurnsShaped
<1>11. QED
  BY <1>2, <1>3, <1>7, <1>8, <1>9, <1>10

\* No agent is asked for by name, and no message is behind it.
Plain(req)  == req.override = ""
Silent(req) == req.ts = ""

\* A route leads to an agent of the files.
LEMMA RouteIsKnown ==
    ASSUME NEW c, c.chat.enabled, ValidChat(c.chat, c.agents),
           NEW req, Plain(req), NEW name, NEW route \in Routes(req, name, c.chat)
    PROVE  route.agent \in DOMAIN c.agents
<1>1. /\ c.chat.agent \in DOMAIN c.agents
      /\ c.chat.dmAgent \in DOMAIN c.agents \cup {""}
      /\ \A k \in DOMAIN c.chat.channels : c.chat.channels[k].agent \in DOMAIN c.agents \cup {""}
  BY DEF ValidChat
<1>2. route \in (IF req.dm THEN {RouteOfDM(c.chat)}
                 ELSE RoutesOfChannel(req.channel, name, c.chat))
  BY DEF Routes, Overridden, Plain
<1>3. CASE req.dm
  <2>1. route = RouteOfDM(c.chat)
    BY <1>2, <1>3
  <2>2. route.agent = IF c.chat.dmAgent # "" THEN c.chat.dmAgent ELSE c.chat.agent
    BY <2>1 DEF RouteOfDM, Route
  <2>3. QED
    BY <1>1, <2>2
<1>4. CASE ~req.dm
  <2>1. route \in RoutesOfChannel(req.channel, name, c.chat)
    BY <1>2, <1>4
  <2>2. \/ route = Route(c.chat.agent, EffectiveReplyOnThread(c.chat))
        \/ \E cc \in MatchChannel(req.channel, name, c.chat.channels) : \E t :
               route = Route(IF cc.agent # "" THEN cc.agent ELSE c.chat.agent, t)
    BY <2>1 DEF RoutesOfChannel, Route
  <2>3. \A a, t : Route(a, t).agent = a
    BY DEF Route
  <2>4. \A cc \in MatchChannel(req.channel, name, c.chat.channels) :
          cc.agent \in DOMAIN c.agents \cup {""}
    BY <1>1 DEF MatchChannel
  <2>5. CASE route = Route(c.chat.agent, EffectiveReplyOnThread(c.chat))
    BY <1>1, <2>3, <2>5
  <2>6. CASE \E cc \in MatchChannel(req.channel, name, c.chat.channels) : \E t :
               route = Route(IF cc.agent # "" THEN cc.agent ELSE c.chat.agent, t)
    <3>1. PICK cc \in MatchChannel(req.channel, name, c.chat.channels) : \E t :
            route = Route(IF cc.agent # "" THEN cc.agent ELSE c.chat.agent, t)
      BY <2>6
    <3>2. route.agent = IF cc.agent # "" THEN cc.agent ELSE c.chat.agent
      BY <2>3, <3>1
    <3>3. QED
      BY <1>1, <2>4, <3>2
  <2>7. QED
    BY <2>2, <2>5, <2>6
<1>5. QED
  BY <1>3, <1>4

\* What serving rests on: chat is valid, and each agent that is missing was reported.
Served ==
    /\ files \in Directories
    /\ gateway = "serving" =>
         /\ config.chat.enabled => ValidChat(config.chat, config.agents)
         /\ problems = Problems(config, built)

\* Nothing happens before that; a turn is one of chat.
NothingBefore ==
    /\ delivered \in [Messages \X {"mention", "message"} -> Nat]
    /\ gateway # "serving" => /\ turns = <<>> /\ handled = {}
                              /\ \A e \in DOMAIN delivered : delivered[e] = 0
    /\ turns # <<>> => config.chat.enabled

\* The turns of messages and the messages handled correspond.
MessageOf(q) == <<q.channel, q.ts>>
LEMMA MessageSame ==
    ASSUME NEW p, NEW q, MessageOf(p) = MessageOf(q)
    PROVE  Silent(p) = Silent(q)
  BY DEF MessageOf, Silent

Booked ==
    /\ \A i \in 1..Len(turns) : /\ Plain(turns[i].req)
                                /\ ~Silent(turns[i].req) => MessageOf(turns[i].req) \in handled
    /\ \A i, j \in 1..Len(turns) :
         ~Silent(turns[i].req) /\ MessageOf(turns[i].req) = MessageOf(turns[j].req) => i = j
    /\ \A h \in handled : \E i \in 1..Len(turns) : MessageOf(turns[i].req) = h

\* The event that is sure to be acted on, of a message that mentions the bot.
SureEvent(m) == IF m.dm THEN "message" ELSE "mention"
Arrived ==
    \A m \in Messages :
      /\ m.mentions /\ m.kind = "text" /\ config.chat.enabled /\ IsAllowedUser(access, m.user)
      /\ delivered[<<m, SureEvent(m)>>] > 0
      => MessageOf(m) \in handled

TurnsInv == TurnsShaped /\ Served /\ NothingBefore /\ Booked /\ Arrived /\ RefusalAnnounced

LEMMA BeginTurnKeeps ==
    ASSUME NEW req, NEW r, Plain(req), TurnsShaped, Booked, RefusalAnnounced,
           BeginTurn(req, r), UNCHANGED startup,
           \/ Silent(req) /\ UNCHANGED handled
           \/ MessageOf(req) \notin handled /\ handled' = handled \cup {MessageOf(req)}
    PROVE  TurnsShaped' /\ Booked' /\ RefusalAnnounced' /\ turns' # <<>>
<1> DEFINE n == Len(turns) + 1
           l == Len(turns)
<1>1. /\ TurnsShaped' /\ l \in Nat /\ Len(turns') = n
      /\ \A i \in 1..l : turns'[i] = turns[i]
      /\ turns'[n].req = req /\ turns'[n].at = "started"
  BY BeginTurnIs DEF Begun
<1>2. n \in 1..n /\ \A i \in 1..n : i = n \/ i \in 1..l
  <2>1. l \in Nat /\ n = l + 1
    BY <1>1
  <2> HIDE DEF l, n
  <2>2. QED
    BY <2>1
<1>3. \A i \in 1..l : MessageOf(turns'[i].req) = MessageOf(turns[i].req) /\ i \in 1..n /\ i # n
  <2>1. l \in Nat /\ n = l + 1 /\ \A i \in 1..l : turns'[i].req = turns[i].req
    BY <1>1
  <2> HIDE DEF l, n
  <2>2. \A i \in 1..l : i \in 1..n /\ i # n
    BY <2>1
  <2>3. QED
    BY <2>1, <2>2
<1>4. MessageOf(turns'[n].req) = MessageOf(req)
  BY <1>1 DEF MessageOf
<1> HIDE DEF n
<1>5. \A i \in 1..Len(turns') : /\ Plain(turns'[i].req)
                                /\ ~Silent(turns'[i].req) => MessageOf(turns'[i].req) \in handled'
  BY <1>1, <1>2, <1>3, <1>4 DEF Booked
<1>6. \A h \in handled' : \E i \in 1..Len(turns') : MessageOf(turns'[i].req) = h
  BY <1>1, <1>2, <1>3, <1>4 DEF Booked
<1>7. \A i, j \in 1..Len(turns') :
         ~Silent(turns'[i].req) /\ MessageOf(turns'[i].req) = MessageOf(turns'[j].req) => i = j
  <2> SUFFICES ASSUME NEW i \in 1..n, NEW j \in 1..n, ~Silent(turns'[i].req),
                      MessageOf(turns'[i].req) = MessageOf(turns'[j].req)
               PROVE  i = j
    BY <1>1
  <2>1. ~Silent(turns'[j].req)
    BY MessageSame
  <2>2. CASE i = n /\ j # n
    BY <1>1, <1>2, <1>3, <1>4, <2>1, <2>2 DEF Booked
  <2>3. CASE i # n /\ j = n
    BY <1>1, <1>2, <1>3, <1>4, <2>1, <2>3 DEF Booked
  <2>4. CASE i # n /\ j # n
    BY <1>1, <1>2, <1>3, <2>4 DEF Booked
  <2>5. QED
    BY <2>2, <2>3, <2>4
<1>8. Booked'
  BY <1>5, <1>6, <1>7 DEF Booked
<1>9. RefusalAnnounced'
  BY <1>1, <1>2 DEF RefusalAnnounced, startup
<1>10. turns' # <<>>
  <2>1. Len(turns') = n /\ n # 0
    BY <1>1 DEF n
  <2>2. QED
    BY <2>1
<1>11. QED
  BY <1>1, <1>8, <1>9, <1>10

LEMMA AcceptKeeps ==
    ASSUME NEW m \in Messages, NEW source, NEW r, TurnsShaped, Booked, RefusalAnnounced,
           Accept(m, source, r), UNCHANGED startup
    PROVE  /\ TurnsShaped' /\ Booked' /\ RefusalAnnounced'
           /\ handled \subseteq handled' /\ MessageOf(m) \in handled'
<1>1. CASE Duplicate(m)
  <2>1. MessageOf(m) \in handled /\ UNCHANGED <<handled, turns>>
    BY <1>1 DEF Accept, Duplicate, MessageOf
  <2>2. Booked' /\ TurnsShaped' /\ RefusalAnnounced'
    BY <2>1 DEF TurnsShaped, Booked, RefusalAnnounced, startup
  <2>3. QED
    BY <2>1, <2>2
<1>2. CASE ~Duplicate(m)
  <2> DEFINE req == Request(m, source)
  <2>1. Plain(req) /\ MessageOf(req) = MessageOf(m)
    BY DEF Request, MessageOf, Plain
  <2>2. BeginTurn(req, r) /\ MessageOf(m) \notin handled /\ handled' = handled \cup {MessageOf(m)}
    BY <1>2 DEF Accept, Duplicate, MessageOf
  <2> HIDE DEF req
  <2>3. TurnsShaped' /\ Booked' /\ RefusalAnnounced'
    BY <2>1, <2>2, BeginTurnKeeps
  <2>4. QED
    BY <2>2, <2>3
<1>3. QED
  BY <1>1, <1>2

LEMMA HandleKeeps ==
    ASSUME NEW i \in 1..Len(turns), TurnsShaped, Served, Booked, RefusalAnnounced,
           config.chat.enabled, gateway = "serving", Handle(i)
    PROVE  TurnsShaped' /\ Booked' /\ RefusalAnnounced' /\ Len(turns') = Len(turns)
<1>1. /\ TurnsShaped' /\ Len(turns') = Len(turns)
      /\ \A j \in 1..Len(turns) : turns'[j].req = turns[j].req
      /\ \A j \in 1..Len(turns) : j # i => turns'[j] = turns[j]
  BY HandleIs
<1>2. PICK route \in Routes(turns[i].req, NameFor(turns[i].req.channel), config.chat) :
        turns'[i].route = route /\ (turns'[i].at = "no agent" => route.agent \notin built)
  BY HandleIs
<1>3. UNCHANGED <<handled, problems, built, config>>
  BY DEF Handle, startup
<1>4. Booked'
  BY <1>1, <1>3 DEF Booked
<1>5. route.agent \in DOMAIN config.agents
  <2>1. Plain(turns[i].req) /\ ValidChat(config.chat, config.agents)
    BY DEF Booked, Served
  <2>2. QED
    BY <1>2, <2>1, RouteIsKnown
<1>6. route.agent \notin built => <<"agent", route.agent>> \in problems
  <2>1. problems = Problems(config, built)
    BY DEF Served
  <2>2. QED
    BY <1>5, <2>1 DEF Problems
<1>7. RefusalAnnounced'
  <2> SUFFICES ASSUME NEW j \in 1..Len(turns), turns'[j].at = "no agent"
               PROVE  <<"agent", turns'[j].route.agent>> \in problems
    BY <1>1, <1>3 DEF RefusalAnnounced
  <2>1. CASE j = i
    BY <1>2, <1>6, <2>1
  <2>2. CASE j # i
    BY <1>1, <2>2 DEF RefusalAnnounced
  <2>3. QED
    BY <2>1, <2>2
<1>8. QED
  BY <1>1, <1>4, <1>7

\* Nothing of what Booked, Arrived and the rest speak of changes.
LEMMA OthersKeep ==
    ASSUME TurnsInv, UNCHANGED <<startup, handled, delivered, turns>>
    PROVE  TurnsInv'
  BY DEF TurnsInv, TurnsShaped, Served, NothingBefore, Booked, Arrived, RefusalAnnounced, startup

LEMMA StartKeeps ==
    ASSUME TurnsInv, StartServing
    PROVE  TurnsInv'
<1>1. gateway = "start" /\ turns = <<>> /\ handled = {} /\ UNCHANGED <<handled, delivered, turns>>
      /\ \A e \in DOMAIN delivered : delivered[e] = 0
  BY DEF TurnsInv, NothingBefore, StartServing
<1>2. TurnsShaped' /\ Booked' /\ RefusalAnnounced' /\ Arrived'
  <2>1. Len(turns') = 0
    BY <1>1
  <2>2. TurnsShaped' /\ Booked' /\ RefusalAnnounced'
    BY <1>1, <2>1 DEF TurnsShaped, Booked, RefusalAnnounced, TurnsInv
  <2>3. \A m \in Messages : ~(delivered'[<<m, SureEvent(m)>>] > 0)
    BY <1>1 DEF SureEvent, TurnsInv, NothingBefore
  <2>4. QED
    BY <2>2, <2>3 DEF Arrived
<1>3. NothingBefore'
  BY <1>1 DEF TurnsInv, NothingBefore
<1>4. Served'
  <2>0. files \in Directories /\ UNCHANGED files
    BY DEF TurnsInv, Served, StartServing
  <2> SUFFICES ASSUME gateway' = "serving"
               PROVE  /\ config'.chat.enabled => ValidChat(config'.chat, config'.agents)
                      /\ problems' = Problems(config', built')
    BY <2>0 DEF Served
  <2>1. Loads(files, Bundled) /\ config' = Baked(files.config)
        /\ problems' = Problems(config', built')
    BY DEF StartServing
  <2>2. config'.chat = files.config.chat /\ DOMAIN config'.agents = DOMAIN files.config.agents
    BY <2>0, <2>1, IngressAssumption DEF Baked, ConfigOK
  <2>3. ValidChat(files.config.chat, files.config.agents)
    BY <2>1 DEF Loads, Valid
  <2>4. QED
    BY <2>1, <2>2, <2>3 DEF ValidChat
<1>5. QED
  BY <1>2, <1>3, <1>4 DEF TurnsInv

LEMMA ReceiveIs ==
    ASSUME NEW m \in Messages, NEW event \in {"mention", "message"}, NothingBefore,
           Receive(m, event)
    PROVE  /\ delivered' \in [Messages \X {"mention", "message"} -> Nat]
           /\ gateway = "serving" /\ UNCHANGED startup
           /\ \A e \in DOMAIN delivered : e # <<m, event>> => delivered'[e] = delivered[e]
<1> DEFINE e == <<m, event>>
<1>1. e \in Messages \X {"mention", "message"}
  OBVIOUS
<1> HIDE DEF e
<1>2. /\ delivered \in [Messages \X {"mention", "message"} -> Nat]
      /\ delivered' = [delivered EXCEPT ![e] = delivered[e] + 1]
      /\ gateway = "serving" /\ UNCHANGED startup
  BY DEF NothingBefore, Receive, e
<1>3. delivered[e] + 1 \in Nat
  BY <1>1, <1>2
<1>4. QED
  BY <1>1, <1>2, <1>3 DEF e

\* An event that is the sure one of its message leaves the message handled.
LEMMA EventKeeps ==
    ASSUME NEW m \in Messages, NEW event \in {"mention", "message"}, TurnsInv,
           Receive(m, event),
           TurnsShaped', Booked', RefusalAnnounced', handled \subseteq handled',
           turns' # <<>> => config.chat.enabled,
           /\ m.mentions /\ m.kind = "text" /\ config.chat.enabled /\ IsAllowedUser(access, m.user)
           /\ event = SureEvent(m)
           => MessageOf(m) \in handled'
    PROVE  TurnsInv'
<1>1. /\ delivered' \in [Messages \X {"mention", "message"} -> Nat]
      /\ gateway = "serving" /\ UNCHANGED startup
      /\ \A e \in DOMAIN delivered : e # <<m, event>> => delivered'[e] = delivered[e]
  BY ReceiveIs DEF TurnsInv
<1>2. UNCHANGED <<files, gateway, config, built, problems, access>>
  BY <1>1 DEF startup
<1>3. Served'
  BY <1>2 DEF TurnsInv, Served
<1>4. NothingBefore'
  BY <1>1, <1>2 DEF NothingBefore
<1>5. Arrived'
  <2> SUFFICES ASSUME NEW w \in Messages, w.mentions, w.kind = "text", config.chat.enabled,
                      IsAllowedUser(access, w.user), delivered'[<<w, SureEvent(w)>>] > 0
               PROVE  MessageOf(w) \in handled'
    BY <1>2 DEF Arrived
  <2>1. CASE w = m /\ event = SureEvent(m)
    BY <2>1
  <2>2. CASE ~(w = m /\ event = SureEvent(m))
    <3>1. <<w, SureEvent(w)>> \in Messages \X {"mention", "message"}
          /\ <<w, SureEvent(w)>> # <<m, event>>
      BY <2>2 DEF SureEvent
    <3>2. delivered'[<<w, SureEvent(w)>>] = delivered[<<w, SureEvent(w)>>]
      BY <1>1, <3>1 DEF TurnsInv, NothingBefore
    <3>3. QED
      BY <3>2 DEF TurnsInv, Arrived
  <2>3. QED
    BY <2>1, <2>2
<1>6. QED
  BY <1>3, <1>4, <1>5 DEF TurnsInv

LEMMA MentionKeeps ==
    ASSUME TurnsInv, NEW m \in Messages, Mention(m)
    PROVE  TurnsInv'
<1>1. m.mentions /\ ~m.dm /\ Receive(m, "mention") /\ UNCHANGED startup
  BY DEF Mention, Receive
<1>2. CASE config.chat.enabled /\ m.kind # "bot" /\ IsAllowedUser(access, m.user)
  <2>1. Accept(m, "app_mention", refresh)
    BY <1>2 DEF Mention
  <2>2. /\ TurnsShaped' /\ Booked' /\ RefusalAnnounced'
        /\ handled \subseteq handled' /\ MessageOf(m) \in handled'
    BY <1>1, <2>1, AcceptKeeps DEF TurnsInv
  <2>3. QED
    BY <1>1, <1>2, <2>2, EventKeeps
<1>3. CASE ~(config.chat.enabled /\ m.kind # "bot" /\ IsAllowedUser(access, m.user))
  <2>1. UNCHANGED <<handled, turns>>
    BY <1>3 DEF Mention, Ignore
  <2>2. TurnsShaped' /\ Booked' /\ RefusalAnnounced'
    BY <1>1, <2>1 DEF TurnsInv, TurnsShaped, Booked, RefusalAnnounced, startup
  <2>3. turns' # <<>> => config.chat.enabled
    BY <2>1 DEF TurnsInv, NothingBefore
  <2>4. QED
    BY <1>1, <1>3, <2>1, <2>2, <2>3, EventKeeps
<1>4. QED
  BY <1>2, <1>3

LEMMA MessageKeeps ==
    ASSUME TurnsInv, NEW m \in Messages, Message(m)
    PROVE  TurnsInv'
<1>1. Receive(m, "message") /\ UNCHANGED startup
  BY DEF Message, Receive
<1> DEFINE Open == config.chat.enabled /\ m.kind \in {"text", "upload"}
                   /\ IsAllowedUser(access, m.user)
<1>2. CASE \E source, r : Accept(m, source, r) /\ config.chat.enabled
  <2>1. /\ TurnsShaped' /\ Booked' /\ RefusalAnnounced' /\ config.chat.enabled
        /\ handled \subseteq handled' /\ MessageOf(m) \in handled'
    BY <1>1, <1>2, AcceptKeeps DEF TurnsInv
  <2>2. QED
    BY <1>1, <2>1, EventKeeps
<1>3. CASE UNCHANGED <<handled, turns>> /\ ~(Open /\ m.dm)
  <2>1. TurnsShaped' /\ Booked' /\ RefusalAnnounced'
    BY <1>1, <1>3 DEF TurnsInv, TurnsShaped, Booked, RefusalAnnounced, startup
  <2>2. turns' # <<>> => config.chat.enabled
    BY <1>3 DEF TurnsInv, NothingBefore
  <2>3. m.kind = "text" /\ config.chat.enabled /\ IsAllowedUser(access, m.user)
          => "message" # SureEvent(m)
    BY <1>3 DEF SureEvent
  <2>4. QED
    BY <1>1, <1>3, <2>1, <2>2, <2>3, EventKeeps
<1>4. QED
  BY <1>2, <1>3 DEF Message, Ignore

LEMMA SlashKeeps ==
    ASSUME TurnsInv, NEW m \in Commands, SlashChat(m)
    PROVE  TurnsInv'
<1> DEFINE req == Request(m, "slash_command")
<1>1. Plain(req) /\ Silent(req)
  BY IngressAssumption DEF Plain, Silent, Request
<1>2. /\ BeginTurn(req, refresh) /\ gateway = "serving" /\ config.chat.enabled
      /\ UNCHANGED <<startup, handled, delivered>>
  BY DEF SlashChat
<1> HIDE DEF req
<1>3. UNCHANGED startup /\ UNCHANGED handled /\ TurnsShaped /\ Booked /\ RefusalAnnounced
  BY <1>2 DEF TurnsInv
<1>4. TurnsShaped' /\ Booked' /\ RefusalAnnounced'
  BY <1>1, <1>2, <1>3, BeginTurnKeeps
<1>5. Served' /\ NothingBefore' /\ Arrived'
  BY <1>2 DEF TurnsInv, Served, NothingBefore, Arrived, startup
<1>6. QED
  BY <1>4, <1>5 DEF TurnsInv

LEMMA TurnsStep == TurnsInv /\ [IngressNext]_ingressVars => TurnsInv'
<1> SUFFICES ASSUME TurnsInv, [IngressNext]_ingressVars PROVE TurnsInv'
  OBVIOUS
<1>1. CASE StartServing
  BY <1>1, StartKeeps
<1>2. CASE TickNames \/ \E r \in Refreshers : Listed(r) \/ ListFails(r)
  BY <1>2, OthersKeep DEF TickNames, Listed, ListFails
<1>3. CASE \E ch \in Channels : Rename(ch)
  BY <1>3, OthersKeep DEF Rename
<1>4. ASSUME NEW m \in Messages, Mention(m) \/ Message(m) PROVE TurnsInv'
  BY <1>4, MentionKeeps, MessageKeeps
<1>5. ASSUME NEW m \in Commands, SlashChat(m) PROVE TurnsInv'
  BY <1>5, SlashKeeps
<1>6. ASSUME NEW i \in 1..Len(turns), Handle(i) PROVE TurnsInv'
  <2>1. turns # <<>> /\ gateway = "serving" /\ config.chat.enabled
    <3>1. turns # <<>>
      BY <1>6
    <3>2. QED
      BY <3>1 DEF TurnsInv, NothingBefore
  <2>2. TurnsShaped' /\ Booked' /\ RefusalAnnounced' /\ Len(turns') = Len(turns)
    BY <1>6, <2>1, HandleKeeps DEF TurnsInv
  <2>3. UNCHANGED <<startup, handled, delivered>>
    BY <1>6 DEF Handle
  <2>4. Served' /\ NothingBefore' /\ Arrived'
    BY <2>1, <2>3 DEF TurnsInv, Served, NothingBefore, Arrived, startup
  <2>5. QED
    BY <2>2, <2>4 DEF TurnsInv
<1>7. CASE UNCHANGED ingressVars
  BY <1>7, OthersKeep DEF ingressVars
<1>8. QED
  BY <1>1, <1>2, <1>3, <1>4, <1>5, <1>6, <1>7 DEF IngressNext

LEMMA TurnsCounted == TurnsInv => TurnsAccounted
<1> SUFFICES ASSUME TurnsInv, NEW m \in Messages
             PROVE  LET n == Cardinality({i \in 1..Len(turns) :
                               turns[i].req.channel = m.channel /\ turns[i].req.ts = m.ts})
                    IN  /\ n <= 1
                        /\ (/\ \A e \in {"mention", "message"} : delivered[<<m, e>>] > 0
                            /\ m.mentions /\ m.kind = "text" /\ config.chat.enabled
                            /\ IsAllowedUser(access, m.user)) => n = 1
  BY DEF TurnsInv, TurnsAccounted, OneTurnPerMessage
<1> DEFINE S == {i \in 1..Len(turns) :
                   turns[i].req.channel = m.channel /\ turns[i].req.ts = m.ts}
<1>1. \A i \in S : MessageOf(turns[i].req) = MessageOf(m) /\ ~Silent(turns[i].req)
  BY IngressAssumption DEF MessageOf, Silent
<1>2. \A i, j \in S : i = j
  BY <1>1 DEF TurnsInv, Booked
<1>3. S # {} => Cardinality(S) = 1
  <2> SUFFICES ASSUME S # {} PROVE Cardinality(S) = 1
    OBVIOUS
  <2>1. PICK i : i \in S
    OBVIOUS
  <2>2. S = {i}
    BY <1>2, <2>1
  <2> HIDE DEF S
  <2>3. QED
    BY <2>2, FS_Singleton
<1>4. S = {} => Cardinality(S) = 0
  BY FS_EmptySet
<1>5. (/\ \A e \in {"mention", "message"} : delivered[<<m, e>>] > 0
       /\ m.mentions /\ m.kind = "text" /\ config.chat.enabled
       /\ IsAllowedUser(access, m.user)) => S # {}
  <2> SUFFICES ASSUME \A e \in {"mention", "message"} : delivered[<<m, e>>] > 0,
                      m.mentions, m.kind = "text", config.chat.enabled,
                      IsAllowedUser(access, m.user)
               PROVE  S # {}
    OBVIOUS
  <2>1. delivered[<<m, SureEvent(m)>>] > 0
    BY DEF SureEvent
  <2>2. MessageOf(m) \in handled
    BY <2>1 DEF TurnsInv, Arrived
  <2>3. PICK i \in 1..Len(turns) : MessageOf(turns[i].req) = MessageOf(m)
    BY <2>2 DEF TurnsInv, Booked
  <2>4. i \in S
    BY <2>3 DEF MessageOf
  <2>5. QED
    BY <2>4
<1> HIDE DEF S
<1>6. QED
  BY <1>3, <1>4, <1>5 DEF S

LEMMA IngressStarts == IngressInit => TurnsInv
<1> SUFFICES ASSUME IngressInit PROVE TurnsInv
  OBVIOUS
<1>1. turns = <<>> /\ Len(turns) = 0 /\ handled = {} /\ gateway = "start" /\ files \in Directories
  BY DEF IngressInit
<1>2. /\ delivered \in [Messages \X {"mention", "message"} -> Nat]
      /\ \A e \in DOMAIN delivered : delivered[e] = 0
  BY DEF IngressInit
<1>3. TurnsShaped /\ Served /\ Booked /\ RefusalAnnounced
  BY <1>1 DEF TurnsShaped, Served, Booked, RefusalAnnounced
<1>4. NothingBefore
  BY <1>1, <1>2 DEF NothingBefore
<1>5. Arrived
  BY <1>2 DEF Arrived, SureEvent
<1>6. QED
  BY <1>3, <1>4, <1>5 DEF TurnsInv

\* A message that mentions the bot, sent by somebody who is allowed, has one turn once
\* both its events were delivered, and never two, whichever is first and however often
\* they are repeated; a turn that found no agent was one of the problems reported at
\* startup (gateway.go's duplicate check and ValidateRouting).
THEOREM TurnsAreAccounted == IngressSpec => []TurnsAccounted
  BY IngressStarts, TurnsStep, TurnsCounted, PTL DEF IngressSpec

-----------------------------------------------------------------------------
(* The names, cut out of the resolved references by position.               *)

\* The keys of the no-mention lists are laid out in some order, each once.
Lists(c) == [i \in 1..Len(KeySeq(c)) |-> c.chat.byChannel[KeySeq(c)[i]]]

LEMMA SetToSeqIs ==
    ASSUME NEW S, IsFiniteSet(S)
    PROVE  /\ SetToSeq(S) \in Seq(S)
           /\ \A x \in S : \E i \in 1..Len(SetToSeq(S)) : SetToSeq(S)[i] = x
<1> DEFINE n == Cardinality(S)
<1>1. n \in Nat /\ ExistsBijection(1..n, S)
  BY FS_CardinalityType
<1>2. \E f \in [1..n -> S] : IsInjective(f)
  BY <1>1 DEF ExistsBijection, Bijection, Injection
<1>3. SetToSeq(S) \in [1..n -> S] /\ IsInjective(SetToSeq(S))
  BY <1>2 DEF SetToSeq
<1>4. SetToSeq(S) \in Injection(1..n, S)
  BY <1>3 DEF Injection
<1>5. Cardinality(1..n) = n
  BY <1>1, FS_Interval
<1> DEFINE I == 1..n
<1>6. SetToSeq(S) \in Surjection(I, S)
  <2>1. SetToSeq(S) \in Injection(I, S) /\ Cardinality(I) = Cardinality(S)
    BY <1>4, <1>5
  <2> HIDE DEF I, n
  <2>2. QED
    BY <2>1, FS_Injection
<1>7. SetToSeq(S) \in Seq(S) /\ Len(SetToSeq(S)) = n
  BY <1>1, <1>3
<1>8. QED
  BY <1>6, <1>7 DEF Surjection

LEMMA KeysAre ==
    ASSUME NEW c, ConfigOK(c)
    PROVE  /\ Len(KeySeq(c)) \in Nat
           /\ \A i \in 1..Len(KeySeq(c)) : KeySeq(c)[i] \in DOMAIN c.chat.byChannel
           /\ \A k \in DOMAIN c.chat.byChannel :
                \E i \in 1..Len(KeySeq(c)) : KeySeq(c)[i] = k
           /\ Lists(c) \in Seq(Seq(UserRefs)) /\ Len(Lists(c)) = Len(KeySeq(c))
           /\ \A i \in 1..Len(KeySeq(c)) : Lists(c)[i] = c.chat.byChannel[KeySeq(c)[i]]
<1> DEFINE D == DOMAIN c.chat.byChannel
           q == SetToSeq(D)
<1>1. IsFiniteSet(D) /\ \A k \in D : c.chat.byChannel[k] \in Seq(UserRefs)
  BY DEF ConfigOK
<1>2. q \in Seq(D) /\ \A k \in D : \E i \in 1..Len(q) : q[i] = k
  <2> HIDE DEF D
  <2>1. QED
    BY <1>1, SetToSeqIs
<1>3. q = KeySeq(c)
  BY DEF KeySeq
<1> HIDE DEF q
<1>4. Len(q) \in Nat /\ \A i \in 1..Len(q) : q[i] \in D
  BY <1>2
<1> DEFINE L == [i \in 1..Len(q) |-> c.chat.byChannel[q[i]]]
<1>5. \A i \in 1..Len(q) : c.chat.byChannel[q[i]] \in Seq(UserRefs)
  BY <1>1, <1>4
<1>6. L \in Seq(Seq(UserRefs)) /\ Len(L) = Len(q)
      /\ \A i \in 1..Len(q) : L[i] = c.chat.byChannel[q[i]]
  BY <1>4, <1>5
<1>7. L = Lists(c)
  BY <1>3 DEF Lists
<1> HIDE DEF L
<1>8. QED
  BY <1>2, <1>3, <1>4, <1>6, <1>7

LEMMA SubSeqIs ==
    ASSUME NEW T, NEW s \in Seq(T), NEW lo \in Nat, NEW hi \in Nat, lo <= hi, hi <= Len(s)
    PROVE  /\ Len(SubSeq(s, lo + 1, hi)) = hi - lo
           /\ \A x \in 1..(hi - lo) : SubSeq(s, lo + 1, hi)[x] = s[lo + x]
  OBVIOUS

\* The references, in the order in which they are resolved, and their ids.
Admins(c) == IF c.access.admin.kind = "blank" THEN <<>> ELSE <<c.access.admin>>
Resolved(c) == [i \in 1..Len(References(c)) |-> ResolveRef(References(c)[i])]

LEMMA JoinedInAll ==
    ASSUME NEW c, ConfigOK(c)
    PROVE  Joined(Lists(c), Len(Lists(c))) \in Seq(UserRefs)
<1> DEFINE l == Lists(c)
<1>1. l \in Seq(Seq(UserRefs))
  BY KeysAre
<1> HIDE DEF l
<1>2. Len(l) \in 0..Len(l)
  BY <1>1
<1>3. Joined(l, Len(l)) \in Seq(UserRefs)
  BY <1>1, <1>2, JoinedType
<1>4. QED
  BY <1>3 DEF l

\* Where each list starts.
AllowedAt(c)    == Len(Admins(c))
EverywhereAt(c) == AllowedAt(c) + Len(c.access.allowed)
KeysAt(c)       == EverywhereAt(c) + Len(c.chat.everywhere)
AllKeys(c)      == Joined(Lists(c), Len(Lists(c)))

LEMMA ReferencesAre ==
    ASSUME NEW c, ConfigOK(c)
    PROVE  /\ AllowedAt(c) \in Nat /\ EverywhereAt(c) \in Nat /\ KeysAt(c) \in Nat
           /\ EverywhereAt(c) <= KeysAt(c) /\ KeysAt(c) <= Len(References(c))
           /\ References(c) \in Seq(UserRefs)
           /\ Len(References(c)) = KeysAt(c) + Len(AllKeys(c))
           /\ \A x \in 1..AllowedAt(c) : References(c)[x] = Admins(c)[x]
           /\ \A x \in 1..Len(c.access.allowed) :
                References(c)[AllowedAt(c) + x] = c.access.allowed[x]
           /\ \A x \in 1..Len(c.chat.everywhere) :
                References(c)[EverywhereAt(c) + x] = c.chat.everywhere[x]
           /\ \A x \in 1..Len(AllKeys(c)) :
                References(c)[KeysAt(c) + x] = AllKeys(c)[x]
<1> DEFINE l == Lists(c)
           A == Admins(c)
           B == c.access.allowed
           E == c.chat.everywhere
           F == Joined(l, Len(l))
<1>1. A \in Seq(UserRefs) /\ B \in Seq(UserRefs) /\ E \in Seq(UserRefs)
  BY DEF ConfigOK, Admins
<1>2. F \in Seq(UserRefs)
  <2>1. l \in Seq(Seq(UserRefs))
    BY KeysAre
  <2> HIDE DEF l
  <2>2. Len(l) \in 0..Len(l)
    BY <2>1
  <2>3. QED
    BY <2>1, <2>2, JoinedType
<1>3. References(c) = A \o B \o E \o F
  <2>1. First(l, Len(l)) = [i \in 1..Len(KeySeq(c)) |-> c.chat.byChannel[KeySeq(c)[i]]]
    BY KeysAre DEF First
  <2>2. F = FlattenSeq([i \in 1..Len(KeySeq(c)) |-> c.chat.byChannel[KeySeq(c)[i]]])
    BY <2>1 DEF Joined
  <2>3. References(c) = A \o B \o E
          \o FlattenSeq([i \in 1..Len(KeySeq(c)) |-> c.chat.byChannel[KeySeq(c)[i]]])
    BY DEF References, Admins
  <2>4. QED
    BY <2>2, <2>3
<1> HIDE DEF A, B, E, F, l
<1> DEFINE s == A \o B \o E \o F
<1>4. /\ s \in Seq(UserRefs) /\ Len(s) = Len(A) + Len(B) + Len(E) + Len(F)
      /\ \A x \in 1..Len(A) : s[x] = A[x]
      /\ \A x \in 1..Len(B) : s[Len(A) + x] = B[x]
      /\ \A x \in 1..Len(E) : s[Len(A) + Len(B) + x] = E[x]
      /\ \A x \in 1..Len(F) : s[Len(A) + Len(B) + Len(E) + x] = F[x]
  BY <1>1, <1>2
<1>5. /\ Len(A) \in Nat /\ Len(A) + Len(B) \in Nat /\ Len(A) + Len(B) + Len(E) \in Nat
      /\ Len(A) + Len(B) <= Len(A) + Len(B) + Len(E)
      /\ Len(A) + Len(B) + Len(E) <= Len(A) + Len(B) + Len(E) + Len(F)
  BY <1>1, <1>2
<1>6. References(c) = s
  BY <1>3
<1> HIDE DEF s
<1>7. QED
  BY <1>4, <1>5, <1>6 DEF A, B, E, F, l, AllowedAt, EverywhereAt, KeysAt, AllKeys

\* A slice of the ids that lies where a list lay names the users of that list.
LEMMA SliceNames ==
    ASSUME NEW c, ConfigOK(c), NEW list \in Seq(UserRefs), NEW lo \in Nat, NEW hi,
           hi = lo + Len(list), hi <= Len(References(c)),
           \A x \in 1..Len(list) : References(c)[lo + x] = list[x]
    PROVE  LET part == Slice(Resolved(c), <<lo, hi>>) IN
           /\ Len(part) = Len(list)
           /\ \A x \in 1..Len(list) : part[x] = ResolveRef(list[x])
           /\ Users_(part) = NamedIn(list)
<1> DEFINE n == Len(References(c))
           s == Resolved(c)
           T == {ResolveRef(References(c)[i]) : i \in 1..n}
           part == SubSeq(s, lo + 1, hi)
<1>1. n \in Nat /\ Len(list) \in Nat /\ hi \in Nat /\ lo <= hi /\ hi - lo = Len(list)
  BY ReferencesAre
<1>2. s \in Seq(T) /\ Len(s) = n /\ \A i \in 1..n : s[i] = ResolveRef(References(c)[i])
  <2>1. s \in [1..n -> T] /\ \A i \in 1..n : s[i] = ResolveRef(References(c)[i])
    BY DEF Resolved
  <2> HIDE DEF s, n, T
  <2>2. QED
    BY <1>1, <2>1
<1>3. part = Slice(Resolved(c), <<lo, hi>>)
  BY DEF Slice
<1>4. Len(part) = hi - lo /\ \A x \in 1..(hi - lo) : part[x] = s[lo + x]
  <2> HIDE DEF s, T, n
  <2>1. QED
    BY <1>1, <1>2, SubSeqIs
<1> HIDE DEF part
<1>5. \A x \in 1..Len(list) : part[x] = ResolveRef(list[x])
  <2> TAKE x \in 1..Len(list)
  <2>1. lo + x \in 1..n /\ x \in 1..(hi - lo)
    BY <1>1
  <2> HIDE DEF s, n
  <2>2. QED
    BY <1>2, <1>4, <2>1
<1>6. Len(part) = Len(list)
  BY <1>1, <1>4
<1>7. Users_(part) = NamedIn(list)
  BY <1>5, <1>6 DEF Users_, NamedIn
<1>8. QED
  BY <1>3, <1>5, <1>6, <1>7

LEMMA SlicesAre ==
    ASSUME NEW c
    PROVE  /\ Slices(c).allowed = <<AllowedAt(c), EverywhereAt(c)>>
           /\ Slices(c).everywhere = <<EverywhereAt(c), KeysAt(c)>>
           /\ Slices(c).keys = KeysAt(c)
<1>1. Len(Admins(c)) = IF c.access.admin.kind = "blank" THEN 0 ELSE 1
  BY DEF Admins
<1>2. QED
  BY <1>1 DEF Slices, AllowedAt, EverywhereAt, KeysAt

LEMMA AllowedAre ==
    ASSUME NEW c, ConfigOK(c)
    PROVE  LET part == Slice(Resolved(c), Slices(c).allowed) IN
           /\ Len(part) = Len(c.access.allowed)
           /\ \A x \in 1..Len(c.access.allowed) : part[x] = ResolveRef(c.access.allowed[x])
<1> DEFINE list == c.access.allowed
           lo == AllowedAt(c)
           hi == EverywhereAt(c)
<1>1. /\ lo \in Nat /\ hi \in Nat /\ hi <= KeysAt(c) /\ KeysAt(c) \in Nat
      /\ KeysAt(c) <= Len(References(c)) /\ References(c) \in Seq(UserRefs)
      /\ \A x \in 1..Len(list) : References(c)[lo + x] = list[x]
  BY ReferencesAre
<1>2. list \in Seq(UserRefs) /\ hi = lo + Len(list)
  BY DEF ConfigOK, EverywhereAt
<1>3. Slices(c).allowed = <<lo, hi>>
  BY SlicesAre
<1> HIDE DEF lo, hi, list
<1>4. hi <= Len(References(c))
  BY <1>1
<1>5. /\ Len(Slice(Resolved(c), <<lo, hi>>)) = Len(list)
      /\ \A x \in 1..Len(list) : Slice(Resolved(c), <<lo, hi>>)[x] = ResolveRef(list[x])
  BY <1>1, <1>2, <1>4, SliceNames
<1>6. QED
  BY <1>3, <1>5 DEF list

LEMMA EverywhereAre ==
    ASSUME NEW c, ConfigOK(c)
    PROVE  Users_(Slice(Resolved(c), Slices(c).everywhere)) = NamedIn(c.chat.everywhere)
<1> DEFINE list == c.chat.everywhere
           lo == EverywhereAt(c)
           hi == KeysAt(c)
<1>1. /\ lo \in Nat /\ hi \in Nat /\ hi <= Len(References(c))
      /\ \A x \in 1..Len(list) : References(c)[lo + x] = list[x]
  BY ReferencesAre
<1>2. list \in Seq(UserRefs) /\ hi = lo + Len(list)
  BY DEF ConfigOK, KeysAt
<1>3. Slices(c).everywhere = <<lo, hi>>
  BY SlicesAre
<1> HIDE DEF lo, hi, list
<1>4. Users_(Slice(Resolved(c), <<lo, hi>>)) = NamedIn(list)
  <2>1. list \in Seq(UserRefs) /\ lo \in Nat /\ hi = lo + Len(list) /\ hi <= Len(References(c))
        /\ \A x \in 1..Len(list) : References(c)[lo + x] = list[x]
    BY <1>1, <1>2
  <2>2. QED
    BY <2>1, SliceNames, SMTT(20)
<1>5. QED
  BY <1>3, <1>4 DEF list

LEMMA KeySlicesAre ==
    ASSUME NEW c, ConfigOK(c), NEW i \in 1..Len(KeySeq(c))
    PROVE  Users_(Slice(Resolved(c), KeySlice(c, i)))
             = NamedIn(c.chat.byChannel[KeySeq(c)[i]])
<1> DEFINE l == Lists(c)
           list == c.chat.byChannel[KeySeq(c)[i]]
           e == KeysAt(c)
           F == Joined(l, Len(l))
           n == Len(Joined(l, i - 1))
           lo == e + n
           hi == lo + Len(list)
<1>1. /\ l \in Seq(Seq(UserRefs)) /\ Len(l) = Len(KeySeq(c)) /\ l[i] = list
      /\ i \in 1..Len(l) /\ Len(l) \in Nat
  BY KeysAre
<1>2. /\ n + Len(l[i]) <= Len(F)
      /\ \A x \in 1..Len(l[i]) : F[n + x] = l[i][x]
  <2> HIDE DEF l, list
  <2>1. Len(l) \in i..Len(l)
    BY <1>1
  <2>2. QED
    BY <1>1, <2>1, JoinedHolds
<1>3. F \in Seq(UserRefs) /\ n \in Nat /\ Len(F) \in Nat /\ list \in Seq(UserRefs)
      /\ Len(list) \in Nat
  <2> HIDE DEF l, list
  <2>1. i - 1 \in 0..Len(l) /\ Len(l) \in 0..Len(l) /\ l[i] \in Seq(UserRefs)
    BY <1>1
  <2>2. F \in Seq(UserRefs) /\ Joined(l, i - 1) \in Seq(UserRefs)
    BY <1>1, <2>1, JoinedType
  <2>3. QED
    BY <1>1, <2>1, <2>2
<1>4. /\ e \in Nat /\ Len(References(c)) = e + Len(F)
      /\ \A x \in 1..Len(F) : References(c)[e + x] = F[x]
  BY ReferencesAre DEF AllKeys
<1>5. KeySlice(c, i) = <<lo, hi>>
  <2>1. First(l, i - 1) = [j \in 1..(i - 1) |-> c.chat.byChannel[KeySeq(c)[j]]]
    <3>1. i - 1 \in Nat /\ \A j \in 1..(i - 1) : j \in 1..Len(KeySeq(c))
      BY <1>1
    <3>2. \A j \in 1..(i - 1) : l[j] = c.chat.byChannel[KeySeq(c)[j]]
      BY <3>1, KeysAre
    <3> HIDE DEF l
    <3>3. QED
      BY <3>2 DEF First
  <2>2. Joined(l, i - 1) = FlattenSeq([j \in 1..(i - 1) |-> c.chat.byChannel[KeySeq(c)[j]]])
    BY <2>1 DEF Joined
  <2>3. Slices(c).keys = e
    BY SlicesAre
  <2>4. QED
    BY <2>2, <2>3 DEF KeySlice
<1> HIDE DEF l, list, e, F, n
<1>6. lo \in Nat /\ hi <= Len(References(c))
  BY <1>1, <1>2, <1>3, <1>4
<1>7. \A x \in 1..Len(list) : References(c)[lo + x] = list[x]
  <2> TAKE x \in 1..Len(list)
  <2>1. n + x \in 1..Len(F) /\ lo + x = e + (n + x)
    BY <1>1, <1>2, <1>3, <1>4
  <2>2. References(c)[lo + x] = F[n + x]
    BY <1>4, <2>1
  <2>3. QED
    BY <1>1, <1>2, <2>2
<1>8. Users_(Slice(Resolved(c), <<lo, hi>>)) = NamedIn(list)
  <2>1. hi = lo + Len(list)
    OBVIOUS
  <2> HIDE DEF lo, hi
  <2>2. QED
    BY <1>3, <1>6, <1>7, <2>1, SliceNames
<1>9. QED
  BY <1>5, <1>8 DEF list

\* What the lists hold is named by the files.
ListsNamed(c, who, all, by) ==
    /\ \A u : IsAllowedUser(who, u) => u \in NamedIn(Admins(c) \o c.access.allowed)
    /\ all \subseteq NamedIn(c.chat.everywhere)
    /\ DOMAIN by = DOMAIN c.chat.byChannel
    /\ \A k \in DOMAIN by : by[k] \subseteq NamedIn(c.chat.byChannel[k])

LEMMA NamedInBoth ==
    ASSUME NEW p \in Seq(UserRefs), NEW q \in Seq(UserRefs)
    PROVE  /\ \A i \in 1..Len(p) : ResolveRef(p[i]).user \in NamedIn(p \o q)
           /\ \A i \in 1..Len(q) : ResolveRef(q[i]).user \in NamedIn(p \o q)
<1>1. /\ Len(p) \in Nat /\ Len(q) \in Nat /\ Len(p \o q) = Len(p) + Len(q)
      /\ \A x \in 1..Len(p) : (p \o q)[x] = p[x]
      /\ \A x \in 1..Len(q) : (p \o q)[Len(p) + x] = q[x]
  BY ConcatHolds
<1>2. /\ \A i \in 1..Len(p) : i \in 1..Len(p \o q)
      /\ \A i \in 1..Len(q) : Len(p) + i \in 1..Len(p \o q)
  BY <1>1
<1>3. \A i \in 1..Len(p \o q) : ResolveRef((p \o q)[i]).user \in NamedIn(p \o q)
  BY DEF NamedIn
<1>4. QED
  BY <1>1, <1>2, <1>3

LEMMA ResolveAllowSetNames ==
    ASSUME NEW c, ConfigOK(c), ResolveAllowSet(c)
    PROVE  ListsNamed(c, access', everywhere', byChannel')
<1> DEFINE ids == [i \in 1..Len(References(c)) |-> ResolveRef(References(c)[i])]
           part == Slice(Resolved(c), Slices(c).allowed)
<1>1. ids = Resolved(c)
  BY DEF Resolved
<1>2. /\ access' = [admin   |-> IF c.access.admin.kind = "blank" THEN NoUser
                                                                 ELSE Resolved(c)[1],
                    allowed |-> part]
      /\ everywhere' = Users_(Slice(Resolved(c), Slices(c).everywhere))
      /\ byChannel' = [k \in DOMAIN c.chat.byChannel |->
           Users_(Slice(Resolved(c),
                  KeySlice(c, CHOOSE i \in 1..Len(KeySeq(c)) : KeySeq(c)[i] = k)))]
  BY <1>1 DEF ResolveAllowSet
<1>3. everywhere' = NamedIn(c.chat.everywhere)
  BY <1>2, EverywhereAre
<1>4. ASSUME NEW k \in DOMAIN c.chat.byChannel
      PROVE  byChannel'[k] = NamedIn(c.chat.byChannel[k])
  <2> DEFINE i == CHOOSE i \in 1..Len(KeySeq(c)) : KeySeq(c)[i] = k
  <2>1. i \in 1..Len(KeySeq(c)) /\ KeySeq(c)[i] = k
    BY KeysAre
  <2>2. byChannel'[k] = Users_(Slice(Resolved(c), KeySlice(c, i)))
    BY <1>2
  <2> HIDE DEF i
  <2>3. QED
    BY <2>1, <2>2, KeySlicesAre
<1>5. DOMAIN byChannel' = DOMAIN c.chat.byChannel
  BY <1>2
<1>6. Admins(c) \in Seq(UserRefs) /\ c.access.allowed \in Seq(UserRefs)
  BY DEF Admins, ConfigOK
<1>7. ASSUME NEW u, IsAllowedUser(access', u)
      PROVE  u \in NamedIn(Admins(c) \o c.access.allowed)
  <2>1. CASE access'.admin = UserId(u)
    <3>1. c.access.admin.kind # "blank"
      BY <1>2, <2>1 DEF NoUser, UserId
    <3>2. Resolved(c)[1] = ResolveRef(c.access.admin)
      <4>1. Len(Admins(c)) = 1 /\ Admins(c)[1] = c.access.admin
        BY <3>1 DEF Admins
      <4>2. References(c)[1] = c.access.admin
        BY <4>1, ReferencesAre DEF AllowedAt
      <4>3. 1 \in 1..Len(References(c))
        <5>1. EverywhereAt(c) \in Nat /\ EverywhereAt(c) <= KeysAt(c) /\ KeysAt(c) \in Nat
              /\ KeysAt(c) <= Len(References(c)) /\ Len(References(c)) \in Nat
          BY ReferencesAre
        <5>2. EverywhereAt(c) = 1 + Len(c.access.allowed) /\ Len(c.access.allowed) \in Nat
          BY <1>6, <4>1 DEF EverywhereAt, AllowedAt
        <5>3. QED
          BY <5>1, <5>2
      <4>4. QED
        BY <4>2, <4>3 DEF Resolved
    <3>3. ResolveRef(c.access.admin).user = u
      BY <1>2, <2>1, <3>1, <3>2 DEF UserId
    <3>4. Len(Admins(c)) = 1 /\ Admins(c)[1] = c.access.admin /\ 1 \in 1..Len(Admins(c))
      BY <3>1 DEF Admins
    <3>5. ResolveRef(Admins(c)[1]).user \in NamedIn(Admins(c) \o c.access.allowed)
      BY <1>6, <3>4, NamedInBoth
    <3>6. QED
      BY <3>3, <3>4, <3>5
  <2>2. CASE \E i \in 1..Len(access'.allowed) : access'.allowed[i] = UserId(u)
    <3>1. /\ Len(part) = Len(c.access.allowed)
          /\ \A x \in 1..Len(c.access.allowed) : part[x] = ResolveRef(c.access.allowed[x])
      BY AllowedAre
    <3> HIDE DEF part
    <3>2. access'.allowed = part
      BY <1>2
    <3>3. PICK i \in 1..Len(c.access.allowed) : ResolveRef(c.access.allowed[i]) = UserId(u)
      BY <2>2, <3>1, <3>2
    <3>4. ResolveRef(c.access.allowed[i]).user = u
      BY <3>3 DEF UserId
    <3>5. QED
      BY <1>6, <3>4, NamedInBoth
  <2>3. QED
    BY <1>7, <2>1, <2>2 DEF IsAllowedUser, IsAdminUser
<1>8. QED
  BY <1>3, <1>4, <1>5, <1>7 DEF ListsNamed

\* Who gets a turn is named for it.
NamedTurn(f, t) ==
    LET c == f.config IN
    /\ t.req.user \in NamedIn(Admins(c) \o c.access.allowed)
    /\ t.req.source = "channel_no_mention" =>
         \/ t.req.user \in NamedIn(c.chat.everywhere)
         \/ \E k \in DOMAIN c.chat.byChannel :
              /\ KeyMatches(k, t.req.channel, t.known)
              /\ t.req.user \in NamedIn(c.chat.byChannel[k])

NamesInv ==
    /\ TurnsInv
    /\ gateway = "serving" => ListsNamed(files.config, access, everywhere, byChannel)
    /\ \A i \in 1..Len(turns) : NamedTurn(files, turns[i])

LEMMA NamedTurnSame ==
    ASSUME NEW f, NEW t, NEW s, t.req = s.req, t.known = s.known, NamedTurn(f, s)
    PROVE  NamedTurn(f, t)
  BY DEF NamedTurn

LEMMA BakedSame ==
    ASSUME NEW f, ConfigOK(f)
    PROVE  Baked(f).access = f.access /\ Baked(f).chat = f.chat /\ ConfigOK(Baked(f))
<1> DEFINE c == Baked(f)
<1>1. c.access = f.access /\ c.chat = f.chat /\ DOMAIN c = DOMAIN f
  BY DEF Baked, ConfigOK
<1> HIDE DEF c
<1>2. ConfigOK(c)
  BY <1>1 DEF ConfigOK
<1>3. QED
  BY <1>1, <1>2 DEF c

\* A turn begun for somebody who is named for it.
LEMMA BeginTurnNames ==
    ASSUME NEW req, NEW r, NamesInv, BeginTurn(req, r), UNCHANGED files,
           \A t : t.req = req /\ t.known = NameFor(req.channel) => NamedTurn(files, t)
    PROVE  \A i \in 1..Len(turns') : NamedTurn(files', turns'[i])
<1> DEFINE n == Len(turns) + 1
<1>1. /\ Len(turns) \in Nat /\ Len(turns') = n
      /\ \A i \in 1..Len(turns) : turns'[i] = turns[i]
      /\ turns'[n].req = req /\ turns'[n].known = NameFor(req.channel)
  BY BeginTurnIs DEF Begun, NamesInv, TurnsInv
<1>2. NamedTurn(files, turns'[n])
  BY <1>1
<1>3. NamedTurn(files', turns'[n])
  BY <1>2
<1>4. \A i \in 1..Len(turns) : NamedTurn(files', turns'[i])
  BY <1>1 DEF NamesInv
<1>5. \A i \in 1..n : i = n \/ i \in 1..Len(turns)
  BY <1>1
<1>6. QED
  BY <1>1, <1>3, <1>4, <1>5

LEMMA NamesStep == NamesInv /\ [IngressNext]_ingressVars => NamesInv'
<1> SUFFICES ASSUME NamesInv, [IngressNext]_ingressVars PROVE NamesInv'
  OBVIOUS
<1> USE DEF startup
<1>1. TurnsInv'
  BY TurnsStep DEF NamesInv
<1>2. CASE StartServing
  <2>1. turns' = <<>> /\ Len(turns') = 0
    BY <1>2 DEF NamesInv, TurnsInv, NothingBefore, StartServing
  <2>2. gateway' = "serving" => ListsNamed(files'.config, access', everywhere', byChannel')
    <3> SUFFICES ASSUME gateway' = "serving"
                 PROVE  ListsNamed(files'.config, access', everywhere', byChannel')
      OBVIOUS
    <3> DEFINE c == Baked(files.config)
    <3>1. ConfigOK(files.config) /\ UNCHANGED files
      BY <1>2, IngressAssumption DEF NamesInv, TurnsInv, Served, StartServing
    <3>2. c.access = files.config.access /\ c.chat = files.config.chat /\ ConfigOK(c)
      BY <3>1, BakedSame
    <3>3. ResolveAllowSet(c)
      BY <1>2 DEF StartServing
    <3> HIDE DEF c
    <3>4. ListsNamed(c, access', everywhere', byChannel')
      BY <3>2, <3>3, ResolveAllowSetNames
    <3>5. QED
      BY <3>1, <3>2, <3>4 DEF ListsNamed, Admins
  <2>3. QED
    BY <1>1, <2>1, <2>2 DEF NamesInv
<1> DEFINE Lists0 == UNCHANGED <<files, gateway, access, everywhere, byChannel>>
<1>3. Lists0 =>
        (gateway' = "serving" => ListsNamed(files'.config, access', everywhere', byChannel'))
  BY DEF NamesInv, ListsNamed, IsAllowedUser, IsAdminUser
<1>4. ASSUME Lists0, UNCHANGED turns PROVE NamesInv'
  <2>1. \A i \in 1..Len(turns') : NamedTurn(files', turns'[i])
    BY <1>4 DEF NamesInv
  <2>2. QED
    BY <1>1, <1>3, <1>4, <2>1 DEF NamesInv
<1>5. CASE TickNames \/ \E r \in Refreshers : Listed(r) \/ ListFails(r)
  BY <1>4, <1>5 DEF TickNames, Listed, ListFails
<1>6. CASE \E ch \in Channels : Rename(ch)
  BY <1>4, <1>6 DEF Rename
<1>7. CASE UNCHANGED ingressVars
  BY <1>4, <1>7 DEF ingressVars
<1>8. ASSUME NEW req, NEW r, BeginTurn(req, r), Lists0, gateway = "serving",
             IsAllowedUser(access, req.user),
             req.source = "channel_no_mention" =>
               req.user \in UsersAllowedWithoutMention(req.channel, NameFor(req.channel),
                                                       everywhere, byChannel)
      PROVE  NamesInv'
  <2>1. ASSUME NEW t, t.req = req, t.known = NameFor(req.channel) PROVE NamedTurn(files, t)
    BY <1>8, <2>1 DEF NamesInv, ListsNamed, NamedTurn, UsersAllowedWithoutMention
  <2>2. \A i \in 1..Len(turns') : NamedTurn(files', turns'[i])
    BY <1>8, <2>1, BeginTurnNames
  <2>3. QED
    BY <1>1, <1>3, <1>8, <2>2 DEF NamesInv
<1>9. ASSUME NEW m \in Messages, Mention(m) PROVE NamesInv'
  <2>1. Lists0 /\ gateway = "serving"
    BY <1>9 DEF Mention, Receive
  <2>2. \/ UNCHANGED turns
        \/ BeginTurn(Request(m, "app_mention"), refresh) /\ IsAllowedUser(access, m.user)
    BY <1>9 DEF Mention, Accept, Ignore
  <2>3. Request(m, "app_mention").user = m.user
        /\ Request(m, "app_mention").source = "app_mention"
    BY DEF Request
  <2> HIDE DEF Lists0
  <2>4. QED
    BY <1>4, <1>8, <2>1, <2>2, <2>3
<1>10. ASSUME NEW m \in Messages, Message(m) PROVE NamesInv'
  <2>1. Lists0 /\ gateway = "serving"
    BY <1>10 DEF Message, Receive
  <2>2. \/ UNCHANGED turns
        \/ BeginTurn(Request(m, "dm"), refresh) /\ IsAllowedUser(access, m.user)
        \/ /\ BeginTurn(Request(m, "channel_no_mention"), AfterLookup(refresh, m.channel))
           /\ IsAllowedUser(access, m.user)
           /\ m.user \in UsersAllowedWithoutMention(m.channel, NameFor(m.channel),
                                                    everywhere, byChannel)
    BY <1>10 DEF Message, Accept, Ignore
  <2>3. \A source : /\ Request(m, source).user = m.user
                    /\ Request(m, source).channel = m.channel
                    /\ Request(m, source).source = source
    BY DEF Request
  <2> HIDE DEF Lists0
  <2>4. CASE BeginTurn(Request(m, "dm"), refresh) /\ IsAllowedUser(access, m.user)
    BY <1>8, <2>1, <2>3, <2>4
  <2>5. CASE /\ BeginTurn(Request(m, "channel_no_mention"), AfterLookup(refresh, m.channel))
             /\ IsAllowedUser(access, m.user)
             /\ m.user \in UsersAllowedWithoutMention(m.channel, NameFor(m.channel),
                                                      everywhere, byChannel)
    BY <1>8, <2>1, <2>3, <2>5
  <2>6. QED
    BY <1>4, <2>1, <2>2, <2>4, <2>5
<1>11. ASSUME NEW m \in Commands, SlashChat(m) PROVE NamesInv'
  <2>1. Lists0 /\ gateway = "serving" /\ IsAllowedUser(access, m.user)
        /\ BeginTurn(Request(m, "slash_command"), refresh)
    BY <1>11 DEF SlashChat
  <2>2. Request(m, "slash_command").user = m.user
        /\ Request(m, "slash_command").source = "slash_command"
    BY DEF Request
  <2> HIDE DEF Lists0
  <2>3. QED
    BY <1>8, <2>1, <2>2
<1>12. ASSUME NEW i \in 1..Len(turns), Handle(i) PROVE NamesInv'
  <2>1. Lists0
    BY <1>12 DEF Handle
  <2>2. Len(turns') = Len(turns)
        /\ \A j \in 1..Len(turns) : turns'[j].req = turns[j].req /\ turns'[j].known = turns[j].known
    BY <1>12, HandleIs DEF NamesInv, TurnsInv
  <2>3. \A j \in 1..Len(turns') : NamedTurn(files', turns'[j])
    BY <2>1, <2>2, NamedTurnSame DEF NamesInv
  <2>4. QED
    BY <1>1, <1>3, <2>1, <2>3 DEF NamesInv
<1>13. QED
  BY <1>2, <1>5, <1>6, <1>7, <1>9, <1>10, <1>11, <1>12 DEF IngressNext

\* A tool of Murtaugh's own, and one that a remote server offers.
OwnTool(n) == <<"", n>>
Foreign(x) == \E s, n : s # "" /\ x = <<s, n>>

LEMMA OwnToolIs ==
    /\ \A n, m : OwnTool(n) = OwnTool(m) => n = m
    /\ \A n : ~Foreign(OwnTool(n))
<1>1. \A n, m : OwnTool(n) = OwnTool(m) => n = m
  BY DEF OwnTool
<1>2. ASSUME NEW n, Foreign(OwnTool(n)) PROVE FALSE
  <2>1. PICK s, m : s # "" /\ <<"", n>> = <<s, m>>
    BY <1>2 DEF Foreign, OwnTool
  <2>2. s = ""
    BY <2>1
  <2>3. QED
    BY <2>1, <2>2
<1>3. QED
  BY <1>1, <1>2

LEMMA OwnIs ==
    ASSUME NEW T, NEW x
    PROVE  x \in Own(T) <=> \E n \in T : x = OwnTool(n)
  BY DEF Own, OwnTool

LEMMA GroupToolsAre ==
    /\ \A x : x \in GroupTools("files") => \E n \in {"read", "write", "edit", "ls"} : x = OwnTool(n)
    /\ \A g, x : g # "files" => (x \in GroupTools(g) <=> x = OwnTool(g))
  BY DEF GroupTools, Own, OwnTool

LEMMA RegistryTools ==
    ASSUME NEW e, NEW x \in RegistryMatches(e, Host.registry)
    PROVE  \E n : x = OwnTool(n) /\ n \notin {"read", "write", "edit", "ls", "terminal", "skills"}
<1>1. \E n \in {t.name : t \in {t \in Host.registry : e = t.name \/ e = t.ns}} : x = OwnTool(n)
  BY OwnIs DEF RegistryMatches
<1>2. QED
  BY <1>1, IngressAssumption

LEMMA RemoteIsForeign == \A servers, x : x \in Remote(servers, Host) => Foreign(x)
<1> SUFFICES ASSUME NEW servers, NEW x \in Remote(servers, Host) PROVE Foreign(x)
  OBVIOUS
<1>1. PICK s \in DOMAIN Host.remote : x \in {<<s, t>> : t \in Host.remote[s]}
  BY DEF Remote
<1>2. s # ""
  BY IngressAssumption
<1>3. \E t : x = <<s, t>>
  BY <1>1
<1>4. QED
  BY <1>2, <1>3 DEF Foreign

\* How a tool comes into a resolved toolset.
Offered(x, allow, registry, remote, rooted, managed) ==
    \/ \E g \in allow \cap NativeGroups :
         (g \in WorkdirRooted => rooted) /\ (g = "skills" => managed) /\ x \in GroupTools(g)
    \/ \E e \in allow \ NativeGroups : x \in RegistryMatches(e, registry)
    \/ x \in remote

LEMMA ResolveToolsIs ==
    ASSUME NEW allow, NEW registry, NEW remote, NEW rooted \in BOOLEAN,
           NEW managed \in BOOLEAN, NEW x
    PROVE  x \in ResolveTools(allow, registry, remote, rooted, managed)
             <=> Offered(x, allow, registry, remote, rooted, managed)
<1> DEFINE G == {g \in allow \cap NativeGroups :
                   /\ g \in WorkdirRooted => rooted
                   /\ g = "skills" => managed}
           R == {RegistryMatches(e, registry) : e \in allow \ NativeGroups}
           S == {GroupTools(g) : g \in G}
<1>1. ResolveTools(allow, registry, remote, rooted, managed) = (UNION S) \cup (UNION R) \cup remote
  BY DEF ResolveTools
<1>2. \A g : g \in G <=> /\ g \in allow \cap NativeGroups
                         /\ g \in WorkdirRooted => rooted
                         /\ g = "skills" => managed
  OBVIOUS
<1> HIDE DEF G
<1>3. x \in UNION S <=> \E g \in G : x \in GroupTools(g)
  BY Zenon
<1>4. x \in UNION R <=> \E e \in allow \ NativeGroups : x \in RegistryMatches(e, registry)
  BY Zenon
<1> HIDE DEF S, R
<1>5. x \in ResolveTools(allow, registry, remote, rooted, managed)
        <=> x \in UNION S \/ x \in UNION R \/ x \in remote
  BY <1>1, Zenon
<1>6. (\E g \in G : x \in GroupTools(g)) <=>
        \E g \in allow \cap NativeGroups :
          (g \in WorkdirRooted => rooted) /\ (g = "skills" => managed) /\ x \in GroupTools(g)
  BY <1>2, Zenon
<1>7. QED
  BY <1>3, <1>4, <1>5, <1>6, Zenon DEF Offered

\* The bridge serves an ACP agent the toolset of a native one, less what it brings
\* itself and what rewrites Murtaugh's configuration.
LEMMA SurfaceIsSame ==
    ASSUME NEW p, ResolvedKind(p) = "acp", NEW servers
    PROVE  Surface(p, servers, Host)
             = NativeSurface(p, servers, Host)
                 \ ((UNION {GroupTools(g) : g \in {"files", "terminal", "skills"}})
                      \cup Own({"setup"})
                      \cup Own({t.name : t \in {t \in Host.registry : t.ns = "setup"}}))
<1> DEFINE tools == EffectiveTools(p, Host)
           rooted == Rooted(p, Host)
           remote == Remote(servers, Host)
           setup == {t.name : t \in {t \in Host.registry : t.ns = "setup"}}
           Brought == UNION {GroupTools(g) : g \in {"files", "terminal", "skills"}}
           Names == {"read", "write", "edit", "ls", "terminal", "skills"}
           Group(x) == "attach" \in tools /\ rooted /\ x \in GroupTools("attach")
           Matched(x) == \E e \in tools \ NativeGroups : x \in RegistryMatches(e, Host.registry)
           Given(x) == \E g \in tools \cap NativeOnlyACP :
                         (g \in WorkdirRooted => rooted) /\ x \in GroupTools(g)
<1>1. Surface(p, servers, Host) =
        (ResolveTools(tools \ NativeOnlyACP, Host.registry, {}, rooted, FALSE)
           \ BridgeUnsafe(Host.registry)) \cup remote
  BY DEF Surface, ACPSurface
<1>2. NativeSurface(p, servers, Host) = ResolveTools(tools, Host.registry, remote, rooted, TRUE)
  BY DEF NativeSurface
<1>0. rooted \in BOOLEAN
  BY DEF Rooted
<1>3. \A x : x \in Brought => \E n \in Names : x = OwnTool(n)
  BY GroupToolsAre
<1>4. \A x : x \in BridgeUnsafe(Host.registry) <=> x \in Own({"setup"}) \/ x \in Own(setup)
  BY OwnIs DEF BridgeUnsafe
<1>5. \A x : x \in remote => x \notin Brought /\ x \notin BridgeUnsafe(Host.registry)
  <2> HIDE DEF setup
  <2>3. \A T, x : x \in Own(T) => \E n : x = OwnTool(n)
    BY OwnIs, Zenon
  <2>1. \A x \in BridgeUnsafe(Host.registry) : \E n : x = OwnTool(n)
    BY <1>4, <2>3, Zenon
  <2> HIDE DEF Brought, Names, remote, setup
  <2>2. QED
    BY <1>3, <2>1, RemoteIsForeign, OwnToolIs DEF remote
<1>6. \A x : Matched(x) => x \notin Brought
  <2> HIDE DEF Brought
  <2>1. QED
    BY <1>3, RegistryTools, OwnToolIs
<1>7. \A x : Group(x) => x \notin Brought
  <2> HIDE DEF Brought
  <2>1. \A x : Group(x) => x = OwnTool("attach")
    BY GroupToolsAre
  <2>2. "attach" \notin Names
    OBVIOUS
  <2> HIDE DEF Group, Names
  <2>3. QED
    BY <1>3, <2>1, <2>2, OwnToolIs
<1>8. \A x : Given(x) => x \in Brought
  BY DEF NativeOnlyACP
<1>9. \A x : x \in ResolveTools(tools \ NativeOnlyACP, Host.registry, {}, rooted, FALSE)
               <=> Group(x) \/ Matched(x)
  <2> TAKE x
  <2>1. (\E g \in (tools \ NativeOnlyACP) \cap NativeGroups :
           (g \in WorkdirRooted => rooted) /\ (g = "skills" => FALSE) /\ x \in GroupTools(g))
          <=> Group(x)
    BY DEF NativeOnlyACP, NativeGroups, WorkdirRooted
  <2>2. (\E e \in (tools \ NativeOnlyACP) \ NativeGroups : x \in RegistryMatches(e, Host.registry))
          <=> Matched(x)
    BY DEF NativeOnlyACP, NativeGroups
  <2> HIDE DEF Group, Matched, tools, rooted
  <2>3. x \in ResolveTools(tools \ NativeOnlyACP, Host.registry, {}, rooted, FALSE)
          <=> Offered(x, tools \ NativeOnlyACP, Host.registry, {}, rooted, FALSE)
    BY <1>0, ResolveToolsIs
  <2>4. QED
    BY <2>1, <2>2, <2>3, Zenon DEF Offered
<1>10. \A x : x \in ResolveTools(tools, Host.registry, remote, rooted, TRUE)
                <=> Given(x) \/ Group(x) \/ Matched(x) \/ x \in remote
  <2> TAKE x
  <2>1. (\E g \in tools \cap NativeGroups :
           (g \in WorkdirRooted => rooted) /\ (g = "skills" => TRUE) /\ x \in GroupTools(g))
          <=> Given(x) \/ Group(x)
    BY DEF NativeOnlyACP, NativeGroups, WorkdirRooted
  <2> HIDE DEF Group, Given, tools, rooted, remote
  <2>2. x \in ResolveTools(tools, Host.registry, remote, rooted, TRUE)
          <=> Offered(x, tools, Host.registry, remote, rooted, TRUE)
    BY <1>0, ResolveToolsIs
  <2>3. QED
    BY <2>1, <2>2, Zenon DEF Offered, Matched
<1> HIDE DEF Group, Matched, Given, Brought, tools, rooted, remote
<1>11. \A x : x \in Surface(p, servers, Host) <=>
               /\ x \in NativeSurface(p, servers, Host)
               /\ x \notin Brought /\ x \notin BridgeUnsafe(Host.registry)
  BY <1>1, <1>2, <1>5, <1>6, <1>7, <1>8, <1>9, <1>10
<1> HIDE DEF setup
<1>12. Surface(p, servers, Host)
         = NativeSurface(p, servers, Host) \ (Brought \cup Own({"setup"}) \cup Own(setup))
  BY <1>4, <1>11
<1>13. QED
  BY <1>12 DEF Brought, setup

\* Whoever is given a turn is named in the files for that way of asking, though the
\* names were resolved in one pass and cut by position; and an ACP agent is served what
\* a native one would have, less what it brings itself and what rewrites Murtaugh's
\* configuration.
THEOREM NamedAreServed == IngressSpec => []NamedAndServed
<1>1. IngressInit => NamesInv
  BY IngressStarts DEF IngressInit, NamesInv
<1>2. NamesInv => NamedAndServed
  BY SurfaceIsSame DEF NamesInv, NamedTurn, NamedAndServed, OnlyNamedUsers, SameSurface, Admins
<1>3. QED
  BY <1>1, <1>2, NamesStep, PTL DEF IngressSpec
=============================================================================
