------------------------------ MODULE ChatTurns ------------------------------
(***************************************************************************)
(* The life of chat turns in the Slack gateway: Gateway.startChat, the     *)
(* InFlightRegistry, the interrupt closure of buildInterruptCancel, the    *)
(* conversation -> session binding of SessionManager as the turns see it,  *)
(* and the control skeleton of ChatHandler.Handle.                         *)
(*                                                                         *)
(* A turn is one inbound chat request and the goroutine that answers it.   *)
(* An in-flight entry is named by the turn that registered it (the Token), *)
(* and an agent session by the turn whose Prompt created it.               *)
(***************************************************************************)
EXTENDS Naturals, FiniteSets

CONSTANTS
    Turns,            \* inbound chat requests
    Convs,            \* ConversationKey values
    ConvOf,           \* the conversation of each turn
    Callers,          \* goroutines that call startChat
    CallerOf,         \* the caller of each turn
    Socket,           \* the caller that is the socket event loop
    MaxStops,         \* bound on the number of /stop commands that find a turn
    MaxRenderFaults,  \* bound on Slack failures that end a turn mid-reply
    None              \* "no turn", "no entry", "no session"

ASSUME TurnsAssumption ==
    /\ ConvOf \in [Turns -> Convs]
    /\ CallerOf \in [Turns -> Callers]
    /\ Socket \in Callers
    /\ None \notin Turns
    /\ MaxStops \in Nat
    /\ MaxRenderFaults \in Nat

VARIABLES
    phase,        \* where each turn is in startChat / Handle
    entries,      \* InFlightRegistry.entries
    taken,        \* the entry each turn took out of the registry and is to cancel
    stopping,     \* the entry /stop took out and is to cancel
    closure,      \* progress of the goroutine the cancel closure starts
    ctxCancelled, \* whether the turn's context has been cancelled
    session,      \* SessionManager.sessions: the conversation's session
    sid,          \* the session Handle has in hand: to prompt, or to cancel
    generating,   \* the session on which the agent still works for a turn
    warm,         \* progress of SessionManager.Warm
    interruptible,\* what SessionManager.Interruptible answers
    asked,        \* history: turns that found no entry to wait for
    cut,          \* history: the follow-up that replaced each turn's entry
    loose,        \* history: turns left otherwise while the agent may answer
    stops,        \* /stop commands that found a turn, at most MaxStops
    renderFaults  \* Slack failures mid-reply, at most MaxRenderFaults

registryVars == <<entries, taken, stopping, closure, ctxCancelled>>
sessionVars  == <<session, sid>>
managerVars  == <<warm, interruptible>>
historyVars  == <<asked, cut, loose>>
boundVars    == <<stops, renderFaults>>
vars == <<phase, registryVars, sessionVars, generating, managerVars, historyVars, boundVars>>

Phases == {"new", "blocked", "checked", "deferred", "admitted", "registered",
           "spawned", "opening", "bound", "prompting", "idle", "returned",
           "leaving", "done"}

\* A turn is live from Register until its goroutine has torn itself down.
LivePhases == {"registered", "spawned", "opening", "bound", "prompting", "idle",
               "returned", "leaving"}
Live(t) == phase[t] \in LivePhases

Closures == {"idle", "spawned", "sleeping", "fired"}

TypeOK ==
    /\ phase \in [Turns -> Phases]
    /\ entries \in [Convs -> Turns \cup {None}]
    /\ taken \in [Turns -> Turns \cup {None}]
    /\ stopping \in Turns \cup {None}
    /\ closure \in [Turns -> Closures]
    /\ ctxCancelled \in [Turns -> BOOLEAN]
    /\ session \in [Convs -> Turns \cup {None}]
    /\ sid \in [Turns -> Turns \cup {None}]
    /\ generating \in [Turns -> Turns \cup {None}]
    /\ warm \in {"pending", "warming", "probing", "over"}
    /\ interruptible \in BOOLEAN
    /\ asked \subseteq Turns
    /\ cut \in [Turns -> Turns \cup {None}]
    /\ loose \subseteq Turns
    /\ stops \in 0..MaxStops
    /\ renderFaults \in 0..MaxRenderFaults

Init ==
    /\ phase = [t \in Turns |-> "new"]
    /\ entries = [c \in Convs |-> None]
    /\ taken = [t \in Turns |-> None]
    /\ stopping = None
    /\ closure = [t \in Turns |-> "idle"]
    /\ ctxCancelled = [t \in Turns |-> FALSE]
    /\ session = [c \in Convs |-> None]
    /\ sid = [t \in Turns |-> None]
    /\ generating = [t \in Turns |-> None]
    /\ warm = "pending"
    /\ interruptible = TRUE
    /\ asked = {}
    /\ cut = [t \in Turns |-> None]
    /\ loose = {}
    /\ stops = 0
    /\ renderFaults = 0

-----------------------------------------------------------------------------
(* The mutex of SessionManager, and Warm.                                   *)

\* Mutant of Locked: SessionManager.Prompt holds the mutex to its end.
LockedThroughPrompt == \E t \in Turns : phase[t] \in {"opening", "bound", "prompting"}

\* SessionManager.mu is held while a session is opened: the turn that opens
\* one keeps it for the agent's answers to initialize and session/new, and
\* Warm for that to initialize.
Locked == warm = "warming" \/ \E t \in Turns : phase[t] = "opening"

WarmBegins ==
    /\ warm = "pending"
    /\ ~Locked
    /\ warm' = "warming"
    /\ UNCHANGED <<phase, registryVars, sessionVars, generating, interruptible, historyVars, boundVars>>

\* The agent answers initialize, fails it, or Warm's timeout expires.
WarmEnds ==
    /\ warm = "warming"
    /\ warm' \in {"probing", "over"}
    /\ UNCHANGED <<phase, registryVars, sessionVars, generating, interruptible, historyVars, boundVars>>

\* The configured flag, or the probe, decides; until then, and for good if
\* Warm fails or comes too late, the agent counts as interruptible.
ResolveInterruptible ==
    /\ warm = "probing"
    /\ ~Locked
    /\ warm' = "over"
    /\ interruptible' \in BOOLEAN
    /\ UNCHANGED <<phase, registryVars, sessionVars, generating, historyVars, boundVars>>

\* Warm returns at once when a message has initialized the agent.
InitializedByMessage == warm' = IF warm = "pending" THEN "over" ELSE warm

-----------------------------------------------------------------------------
(* The caller of startChat.  It runs one startChat at a time, but what it    *)
(* reads and changes under a mutex are steps of their own.                   *)

Active(c) == entries[c] # None

\* The caller is inside startChat, or, for the socket, inside /stop.
Busy(caller) ==
    \/ \E t \in Turns : /\ CallerOf[t] = caller
                        /\ phase[t] \in {"blocked", "checked", "admitted", "registered"}
    \/ caller = Socket /\ stopping # None

Begins(t) == phase[t] = "new" /\ ~Busy(CallerOf[t])

WaitForManager(t) ==
    /\ Begins(t)
    /\ Locked
    /\ phase' = [phase EXCEPT ![t] = "blocked"]
    /\ UNCHANGED <<registryVars, sessionVars, generating, managerVars, historyVars, boundVars>>

StartChat(t) ==
    /\ Begins(t) \/ phase[t] = "blocked"
    /\ ~Locked
    /\ phase' = [phase EXCEPT ![t] = IF interruptible THEN "admitted" ELSE "checked"]
    /\ UNCHANGED <<registryVars, sessionVars, generating, managerVars, historyVars, boundVars>>

\* Mutant of Defer: the response in flight is not looked for.
DeferNothing(t) == phase' = [phase EXCEPT ![t] = "admitted"] /\ asked' = asked \cup {t}

Defer(t) ==
    IF Active(ConvOf[t])
    THEN phase' = [phase EXCEPT ![t] = "deferred"] /\ UNCHANGED asked
    ELSE phase' = [phase EXCEPT ![t] = "admitted"] /\ asked' = asked \cup {t}

CheckActive(t) ==
    /\ phase[t] = "checked"
    /\ Defer(t)
    /\ UNCHANGED <<registryVars, sessionVars, generating, managerVars, cut, loose, boundVars>>

Register(t) ==
    /\ phase[t] = "admitted"
    /\ phase' = [phase EXCEPT ![t] = "registered"]
    /\ entries' = [entries EXCEPT ![ConvOf[t]] = t]
    /\ taken' = [taken EXCEPT ![t] = entries[ConvOf[t]]]
    /\ cut' = [u \in Turns |-> IF u = entries[ConvOf[t]] THEN t ELSE cut[u]]
    /\ UNCHANGED <<stopping, closure, ctxCancelled, sessionVars, generating,
                   managerVars, asked, loose, boundVars>>

\* Invoking the cancel closure of an entry only starts its goroutine.
Invoke(t) == closure' = IF t = None THEN closure ELSE [closure EXCEPT ![t] = "spawned"]

\* Mutant of InvokePrevious: the replaced entry's closure is dropped.
ForgetPrevious(t) == UNCHANGED closure

InvokePrevious(t) == Invoke(taken[t])

\* previous(), then the goroutine of the turn is started.
Spawn(t) ==
    /\ phase[t] = "registered"
    /\ phase' = [phase EXCEPT ![t] = "spawned"]
    /\ InvokePrevious(t)
    /\ taken' = [taken EXCEPT ![t] = None]
    /\ UNCHANGED <<entries, stopping, ctxCancelled, sessionVars, generating,
                   managerVars, historyVars, boundVars>>

\* InFlightRegistry.Cancel, under the mutex; the closure is invoked after it.
RemoveEntry(c) == entries' = [entries EXCEPT ![c] = None]

\* The /stop command, on the socket event loop.
Stop(c) ==
    /\ ~Busy(Socket)
    /\ \/ /\ stops < MaxStops
          /\ Active(c)
          /\ RemoveEntry(c)
          /\ stopping' = entries[c]
          /\ loose' = loose \cup {entries[c]}
          /\ stops' = stops + 1
          /\ UNCHANGED <<phase, taken, closure, ctxCancelled, sessionVars,
                         generating, managerVars, asked, cut, renderFaults>>
       \/ ~Active(c) /\ UNCHANGED vars    \* "Nothing to stop."

StopCancels ==
    /\ stopping # None
    /\ Invoke(stopping)
    /\ stopping' = None
    /\ UNCHANGED <<phase, entries, taken, ctxCancelled, sessionVars,
                   generating, managerVars, historyVars, boundVars>>

-----------------------------------------------------------------------------
(* The goroutine of the cancel closure: Lookup, session/cancel, grace,      *)
(* cancelCtx.                                                               *)

\* Lookup waits for the mutex.  The session/cancel that may follow asks the
\* agent to answer early, and AgentAnswers may come at any time.
ClosureLookup(t) ==
    /\ closure[t] = "spawned"
    /\ ~Locked
    /\ closure' = [closure EXCEPT ![t] = "sleeping"]
    /\ UNCHANGED <<phase, entries, taken, stopping, ctxCancelled, sessionVars, generating,
                   managerVars, historyVars, boundVars>>

\* Mutant of CancelCtx: the context is never cancelled.
CancelNothing(t) == UNCHANGED ctxCancelled

CancelCtx(t) == ctxCancelled' = [ctxCancelled EXCEPT ![t] = TRUE]

ClosureCancelCtx(t) ==
    /\ closure[t] = "sleeping"
    /\ closure' = [closure EXCEPT ![t] = "fired"]
    /\ CancelCtx(t)
    /\ UNCHANGED <<phase, entries, taken, stopping, sessionVars, generating,
                   managerVars, historyVars, boundVars>>

-----------------------------------------------------------------------------
(* ChatHandler.Handle and the session table.                                *)

\* Handle returns.
Return(t) == phase' = [phase EXCEPT ![t] = "returned"]

\* SessionManager.session reuses the conversation's session ...
ReuseSession(t) ==
    /\ phase[t] = "spawned"
    /\ ~Locked
    /\ session[ConvOf[t]] # None
    /\ sid' = [sid EXCEPT ![t] = session[ConvOf[t]]]
    /\ phase' = [phase EXCEPT ![t] = "bound"]
    /\ UNCHANGED <<registryVars, session, generating, managerVars, historyVars, boundVars>>

\* ... or opens one, under the lock, until the agent answers ...
OpenSession(t) ==
    /\ phase[t] = "spawned"
    /\ ~Locked
    /\ session[ConvOf[t]] = None
    /\ phase' = [phase EXCEPT ![t] = "opening"]
    /\ UNCHANGED <<registryVars, sessionVars, generating, managerVars, historyVars, boundVars>>

\* ... evicting sessions that are too old or too many.
Evict(D) == [c \in Convs |-> IF c \in D THEN None ELSE session[c]]

SessionOpened(t) ==
    /\ phase[t] = "opening"
    /\ \E D \in SUBSET (Convs \ {ConvOf[t]}) :
          session' = [Evict(D) EXCEPT ![ConvOf[t]] = t]
    /\ sid' = [sid EXCEPT ![t] = t]
    /\ phase' = [phase EXCEPT ![t] = "bound"]
    /\ InitializedByMessage
    /\ UNCHANGED <<registryVars, generating, interruptible, historyVars, boundVars>>

OpenAbandoned(t) ==
    /\ phase[t] = "opening"
    /\ \E D \in SUBSET (Convs \ {ConvOf[t]}) : session' = Evict(D)
    /\ Return(t)
    /\ UNCHANGED warm \/ InitializedByMessage
    /\ UNCHANGED <<registryVars, sid, generating, interruptible, historyVars, boundVars>>

\* The agent refused initialize or session/new, or exited.
OpenFails(t) == OpenAbandoned(t)

\* The turn's context was cancelled while the agent had not answered.
OpenCancelled(t) == ctxCancelled[t] /\ OpenAbandoned(t)

\* Handle ends before the agent has the prompt: it refused the request, or
\* the request could not be written.
PromptFails(t) ==
    /\ phase[t] \in {"spawned", "bound"}
    /\ Return(t)
    /\ sid' = [sid EXCEPT ![t] = None]
    /\ UNCHANGED <<registryVars, session, generating, managerVars, historyVars, boundVars>>

SendPrompt(t) ==
    /\ phase[t] = "bound"
    /\ phase' = [phase EXCEPT ![t] = "prompting"]
    /\ generating' = [generating EXCEPT ![t] = sid[t]]
    /\ sid' = [sid EXCEPT ![t] = None]
    /\ UNCHANGED <<registryVars, session, managerVars, historyVars, boundVars>>

\* The agent answers session/prompt, with a result or an error, and early if
\* it was told to abandon the prompt.  Nobody listens any more if Handle left.
AgentAnswers(t) ==
    /\ generating[t] # None
    /\ generating' = [generating EXCEPT ![t] = None]
    /\ IF phase[t] = "prompting" THEN Return(t) ELSE UNCHANGED phase
    /\ UNCHANGED <<registryVars, sessionVars, managerVars, historyVars, boundVars>>

\* The turn's context is cancelled while its request is in flight: call
\* returns ctx.Err(), Handle gets an EventError and returns it.
PromptCancelled(t) ==
    /\ phase[t] = "prompting"
    /\ ctxCancelled[t]
    /\ Return(t)
    /\ UNCHANGED <<registryVars, sessionVars, generating, managerVars, historyVars, boundVars>>

\* The idle watchdog looks the session up to cancel it.
IdleTimeout(t) ==
    /\ phase[t] = "prompting"
    /\ ~Locked
    /\ IF session[ConvOf[t]] = None
       THEN Return(t) /\ UNCHANGED sid
       ELSE /\ phase' = [phase EXCEPT ![t] = "idle"]
            /\ sid' = [sid EXCEPT ![t] = session[ConvOf[t]]]
    /\ UNCHANGED <<registryVars, session, generating, managerVars, historyVars, boundVars>>

Discard(c) == session' = [session EXCEPT ![c] = None]

IdleDiscard(t) ==
    /\ phase[t] = "idle"
    /\ ~Locked
    /\ Discard(ConvOf[t])
    /\ sid' = [sid EXCEPT ![t] = None]
    /\ Return(t)
    /\ UNCHANGED <<registryVars, generating, managerVars, historyVars, boundVars>>

\* A tool blew past its ceiling: drop the session, fail the turn.
ToolCeiling(t) ==
    /\ phase[t] = "prompting"
    /\ ~Locked
    /\ Discard(ConvOf[t])
    /\ Return(t)
    /\ UNCHANGED <<registryVars, sid, generating, managerVars, historyVars, boundVars>>

\* renderer.Text or renderer.Task failed: Handle returns at once and its
\* deferred cancelPrompt abandons the request; the session stays bound.
RenderFails(t) ==
    /\ phase[t] = "prompting"
    /\ renderFaults < MaxRenderFaults
    /\ renderFaults' = renderFaults + 1
    /\ loose' = loose \cup {t}
    /\ Return(t)
    /\ UNCHANGED <<registryVars, sessionVars, generating, managerVars, asked, cut, stops>>

\* Mutant of LeaveRegistry: the turn forgets to leave.
StayRegistered(t) == taken' = [taken EXCEPT ![t] = None] /\ UNCHANGED entries

\* inFlight.Cancel(key) takes out whatever entry the conversation has.
LeaveRegistry(t) ==
    /\ RemoveEntry(ConvOf[t])
    /\ taken' = [taken EXCEPT ![t] = entries[ConvOf[t]]]

\* After Handle, the goroutine of startChat leaves the registry ...
Leave(t) ==
    /\ phase[t] = "returned"
    /\ phase' = [phase EXCEPT ![t] = "leaving"]
    /\ LeaveRegistry(t)
    /\ loose' = loose \cup ({entries[ConvOf[t]]} \ {t, None})
    /\ UNCHANGED <<stopping, closure, ctxCancelled, sessionVars, generating,
                   managerVars, asked, cut, boundVars>>

\* ... and invokes what it took out; the deferred cancelCtx is the last.
Teardown(t) ==
    /\ phase[t] = "leaving"
    /\ phase' = [phase EXCEPT ![t] = "done"]
    /\ Invoke(taken[t])
    /\ taken' = [taken EXCEPT ![t] = None]
    /\ CancelCtx(t)
    /\ UNCHANGED <<entries, stopping, sessionVars, generating, managerVars,
                   historyVars, boundVars>>

-----------------------------------------------------------------------------
CallerStep(t) ==
    WaitForManager(t) \/ StartChat(t) \/ CheckActive(t) \/ Register(t) \/ Spawn(t)

WarmStep == WarmBegins \/ WarmEnds \/ ResolveInterruptible

ClosureStep(t) == ClosureLookup(t) \/ ClosureCancelCtx(t)

\* Steps the gateway's own goroutines take whatever the agent does.
HandleStep(t) ==
    \/ ReuseSession(t) \/ OpenSession(t) \/ OpenCancelled(t)
    \/ PromptFails(t) \/ SendPrompt(t) \/ PromptCancelled(t)
    \/ IdleDiscard(t) \/ Leave(t) \/ Teardown(t)

\* The agent's answer to initialize and session/new.
OpenAnswered(t) == SessionOpened(t) \/ OpenFails(t)

Next ==
    \/ WarmStep \/ StopCancels
    \/ \E t \in Turns : \/ CallerStep(t) \/ ClosureStep(t) \/ HandleStep(t)
                        \/ OpenAnswered(t) \/ AgentAnswers(t)
                        \/ IdleTimeout(t) \/ ToolCeiling(t) \/ RenderFails(t)
    \/ \E c \in Convs : Stop(c)

Spec == Init /\ [][Next]_vars

\* The Go scheduler runs every ready goroutine, a caller that waits for a mutex
\* gets it once it stays free, and Warm has a timeout; nothing obliges a user
\* to write, a watchdog to fire, or the agent to answer anything.
Fairness ==
    /\ WF_vars(WarmEnds) /\ WF_vars(ResolveInterruptible) /\ WF_vars(StopCancels)
    /\ \A t \in Turns :
          /\ WF_vars(ClosureStep(t))
          /\ WF_vars(HandleStep(t))
          /\ WF_vars(phase[t] # "new" /\ CallerStep(t))
FairSpec == Spec /\ Fairness

-----------------------------------------------------------------------------
(* Properties.                                                              *)

\* A conversation's registry entry never outlives its turn: a leftover entry
\* would make a non-interruptible agent refuse every later message.
NoStaleEntry == \A c \in Convs : entries[c] # None => Live(entries[c])

\* A turn whose context is cancelled is no longer in the registry, so /stop
\* never reports "Stopped." for a turn that is already being torn down.
CancelledLeftRegistry ==
    \A t \in Turns : ctxCancelled[t] => entries[ConvOf[t]] # t

\* The registry and the turns agree, whatever /stop, timeout and end do to them.
RegistrySound == NoStaleEntry /\ CancelledLeftRegistry

\* Whoever took the turn's entry out of the registry has yet to invoke its closure.
Held(t) == stopping = t \/ \E u \in Turns : taken[u] = t

\* At most one turn of a conversation goes on: every other live one was told to
\* stop, or is about to be by the goroutine that took out its entry.
OneCurrentTurn ==
    \A t, u \in Turns :
        (/\ Live(t) /\ closure[t] = "idle" /\ ~Held(t)
         /\ Live(u) /\ closure[u] = "idle" /\ ~Held(u)
         /\ ConvOf[t] = ConvOf[u]) => t = u

\* The turn was left although the agent may still have been working for it: by a
\* /stop, by a predecessor's teardown, by a reply Slack refused, or by a follow-up
\* that counted the agent as interruptible or came from another caller.
LetGo(t) ==
    \/ t \in loose
    \/ /\ cut[t] # None
       /\ cut[t] \notin asked \/ CallerOf[cut[t]] # CallerOf[t]

\* startChat promises that a follow-up never runs concurrently against the
\* session of an agent that cannot be interrupted and is still answering.  The
\* code keeps that among the messages of one caller once the verdict is known,
\* and unless the turn was let go: the check and the registration are two steps.
OnePromptPerSession ==
    \A t, u \in Turns :
        generating[t] # None /\ generating[t] = generating[u] /\ t # u
            => LetGo(t) \/ LetGo(u)

\* The teardown of a turn that was already replaced leaves the follow-up's
\* entry alone (the comment on inFlight.Cancel in startChat).
TeardownSparesFollowUp ==
    [][\A t \in Turns :
          (phase[t] = "returned" /\ phase'[t] = "leaving" /\ entries[ConvOf[t]] # t)
             => entries' = entries]_vars

\* An agent never answers initialize or session/new, which have no timeout and
\* hold SessionManager's mutex; the closure of the turn that waits needs it too.
OpenHangs == \E u \in Turns : [](phase[u] = "opening")

\* A turn whose entry was taken out of the registry, by a follow-up, a /stop or
\* a predecessor, ends whatever becomes of its prompt, unless an open hangs.
InterruptTakesEffect ==
    \A t \in Turns :
        (Live(t) /\ entries[ConvOf[t]] # t) ~> (phase[t] = "done" \/ OpenHangs)

\* The socket event loop, which serves every conversation and acknowledges
\* Slack's events, is held up for good by nothing else: not by a prompt, a
\* session/cancel, Warm, another caller or the registry.
LoopHeldOnlyByOpen == Busy(Socket) ~> (~Busy(Socket) \/ OpenHangs)
=============================================================================
