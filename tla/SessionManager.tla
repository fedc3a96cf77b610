---------------------------- MODULE SessionManager ----------------------------
(***************************************************************************)
(* agent.SessionManager and the part of ProcessClient it drives: the table *)
(* of conversation sessions, its mutex (held across the agent's answers to *)
(* initialize and session/new), eviction, warmup and the interruptible     *)
(* verdict, and the agent process that may exit and be started again.      *)
(*                                                                         *)
(* An actor is a goroutine that calls Prompt for its conversation, or the  *)
(* warmup goroutine.  Errors of a call (a refusal, a dead process, an      *)
(* expired context) look the same to the manager and may always happen.    *)
(***************************************************************************)
EXTENDS Naturals, FiniteSets

CONSTANTS
    Keys,         \* ConversationKey values
    Callers,      \* goroutines that prompt
    KeyOf,        \* the conversation of each
    Warm,         \* the warmup goroutine
    Ids,          \* session ids the agent hands out, each once
    MaxSessions,  \* capacity of the table
    MaxExits,     \* bound on exits of the agent process
    Override,     \* the configured interruptible flag: TRUE, FALSE or None
    Supports,     \* whether the agent implements session/cancel
    None

ASSUME ManagerAssumption ==
    /\ IsFiniteSet(Keys)
    /\ KeyOf \in [Callers -> Keys]
    /\ Warm \notin Callers
    /\ None \notin Keys \cup Callers \cup Ids \cup {Warm}
    /\ MaxSessions \in Nat \ {0}
    /\ MaxExits \in Nat
    /\ Override \in BOOLEAN \cup {None}
    /\ Supports \in BOOLEAN

Actors == Callers \cup {Warm}

VARIABLES
    mu,           \* the actor that holds SessionManager.mu across a call
    pc,           \* where each actor is
    got,          \* the session each caller was given
    session,      \* SessionManager.sessions
    older,        \* pairs of conversations, the first used before the second
    initialized,  \* SessionManager.initialized
    interruptible,\* the verdict, None while it is not known
    issued,       \* ids the agent has handed out
    started,      \* ProcessClient.started
    greeted,      \* whether the running process has answered initialize
    exits,        \* process exits so far, at most MaxExits
    strangers     \* requests written to a process that was not greeted

tableVars   == <<session, older, issued>>
processVars == <<started, greeted, exits>>
verdictVars == <<initialized, interruptible>>
vars == <<mu, pc, got, tableVars, processVars, verdictVars, strangers>>

TypeOK ==
    /\ mu \in Actors \cup {None}
    /\ pc \in [Actors -> {"idle", "slow", "init", "greeting", "open", "opening",
                          "have", "probe", "warmed", "cold"}]
    /\ got \in [Callers -> Ids \cup {None}]
    /\ session \in [Keys -> Ids \cup {None}]
    /\ older \in SUBSET (Keys \X Keys)
    /\ initialized \in BOOLEAN
    /\ started \in BOOLEAN
    /\ greeted \in BOOLEAN
    /\ interruptible \in BOOLEAN \cup {None}
    /\ issued \subseteq Ids
    /\ exits \in 0..MaxExits
    /\ strangers \subseteq {"session/new", "session/prompt"}

Init ==
    /\ mu = None
    /\ pc = [a \in Actors |-> "idle"]
    /\ got = [a \in Callers |-> None]
    /\ session = [k \in Keys |-> None]
    /\ older = {}
    /\ initialized = FALSE
    /\ interruptible = None
    /\ issued = {}
    /\ started = FALSE
    /\ greeted = FALSE
    /\ exits = 0
    /\ strangers = {}

Goto(a, label) == pc' = [pc EXCEPT ![a] = label]
Bound == {k \in Keys : session[k] # None}

-----------------------------------------------------------------------------
(* SessionManager.session.                                                  *)

\* lastUsed = now for conversation k.
Used(k) == {p \in older : k \notin {p[1], p[2]}} \cup ((Keys \ {k}) \X {k})

Reuse(a) ==
    /\ session[KeyOf[a]] # None
    /\ got' = [got EXCEPT ![a] = session[KeyOf[a]]]
    /\ older' = Used(KeyOf[a])
    /\ Goto(a, "have")
    /\ UNCHANGED <<session, issued, mu>>

\* The first look at the table, without which every prompt would queue
\* behind a session being opened for another conversation.
FastPath(a) ==
    /\ pc[a] = "idle"
    /\ mu = None
    /\ \/ Reuse(a)
       \/ session[KeyOf[a]] = None /\ Goto(a, "slow") /\ UNCHANGED <<got, mu, tableVars>>
    /\ UNCHANGED <<processVars, verdictVars, strangers>>

\* Mutant of Rechecked: the table is not looked at again under the lock.
NotRechecked(a) == TRUE

Rechecked(a) == session[KeyOf[a]] = None

\* The second look, under the lock that is kept while a session is opened.
SlowPath(a) ==
    /\ pc[a] = "slow"
    /\ mu = None
    /\ \/ Reuse(a)
       \/ /\ Rechecked(a)
          /\ mu' = a
          /\ Goto(a, IF initialized THEN "open" ELSE "init")
          /\ UNCHANGED <<got, tableVars>>
    /\ UNCHANGED <<processVars, verdictVars, strangers>>

-----------------------------------------------------------------------------
(* Calls to the agent.  A call starts the process if none is running.       *)

Started == started' = TRUE

CallInitialize(a) ==
    /\ pc[a] = "init"
    /\ Goto(a, "greeting")
    /\ Started
    /\ UNCHANGED <<mu, got, tableVars, greeted, exits, verdictVars, strangers>>

\* Initialize returns; warmup goes on to resolve the verdict unlocked.
Initialized(a) ==
    /\ pc[a] = "greeting"
    /\ started
    /\ greeted' = TRUE
    /\ initialized' = TRUE
    /\ IF a = Warm
       THEN mu' = None /\ Goto(a, "probe")
       ELSE UNCHANGED mu /\ Goto(a, "open")
    /\ UNCHANGED <<got, tableVars, started, exits, interruptible, strangers>>

\* Mutant of Remember: initialized is set whatever Initialize returned.
RememberAnyway == initialized' = TRUE

Remember == UNCHANGED initialized

InitializeFails(a) ==
    /\ pc[a] \in {"init", "greeting"}
    /\ mu' = None
    /\ Remember
    /\ Goto(a, IF a = Warm THEN "cold" ELSE "idle")
    /\ UNCHANGED <<got, tableVars, processVars, interruptible, strangers>>

\* A request other than initialize reaches the process.
Write(method) ==
    strangers' = IF started /\ greeted THEN strangers ELSE strangers \cup {method}

CallNewSession(a) ==
    /\ pc[a] = "open"
    /\ Goto(a, "opening")
    /\ Started
    /\ Write("session/new")
    /\ UNCHANGED <<mu, got, tableVars, greeted, exits, verdictVars>>

\* Mutant of Room: the table may grow one past its capacity.
RoomForOneMore(kept) == Cardinality(kept) <= MaxSessions

Room(kept) == Cardinality(kept) < MaxSessions

\* evictLocked drops conversations from the one not used for longest: those
\* idle for too long, and as many more as it takes to make room.
Evicted(D) ==
    /\ \A k \in D, j \in Bound : <<j, k>> \in older => j \in D
    /\ Room(Bound \ D)

\* The table without the conversations D, and their place in its order.
Without(D) == [k \in Keys |-> IF k \in D THEN None ELSE session[k]]
Forgotten(D) == {p \in older : p[1] \notin D /\ p[2] \notin D}

NewSession(a) ==
    /\ pc[a] = "opening"
    /\ started
    /\ mu' = None
    /\ \E id \in Ids \ issued, D \in SUBSET Bound :
          /\ Evicted(D)
          /\ session' = [Without(D) EXCEPT ![KeyOf[a]] = id]
          /\ older' = {p \in Used(KeyOf[a]) : p[1] \in Bound \ D}
          /\ issued' = issued \cup {id}
          /\ got' = [got EXCEPT ![a] = id]
    /\ Goto(a, "have")
    /\ UNCHANGED <<processVars, verdictVars, strangers>>

\* Mutant of Unlock: an error return leaves the mutex locked.
StayLocked == UNCHANGED mu

Unlock == mu' = None

NewSessionFails(a) ==
    /\ pc[a] = "opening"
    /\ Unlock
    /\ \E D \in SUBSET Bound :
          Evicted(D) /\ session' = Without(D) /\ older' = Forgotten(D)
    /\ Goto(a, "idle")
    /\ UNCHANGED <<got, issued, processVars, verdictVars, strangers>>

\* SessionManager.Prompt hands the request to the client, or gives up.
Prompt(a) ==
    /\ pc[a] = "have"
    /\ got' = [got EXCEPT ![a] = None]
    /\ Goto(a, "idle")
    /\ \/ Started /\ Write("session/prompt")
       \/ UNCHANGED <<started, strangers>>
    /\ UNCHANGED <<mu, tableVars, greeted, exits, verdictVars>>

\* An idle timeout or a tool ceiling drops a conversation's binding.
Discard(k) ==
    /\ mu = None
    /\ session' = Without({k})
    /\ older' = Forgotten({k})
    /\ UNCHANGED <<mu, pc, got, issued, processVars, verdictVars, strangers>>

\* The process exits; markProcessExited.
Exit ==
    /\ started
    /\ exits < MaxExits
    /\ exits' = exits + 1
    /\ started' = FALSE
    /\ greeted' = FALSE
    /\ UNCHANGED <<mu, pc, got, tableVars, verdictVars, strangers>>

-----------------------------------------------------------------------------
(* Warmup.                                                                  *)

WarmUp ==
    /\ pc[Warm] = "idle"
    /\ mu = None
    /\ IF initialized
       THEN Goto(Warm, "warmed") /\ UNCHANGED mu
       ELSE Goto(Warm, "init") /\ mu' = Warm
    /\ UNCHANGED <<got, tableVars, processVars, verdictVars, strangers>>

\* resolveInterruptible: the override wins; a probe that fails for another
\* reason than a missing method counts as support.
Resolve ==
    /\ pc[Warm] = "probe"
    /\ mu = None
    /\ \E probed \in {Supports, TRUE} :
          interruptible' = IF Override # None THEN Override ELSE probed
    /\ Goto(Warm, "warmed")
    /\ UNCHANGED <<mu, got, tableVars, processVars, initialized, strangers>>

-----------------------------------------------------------------------------
Next ==
    \/ \E a \in Callers :
          \/ FastPath(a) \/ SlowPath(a)
          \/ CallNewSession(a) \/ NewSession(a) \/ NewSessionFails(a) \/ Prompt(a)
    \/ \E a \in Actors : CallInitialize(a) \/ Initialized(a) \/ InitializeFails(a)
    \/ \E k \in Keys : Discard(k)
    \/ WarmUp \/ Resolve \/ Exit

Spec == Init /\ [][Next]_vars

-----------------------------------------------------------------------------
(* Properties.                                                              *)

\* The table is a bounded set of bindings: two callers of one conversation
\* never open two sessions, no session is shared by two conversations, and
\* the capacity holds, whatever interleaves with eviction and Discard.
Bindings == INSTANCE SessionBindings WITH binding <- session
BindingsKept == Bindings!Spec

\* SessionManager.mu is held only by a goroutine that is opening a session or
\* greeting the agent: every return, of every error, releases it.
LockReleased ==
    mu # None => pc[mu] \in {"init", "greeting", "open", "opening"}

\* The manager never holds more sessions than its capacity.
WithinCapacity == Cardinality(Bound) <= MaxSessions

\* No session is opened or prompted on a process that has not answered
\* initialize, as long as the agent never had to be started again: a second
\* process is never greeted (session_manager.go:202).
GreetedFirst == exits = 0 => strangers = {}

\* Interruptible, as the gateway reads it.
Interruptible == IF interruptible = None THEN TRUE ELSE interruptible

\* Once warmup is over and the agent initialized, the configured flag decides
\* whether the agent can be interrupted.
OverrideHonoured ==
    pc[Warm] \in {"warmed", "cold"} /\ initialized /\ Override # None
        => Interruptible = Override
=============================================================================
