------------------------------ MODULE AgentStream ------------------------------
(***************************************************************************)
(* agent.ProcessClient: the goroutines that carry an ACP agent's output to *)
(* the chat handlers.  One read loop per agent process delivers every      *)
(* session's updates and every call's response; each Prompt has a          *)
(* goroutine that calls session/prompt and closes the event channel, a     *)
(* tool heartbeat, and a consumer (ChatHandler.Handle); each permission    *)
(* request of the agent is served by a goroutine of its own.               *)
(*                                                                         *)
(* The agent is external: what the read loop scans next is any message the *)
(* agent could have written.  A send on a closed channel, a second send to *)
(* a response channel and a write to a nil stdin panic: "crashed" names    *)
(* the culprit and nothing happens afterwards.                             *)
(***************************************************************************)
EXTENDS Naturals, Sequences, FiniteSets

CONSTANTS
    Prompts,      \* calls of ProcessClient.Prompt, one per turn
    Sessions,     \* ACP session ids
    SessionOf,    \* the session each prompt runs on
    Cap,          \* capacity of an event channel (32 in the code)
    MaxUpdates,   \* bound on session/update notifications read
    MaxAsks,      \* bound on permission requests read (0 or 1)
    MaxProcs,     \* bound on agent processes started
    MaxProcExits, \* bound on agent processes that exit
    LongTools,    \* whether a tool may still run when a heartbeat ticks
    MaxFaults,    \* bound on renderer failures that abandon a channel
    MaxGarbage,   \* bound on undecodable lines
    NoPrompt

ASSUME StreamAssumption ==
    /\ SessionOf \in [Prompts -> Sessions]
    /\ Cap \in Nat \ {0}
    /\ {MaxUpdates, MaxAsks, MaxProcs, MaxProcExits, MaxFaults, MaxGarbage} \subseteq Nat
    /\ LongTools \in BOOLEAN
    /\ NoPrompt \notin Prompts

Procs == 1..MaxProcs
Events == {"update", "status", "permission", "result", "error", "complete"}

VARIABLES
    \* ProcessClient
    subscribers,  \* the prompt whose channel receives a session's events
    pending,      \* prompts whose session/prompt awaits a response
    proc,         \* the current process, 0 when none is started
    procState,    \* "off", "alive", "exited" (marked) or "reaped" (failAll ran)
    \* one Prompt
    stage,        \* its goroutine
    reply,        \* content of its response channel
    chan, closed, \* its event channel
    hb,           \* its heartbeat goroutine
    handle,       \* its consumer
    ctxDone,      \* prompts whose context Handle or the gateway cancelled
    ceiling,      \* prompts whose inner context the heartbeat cancelled
    \* the read loop of each process
    rlOp, rlTo,
    \* the goroutine serving a permission request, per session
    perm, permTo,
    \* history: the newest prompt of a session, the process whose answer a call waits
    \* for, the updates that process wrote for it while it was pending, those its
    \* consumer handled, and which prompt is owed how many of them before it may see
    \* the permission request of a session
    newest, asked, owed, seen, owedAsk,
    \* bounds
    updates, asks, faults, garbage,
    crashed

clientVars == <<subscribers, pending, proc, procState>>
turnVars   == <<stage, reply, chan, closed, hb, handle, ctxDone, ceiling>>
readVars   == <<rlOp, rlTo>>
permVars   == <<perm, permTo>>
histVars   == <<newest, asked, owed, seen, owedAsk>>
boundVars  == <<updates, asks, faults, garbage>>
streamVars == <<clientVars, turnVars, readVars, permVars, histVars, boundVars, crashed>>

StreamTypeOK ==
    /\ subscribers \in [Sessions -> Prompts \cup {NoPrompt}]
    /\ pending \subseteq Prompts
    /\ proc \in Procs \cup {0}
    /\ procState \in [Procs -> {"off", "alive", "exited", "reaped"}]
    /\ stage \in [Prompts -> {"new", "start", "write", "waiting", "result", "complete",
                              "error", "stopping", "closing", "done"}]
    /\ reply \in [Prompts -> {"none", "result", "failed"}]
    /\ chan \in [Prompts -> Seq(Events)]
    /\ \A p \in Prompts : Len(chan[p]) <= Cap
    /\ closed \subseteq Prompts /\ ctxDone \subseteq Prompts /\ ceiling \subseteq Prompts
    /\ hb \in [Prompts -> {"off", "running", "sending", "exited"}]
    /\ handle \in [Prompts -> {"off", "reading", "asking", "draining", "gone", "done"}]
    /\ rlOp \in [Procs -> {"off", "reading", "sending", "responding", "eof"}]
    /\ rlTo \in [Procs -> Prompts \cup {NoPrompt}]
    /\ perm \in [Sessions -> {"none", "spawned", "held", "waiting", "answered", "done"}]
    /\ permTo \in [Sessions -> Prompts \cup {NoPrompt}]
    /\ newest \in [Sessions -> Prompts \cup {NoPrompt}]
    /\ asked \in [Prompts -> Procs \cup {0}]
    /\ owed \in [Prompts -> Nat] /\ seen \in [Prompts -> Nat]
    /\ owedAsk \in [Sessions -> [prompt : Prompts \cup {NoPrompt}, updates : Nat]]
    /\ updates \in Nat /\ asks \in Nat /\ faults \in Nat /\ garbage \in Nat
    /\ crashed \subseteq {"stdin", "heartbeat", "reader", "response", "permission"}

StreamInit ==
    /\ subscribers = [s \in Sessions |-> NoPrompt]
    /\ pending = {}
    /\ proc = 0
    /\ procState = [i \in Procs |-> "off"]
    /\ stage = [p \in Prompts |-> "new"]
    /\ reply = [p \in Prompts |-> "none"]
    /\ chan = [p \in Prompts |-> <<>>]
    /\ closed = {} /\ ctxDone = {} /\ ceiling = {}
    /\ hb = [p \in Prompts |-> "off"]
    /\ handle = [p \in Prompts |-> "off"]
    /\ rlOp = [i \in Procs |-> "off"]
    /\ rlTo = [i \in Procs |-> NoPrompt]
    /\ perm = [s \in Sessions |-> "none"]
    /\ permTo = [s \in Sessions |-> NoPrompt]
    /\ newest = [s \in Sessions |-> NoPrompt]
    /\ asked = [p \in Prompts |-> 0]
    /\ owed = [p \in Prompts |-> 0]
    /\ seen = [p \in Prompts |-> 0]
    /\ owedAsk = [s \in Sessions |-> [prompt |-> NoPrompt, updates |-> 0]]
    /\ updates = 0 /\ asks = 0 /\ faults = 0 /\ garbage = 0
    /\ crashed = {}

-----------------------------------------------------------------------------
(* Channels.                                                                *)

RoomFor(p) == Len(chan[p]) < Cap

\* Mutant of InnerDone: the cancelled turn context does not reach the call.
OnlyCeiling(p) == p \in ceiling

InnerDone(p) == p \in ctxDone \cup ceiling

\* Mutant of Send: the channel is not bounded.
SendUnbounded(p, e) == chan' = [chan EXCEPT ![p] = Append(@, e)]

\* A blocking send: it proceeds when the buffer has room.
Send(p, e) == RoomFor(p) /\ chan' = [chan EXCEPT ![p] = Append(@, e)]

Panic(who) == crashed' = crashed \cup {who}

PromptAt(p, label) == stage' = [stage EXCEPT ![p] = label]

-----------------------------------------------------------------------------
(* ProcessClient.Prompt and its goroutine.                                  *)

StartPrompt(p) ==
    /\ stage[p] = "new"
    /\ PromptAt(p, "start")
    /\ subscribers' = [subscribers EXCEPT ![SessionOf[p]] = p]
    /\ newest' = [newest EXCEPT ![SessionOf[p]] = p]
    /\ hb' = [hb EXCEPT ![p] = "running"]
    /\ handle' = [handle EXCEPT ![p] = "reading"]
    /\ UNCHANGED <<pending, proc, procState, reply, chan, closed, ctxDone,
                   ceiling, readVars, permVars, asked, owed, seen, owedAsk, boundVars,
                   crashed>>

\* call -> start: launch the agent when no process is running.
CallStart(p) ==
    /\ stage[p] = "start"
    /\ PromptAt(p, "write")
    /\ \/ proc # 0 /\ UNCHANGED <<proc, procState, readVars>>
       \/ /\ proc = 0
          /\ \E i \in Procs :
                /\ procState[i] = "off"
                /\ \A j \in Procs : j < i => procState[j] # "off"
                /\ proc' = i
                /\ procState' = [procState EXCEPT ![i] = "alive"]
                /\ rlOp' = [rlOp EXCEPT ![i] = "reading"]
                /\ UNCHANGED rlTo
    /\ UNCHANGED <<subscribers, pending, reply, chan, closed, hb, handle,
                   ctxDone, ceiling, permVars, histVars, boundVars, crashed>>

\* The process could not be started, or the request not written.
CallFails(p) ==
    /\ stage[p] \in {"start", "write"}
    /\ PromptAt(p, "error")
    /\ UNCHANGED <<clientVars, reply, chan, closed, hb, handle, ctxDone,
                   ceiling, readVars, permVars, histVars, boundVars, crashed>>

\* call: register the response channel and write to c.stdin, which is nil if
\* the process exited since start.
CallWrite(p) ==
    /\ stage[p] = "write"
    /\ IF proc = 0
       THEN Panic("stdin") /\ UNCHANGED <<stage, pending, asked>>
       ELSE /\ PromptAt(p, "waiting")
            /\ pending' = pending \cup {p}
            /\ asked' = [asked EXCEPT ![p] = proc]
            /\ UNCHANGED crashed
    /\ UNCHANGED <<subscribers, proc, procState, reply, chan, closed, hb, handle, ctxDone,
                   ceiling, readVars, permVars, newest, owed, seen, owedAsk, boundVars>>

\* call: the select between the response and the context.
CallReturns(p) ==
    /\ stage[p] = "waiting"
    /\ \/ reply[p] = "result" /\ PromptAt(p, "result") /\ UNCHANGED pending
       \/ reply[p] = "failed" /\ PromptAt(p, "error") /\ UNCHANGED pending
       \/ InnerDone(p) /\ PromptAt(p, "error") /\ pending' = pending \ {p}
    /\ asked' = [asked EXCEPT ![p] = 0]
    /\ UNCHANGED <<subscribers, proc, procState, reply, chan, closed, hb,
                   handle, ctxDone, ceiling, readVars, permVars, newest, owed, seen,
                   owedAsk, boundVars, crashed>>

\* The result's own text is emitted when it has some and none was streamed.
EmitResult(p) ==
    /\ stage[p] = "result"
    /\ PromptAt(p, "complete")
    /\ Send(p, "result") \/ UNCHANGED chan
    /\ UNCHANGED <<clientVars, reply, closed, hb, handle, ctxDone, ceiling,
                   readVars, permVars, histVars, boundVars, crashed>>

EmitFinal(p) ==
    /\ stage[p] \in {"complete", "error"}
    /\ Send(p, stage[p])
    /\ PromptAt(p, "stopping")
    /\ UNCHANGED <<clientVars, reply, closed, hb, handle, ctxDone, ceiling,
                   readVars, permVars, histVars, boundVars, crashed>>

\* Mutant of HeartbeatGone: the channel is closed without waiting for it.
DoNotWait(p) == TRUE

HeartbeatGone(p) == hb[p] = "exited"

\* Mutant of Detach: whoever is subscribed is removed.
DetachAny(p) == subscribers' = [subscribers EXCEPT ![SessionOf[p]] = NoPrompt]

Detach(p) == subscribers' = [subscribers EXCEPT ![SessionOf[p]] = IF @ = p THEN NoPrompt ELSE @]

\* The deferred teardown: wait for the heartbeat, unsubscribe, close.
Unsubscribe(p) ==
    /\ stage[p] = "stopping"
    /\ HeartbeatGone(p)
    /\ PromptAt(p, "closing")
    /\ Detach(p)
    /\ UNCHANGED <<pending, proc, procState, reply, chan, closed, hb, handle,
                   ctxDone, ceiling, readVars, permVars, histVars, boundVars, crashed>>

CloseEvents(p) ==
    /\ stage[p] = "closing"
    /\ PromptAt(p, "done")
    /\ closed' = closed \cup {p}
    /\ UNCHANGED <<clientVars, reply, chan, hb, handle, ctxDone, ceiling,
                   readVars, permVars, histVars, boundVars, crashed>>

-----------------------------------------------------------------------------
(* The heartbeat: a tool is in flight whenever a tick finds one.            *)

HeartbeatTick(p) ==
    /\ hb[p] = "running"
    /\ LongTools
    /\ hb' = [hb EXCEPT ![p] = "sending"]
    /\ UNCHANGED <<clientVars, stage, reply, chan, closed, handle, ctxDone,
                   ceiling, readVars, permVars, histVars, boundVars, crashed>>

HeartbeatCeiling(p) ==
    /\ hb[p] = "running"
    /\ LongTools
    /\ hb' = [hb EXCEPT ![p] = "exited"]
    /\ ceiling' = ceiling \cup {p}
    /\ UNCHANGED <<clientVars, stage, reply, chan, closed, handle, ctxDone,
                   readVars, permVars, histVars, boundVars, crashed>>

HeartbeatSend(p) ==
    /\ hb[p] = "sending"
    /\ IF p \in closed
       THEN Panic("heartbeat") /\ UNCHANGED <<chan, hb>>
       ELSE /\ Send(p, "status")
            /\ hb' = [hb EXCEPT ![p] = "running"]
            /\ UNCHANGED crashed
    /\ UNCHANGED <<clientVars, stage, reply, closed, handle, ctxDone, ceiling,
                   readVars, permVars, histVars, boundVars>>

HeartbeatStop(p) ==
    /\ hb[p] \in {"running", "sending"}
    /\ stage[p] = "stopping" \/ InnerDone(p)
    /\ hb' = [hb EXCEPT ![p] = "exited"]
    /\ UNCHANGED <<clientVars, stage, reply, chan, closed, handle, ctxDone,
                   ceiling, readVars, permVars, histVars, boundVars, crashed>>

-----------------------------------------------------------------------------
(* The read loop of process i.                                              *)

Reading(i) == rlOp[i] = "reading"
Reader(i, op, p) ==
    /\ rlOp' = [rlOp EXCEPT ![i] = op]
    /\ rlTo' = [rlTo EXCEPT ![i] = p]

\* deliverNotification up to the point where it has the channel in hand.
ReadUpdate(i, s) ==
    /\ Reading(i)
    /\ updates < MaxUpdates
    /\ updates' = updates + 1
    /\ LET p == subscribers[s]
       IN IF p = NoPrompt
          THEN UNCHANGED <<readVars, owed>>
          ELSE /\ Reader(i, "sending", p)
               /\ owed' = [owed EXCEPT ![p] =
                              IF p \in pending /\ asked[p] = i THEN @ + 1 ELSE @]
    /\ UNCHANGED <<clientVars, stage, reply, chan, closed, hb, handle, ctxDone, ceiling,
                   permVars, newest, asked, seen, owedAsk, asks, faults, garbage, crashed>>

\* Mutant of Deliver: an update is dropped when the buffer is full.
DeliverOrDrop(p) == Send(p, "update") \/ (~RoomFor(p) /\ UNCHANGED chan)

Deliver(p) == Send(p, "update")

\* The blocking send of deliverNotification.
SendUpdate(i) ==
    /\ rlOp[i] = "sending"
    /\ IF rlTo[i] \in closed
       THEN Panic("reader") /\ UNCHANGED <<chan, readVars>>
       ELSE /\ Deliver(rlTo[i])
            /\ Reader(i, "reading", NoPrompt)
            /\ UNCHANGED crashed
    /\ UNCHANGED <<clientVars, stage, reply, closed, hb, handle, ctxDone,
                   ceiling, permVars, histVars, boundVars>>

\* Mutant of TakePending: the response channel stays registered.
PeekPending(p) == UNCHANGED pending

\* deliverResponse takes the response channel out of pending ...
TakePending(p) == pending' = pending \ {p}

\* A process answers what was written to it: request ids are not used again.
ReadResponse(i, p) ==
    /\ Reading(i)
    /\ p \in pending /\ asked[p] = i
    /\ TakePending(p)
    /\ Reader(i, "responding", p)
    /\ UNCHANGED <<subscribers, proc, procState, turnVars, permVars, histVars, boundVars,
                   crashed>>

\* ... and then sends on it and closes it: a channel that already has its
\* response is closed, and a second send on it panics.
Respond(p, r) ==
    IF reply[p] = "none"
    THEN reply' = [reply EXCEPT ![p] = r] /\ UNCHANGED crashed
    ELSE Panic("response") /\ UNCHANGED reply

SendResponse(i) ==
    /\ rlOp[i] = "responding"
    /\ \E r \in {"result", "failed"} : Respond(rlTo[i], r)
    /\ Reader(i, "reading", NoPrompt)
    /\ UNCHANGED <<clientVars, stage, chan, closed, hb, handle, ctxDone, ceiling,
                   permVars, histVars, boundVars>>

\* A session/request_permission: served by a goroutine of its own.
ReadPermission(i, s) ==
    /\ Reading(i)
    /\ asks < MaxAsks
    /\ asks' = asks + 1
    /\ perm[s] = "none"
    /\ perm' = [perm EXCEPT ![s] = "spawned"]
    /\ owedAsk' = [owedAsk EXCEPT ![s] =
          LET p == subscribers[s]
          IN IF p = NoPrompt THEN @
             ELSE [prompt |-> p, updates |-> IF asked[p] = i THEN owed[p] ELSE 0]]
    /\ UNCHANGED <<clientVars, turnVars, readVars, permTo, newest, asked, owed, seen,
                   updates, faults, garbage, crashed>>

\* failAll: fail every pending call and, where the buffer has room, tell
\* every subscriber.
FailAll ==
    /\ reply' = [p \in Prompts |-> IF p \in pending /\ reply[p] = "none"
                                   THEN "failed" ELSE reply[p]]
    /\ pending' = {}
    /\ chan' = [p \in Prompts |->
                   IF subscribers[SessionOf[p]] = p /\ RoomFor(p)
                   THEN Append(chan[p], "error") ELSE chan[p]]
    /\ crashed' = IF \E p \in pending : reply[p] # "none"
                  THEN crashed \cup {"response"} ELSE crashed

\* A line that does not decode ends the loop; the process lives on, unread.
ReadGarbage(i) ==
    /\ Reading(i)
    /\ garbage < MaxGarbage
    /\ garbage' = garbage + 1
    /\ Reader(i, "eof", NoPrompt)
    /\ FailAll
    /\ UNCHANGED <<subscribers, proc, procState, stage, closed, hb, handle,
                   ctxDone, ceiling, permVars, histVars, updates, asks, faults>>

ReadEOF(i) ==
    /\ Reading(i)
    /\ procState[i] \in {"exited", "reaped"}
    /\ Reader(i, "eof", NoPrompt)
    /\ UNCHANGED <<clientVars, turnVars, permVars, histVars, boundVars, crashed>>

\* The goroutine that waits for the process: markProcessExited, then failAll.
ProcessExits(i) ==
    /\ procState[i] = "alive"
    /\ Cardinality({j \in Procs : procState[j] \in {"exited", "reaped"}}) < MaxProcExits
    /\ procState' = [procState EXCEPT ![i] = "exited"]
    /\ proc' = 0
    /\ UNCHANGED <<subscribers, pending, turnVars, readVars, permVars, histVars,
                   boundVars, crashed>>

ProcessReaped(i) ==
    /\ procState[i] = "exited"
    /\ procState' = [procState EXCEPT ![i] = "reaped"]
    /\ FailAll
    /\ UNCHANGED <<subscribers, proc, stage, closed, hb, handle, ctxDone, ceiling,
                   readVars, permVars, histVars, boundVars>>

-----------------------------------------------------------------------------
(* The goroutine of a permission request (decidePermission, policy "ask").  *)

PermissionAt(s, state) == perm' = [perm EXCEPT ![s] = state]

\* Mutant of TurnOver: the request does not watch the turn's context.
TurnNeverOver(p) == FALSE

TurnOver(p) == p \in ctxDone

PermissionLookup(s) ==
    /\ perm[s] = "spawned"
    /\ IF subscribers[s] = NoPrompt
       THEN PermissionAt(s, "done") /\ UNCHANGED permTo    \* no live turn: deny
       ELSE /\ PermissionAt(s, "held")
            /\ permTo' = [permTo EXCEPT ![s] = subscribers[s]]
    /\ UNCHANGED <<clientVars, turnVars, readVars, histVars, boundVars, crashed>>

\* The select between raising the event and the turn's context; with both
\* ready the runtime picks either, and a closed channel panics.
PermissionRaise(s) ==
    /\ perm[s] = "held"
    /\ LET p == permTo[s]
       IN \/ /\ p \in closed
             /\ Panic("permission")
             /\ UNCHANGED <<perm, chan>>
          \/ /\ p \notin closed
             /\ Send(p, "permission")
             /\ PermissionAt(s, "waiting")
             /\ UNCHANGED crashed
          \/ /\ TurnOver(p)
             /\ PermissionAt(s, "done")
             /\ UNCHANGED <<chan, crashed>>
    /\ UNCHANGED <<clientVars, stage, reply, closed, hb, handle, ctxDone, ceiling,
                   readVars, permTo, histVars, boundVars>>

\* The decision arrived, or the turn ended: respond to the agent.
PermissionDecided(s) ==
    /\ \/ perm[s] = "answered"
       \/ perm[s] = "waiting" /\ TurnOver(permTo[s])
    /\ PermissionAt(s, "done")
    /\ UNCHANGED <<clientVars, turnVars, readVars, permTo, histVars, boundVars, crashed>>

-----------------------------------------------------------------------------
(* The consumer: the event loop of ChatHandler.Handle.                      *)

HandleAt(p, state) == handle' = [handle EXCEPT ![p] = state]
Pop(p) == chan' = [chan EXCEPT ![p] = Tail(@)]
Received(p, e) == chan[p] # <<>> /\ Head(chan[p]) = e
\* Handle returned: its deferred cancelPrompt cancels the prompt's context.
HandleReturns(p, state) == HandleAt(p, state) /\ ctxDone' = ctxDone \cup {p}

HandleEvent(p) ==
    /\ handle[p] = "reading"
    /\ \E e \in {"update", "result", "status"} :
          /\ Received(p, e)
          /\ seen' = [seen EXCEPT ![p] = IF e = "update" THEN @ + 1 ELSE @]
          /\ \/ UNCHANGED <<handle, ctxDone, faults>>
             \/ /\ e # "status"       \* the renderer failed: return the error
                /\ faults < MaxFaults
                /\ faults' = faults + 1
                /\ HandleReturns(p, "gone")
    /\ Pop(p)
    /\ UNCHANGED <<clientVars, stage, reply, closed, hb, ceiling, readVars,
                   permVars, newest, asked, owed, owedAsk, updates, asks, garbage, crashed>>

HandlePermission(p) ==
    /\ handle[p] = "reading"
    /\ Received(p, "permission")
    /\ HandleAt(p, "asking")
    /\ Pop(p)
    /\ UNCHANGED <<clientVars, stage, reply, closed, hb, ctxDone, ceiling, readVars,
                   permVars, histVars, boundVars, crashed>>

\* askPermission returns: the human answered, or the ask timed out or was
\* cancelled with the turn.  The decision channel is buffered.
HandleAnswer(p) ==
    /\ handle[p] = "asking"
    /\ HandleAt(p, "reading")
    /\ perm' = [perm EXCEPT ![SessionOf[p]] =
                   IF @ = "waiting" /\ permTo[SessionOf[p]] = p THEN "answered" ELSE @]
    /\ UNCHANGED <<clientVars, stage, reply, chan, closed, hb, ctxDone, ceiling,
                   readVars, permTo, histVars, boundVars, crashed>>

HandleEnds(p) ==
    /\ handle[p] = "reading"
    /\ \/ \E e \in {"error", "complete"} : Received(p, e) /\ Pop(p)
       \/ chan[p] = <<>> /\ p \in closed /\ UNCHANGED chan
    /\ HandleReturns(p, "done")
    /\ UNCHANGED <<clientVars, stage, reply, closed, hb, ceiling, readVars, permVars,
                   histVars, boundVars, crashed>>

\* The idle watchdog: cancel the prompt and drain until the channel closes.
HandleIdle(p) ==
    /\ handle[p] = "reading"
    /\ chan[p] = <<>>
    /\ HandleReturns(p, "draining")
    /\ UNCHANGED <<clientVars, stage, reply, chan, closed, hb, ceiling, readVars,
                   permVars, histVars, boundVars, crashed>>

HandleDrain(p) ==
    /\ handle[p] = "draining"
    /\ IF chan[p] # <<>>
       THEN Pop(p) /\ UNCHANGED handle
       ELSE p \in closed /\ HandleAt(p, "done") /\ UNCHANGED chan
    /\ UNCHANGED <<clientVars, stage, reply, closed, hb, ctxDone, ceiling, readVars,
                   permVars, histVars, boundVars, crashed>>

\* A follow-up or /stop cancels the turn's context.
Interrupt(p) ==
    /\ stage[p] # "new"
    /\ ctxDone' = ctxDone \cup {p}
    /\ UNCHANGED <<clientVars, stage, reply, chan, closed, hb, handle, ceiling,
                   readVars, permVars, histVars, boundVars, crashed>>

-----------------------------------------------------------------------------
PromptStep(p) ==
    \/ CallStart(p) \/ CallFails(p) \/ CallWrite(p) \/ CallReturns(p)
    \/ EmitResult(p) \/ EmitFinal(p) \/ Unsubscribe(p) \/ CloseEvents(p)
HeartbeatStep(p) == HeartbeatSend(p) \/ HeartbeatStop(p)
HandleStep(p) ==
    \/ HandleEvent(p) \/ HandlePermission(p) \/ HandleAnswer(p) \/ HandleEnds(p)
    \/ HandleDrain(p)
ReaderStep(i) == SendUpdate(i) \/ SendResponse(i)
PermissionStep(s) == PermissionLookup(s) \/ PermissionRaise(s) \/ PermissionDecided(s)

StreamNext ==
    /\ crashed = {}
    /\ \/ \E p \in Prompts :
             \/ StartPrompt(p) \/ PromptStep(p)
             \/ HeartbeatTick(p) \/ HeartbeatCeiling(p) \/ HeartbeatStep(p)
             \/ HandleStep(p) \/ HandleIdle(p) \/ Interrupt(p)
       \/ \E i \in Procs :
             \/ ReaderStep(i) \/ ReadGarbage(i) \/ ReadEOF(i)
             \/ ProcessExits(i) \/ ProcessReaped(i)
             \/ \E s \in Sessions : ReadUpdate(i, s) \/ ReadPermission(i, s)
             \/ \E p \in Prompts : ReadResponse(i, p)
       \/ \E s \in Sessions : PermissionStep(s)

StreamSpec == StreamInit /\ [][StreamNext]_streamVars

\* Ready goroutines run; the idle watchdog fires when the agent stays silent;
\* the human answers or the ask times out.  A heartbeat does not beat for
\* ever: with the agent's updates bounded, one tool would stay in flight, and
\* reach the ceiling.  Nothing is assumed of the agent.
StreamFairness ==
    /\ \A p \in Prompts :
          /\ WF_streamVars(crashed = {} /\ PromptStep(p))
          /\ WF_streamVars(crashed = {} /\ HeartbeatStep(p))
          /\ []<><<HeartbeatSend(p)>>_streamVars => <>(hb[p] = "exited")
          /\ WF_streamVars(crashed = {} /\ HandleStep(p))
          /\ WF_streamVars(crashed = {} /\ HandleIdle(p))
    /\ \A i \in Procs : WF_streamVars(crashed = {} /\ ReaderStep(i))
    /\ \A s \in Sessions : WF_streamVars(crashed = {} /\ PermissionStep(s))
FairStreamSpec == StreamSpec /\ StreamFairness

-----------------------------------------------------------------------------
(* Properties.                                                              *)

\* The heartbeat has exited before its channel is closed, so a keep-alive can
\* never race the close (the deferred teardown in Prompt).
HeartbeatNeverRacesClose ==
    /\ \A p \in closed : hb[p] = "exited"
    /\ "heartbeat" \notin crashed

\* A response channel is resolved once, whichever of deliverResponse, failAll
\* and the caller's cancellation come first.
ResolvedOnce == "response" \notin crashed

\* While the newest prompt of a session has not torn itself down, the
\* session's events go to it: a slower predecessor cannot unsubscribe it.
LiveSubscription ==
    \A s \in Sessions :
        LET p == newest[s]
        IN p # NoPrompt /\ stage[p] \notin {"closing", "done"} => subscribers[s] = p

\* Both, for a prompt and the follow-up that takes over its session while the agent
\* exits and is started again.
PromptsApart == StreamTypeOK /\ LiveSubscription /\ ResolvedOnce

\* A consumer that sees the turn complete, or is asked for a permission, has
\* seen every update the same process wrote for its turn before that.
NothingOvertaken ==
    /\ \A p \in Prompts :
          handle[p] = "reading" /\ Received(p, "complete") => seen[p] >= owed[p]
    /\ \A s \in Sessions :
          LET p == owedAsk[s].prompt
          IN p # NoPrompt /\ handle[p] = "asking" => seen[p] >= owedAsk[s].updates

\* A permission request with no live or a cancelled turn is denied: raising
\* it never panics (the comment on decidePermission).
PermissionFailSafe == "permission" \notin crashed

\* Handle left before the channel was closed and the buffer has filled since:
\* whoever sends on it next, the prompt or the read loop, waits for ever.
Abandoned(p) == handle[p] \in {"gone", "done"} /\ p \notin closed /\ ~RoomFor(p)

\* Every prompt's channel is closed in the end, so that its subscription and
\* its heartbeat go, unless its consumer abandoned it full or the daemon
\* panicked.
PromptCloses ==
    \A p \in Prompts :
        stage[p] # "new" ~> (stage[p] = "done" \/ Abandoned(p) \/ crashed # {})

\* Every permission request is answered to the agent, which blocks on it: a
\* human's decision, a denial by timeout, or a denial because the turn ended.
PermissionAnswered ==
    \A s \in Sessions : perm[s] # "none" ~> (perm[s] = "done" \/ crashed # {})
=============================================================================
