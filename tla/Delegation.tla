------------------------------ MODULE Delegation ------------------------------
(***************************************************************************)
(* agentdelegate.Runner.Run: a workflow reply, an unfurl or a job hands one *)
(* prompt to a fresh agent nobody watches, and takes its text when the turn *)
(* ends.  The turn is bounded by silence, from the prompt on: an idle timer *)
(* restarts on every event.  This module composes Run's loop with that timer and with the     *)
(* turn of the agent's client, which writes, runs tools under a heartbeat   *)
(* and may ask for permission.  (The client itself, its locks and the       *)
(* agent's process, is module AgentStream.)                                 *)
(***************************************************************************)
EXTENDS Naturals, Sequences

CONSTANTS
  Profiles,    \* the agents a rule may name: [known, builds, acp, requests]
  Capacity,    \* room in the event channel
  MaxTexts,    \* bound: the texts an agent writes in a turn
  MaxTools,    \* bound: the tools it runs (Run never ends one that goes on)
  MaxBeats     \* keep-alives a tool is given before its ceiling

VARIABLES
  profile,     \* the profile of the agent the caller named
  step,        \* where Run is
  delegate,    \* its client: "none", "open" or "closed"
  aborted,     \* promptCtx was cancelled
  expired,     \* the caller's context ended while Run used it
  work,        \* the client's turn: "none", "working", "tool", "asking",
               \* "ending" (its last event is due) or "ended" (channel closed)
  events,      \* the channel
  written,     \* history: what the agent wrote
  finished,    \* history: the turn ended with a completion, not an error
  denied,      \* the answer its last permission request got, if it asked
  ticks,       \* keep-alives of the running tool
  tools,       \* bound: tools run so far
  idle,        \* the timer: "stopped", "running" or "fired"
  buf,         \* Run's accumulated text
  result       \* what Run returns: "", "ok", "failed", "idle"

dvars == <<profile, step, delegate, aborted, expired, work, events, written,
           finished, denied, ticks, tools, idle, buf, result>>

Event(type, n) == [type |-> type, text |-> n]
Room == Len(events) < Capacity

(* ------------------------------ Runner.Run ------------------------------ *)

(* Every return runs the deferred calls: the timer is stopped, the prompt's *)
(* context cancelled, and the client closed.                                *)
Return(r) ==
  /\ step' = "done" /\ result' = r
  /\ delegate' = IF delegate = "open" THEN "closed" ELSE delegate
  /\ aborted' = TRUE /\ idle' = "stopped"

(* The profile is looked up and the client built; a client that could not   *)
(* be built is one whose every operation fails (agentbuild.ErrorClient).    *)
Begin ==
  /\ step = "start"
  /\ IF profile.known
     THEN step' = "initialize" /\ delegate' = "open" /\ UNCHANGED <<aborted, idle, result>>
     ELSE Return("failed")
  /\ UNCHANGED <<profile, expired, work, events, written, finished, denied, ticks,
                 tools, buf>>

(* Initialize and NewSession wait for the agent with no timeout of Run's;   *)
(* then Prompt subscribes and the turn begins.                              *)
Opens ==
  /\ step = "initialize"
  /\ \/ profile.builds /\ step' = "session" /\ UNCHANGED <<delegate, aborted, idle, result>>
     \/ Return("failed")
  /\ UNCHANGED <<profile, expired, work, events, written, finished, denied, ticks,
                 tools, buf>>

PromptAgent ==
  /\ step = "session"
  /\ \/ /\ step' = "reading" /\ work' = "working" /\ idle' = "running"
        /\ UNCHANGED <<delegate, aborted, result>>
     \/ Return("failed") /\ UNCHANGED work
  /\ UNCHANGED <<profile, expired, events, written, finished, denied, ticks, tools,
                 buf>>

(* Mutant of Captured: every event that carries text is captured.           *)
CapturedAny(b, e) == IF e.text > 0 THEN Append(b, e.text) ELSE b

(* Only the reply's text is captured, not a status.                         *)
Captured(b, e) == IF e.type = "text" THEN Append(b, e.text) ELSE b

(* The select takes an event: the timer restarts, even if it has just fired *)
(* (resetIdleTimer drains it).  A permission request is no case of the      *)
(* switch.                                                                  *)
TakeEvent ==
  /\ step = "reading" /\ events # <<>>
  /\ LET e == Head(events) IN
     /\ events' = Tail(events)
     /\ buf' = Captured(buf, e)
     /\ CASE e.type = "complete" -> Return("ok")
          [] e.type = "error"    -> Return("failed")
          [] OTHER -> idle' = "running" /\ UNCHANGED <<step, delegate, aborted, result>>
  /\ UNCHANGED <<profile, expired, work, written, finished, denied, ticks, tools>>

TakeClosed ==
  /\ step = "reading" /\ events = <<>> /\ work = "ended"
  /\ Return("ok")
  /\ UNCHANGED <<profile, expired, work, events, written, finished, denied, ticks,
                 tools, buf>>

(* Mutant of Unblock: the idle case drains without cancelling the prompt.   *)
UnblockNothing == UNCHANGED aborted
Unblock == aborted' = TRUE

(* The select takes the timer, perhaps although an event has just arrived.  *)
TakeIdle ==
  /\ step = "reading" /\ idle = "fired"
  /\ step' = "draining" /\ Unblock
  /\ idle' = "stopped"
  /\ UNCHANGED <<profile, delegate, expired, work, events, written, finished, denied,
                 ticks, tools, buf, result>>

Drain ==
  /\ step = "draining"
  /\ IF events # <<>>
     THEN events' = Tail(events) /\ UNCHANGED <<step, delegate, aborted, idle, result>>
     ELSE work = "ended" /\ Return("idle") /\ UNCHANGED events
  /\ UNCHANGED <<profile, expired, work, written, finished, denied, ticks, tools,
                 buf>>

(* The whole window passed and no event came.                               *)
Fire ==
  /\ idle = "running" /\ events = <<>> /\ work \in {"working", "tool", "asking"}
  /\ idle' = "fired"
  /\ UNCHANGED <<profile, step, delegate, aborted, expired, work, events, written,
                 finished, denied, ticks, tools, buf, result>>

(* The context of the caller ends, a job's timeout for one; Run itself does *)
(* not look at it, but its calls do and promptCtx is derived from it.       *)
CallerEnds ==
  /\ step \in {"initialize", "session", "reading"} /\ ~expired
  /\ expired' = TRUE /\ aborted' = TRUE
  /\ UNCHANGED <<profile, step, delegate, work, events, written, finished, denied,
                 ticks, tools, idle, buf, result>>

(* ------------------------------- the turn ------------------------------- *)

Pushed(e) == Room /\ events' = Append(events, e)

(* A native turn's emit selects between the channel and the turn's context; *)
(* an ACP client sends.                                                     *)
EmitEvent(e) == Pushed(e) \/ (aborted /\ ~profile.acp /\ UNCHANGED events)

Elsewhere == UNCHANGED <<profile, step, delegate, aborted, expired, idle, buf, result>>

Write ==
  /\ work = "working" /\ Len(written) < MaxTexts
  /\ EmitEvent(Event("text", Len(written) + 1))
  /\ written' = Append(written, Len(written) + 1)
  /\ UNCHANGED <<work, finished, denied, ticks, tools>> /\ Elsewhere

StartTool ==
  /\ work = "working" /\ tools < MaxTools /\ EmitEvent(Event("task", 0))
  /\ work' = "tool" /\ ticks' = 0 /\ tools' = tools + 1
  /\ UNCHANGED <<written, finished, denied>> /\ Elsewhere

(* The heartbeat's keep-alive carries a status text; an ACP client's gives  *)
(* up at a ceiling and cancels the prompt, a native one's never does.       *)
KeepAlive ==
  /\ work = "tool"
  /\ IF ~profile.acp \/ ticks < MaxBeats
     THEN /\ EmitEvent(Event("status", 9))
          /\ ticks' = IF profile.acp THEN ticks + 1 ELSE ticks
          /\ UNCHANGED work
     ELSE work' = "ending" /\ UNCHANGED <<events, ticks>>
  /\ UNCHANGED <<written, finished, denied, tools>> /\ Elsewhere

ToolEnds ==
  /\ work = "tool" /\ work' = "working"
  /\ UNCHANGED <<events, written, finished, denied, ticks, tools>> /\ Elsewhere

(* decidePermission: a policy answers at once; "ask" raises an event and    *)
(* waits for the consumer's decision or for the end of the turn's context.  *)
Ask ==
  /\ work = "working" /\ profile.acp /\ denied = "no request"
  /\ \/ profile.requests # "ask" /\ denied' = profile.requests /\ UNCHANGED <<work, events>>
     \/ /\ profile.requests = "ask" /\ EmitEvent(Event("permission", 0))
        /\ work' = "asking" /\ denied' = "unanswered"
  /\ UNCHANGED <<written, finished, ticks, tools>> /\ Elsewhere

AskCancelled ==
  /\ work = "asking" /\ aborted
  /\ work' = "working" /\ denied' = "denied"
  /\ UNCHANGED <<events, written, finished, ticks, tools>> /\ Elsewhere

(* The agent answers the prompt, or its process exits, or the context of    *)
(* the call is done.  The last event is sent, and the channel closed.       *)
Ends ==
  /\ \/ work = "working"
     \/ work \in {"tool", "asking"} /\ aborted
  /\ work' = "ending"
  /\ UNCHANGED <<events, written, finished, denied, ticks, tools>> /\ Elsewhere

Last ==
  /\ work = "ending"
  /\ \/ EmitEvent(Event("complete", 0)) /\ finished' = TRUE
     \/ EmitEvent(Event("error", 0)) /\ UNCHANGED finished
  /\ work' = "ended"
  /\ UNCHANGED <<written, denied, ticks, tools>> /\ Elsewhere

(* --------------------------- specification ----------------------------- *)

DelegationInit ==
  /\ profile \in Profiles /\ step = "start" /\ delegate = "none"
  /\ aborted = FALSE /\ expired = FALSE /\ finished = FALSE
  /\ work = "none" /\ events = <<>> /\ written = <<>> /\ denied = "no request"
  /\ ticks = 0 /\ tools = 0 /\ idle = "stopped" /\ buf = <<>> /\ result = ""

Turn == Write \/ StartTool \/ KeepAlive \/ ToolEnds \/ Ask \/ AskCancelled \/ Ends \/ Last
Reads == Begin \/ TakeEvent \/ TakeClosed \/ TakeIdle \/ Drain
Waits == Opens \/ PromptAgent
Run   == Reads \/ Waits

DelegationNext == Run \/ Fire \/ CallerEnds \/ Turn

(* Run's goroutine and the client's are scheduled, the runtime fires the    *)
(* timer, a done context is noticed; nothing is assumed of the agent, which *)
(* need not answer initialize or session/new, nor of its tools.             *)
DelegationFairness ==
  /\ WF_dvars(Reads) /\ WF_dvars(expired /\ Waits)
  /\ WF_dvars(Fire) /\ WF_dvars(Last) /\ WF_dvars(KeepAlive)
  /\ WF_dvars(aborted /\ (AskCancelled \/ Ends))

DelegationSpec == DelegationInit /\ [][DelegationNext]_dvars /\ DelegationFairness

(* ----------------------------- properties ------------------------------ *)

(* What a successful delegation returns is all the agent wrote, in order,   *)
(* and nothing else: no keep-alive of a tool is in it, since a caller may   *)
(* parse it as JSON (delegate.go:215-217); and its turn was completed.      *)
(* (When the caller's context ends, a native agent's error event is dropped *)
(* and Run returns what it has as a success.)                               *)
ResultIsWhole == result = "ok" /\ ~expired => buf = written /\ finished

(* What bounds neither: no timer runs until the agent has the prompt, and a *)
(* native agent's tool keeps the turn alive for as long as it runs.         *)
OpeningHangs == [](step \in {"initialize", "session"} /\ ~expired)
ToolHangs    == [](work = "tool" /\ ~profile.acp /\ ~aborted)

(* Run returns and leaves no client behind ("always torn down before Run    *)
(* returns", delegate.go:162) whenever the agent falls silent in its turn,  *)
(* although the agent's last events may find the channel full; it hangs     *)
(* only in its opening or on a native tool that does not end.               *)
RunReturns ==
  step = "start" ~> ((step = "done" /\ delegate # "open") \/ OpeningHangs \/ ToolHangs)
=============================================================================
