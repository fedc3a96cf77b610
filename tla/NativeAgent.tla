------------------------------ MODULE NativeAgent ------------------------------
(***************************************************************************)
(* The in-process agent: native.Client, native.Loop and the Conversation   *)
(* they share, for one session.  Each Prompt appends the user's message    *)
(* and starts a goroutine that compacts the conversation, asks the model,  *)
(* runs the tools it calls and emits events; a tool call has a heartbeat   *)
(* goroutine that nobody waits for.                                        *)
(*                                                                         *)
(* Nothing orders a prompt after the goroutine of the one before it, and   *)
(* the conversation has no lock: an append is a load of the slice and a    *)
(* store of the longer one, with anything in between.  The model provider, *)
(* the tools and the consumer of the events are external.                  *)
(***************************************************************************)
EXTENDS Integers, Sequences, FiniteSets, FiniteSetsExt

CONSTANTS
    MaxPrompts,   \* calls of Client.Prompt on the session, numbered as they come
    Cap,          \* capacity of an event channel (32 in the code)
    Settings,     \* the settings a behaviour may run under
    None

Prompts == 1..MaxPrompts

\* One setting: the agent's configuration and the bounds of its instance.
\*   turns      - turns of one Loop.Run (40 by default)
\*   retries    - retries of an empty completion (2 in the code)
\*   calls      - bound on the tool calls in one completion
\*   limit      - context limit, in messages; 0 for none
\*   summarizes - the compaction mode: summarize, or truncate
\*   prompts    - bound on the prompts made
\*   waits      - whether a prompt is made only when the last one is over
\*   cancels    - whether a caller or Client.Cancel may cancel a prompt
\*   beats      - bound on the heartbeats of one prompt
Setting == [turns : Nat \ {0}, retries : Nat, calls : Nat \ {0}, limit : Nat,
            summarizes : BOOLEAN, prompts : 1..MaxPrompts, waits : BOOLEAN,
            cancels : BOOLEAN, beats : Nat]

ASSUME NativeAssumption ==
    /\ {Cap, MaxPrompts} \subseteq Nat \ {0}
    /\ Settings \subseteq Setting
    /\ None \notin Prompts

VARIABLES
    setting,
    conv,        \* Conversation.messages
    heavy,       \* the provider reported more tokens than the high-water mark
    inflight,    \* Client.cancels of the session
    cancelled,   \* prompts whose context was cancelled while they ran
    pc, turn, tries, calls, next,  \* the goroutine of each prompt
    held,        \* the slice it loaded, None outside an append
    todo, out,   \* what it appends and emits before it goes on
    chan, closed,\* its event channel
    hb, late,    \* its running heartbeat, and stopped ones still emitting
    beats,
    overlapped,  \* history: a prompt began before the last one's goroutine ended
    ends,        \* history: terminal events delivered
    panicked

convVars == <<conv, heavy, held, todo>>
runVars  == <<pc, turn, tries, calls, next>>
chanVars == <<chan, closed, out, ends>>
beatVars == <<hb, late, beats>>
vars == <<setting, convVars, runVars, chanVars, beatVars, inflight, cancelled, overlapped, panicked>>

Message == [role : {"user", "assistant", "tool"}, by : Prompts \cup {None},
            turn : Nat, call : Nat]

User(p)         == [role |-> "user", by |-> p, turn |-> 0, call |-> 0]
Summary         == User(None)
Assistant(p, n) == [role |-> "assistant", by |-> p, turn |-> turn[p], call |-> n]
Result(p, i)    == [role |-> "tool", by |-> p, turn |-> turn[p], call |-> i]
InterruptedNote == [role |-> "assistant", by |-> None, turn |-> 0, call |-> 0]

TypeOK ==
    /\ setting \in Settings
    /\ conv \in Seq(Message)
    /\ heavy \in BOOLEAN
    /\ inflight \in Prompts \cup {None}
    /\ cancelled \subseteq Prompts
    /\ pc \in [Prompts -> {"new", "user", "register", "top", "compact", "guard", "stream",
                           "answered", "tools", "call", "tool", "stopping", "result",
                           "finish", "done", "closing", "closed"}]
    /\ turn \in [Prompts -> 0..setting.turns]
    /\ tries \in [Prompts -> 0..setting.retries]
    /\ calls \in [Prompts -> 0..setting.calls]
    /\ next \in [Prompts -> 1..setting.calls + 1]
    /\ held \in [Prompts -> Seq(Message) \cup {None}]
    /\ todo \in [Prompts -> Seq(Message)]
    /\ out \in [Prompts -> Seq({"event", "end"})]
    /\ chan \in [Prompts -> Seq({"event", "end"})]
    /\ \A p \in Prompts : Len(chan[p]) <= Cap
    /\ closed \subseteq Prompts
    /\ hb \in [Prompts -> {"off", "waiting", "emitting"}]
    /\ late \in [Prompts -> 0..setting.beats]
    /\ beats \in [Prompts -> 0..setting.beats]
    /\ ends \in [Prompts -> Nat]
    /\ overlapped \in BOOLEAN
    /\ panicked \in BOOLEAN

Init ==
    /\ setting \in Settings
    /\ conv = <<>> /\ heavy = FALSE
    /\ inflight = None /\ cancelled = {}
    /\ pc = [p \in Prompts |-> "new"]
    /\ turn = [p \in Prompts |-> 0]
    /\ tries = [p \in Prompts |-> 0]
    /\ calls = [p \in Prompts |-> 0]
    /\ next = [p \in Prompts |-> 1]
    /\ held = [p \in Prompts |-> None]
    /\ todo = [p \in Prompts |-> <<>>]
    /\ out = [p \in Prompts |-> <<>>]
    /\ chan = [p \in Prompts |-> <<>>]
    /\ closed = {}
    /\ hb = [p \in Prompts |-> "off"]
    /\ late = [p \in Prompts |-> 0]
    /\ beats = [p \in Prompts |-> 0]
    /\ ends = [p \in Prompts |-> 0]
    /\ overlapped = FALSE /\ panicked = FALSE

-----------------------------------------------------------------------------
(* The message array: compaction.go and messages.go.                        *)

UserStarts(c) == {i \in DOMAIN c : c[i].role = "user"}

Size(c) == Len(c)

\* The cuts at a user message after which the rest fits the low-water mark;
\* the last user message is always one, fit or not.
Cuts(c) == {i \in UserStarts(c) : Size(c) - i + 1 <= setting.limit \div 2} \cup {Max(UserStarts(c))}

\* Mutant of Compacted: cuts at any message instead of a user's.
CompactedAnywhere(c, summarized) ==
    IF Size(c) <= setting.limit \div 2 THEN c ELSE SubSeq(c, Size(c) - setting.limit \div 2 + 1, Size(c))

\* truncateToBudget, or summarizeOldest when the summary call succeeded.
Compacted(c, summarized) ==
    IF Cardinality(UserStarts(c)) <= 1 THEN c
    ELSE LET cut  == Min(Cuts(c))
             kept == SubSeq(c, cut, Size(c))
         IN  IF summarized /\ cut # Min(UserStarts(c)) THEN <<Summary>> \o kept ELSE kept

\* Over the high-water mark, by the estimate or by the provider's own count.
Over(c) == setting.limit > 0 /\ (heavy \/ Size(c) > (setting.limit * 3) \div 4)

\* assertNoConsecutiveUserAfterTool.
NoUserAfterTool(c) ==
    \A i \in 2..Len(c) : ~(c[i - 1].role = "tool" /\ c[i].role = "user")

\* Mutant of AppendedByUser: a dangling tool result is not closed first.
AppendedUnclosed(p, c) == <<User(p)>>

\* What AppendUser appends: a dangling tool result is closed first.
AppendedByUser(p, c) ==
    IF c # <<>> /\ c[Len(c)].role = "tool" THEN <<InterruptedNote, User(p)>> ELSE <<User(p)>>

\* What a completion's usage may say: recordInputTokens, if the limit is used.
Reported == IF setting.limit > 0 THEN BOOLEAN ELSE {FALSE}

-----------------------------------------------------------------------------
(* The goroutine of a prompt: between two steps it finishes its appends and *)
(* its emits.                                                               *)

Goto(p, label) == pc' = [pc EXCEPT ![p] = label]

At(p, label) == ~panicked /\ pc[p] = label /\ todo[p] = <<>> /\ out[p] = <<>>

Appends(p, msgs) == todo' = [todo EXCEPT ![p] = msgs]

Emits(p, what) == out' = [out EXCEPT ![p] = <<what>>]

\* runCtx: the caller's context or the prompt's own cancel.
CtxDone(p) == p \in cancelled \/ pc[p] \in {"closing", "closed"}

\* append, first half: the slice header is read ...
LoadConv(p) ==
    /\ ~panicked
    /\ todo[p] # <<>> /\ held[p] = None
    /\ held' = [held EXCEPT ![p] = conv]
    /\ UNCHANGED <<conv, heavy, todo, runVars, chanVars, beatVars, inflight, cancelled,
                   overlapped, panicked, setting>>

\* ... and second half: the longer slice is stored, over whatever is there.
StoreConv(p) ==
    /\ ~panicked
    /\ todo[p] # <<>> /\ held[p] # None
    /\ conv' = Append(held[p], Head(todo[p]))
    /\ held' = [held EXCEPT ![p] = None]
    /\ todo' = [todo EXCEPT ![p] = Tail(@)]
    /\ UNCHANGED <<heavy, runVars, chanVars, beatVars, inflight, cancelled, overlapped, panicked, setting>>

Sent(p, what) ==
    /\ p \notin closed /\ Len(chan[p]) < Cap
    /\ chan' = [chan EXCEPT ![p] = Append(@, what)]
    /\ ends' = [ends EXCEPT ![p] = IF what = "end" THEN @ + 1 ELSE @]

\* Mutants of Dropped: emit waits for room whatever the context says, or gives
\* up on a full channel.
NeverDropped(p) == FALSE

DroppedWhenFull(p) == (CtxDone(p) \/ Len(chan[p]) = Cap) /\ UNCHANGED <<chan, ends>>

\* emit gives up once the context is done.
Dropped(p) == CtxDone(p) /\ UNCHANGED <<chan, ends>>

\* emit: send or give up, whichever is ready.
Emit(p) ==
    /\ ~panicked
    /\ out[p] # <<>> /\ todo[p] = <<>>
    /\ Sent(p, Head(out[p])) \/ Dropped(p)
    /\ out' = [out EXCEPT ![p] = Tail(@)]
    /\ UNCHANGED <<convVars, runVars, closed, beatVars, inflight, cancelled, overlapped, panicked, setting>>

-----------------------------------------------------------------------------
(* Client.Prompt and Client.Cancel.                                         *)

Running(p) == pc[p] \notin {"new", "closed"}

\* Prompt looks the session up and cancels the prompt in flight.
CancelPrevious(p) ==
    /\ At(p, "new")
    /\ p <= setting.prompts /\ \A q \in 1..p - 1 : pc[q] # "new"
    /\ setting.waits => ~\E q \in Prompts : Running(q)
    /\ Goto(p, "user")
    /\ cancelled' = cancelled \cup ({inflight} \ {None})
    /\ overlapped' = (overlapped \/ \E q \in Prompts : Running(q))
    /\ UNCHANGED <<convVars, turn, tries, calls, next, chanVars, beatVars, inflight, panicked, setting>>

AppendUser(p) ==
    /\ At(p, "user")
    /\ Appends(p, AppendedByUser(p, conv))
    /\ Goto(p, "register")
    /\ UNCHANGED <<conv, heavy, held, turn, tries, calls, next, chanVars, beatVars, inflight,
                   cancelled, overlapped, panicked, setting>>

Register(p) ==
    /\ At(p, "register")
    /\ inflight' = p
    /\ Goto(p, "top")
    /\ UNCHANGED <<convVars, turn, tries, calls, next, chanVars, beatVars, cancelled,
                   overlapped, panicked, setting>>

\* Client.Cancel cancels whatever prompt is in flight.
Cancel ==
    /\ setting.cancels /\ ~panicked
    /\ inflight # None
    /\ cancelled' = cancelled \cup {inflight}
    /\ UNCHANGED <<convVars, runVars, chanVars, beatVars, inflight, overlapped, panicked, setting>>

\* The consumer's own context ends: an interrupt, /stop, an idle timeout.
CallerCancels(p) ==
    /\ setting.cancels /\ ~panicked
    /\ Running(p)
    /\ cancelled' = cancelled \cup {p}
    /\ UNCHANGED <<convVars, runVars, chanVars, beatVars, inflight, overlapped, panicked, setting>>

\* ChatHandler.Handle takes the next event.
Consume(p) ==
    /\ ~panicked
    /\ chan[p] # <<>>
    /\ chan' = [chan EXCEPT ![p] = Tail(@)]
    /\ UNCHANGED <<convVars, runVars, closed, out, ends, beatVars, inflight, cancelled,
                   overlapped, panicked, setting>>

-----------------------------------------------------------------------------
(* Loop.Run.                                                                *)

TopUnchanged == UNCHANGED <<conv, heavy, todo, turn, tries, calls, next, beatVars,
                            chan, closed, ends, inflight, cancelled, overlapped, panicked, setting>>

\* The loop ends on its budget of turns or on a done context ...
Stops(p) ==
    /\ At(p, "top")
    /\ turn[p] = setting.turns \/ CtxDone(p)
    /\ Emits(p, "end") /\ Goto(p, "done")
    /\ UNCHANGED held /\ TopUnchanged

\* ... or begins a turn, and compacts first when the context is over budget.
BeginsTurn(p) ==
    /\ At(p, "top")
    /\ turn[p] < setting.turns /\ ~CtxDone(p)
    /\ IF Over(conv)
       THEN Goto(p, "compact") /\ held' = [held EXCEPT ![p] = conv]
       ELSE Goto(p, "guard") /\ UNCHANGED held
    /\ UNCHANGED out /\ TopUnchanged

Compact(p) ==
    /\ At(p, "compact")
    /\ \E summarized \in {setting.summarizes, FALSE} :
          LET shorter == Compacted(held[p], summarized) IN
          /\ conv' = shorter
          /\ IF Len(shorter) < Len(held[p])
             THEN heavy' = FALSE /\ Emits(p, "event")
             ELSE UNCHANGED <<heavy, out>>
    /\ held' = [held EXCEPT ![p] = None]
    /\ Goto(p, "guard")
    /\ UNCHANGED <<todo, turn, tries, calls, next, chan, closed, ends, beatVars, inflight,
                   cancelled, overlapped, panicked, setting>>

\* The array about to be sent is checked, on the first try and on every retry.
Guard(p) ==
    /\ At(p, "guard")
    /\ IF NoUserAfterTool(conv)
       THEN Goto(p, "stream") /\ UNCHANGED out
       ELSE Goto(p, "done") /\ Emits(p, "end")
    /\ UNCHANGED held /\ TopUnchanged

StreamFails(p) ==
    /\ At(p, "stream")
    /\ Goto(p, "done") /\ Emits(p, "end")
    /\ UNCHANGED held /\ TopUnchanged

\* The model answers in text; its usage may move the reported token count.
StreamText(p) ==
    /\ At(p, "stream")
    /\ heavy' \in Reported
    /\ Emits(p, "event") /\ Goto(p, "answered")
    /\ UNCHANGED <<conv, held, todo, turn, tries, calls, next, chan, closed, ends, beatVars,
                   inflight, cancelled, overlapped, panicked, setting>>

\* Mutant of Retries: recovery does not stop.
AlwaysRetries(p) == TRUE

Retries(p) == tries[p] < setting.retries

\* The model answers nothing: the same request is sent again, a few times.
StreamEmpty(p) ==
    /\ At(p, "stream")
    /\ heavy' \in Reported
    /\ \/ Retries(p) /\ ~CtxDone(p) /\ Emits(p, "event") /\ Goto(p, "guard")
          /\ tries' = [tries EXCEPT ![p] = @ + 1]
       \/ Retries(p) /\ CtxDone(p) /\ Emits(p, "end") /\ Goto(p, "done") /\ UNCHANGED tries
       \/ ~Retries(p) /\ Goto(p, "answered") /\ UNCHANGED <<tries, out>>
    /\ UNCHANGED <<conv, held, todo, turn, calls, next, chan, closed, ends, beatVars, inflight,
                   cancelled, overlapped, panicked, setting>>

\* The closing text is recorded and the run completes.
Answers(p) ==
    /\ At(p, "answered")
    /\ Appends(p, <<Assistant(p, 0)>>) /\ Goto(p, "finish")
    /\ UNCHANGED <<conv, heavy, held, turn, tries, calls, next, chanVars, beatVars, inflight,
                   cancelled, overlapped, panicked, setting>>

Completes(p) ==
    /\ At(p, "finish")
    /\ Emits(p, "end") /\ Goto(p, "done")
    /\ UNCHANGED held /\ TopUnchanged

-----------------------------------------------------------------------------
(* Tool calls: appendAndRunTools and invokeTool.                            *)

StreamTools(p) ==
    /\ At(p, "stream")
    /\ \E n \in 1..setting.calls :
          /\ Appends(p, <<Assistant(p, n)>>)
          /\ calls' = [calls EXCEPT ![p] = n]
    /\ next' = [next EXCEPT ![p] = 1]
    /\ heavy' \in Reported
    /\ Goto(p, "tools")
    /\ UNCHANGED <<conv, held, turn, tries, chanVars, beatVars, inflight, cancelled,
                   overlapped, panicked, setting>>

ToolBegins(p) ==
    /\ At(p, "tools")
    /\ next[p] <= calls[p]
    /\ Emits(p, "event") /\ Goto(p, "call")
    /\ UNCHANGED held /\ TopUnchanged

\* An unknown tool or undecodable arguments: an error result, no heartbeat.
ToolRefused(p) ==
    /\ At(p, "call")
    /\ Emits(p, "event") /\ Goto(p, "result")
    /\ UNCHANGED held /\ TopUnchanged

\* The heartbeat starts; the approval gate and the tool run under it.
ToolRuns(p) ==
    /\ At(p, "call")
    /\ Goto(p, "tool")
    /\ hb' = [hb EXCEPT ![p] = "waiting"]
    /\ UNCHANGED <<convVars, turn, tries, calls, next, chanVars, late, beats, inflight,
                   cancelled, overlapped, panicked, setting>>

\* Done, failed, denied or cancelled: the outcome is emitted ...
ToolReturns(p) ==
    /\ At(p, "tool")
    /\ Emits(p, "event") /\ Goto(p, "stopping")
    /\ UNCHANGED held /\ TopUnchanged

\* ... and the deferred close(stopHeartbeat) runs; a heartbeat that is in its
\* emit does not notice.
StopHeartbeat(p) ==
    /\ At(p, "stopping")
    /\ Goto(p, "result")
    /\ hb' = [hb EXCEPT ![p] = "off"]
    /\ late' = [late EXCEPT ![p] = IF hb[p] = "emitting" THEN @ + 1 ELSE @]
    /\ UNCHANGED <<convVars, turn, tries, calls, next, chanVars, beats, inflight, cancelled,
                   overlapped, panicked, setting>>

\* Whatever became of the call, its result is appended.
AppendToolResult(p) ==
    /\ At(p, "result")
    /\ Appends(p, <<Result(p, next[p])>>)
    /\ next' = [next EXCEPT ![p] = @ + 1]
    /\ Goto(p, "tools")
    /\ UNCHANGED <<conv, heavy, held, turn, tries, calls, chanVars, beatVars, inflight,
                   cancelled, overlapped, panicked, setting>>

TurnEnds(p) ==
    /\ At(p, "tools")
    /\ next[p] > calls[p]
    /\ turn' = [turn EXCEPT ![p] = @ + 1]
    /\ tries' = [tries EXCEPT ![p] = 0]
    /\ Goto(p, "top")
    /\ UNCHANGED <<convVars, calls, next, chanVars, beatVars, inflight, cancelled,
                   overlapped, panicked, setting>>

BeatTicks(p) ==
    /\ ~panicked
    /\ hb[p] = "waiting" /\ beats[p] < setting.beats
    /\ hb' = [hb EXCEPT ![p] = "emitting"]
    /\ beats' = [beats EXCEPT ![p] = @ + 1]
    /\ UNCHANGED <<convVars, runVars, chanVars, late, inflight, cancelled, overlapped, panicked, setting>>

\* The heartbeat notices the done context between two ticks.
BeatStops(p) ==
    /\ ~panicked
    /\ hb[p] = "waiting" /\ CtxDone(p)
    /\ hb' = [hb EXCEPT ![p] = "off"]
    /\ UNCHANGED <<convVars, runVars, chanVars, late, beats, inflight, cancelled, overlapped, panicked, setting>>

\* The heartbeat's emit: its goroutine ticks on, or ends if it was stopped.
BeatEmits(p) ==
    /\ ~panicked
    /\ hb[p] = "emitting" \/ late[p] > 0
    /\ Sent(p, "event") \/ Dropped(p)
    /\ \/ hb[p] = "emitting" /\ hb' = [hb EXCEPT ![p] = "waiting"] /\ UNCHANGED late
       \/ late[p] > 0 /\ late' = [late EXCEPT ![p] = @ - 1] /\ UNCHANGED hb
    /\ UNCHANGED <<convVars, runVars, closed, out, beats, inflight, cancelled, overlapped, panicked, setting>>

\* A stopped heartbeat whose select picks the send on the closed channel.
BeatPanics(p) ==
    /\ ~panicked
    /\ late[p] > 0 /\ p \in closed
    /\ panicked' = TRUE
    /\ UNCHANGED <<convVars, runVars, chanVars, beatVars, inflight, cancelled, overlapped, setting>>

-----------------------------------------------------------------------------
(* The goroutine ends.                                                      *)

\* Mutant of Released: the entry is left behind.
NeverReleased(p) == inflight

\* The deferred cleanup drops the prompt's own cancel, not a follow-up's.
Released(p) == IF inflight = p THEN None ELSE inflight

Unregister(p) ==
    /\ At(p, "done")
    /\ inflight' = Released(p)
    /\ Goto(p, "closing")
    /\ UNCHANGED <<convVars, turn, tries, calls, next, chanVars, beatVars, cancelled,
                   overlapped, panicked, setting>>

Close(p) ==
    /\ At(p, "closing")
    /\ closed' = closed \cup {p}
    /\ Goto(p, "closed")
    /\ UNCHANGED <<convVars, turn, tries, calls, next, chan, out, ends, beatVars, inflight,
                   cancelled, overlapped, panicked, setting>>

-----------------------------------------------------------------------------
\* What the goroutine of a prompt does of itself, the model and its tools included.
Step(p) ==
    \/ AppendUser(p) \/ Register(p)
    \/ LoadConv(p) \/ StoreConv(p) \/ Emit(p)
    \/ Stops(p) \/ BeginsTurn(p) \/ Compact(p) \/ Guard(p)
    \/ StreamFails(p) \/ StreamText(p) \/ StreamEmpty(p) \/ StreamTools(p)
    \/ Answers(p) \/ Completes(p)
    \/ ToolBegins(p) \/ ToolRefused(p) \/ ToolRuns(p) \/ ToolReturns(p) \/ StopHeartbeat(p)
    \/ AppendToolResult(p) \/ TurnEnds(p)
    \/ Unregister(p) \/ Close(p)

Beat(p) == BeatTicks(p) \/ BeatStops(p) \/ BeatEmits(p) \/ BeatPanics(p)

Next ==
    \/ \E p \in Prompts : CancelPrevious(p) \/ Step(p) \/ Beat(p) \/ CallerCancels(p) \/ Consume(p)
    \/ Cancel

Spec == Init /\ [][Next]_vars

\* Goroutines are scheduled, the model and the tools return, and the consumer
\* reads until it cancels the prompt.
FairSpec ==
    /\ Spec
    /\ \A p \in Prompts : WF_vars(Step(p)) /\ WF_vars(Consume(p) /\ p \notin cancelled)

-----------------------------------------------------------------------------
(* Properties.                                                              *)

\* Tool results stand right behind the assistant message that asked for them,
\* and a message that is no result comes only after every call has its result.
PairedArray(c) ==
    /\ \A i \in DOMAIN c : c[i].role = "tool" =>
          \E j \in 1..i - 1 : /\ c[j].role = "assistant" /\ c[j].call >= c[i].call
                              /\ c[j].by = c[i].by /\ c[j].turn = c[i].turn
                              /\ c[i].call = i - j
    /\ \A j \in DOMAIN c : c[j].role = "assistant" =>
          \A k \in 1..c[j].call : j + k \in DOMAIN c => c[j + k].role = "tool"

\* Every call in the array has its result.
AllAnswered(c) == \A j \in DOMAIN c : c[j].role = "assistant" => j + c[j].call <= Len(c)

\* The array that is guarded and sent to the model pairs calls with results,
\* starts with a user message and never has a user message right after a tool
\* result (so the guard never trips), however earlier prompts ended and however
\* often it was compacted - as long as no prompt began while its predecessor's
\* goroutine was still at work.
ArraySound ==
    overlapped \/ \A p \in Prompts : pc[p] \in {"guard", "stream"} =>
        /\ PairedArray(conv) /\ AllAnswered(conv) /\ NoUserAfterTool(conv)
        /\ conv # <<>> /\ conv[1].role = "user"

\* Whatever the compaction drops, the model is asked about the prompt it is to
\* answer: the newest user message is this prompt's, and nothing after it is
\* missing.
AnswersItsPrompt ==
    overlapped \/ \A p \in Prompts : pc[p] = "stream" =>
        \E u \in UserStarts(conv) :
        /\ conv[u].by = p /\ \A i \in UserStarts(conv) : i <= u
        /\ \A t \in 0..turn[p] - 1 : \E i \in u..Len(conv) :
              conv[i].by = p /\ conv[i].role = "assistant" /\ conv[i].turn = t

\* The comment on AppendToolResult: a result follows the assistant turn that
\* requested the call, and no user message follows a result.
ResultsFollowTheirCall == PairedArray(conv) /\ NoUserAfterTool(conv)

\* Client.cancels never holds the cancel of a prompt whose goroutine is over.
NoStaleCancel == inflight # None => pc[inflight] \notin {"closing", "closed"}

\* A prompt nobody cancelled tells its consumer exactly once that it is over,
\* before its channel closes; a cancelled one at most once.
OneEnd ==
    \A p \in Prompts : /\ ends[p] <= 1
                       /\ p \in closed /\ p \notin cancelled => ends[p] = 1

\* The three together, over a well-typed state: the model is asked about the prompt
\* it is to answer, a prompt tells its consumer once that it is over, and it leaves
\* no cancel behind (native/client.go, loop.go).
PromptsKeptApart == TypeOK /\ AnswersItsPrompt /\ OneEnd /\ NoStaleCancel

\* Every prompt that was accepted closes its channel, whatever the model, the
\* tools and its consumer do - unless the daemon died of a heartbeat's panic.
PromptEnds == \A p \in Prompts : pc[p] = "user" ~> (p \in closed \/ panicked)
=============================================================================
