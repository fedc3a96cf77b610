----------------------------- MODULE ReplyRenderer -----------------------------
(***************************************************************************)
(* ChatHandler.Handle and the renderer it drives: the events of one agent  *)
(* turn become a sequence of Slack messages.  Reply text is streamed into  *)
(* text messages, runs of tool activity become a block of task cards       *)
(* ("tasks") or a status line ("simplified"), an agent's plan rides a      *)
(* block, files and approval cards are messages of their own.              *)
(*                                                                         *)
(* Everything the turn has is in one record r, and every function of the   *)
(* code is an operator that returns the set of its possible outcomes,      *)
(* [res |-> "ok" | "final" | "err", r |-> the record afterwards]: Slack    *)
(* may refuse a call, may have finalized the message a call streams to,    *)
(* and the turn's context may be cancelled while a call is out; a call     *)
(* that fails without Slack's answer may have been applied all the same.   *)
(* Text is a sequence of atoms; only their order and the breaks between    *)
(* them (a newline, a space or none) tell the writers anything.            *)
(***************************************************************************)
EXTENDS Naturals, Sequences, SequencesExt

CONSTANTS
    Tools, Plans,  \* ids of tool calls and of plan entries
    Deltas,        \* the breaks at the end of each atom of a text delta
    Replies        \* the turns looked at: the cosmetic (tasks), whether the reply
                   \* is threaded, whether it may be cancelled, the ids it uses,
                   \* and bounds on its events, on the refreshes of its indicator,
                   \* on calls that fail and on messages Slack finalizes

ASSUME IdsApart == Tools \cap Plans = {} /\ IsFiniteSet(Tools \cup Plans)
ASSUME DeltasAreText == \A d \in Deltas : d \in Seq({"no", "sp", "nl"})
ASSUME RepliesUseIds == \A set \in Replies : set.ids \subseteq Tools \cup Plans

VARIABLES
    r,         \* the renderer, its writers and what is on the screen
    phase,     \* where Handle is
    threaded,  \* whether the reply goes to a thread (it has an indicator)
    refresher, \* "off", "waiting" or "calling": refreshAssistantStatus
    told,      \* history: what the agent reported: text and new tools, in order
    answering       \* the locals of Handle, and the bounds
replyVars == <<r, phase, threaded, refresher, told, answering>>

Statuses == {"none", "in_progress", "complete", "failed"}
Terminal == {"complete", "failed"}

\* Mutants are named after what they break and defined before the original.
-----------------------------------------------------------------------------
(* The record.  shown has the messages of the thread, [kind, open] in the   *)
(* order they were posted, and painted what was streamed to them, in the   *)
(* order it was: each item with the number of its message.  stray has what *)
(* Slack painted for calls it never confirmed.                             *)

NoWriter == [msg |-> 0, pending |-> <<>>, flushed |-> FALSE, stopped |-> FALSE]

NoBlock == [writer |-> NoWriter, planOpen |-> FALSE,
            last |-> [id \in Tools \cup Plans |-> "none"], sent |-> {},
            running |-> {}, line |-> 0, done |-> FALSE]

InitialRecord(set) ==
    [tasks |-> set.tasks, cancels |-> set.cancels, ids |-> set.ids, cancelled |-> FALSE, fresh |-> FALSE,
     faults |-> set.faults, finals |-> set.finals, refused |-> FALSE,
     thinking |-> FALSE, shown |-> <<>>, painted |-> <<>>, stray |-> {}, mode |-> "none",
     hasText |-> FALSE, text |-> NoWriter, hasBlock |-> FALSE, block |-> NoBlock,
     seen |-> {}, plan |-> <<>>, planRendered |-> FALSE]

Item(k, id, st) == [k |-> k, id |-> id, st |-> st]
Result(res, q) == [res |-> res, r |-> q]
Ok(q) == {Result("ok", q)}

\* Run Op on the record of every outcome that is "ok"; the others return.
Then(outs, Op(_)) ==
    UNION {IF o.res = "ok" THEN Op(o.r) ELSE {o} : o \in outs}
\* The caller logs the error and goes on.
Swallowed(outs) == {Result("ok", o.r) : o \in outs}

(* One call of the Web API under the turn's context or, in the deferred    *)
(* part of Handle, under a fresh one: served, or failed with nothing done, *)
(* because Slack refuses it or the turn is cancelled while it is out.      *)
Serve(q) ==
    IF q.cancelled /\ ~q.fresh
    THEN {Result("err", q)}
    ELSE Ok(q)
         \cup (IF q.faults > 0
               THEN {Result("err", [q EXCEPT !.faults = @ - 1, !.refused = TRUE])}
               ELSE {})
         \cup (IF q.fresh \/ ~q.cancels THEN {} ELSE {Result("err", [q EXCEPT !.cancelled = TRUE])})

(* Or Slack has applied the call, the record is p, and its answer is lost:  *)
(* the turn is cancelled while the call is out, or the connection fails.   *)
Lost(q, p) ==
    IF q.cancelled /\ ~q.fresh THEN {}
    ELSE (IF q.faults > 0
          THEN {Result("err", [p EXCEPT !.faults = @ - 1, !.refused = TRUE])} ELSE {})
         \cup (IF q.fresh \/ ~q.cancels THEN {}
               ELSE {Result("err", [p EXCEPT !.cancelled = TRUE])})

Post(q, kind, open) == [q EXCEPT !.shown = Append(@, [kind |-> kind, open |-> open])]
\* The items go to the end of message n.
Painting(q, n, items) ==
    [q EXCEPT !.painted = @ \o [i \in DOMAIN items |-> [item |-> items[i], msg |-> n]]]
\* They do so for a call that is not confirmed.
Straying(q, n, items) ==
    [q EXCEPT !.thinking = FALSE, !.stray = @ \cup {[item |-> items[i], msg |-> n] : i \in DOMAIN items}]
-----------------------------------------------------------------------------
(* StreamWriter.  A writer lives at q.text, the reply, or q.block.writer.  *)

Writer(q, k) == IF k = "text" THEN q.text ELSE q.block.writer
WithWriter(q, k, w) ==
    IF k = "text" THEN [q EXCEPT !.text = w] ELSE [q EXCEPT !.block.writer = w]
Begun(w) == w.msg # 0

\* The writer's message, when Slack still streams it.
Streaming(q, k) == q.shown[Writer(q, k).msg].open
\* Slack finalizes a message when it has been streaming for too long.
Finalize(q, k) ==
    [q EXCEPT !.shown[Writer(q, k).msg].open = FALSE, !.finals = @ - 1]

StartWithOptions(q, k, items) ==
    IF Begun(Writer(q, k)) THEN Ok(q)
    ELSE Then(Serve(q), LAMBDA s :
           LET p == Post([s EXCEPT !.thinking = FALSE], k, TRUE)
               n == Len(p.shown)
           IN Ok(Painting(WithWriter(p, k, [Writer(p, k) EXCEPT !.msg = n]), n, items)))
         \cup Lost(q, Straying(Post(q, k, TRUE), Len(q.shown) + 1, items))

AppendStream(q, k, items) ==
    Then(Serve(q), LAMBDA s :
      (IF Streaming(s, k)
       THEN Ok(Painting([s EXCEPT !.thinking = FALSE], Writer(s, k).msg, items))
            \cup (IF s.finals > 0 THEN {Result("final", Finalize(s, k))} ELSE {})
       ELSE {Result("final", s)}))
    \cup (IF Streaming(q, k) THEN Lost(q, Straying(q, Writer(q, k).msg, items)) ELSE {})

\* Mutant of Rollover: what the finalized message refused is forgotten.
RolloverDropsBuffer(q, k) ==
    StartWithOptions(WithWriter(q, k, NoWriter), k, <<>>)

\* A fresh message takes the place of one that Slack has finalized.
Rollover(q, k) ==
    StartWithOptions(
        WithWriter(q, k, [Writer(q, k) EXCEPT !.msg = 0, !.stopped = FALSE]), k, <<>>)

\* A call that meets a finalized message is an error the second time.
Unpainted(outs) ==
    {IF o.res = "final" THEN Result("err", [o.r EXCEPT !.refused = TRUE]) ELSE o : o \in outs}

\* StreamWriter.append
Paint(q, k, items) ==
    UNION {IF o.res = "final"
           THEN Then(Rollover(o.r, k), LAMBDA s : Unpainted(AppendStream(s, k, items)))
           ELSE {o} : o \in AppendStream(q, k, items)}

Pieces(atoms) == [i \in DOMAIN atoms |-> Item("text", atoms[i].id, "-")]

\* Mutant of Emit: the last atom painted stays in the buffer.
EmitKeepsLast(q, k, n) ==
    LET w == Writer(q, k) IN
    IF ~Begun(w) \/ w.stopped \/ n = 0 THEN Ok(q)
    ELSE Then(Paint(q, k, Pieces(SubSeq(w.pending, 1, n))), LAMBDA s :
           Ok(WithWriter(s, k, [Writer(s, k) EXCEPT
                                  !.pending = SubSeq(@, n, Len(@)), !.flushed = TRUE])))

Emit(q, k, n) ==
    LET w == Writer(q, k) IN
    IF ~Begun(w) \/ w.stopped \/ n = 0 THEN Ok(q)
    ELSE Then(Paint(q, k, Pieces(SubSeq(w.pending, 1, n))), LAMBDA s :
           Ok(WithWriter(s, k, [Writer(s, k) EXCEPT
                                  !.pending = SubSeq(@, n + 1, Len(@)), !.flushed = TRUE])))

Flush(q, k) == Emit(q, k, Len(Writer(q, k).pending))

\* Index of the last atom that ends in one of the breaks, 0 if none does.
LastBreak(atoms, breaks) ==
    SelectLastInSeq(atoms, LAMBDA a : a.brk \in breaks)

\* StreamWriter.Append: buffer, and paint on a coherent boundary.
AppendText(q, atoms) ==
    IF q.text.stopped THEN Ok(q)
    ELSE Then(StartWithOptions(q, "text", <<>>), LAMBDA s :
      LET b  == [s EXCEPT !.text.pending = @ \o atoms]
          nl == LastBreak(b.text.pending, {"nl"})
          sp == LastBreak(b.text.pending, {"sp"})
      IN IF ~b.text.flushed THEN Flush(b, "text")
         ELSE IF nl > 0 THEN Emit(b, "text", nl)
         ELSE Ok(b) \cup (IF sp > 0 THEN Emit(b, "text", sp) ELSE Flush(b, "text")))

\* StreamWriter.Stop
StopStream(q, k) ==
    Then(Flush(q, k), LAMBDA s :
      LET w == Writer(s, k) IN
      IF ~Begun(w) \/ w.stopped THEN Ok(s)
      ELSE Then(Serve(s), LAMBDA p :
             Ok(WithWriter([p EXCEPT !.shown[w.msg].open = FALSE, !.thinking = FALSE], k,
                           [w EXCEPT !.stopped = TRUE])))
           \cup Lost(s, [s EXCEPT !.shown[w.msg].open = FALSE, !.thinking = FALSE]))
-----------------------------------------------------------------------------
(* TaskCardWriter and cardToolBlock: a block of task cards.                *)

\* knownTaskStatus, mapTaskStatus
CardStatus == [in_progress |-> "in_progress", complete |-> "complete", failed |-> "error"]

\* An update without a status keeps the card's last one.
ResolveStatus(b, ev) ==
    IF ev.status # "none" THEN CardStatus[ev.status]
    ELSE IF b.last[ev.id] # "none" THEN b.last[ev.id] ELSE "in_progress"

\* planPrefix: the heading that opens the Plan block, once per message.
PlanPrefix(b) == IF b.planOpen THEN <<>> ELSE <<Item("plan", "heading", "-")>>

\* shouldFlush: a final status and the first update of a card are always sent.
ShouldFlush(b, id, st) ==
    IF st \in {"complete", "error"} \/ id \notin b.sent THEN {TRUE} ELSE BOOLEAN

\* TaskCardWriter.Update
Update(q, id, st) ==
    LET b     == [q.block EXCEPT !.last[id] = st]   \* recordStatus
        card  == <<Item("card", id, st)>>
        head  == PlanPrefix(b) \o card
        s     == [q EXCEPT !.block = [b EXCEPT !.planOpen = TRUE]]
        Sent(p) == Ok([p EXCEPT !.block.sent = @ \cup {id}])
        Again(p) ==   \* after a rollover the fresh message needs its own heading
            LET reopened == [p EXCEPT !.block.planOpen = FALSE] IN
            Then(Unpainted(AppendStream([p EXCEPT !.block.planOpen = TRUE], "block",
                                     PlanPrefix(reopened.block) \o card)), Sent)
        Send  == IF ~Begun(s.block.writer)
                 THEN Then(StartWithOptions(s, "block", head), Sent)
                 ELSE UNION {CASE o.res = "ok" -> Sent(o.r)
                               [] o.res = "final" -> Then(Rollover(o.r, "block"), Again)
                               [] OTHER -> {o} : o \in AppendStream(s, "block", head)}
    IN UNION {IF flush THEN Send ELSE Ok([q EXCEPT !.block = b])
              : flush \in ShouldFlush(b, id, st)}

\* cardToolBlock.UpdateFromEvent
UpdateCard(q, ev) ==
    Then(Update(q, ev.id, ResolveStatus(q.block, ev)), LAMBDA s :
      Ok([s EXCEPT !.block.running = IF ev.status \in Terminal THEN @ \ {ev.id}
                                     ELSE @ \cup {ev.id}]))

\* Mutant of FinishCards: the cards that still spin are left alone.
FinishCardsLeavesSpinning(q) == StopStream(q, "block")

\* cardToolBlock.FinishWith: complete every running card, in any order.
FinishCards(q) ==
    UNION {LET finished[n \in 0..Len(order)] ==
                 IF n = 0 THEN Ok(q)
                 ELSE Then(finished[n - 1], LAMBDA s : Swallowed(Update(s, order[n], "complete")))
           IN Then(finished[Len(order)], LAMBDA s : StopStream(s, "block"))
           : order \in SetToSeqs(q.block.running)}
-----------------------------------------------------------------------------
(* StatusLineWriter: one message, edited in place.                         *)

\* StatusLineWriter.render
RenderLine(q) ==
    IF q.block.done THEN Ok(q)
    ELSE IF q.block.line = 0
    THEN Then(Serve(q), LAMBDA s :
           LET p == Post(s, "line", TRUE) IN
           Ok([p EXCEPT !.block.line = Len(p.shown)]))
         \cup Lost(q, Post(q, "line", TRUE))
    ELSE Serve(q)

\* StatusLineWriter.UpdateFromEvent: once posted, the line is edited at intervals.
UpdateLine(q) ==
    UNION {IF flush THEN RenderLine(q) ELSE Ok(q)
           : flush \in IF q.block.line = 0 THEN {TRUE} ELSE BOOLEAN}

\* StatusLineWriter.FinishWith
FinishLine(q) ==
    LET n == q.block.line
        d == [q EXCEPT !.block.done = TRUE]
    IN IF q.block.done \/ n = 0 THEN Ok(d)
       ELSE Then(Serve(d), LAMBDA s :
              Ok([s EXCEPT !.shown[n].open = FALSE]))
            \cup Lost(d, [d EXCEPT !.shown[n].open = FALSE])

UpdateFromEvent(q, ev) == IF q.tasks THEN UpdateCard(q, ev) ELSE UpdateLine(q)
FinishWith(q) == IF q.tasks THEN FinishCards(q) ELSE FinishLine(q)
-----------------------------------------------------------------------------
(* sectionRenderer.                                                        *)

\* closeText: an error of Stop is swallowed and the writer is forgotten.
CloseText(q) ==
    LET stop == IF q.hasText /\ Begun(q.text) /\ ~q.text.stopped
                THEN Swallowed(StopStream(q, "text")) ELSE Ok(q)
    IN Then(stop, LAMBDA s :
         Ok([s EXCEPT !.hasText = FALSE, !.text = NoWriter,
                      !.mode = IF @ = "text" THEN "none" ELSE @]))

\* closeBlock
CloseBlock(q) ==
    Then(IF q.hasBlock THEN Swallowed(FinishWith(q)) ELSE Ok(q), LAMBDA s :
      Ok([s EXCEPT !.hasBlock = FALSE, !.block = NoBlock,
                   !.mode = IF @ = "tools" THEN "none" ELSE @]))

\* Text, for a delta that is not empty.
NewText(q) ==
    IF q.mode # "text" \/ ~q.hasText
    THEN [q EXCEPT !.hasText = TRUE, !.text = NoWriter, !.mode = "text"] ELSE q

RenderText(q, atoms) ==
    Then(IF q.mode = "tools" THEN CloseBlock(q) ELSE Ok(q), LAMBDA s :
      AppendText(NewText(s), atoms))

\* ensureBlock: a new block folds the plan in, once.
EnsureBlock(q) ==
    IF q.mode = "tools" /\ q.hasBlock THEN Ok(q)
    ELSE LET b == [q EXCEPT !.hasBlock = TRUE, !.block = NoBlock, !.mode = "tools"] IN
         IF b.planRendered \/ b.plan = <<>> THEN Ok(b)
         ELSE LET folded[n \in 0..Len(b.plan)] ==
                    IF n = 0 THEN Ok(b)
                    ELSE Then(folded[n - 1], LAMBDA s : Swallowed(UpdateFromEvent(s, b.plan[n])))
              IN Then(folded[Len(b.plan)], LAMBDA s : Ok([s EXCEPT !.planRendered = TRUE]))

\* planUpdate: the newest entry per id, painted at once into a live block.
PlanUpdate(q, ev) ==
    LET at == SelectLastInSeq(q.plan, LAMBDA e : e.id = ev.id)
        p  == IF at > 0 THEN [q EXCEPT !.plan[at] = ev] ELSE [q EXCEPT !.plan = Append(@, ev)]
    IN IF p.mode = "tools" /\ p.hasBlock
       THEN Swallowed(UpdateFromEvent([p EXCEPT !.planRendered = TRUE], ev))
       ELSE Ok(p)

\* flushUnrenderedPlan
FlushUnrenderedPlan(q) ==
    IF q.planRendered \/ q.plan = <<>> THEN Ok(q) ELSE EnsureBlock(q)

\* Task: only a tool not seen in this turn seals the reply text.
Task(q, ev) ==
    IF ev.id \in Plans THEN PlanUpdate(q, ev)
    ELSE LET s == [q EXCEPT !.seen = @ \cup {ev.id}] IN
         IF q.mode = "text" /\ ev.id \in q.seen THEN Ok(s)
         ELSE Then(IF q.mode = "text" THEN CloseText(s) ELSE Ok(s), LAMBDA p :
                Then(EnsureBlock(p), LAMBDA u : Swallowed(UpdateFromEvent(u, ev))))

\* UploadAttachment: no data and no file, or an empty one, is an error.
UploadAttachment(q) ==
    {Result("err", q)}
    \cup Then(Serve(q), LAMBDA p :
           Ok(Post(p, "file", FALSE)))
    \cup Lost(q, Post(q, "file", FALSE))

\* Attachment: the prose before the file is committed above it.
Attachment(q) == Then(CloseText(q), UploadAttachment)

\* Mutant of Interjection: the open reply is not settled first.
InterjectionLeavesText(q) ==
    Swallowed(Then(Serve(q), LAMBDA p :
                Ok(Post(p, "ask", FALSE))))

\* BeginInterjection, and the approval card the asker posts.
Interjection(q) ==
    Then(CloseText(q), LAMBDA s :
      Swallowed(Then(Serve(s), LAMBDA p : Ok(Post(p, "ask", FALSE)))
                \cup Lost(s, Post(s, "ask", FALSE))))

Note(brk) == <<[id |-> 0, brk |-> brk], [id |-> 0, brk |-> "no"]>>

\* Finish; emptyNote says whether the turn had no reply.
Finish(q, emptyNote) ==
    Then(IF emptyNote THEN RenderText(q, Note("sp")) ELSE Ok(q), LAMBDA s :
      Then(CloseText(s), LAMBDA p : Then(FlushUnrenderedPlan(p), CloseBlock)))

\* StreamWriter.Fail
FailText(q) == Then(AppendText(q, Note("nl")), LAMBDA s : StopStream(s, "text"))

\* Fail
Fail(q) == Then(CloseBlock(q), LAMBDA s : FailText(NewText(s)))

\* Interrupted
Interrupted(q) ==
    Then(IF q.hasText /\ Begun(q.text) /\ ~q.text.stopped
         THEN Swallowed(Then(AppendText(q, Note("nl")), LAMBDA s : StopStream(s, "text")))
         ELSE Ok(q), CloseBlock)

\* EnsureStopped
EnsureStopped(q) ==
    Then(CloseText(q), LAMBDA s : Then(FlushUnrenderedPlan(s), CloseBlock))
-----------------------------------------------------------------------------
(* ChatHandler.Handle.                                                     *)

ReplyInit ==
    /\ \E set \in Replies :
         /\ r = InitialRecord(set)
         /\ threaded = set.threaded
         /\ answering = [events |-> set.events, ticks |-> set.ticks, text |-> FALSE,
                    files |-> FALSE, timedOut |-> FALSE, agentErr |-> FALSE,
                    err |-> FALSE, outcome |-> "none"]
    /\ phase = "setup"
    /\ refresher = "off"
    /\ told = <<>>

\* The gateway cancels the turn: an interrupt or /stop.
Cancel ==
    /\ phase # "returned" /\ r.cancels /\ ~r.cancelled
    /\ r' = [r EXCEPT !.cancelled = TRUE]
    /\ UNCHANGED <<phase, threaded, refresher, told, answering>>

\* In a thread: show the indicator and start the goroutine that refreshes it.
SetStatus ==
    /\ phase = "setup" /\ threaded /\ refresher = "off"
    /\ \E o \in Serve(r) \cup Lost(r, [r EXCEPT !.thinking = TRUE]) :
         r' = [o.r EXCEPT !.thinking = @ \/ o.res = "ok"]
    /\ refresher' = "waiting"
    /\ UNCHANGED <<phase, threaded, told, answering>>

AboutToPrompt == phase = "setup" /\ (threaded => refresher # "off")

\* sessions.Prompt opened the event stream.
PromptSent ==
    /\ AboutToPrompt
    /\ phase' = "streaming"
    /\ UNCHANGED <<r, threaded, refresher, told, answering>>

\* Handle returns what Op's outcome says; its deferred calls come next.
Returns(outs, t) ==
    /\ \E o \in outs : r' = o.r /\ answering' = [t EXCEPT !.err = o.res # "ok"]
    /\ phase' = "clearing"
    /\ UNCHANGED <<threaded, refresher, told>>

PromptFails == AboutToPrompt /\ Returns(Fail(r), [answering EXCEPT !.agentErr = TRUE])

Receives == phase = "streaming" /\ answering.events > 0

\* EventText: an atom's id is its place in what was told.
Text == \E d \in Deltas :
    LET atoms == [i \in DOMAIN d |-> [id |-> Len(told) + i, brk |-> d[i]]]
    IN /\ Receives
       /\ told' = told \o Pieces(atoms)
       /\ \E o \in RenderText(r, atoms) :
            /\ r' = o.r
            /\ phase' = IF o.res = "ok" THEN phase ELSE "clearing"
            /\ answering' = [answering EXCEPT !.events = @ - 1, !.text = TRUE, !.err = o.res # "ok"]
       /\ UNCHANGED <<threaded, refresher>>

\* EventTask
TaskEvent == \E id \in r.ids, st \in Statuses :
    /\ Receives
    /\ told' = IF id \in Tools \ r.seen THEN Append(told, Item("card", id, "-")) ELSE told
    /\ \E o \in Task(r, [id |-> id, status |-> st]) : r' = o.r
    /\ answering' = [answering EXCEPT !.events = @ - 1]
    /\ UNCHANGED <<phase, threaded, refresher>>

\* EventAttachment: a failed upload is logged.
AttachmentEvent ==
    /\ Receives
    /\ \E o \in Attachment(r) :
         r' = o.r /\ answering' = [answering EXCEPT !.events = @ - 1, !.files = @ \/ o.res = "ok"]
    /\ UNCHANGED <<phase, threaded, refresher, told>>

\* EventPermission
PermissionEvent ==
    /\ Receives
    /\ \E o \in Interjection(r) : r' = o.r
    /\ answering' = [answering EXCEPT !.events = @ - 1]
    /\ UNCHANGED <<phase, threaded, refresher, told>>

\* EventComplete, or the channel is closed.
Completes ==
    /\ phase = "streaming"
    /\ Returns(Finish(r, ~answering.text /\ ~answering.files), answering)

\* EventError: a cancellation goes to the deferred marker.
AgentFails ==
    /\ phase = "streaming"
    /\ \/ Returns({Result("err", r)}, answering)
       \/ ~r.cancelled /\ Returns(Fail(r), [answering EXCEPT !.agentErr = TRUE])

\* The idle timer: a notice, then the stream is drained.
TimesOut ==
    /\ phase = "streaming"
    /\ \E o \in Then(Swallowed(RenderText(r, Note("nl"))), EnsureStopped) : r' = o.r
    /\ answering' = [answering EXCEPT !.timedOut = TRUE]
    /\ phase' = "draining"
    /\ UNCHANGED <<threaded, refresher, told>>

StreamDrained ==
    /\ phase = "draining"
    /\ phase' = "clearing"
    /\ UNCHANGED <<r, threaded, refresher, told, answering>>
-----------------------------------------------------------------------------
(* refreshAssistantStatus, and the deferred calls in the order they run.   *)

Stopping == phase = "clearing" \/ r.cancelled

RefreshTick ==
    /\ refresher = "waiting" /\ ~Stopping /\ answering.ticks > 0
    /\ refresher' = "calling"
    /\ answering' = [answering EXCEPT !.ticks = @ - 1]
    /\ UNCHANGED <<r, phase, threaded, told>>

\* A call that is out when its context ends may have reached Slack.
Refreshed ==
    /\ refresher = "calling"
    /\ \E lands \in BOOLEAN : r' = [r EXCEPT !.thinking = @ \/ lands]
    /\ refresher' = "waiting"
    /\ UNCHANGED <<phase, threaded, told, answering>>

RefresherStops ==
    /\ refresher = "waiting" /\ Stopping /\ phase # "setup"
    /\ refresher' = "stopped"
    /\ UNCHANGED <<r, phase, threaded, told, answering>>

\* Mutant of RefresherDone: the refresher is stopped and not waited for.
RefresherNotAwaited == TRUE

\* <-statusDone
RefresherDone == refresher = "stopped"

\* The indicator is cleared under a fresh context.
ClearStatus ==
    /\ phase = "clearing"
    /\ IF threaded
       THEN /\ RefresherDone
            /\ LET f == [r EXCEPT !.fresh = TRUE] IN
               \E o \in Serve(f) \cup Lost(f, [f EXCEPT !.thinking = FALSE]) :
                 r' = [o.r EXCEPT !.thinking = @ /\ o.res # "ok"]
       ELSE r' = [r EXCEPT !.fresh = TRUE]
    /\ phase' = "marking"
    /\ UNCHANGED <<threaded, refresher, told, answering>>

\* The "_interrupted_" marker of a turn that was cancelled.
MarkInterrupted ==
    /\ phase = "marking"
    /\ \/ /\ r.cancelled
          /\ \E o \in Interrupted(r) : r' = o.r
          /\ answering' = [answering EXCEPT !.err = FALSE]
       \/ ~r.cancelled /\ UNCHANGED <<r, answering>>
    /\ phase' = "settling"
    /\ UNCHANGED <<threaded, refresher, told>>

\* The safety net.
Settle ==
    /\ phase = "settling"
    /\ \E o \in EnsureStopped(r) : r' = o.r
    /\ phase' = "recording"
    /\ UNCHANGED <<threaded, refresher, told, answering>>

\* The outcome of the turn.
Outcome ==
    IF r.cancelled THEN "interrupted"
    ELSE IF answering.timedOut THEN "timed_out"
    ELSE IF answering.agentErr \/ answering.err THEN "errored" ELSE "completed"

\* sessionLogger.record: the outcome the journal keeps.
RecordOutcome ==
    /\ phase = "recording"
    /\ answering' = [answering EXCEPT !.outcome = Outcome]
    /\ phase' = "returned"
    /\ UNCHANGED <<r, threaded, refresher, told>>

Returned == phase = "returned" /\ UNCHANGED replyVars

ReplyNext ==
    \/ Cancel \/ SetStatus \/ PromptSent \/ PromptFails
    \/ Text \/ TaskEvent \/ AttachmentEvent \/ PermissionEvent
    \/ Completes \/ AgentFails \/ TimesOut \/ StreamDrained
    \/ RefreshTick \/ Refreshed \/ RefresherStops
    \/ ClearStatus \/ MarkInterrupted \/ Settle \/ RecordOutcome \/ Returned

ReplySpec == ReplyInit /\ [][ReplyNext]_replyVars
-----------------------------------------------------------------------------
(* Properties.                                                             *)

\* Item i stands above item j on the screen.
Above(i, j) ==
    LET p == r.painted IN p[i].msg < p[j].msg \/ (p[i].msg = p[j].msg /\ i < j)

\* Item i is the text, or a card of the tool, that was told (notices have the id 0).
Shows(i, it) == r.painted[i].item.k = it.k /\ r.painted[i].item.id = it.id
IsReply(i) == r.painted[i].item.k = "text" /\ r.painted[i].item.id > 0
IsTool(i) == r.painted[i].item.k = "card" /\ r.painted[i].item.id \in Tools

\* No call failed, for want of Slack or of its answer, and nobody cancelled the turn.
Undisturbed == ~r.refused /\ ~r.cancelled

\* What Slack has confirmed of the reply reads in the order it was written, with nothing
\* twice, whatever is buffered, refused, finalized, rolled over or cut short.  What it
\* painted for a call whose answer was lost is still in the buffer, and the next flush,
\* that of the interruption marker or the last one, shows it again
\* (stream_writer.go:146-149, chat_renderer.go:325-328): the screen may repeat it.
TextInOrder ==
    \A i, j \in DOMAIN r.painted :
        IsReply(i) /\ IsReply(j) /\ Above(i, j) => r.painted[i].item.id < r.painted[j].item.id

\* What must be on the screen: a status line does not name the tools.
Due == {a \in DOMAIN told : r.tasks \/ told[a].k = "text"}

\* When Handle returns from a turn nobody cancelled, and no call failed, the
\* thread shows all the agent reported and nothing else, text and first cards of the
\* tools in the order reported, however often Slack finalized a message
\* (stream_writer.go, chat_renderer.go).
ReplyComplete ==
    (phase = "returned" /\ Undisturbed) =>
        /\ \A a \in Due : \E i \in DOMAIN r.painted : Shows(i, told[a])
        /\ \A i \in DOMAIN r.painted :
              IsReply(i) \/ IsTool(i) => \E a \in Due : Shows(i, told[a])
        /\ \A a, b \in Due, j \in DOMAIN r.painted :
              a < b /\ Shows(j, told[b])
                  => \E i \in DOMAIN r.painted : Above(i, j) /\ Shows(i, told[a])

IsCard(i) == r.painted[i].item.k = "card"

\* No message streams, and the newest card of each tool or plan entry is final (a
\* card of a message that Slack finalized spins there, and is sent again below).
AllSettled ==
    /\ \A n \in DOMAIN r.shown : ~r.shown[n].open
    /\ \A i \in DOMAIN r.painted : IsCard(i) =>
          \/ r.painted[i].item.st \in {"complete", "error"}
          \/ \E j \in DOMAIN r.painted : Above(i, j) /\ Shows(j, r.painted[i].item)

\* When Handle returns from a turn nobody cancelled and no call failed, no message
\* streams and no card spins.
SettledAtEnd == (phase = "returned" /\ Undisturbed) => AllSettled

\* An approval card or a file is never posted below a reply that still streams.
PlacedBelowSettled ==
    \A n \in DOMAIN r.shown : (r.shown[n].kind \in {"ask", "file"} /\ Undisturbed)
        => \A k \in 1..(n - 1) : r.shown[k].kind = "text" => ~r.shown[k].open

\* The indicator is off when Handle has returned, unless a call failed: no refresh
\* lands after it (chat_handler.go:441).
StatusCleared == (phase = "returned" /\ ~r.refused) => ~r.thinking

\* What Slack has confirmed of a reply is in order and never twice; when Handle
\* returns from a turn that nobody cancelled and in which no call failed, the thread
\* shows all of it and nothing else, settled, and no question or file was placed below
\* a message that still streamed; the indicator is off unless a call failed
\* (chat_renderer.go, stream_writer.go).
ReplyOnScreen ==
    TextInOrder /\ ReplyComplete /\ SettledAtEnd /\ PlacedBelowSettled /\ StatusCleared
=============================================================================
