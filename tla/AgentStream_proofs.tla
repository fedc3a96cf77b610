-------------------------- MODULE AgentStream_proofs --------------------------
(***************************************************************************)
(* Proofs about AgentStream, for any prompts, sessions and processes, any  *)
(* capacity of the event channels and any bounds: a keep-alive never races  *)
(* the close, a response channel is resolved once, the newest prompt keeps  *)
(* its session, and no completion or permission request overtakes the       *)
(* updates that were written before it.                                     *)
(***************************************************************************)
EXTENDS AgentStream, FiniteSetTheorems, TLAPS

-----------------------------------------------------------------------------
(* Types.                                                                   *)

LEMMA AppendFits ==
    ASSUME NEW c \in Seq(Events), NEW e \in Events, Len(c) < Cap
    PROVE  Append(c, e) \in Seq(Events) /\ Len(Append(c, e)) <= Cap
  BY StreamAssumption

LEMMA TailFits ==
    ASSUME NEW c \in Seq(Events), c # <<>>, Len(c) <= Cap
    PROVE  Tail(c) \in Seq(Events) /\ Len(Tail(c)) <= Cap
  BY StreamAssumption

\* What a step may do to a channel keeps its type and its capacity.
ChannelType ==
    /\ chan \in [Prompts -> Seq(Events)]
    /\ \A p \in Prompts : Len(chan[p]) <= Cap

LEMMA SendType ==
    ASSUME ChannelType, NEW p, NEW e \in Events, p \in Prompts => Send(p, e),
           chan' = [chan EXCEPT ![p] = Append(@, e)]
    PROVE  ChannelType'
<1>1. CASE p \in Prompts
  BY <1>1, AppendFits DEF ChannelType, Send, RoomFor
<1>2. CASE p \notin Prompts
  BY <1>2 DEF ChannelType
<1>3. QED
  BY <1>1, <1>2

LEMMA PopType ==
    ASSUME ChannelType, NEW p \in Prompts, chan[p] # <<>>, Pop(p)
    PROVE  ChannelType'
  BY TailFits DEF ChannelType, Pop

LEMMA FailAllType ==
    ASSUME ChannelType, FailAll
    PROVE  ChannelType'
<1>1. "error" \in Events
  BY DEF Events
<1>2. ASSUME NEW p \in Prompts PROVE chan'[p] \in Seq(Events) /\ Len(chan'[p]) <= Cap
  <2>1. CASE subscribers[SessionOf[p]] = p /\ RoomFor(p)
    BY <1>1, <2>1, AppendFits DEF ChannelType, FailAll, RoomFor
  <2>2. CASE ~(subscribers[SessionOf[p]] = p /\ RoomFor(p))
    BY <2>2 DEF ChannelType, FailAll
  <2>3. QED
    BY <2>1, <2>2
<1>3. chan' \in [Prompts -> Seq(Events)]
  BY <1>2 DEF FailAll
<1>4. QED
  BY <1>2, <1>3 DEF ChannelType

-----------------------------------------------------------------------------
(* Channels: a step sends to one channel, takes from one, fails all, or     *)
(* leaves them alone.                                                       *)

ChannelStep ==
    \/ UNCHANGED chan
    \/ FailAll
    \/ \E p \in Prompts : chan[p] # <<>> /\ Pop(p)
    \/ \E p \in Prompts \cup {NoPrompt}, e \in Events : Send(p, e)

LEMMA PromptChannel ==
    ASSUME StreamTypeOK, NEW p \in Prompts, StartPrompt(p) \/ PromptStep(p)
    PROVE  ChannelStep
<1>1. CASE EmitResult(p)
  <2>1. "result" \in Events
    BY DEF Events
  <2>2. QED
    BY <1>1, <2>1 DEF EmitResult, ChannelStep
<1>2. CASE EmitFinal(p)
  <2>1. stage[p] \in Events
    BY <1>2 DEF EmitFinal, Events
  <2>2. QED
    BY <1>2, <2>1 DEF EmitFinal, ChannelStep
<1>3. CASE StartPrompt(p) \/ CallStart(p) \/ CallFails(p) \/ CallWrite(p) \/ CallReturns(p)
  BY <1>3 DEF StartPrompt, CallStart, CallFails, CallWrite, CallReturns, ChannelStep
<1>4. CASE Unsubscribe(p) \/ CloseEvents(p)
  BY <1>4 DEF Unsubscribe, CloseEvents, ChannelStep
<1>5. QED
  BY <1>1, <1>2, <1>3, <1>4 DEF PromptStep

LEMMA HeartbeatChannel ==
    ASSUME NEW p \in Prompts, HeartbeatTick(p) \/ HeartbeatCeiling(p) \/ HeartbeatStep(p)
    PROVE  ChannelStep
<1>1. "status" \in Events
  BY DEF Events
<1>2. QED
  BY <1>1 DEF HeartbeatTick, HeartbeatCeiling, HeartbeatStep, HeartbeatSend, HeartbeatStop,
      ChannelStep

LEMMA ConsumerChannel ==
    ASSUME NEW p \in Prompts, HandleStep(p) \/ HandleIdle(p) \/ Interrupt(p)
    PROVE  ChannelStep
<1>1. CASE HandleEvent(p) \/ HandlePermission(p) \/ HandleAnswer(p)
  BY <1>1 DEF HandleEvent, HandlePermission, HandleAnswer, Received, ChannelStep
<1>2. CASE HandleEnds(p) \/ HandleDrain(p)
  BY <1>2 DEF HandleEnds, HandleDrain, Received, ChannelStep
<1>3. CASE HandleIdle(p) \/ Interrupt(p)
  BY <1>3 DEF HandleIdle, Interrupt, ChannelStep
<1>4. QED
  BY <1>1, <1>2, <1>3 DEF HandleStep

LEMMA ReaderChannel ==
    ASSUME StreamTypeOK, NEW i \in Procs,
           \/ ReaderStep(i) \/ ReadGarbage(i) \/ ReadEOF(i)
           \/ ProcessExits(i) \/ ProcessReaped(i)
           \/ \E s \in Sessions : ReadUpdate(i, s) \/ ReadPermission(i, s)
           \/ \E p \in Prompts : ReadResponse(i, p)
    PROVE  ChannelStep
<1>1. CASE SendUpdate(i)
  <2>1. rlTo[i] \in Prompts \cup {NoPrompt}
    BY DEF StreamTypeOK
  <2>2. "update" \in Events
    BY DEF Events
  <2>3. QED
    BY <1>1, <2>1, <2>2 DEF SendUpdate, Deliver, ChannelStep
<1>2. CASE SendResponse(i) \/ ReadEOF(i) \/ ProcessExits(i)
  BY <1>2 DEF SendResponse, ReadEOF, ProcessExits, ChannelStep, turnVars
<1>3. CASE ReadGarbage(i) \/ ProcessReaped(i)
  BY <1>3 DEF ReadGarbage, ProcessReaped, ChannelStep
<1>4. ASSUME NEW s \in Sessions, ReadUpdate(i, s) \/ ReadPermission(i, s)
      PROVE  ChannelStep
  BY <1>4 DEF ReadUpdate, ReadPermission, ChannelStep, turnVars
<1>5. ASSUME NEW p \in Prompts, ReadResponse(i, p) PROVE ChannelStep
  BY <1>5 DEF ReadResponse, ChannelStep, turnVars
<1>6. QED
  BY <1>1, <1>2, <1>3, <1>4, <1>5 DEF ReaderStep

LEMMA PermissionChannel ==
    ASSUME StreamTypeOK, NEW s \in Sessions, PermissionStep(s)
    PROVE  ChannelStep
<1>1. permTo[s] \in Prompts \cup {NoPrompt}
  BY DEF StreamTypeOK
<1>2. "permission" \in Events
  BY DEF Events
<1>3. CASE PermissionRaise(s)
  BY <1>1, <1>2, <1>3 DEF PermissionRaise, ChannelStep
<1>4. CASE PermissionLookup(s) \/ PermissionDecided(s)
  BY <1>4 DEF PermissionLookup, PermissionDecided, ChannelStep, turnVars
<1>5. QED
  BY <1>3, <1>4 DEF PermissionStep

LEMMA ChannelNext ==
    ASSUME StreamTypeOK, [StreamNext]_streamVars
    PROVE  ChannelType'
<1>1. ChannelStep
  <2>1. CASE UNCHANGED streamVars
    BY <2>1 DEF ChannelStep, streamVars, turnVars
  <2>2. CASE StreamNext
    BY <2>2, PromptChannel, HeartbeatChannel, ConsumerChannel, ReaderChannel,
       PermissionChannel DEF StreamNext
  <2>3. QED
    BY <2>1, <2>2
<1>2. ChannelType
  BY DEF StreamTypeOK, ChannelType
<1>3. CASE UNCHANGED chan
  BY <1>2, <1>3 DEF ChannelType
<1>4. ASSUME NEW p \in Prompts, chan[p] # <<>>, Pop(p) PROVE ChannelType'
  BY <1>2, <1>4, PopType
<1>5. ASSUME NEW p \in Prompts \cup {NoPrompt}, NEW e \in Events, Send(p, e)
      PROVE  ChannelType'
  BY <1>2, <1>5, SendType DEF Send
<1>6. QED
  BY <1>1, <1>2, <1>3, <1>4, <1>5, FailAllType DEF ChannelStep

ClientType ==
    /\ subscribers \in [Sessions -> Prompts \cup {NoPrompt}]
    /\ pending \subseteq Prompts
    /\ proc \in Procs \cup {0}
    /\ procState \in [Procs -> {"off", "alive", "exited", "reaped"}]

TurnType ==
    /\ stage \in [Prompts -> {"new", "start", "write", "waiting", "result", "complete",
                              "error", "stopping", "closing", "done"}]
    /\ reply \in [Prompts -> {"none", "result", "failed"}]
    /\ closed \subseteq Prompts /\ ctxDone \subseteq Prompts /\ ceiling \subseteq Prompts
    /\ hb \in [Prompts -> {"off", "running", "sending", "exited"}]
    /\ handle \in [Prompts -> {"off", "reading", "asking", "draining", "gone", "done"}]

ReadType ==
    /\ rlOp \in [Procs -> {"off", "reading", "sending", "responding", "eof"}]
    /\ rlTo \in [Procs -> Prompts \cup {NoPrompt}]
    /\ perm \in [Sessions -> {"none", "spawned", "held", "waiting", "answered", "done"}]
    /\ permTo \in [Sessions -> Prompts \cup {NoPrompt}]

HistoryType ==
    /\ newest \in [Sessions -> Prompts \cup {NoPrompt}]
    /\ asked \in [Prompts -> Procs \cup {0}]
    /\ owed \in [Prompts -> Nat] /\ seen \in [Prompts -> Nat]
    /\ owedAsk \in [Sessions -> [prompt : Prompts \cup {NoPrompt}, updates : Nat]]
    /\ updates \in Nat /\ asks \in Nat /\ faults \in Nat /\ garbage \in Nat
    /\ crashed \subseteq {"stdin", "heartbeat", "reader", "response", "permission"}

LEMMA TypeParts ==
    StreamTypeOK <=> ClientType /\ TurnType /\ ChannelType /\ ReadType /\ HistoryType
  BY DEF StreamTypeOK, ClientType, TurnType, ChannelType, ReadType, HistoryType

LEMMA TurnNext ==
    ASSUME ClientType, TurnType, ReadType, [StreamNext]_streamVars
    PROVE  TurnType'
<1> USE DEF TurnType, PromptAt, HandleAt, HandleReturns, turnVars
<1>1. ASSUME NEW p \in Prompts, StartPrompt(p) PROVE TurnType'
  BY <1>1 DEF StartPrompt
<1>2. ASSUME NEW p \in Prompts, CallStart(p) \/ CallFails(p) \/ CallWrite(p) PROVE TurnType'
  BY <1>2 DEF CallStart, CallFails, CallWrite
<1>3. ASSUME NEW p \in Prompts, CallReturns(p) \/ EmitResult(p) \/ EmitFinal(p)
      PROVE TurnType'
  BY <1>3 DEF CallReturns, EmitResult, EmitFinal
<1>4. ASSUME NEW p \in Prompts, Unsubscribe(p) \/ CloseEvents(p) PROVE TurnType'
  BY <1>4 DEF Unsubscribe, CloseEvents
<1>5. ASSUME NEW p \in Prompts, HeartbeatTick(p) \/ HeartbeatCeiling(p) \/ HeartbeatStep(p)
      PROVE TurnType'
  BY <1>5 DEF HeartbeatTick, HeartbeatCeiling, HeartbeatStep, HeartbeatSend, HeartbeatStop
<1>6. ASSUME NEW p \in Prompts, HandleEvent(p) PROVE TurnType'
  BY <1>6 DEF HandleEvent
<1>7. ASSUME NEW p \in Prompts, HandlePermission(p) \/ HandleAnswer(p) PROVE TurnType'
  BY <1>7 DEF HandlePermission, HandleAnswer
<1>8. ASSUME NEW p \in Prompts, HandleEnds(p) \/ HandleDrain(p) PROVE TurnType'
  BY <1>8 DEF HandleEnds, HandleDrain
<1>9. ASSUME NEW p \in Prompts, HandleIdle(p) \/ Interrupt(p) PROVE TurnType'
  BY <1>9 DEF HandleIdle, Interrupt
<1>10. ASSUME NEW i \in Procs, SendUpdate(i) PROVE TurnType'
  BY <1>10 DEF SendUpdate
<1>11. ASSUME NEW i \in Procs, SendResponse(i) PROVE TurnType'
  BY <1>11 DEF SendResponse, Respond, ReadType
<1>12. ASSUME NEW i \in Procs, ReadGarbage(i) \/ ProcessReaped(i) PROVE TurnType'
  BY <1>12 DEF ReadGarbage, ProcessReaped, FailAll
<1>13. ASSUME NEW i \in Procs, ReadEOF(i) \/ ProcessExits(i) PROVE TurnType'
  BY <1>13 DEF ReadEOF, ProcessExits
<1>14. ASSUME NEW i \in Procs, NEW s \in Sessions, ReadUpdate(i, s) \/ ReadPermission(i, s)
       PROVE TurnType'
  BY <1>14 DEF ReadUpdate, ReadPermission
<1>15. ASSUME NEW i \in Procs, NEW p \in Prompts, ReadResponse(i, p) PROVE TurnType'
  BY <1>15 DEF ReadResponse
<1>16. ASSUME NEW s \in Sessions, PermissionStep(s) PROVE TurnType'
  BY <1>16 DEF PermissionStep, PermissionLookup, PermissionRaise, PermissionDecided
<1>17. CASE UNCHANGED streamVars
  BY <1>17 DEF streamVars
<1>18. QED
  BY <1>1, <1>2, <1>3, <1>4, <1>5, <1>6, <1>7, <1>8, <1>9, <1>10, <1>11, <1>12, <1>13,
     <1>14, <1>15, <1>16, <1>17
     DEF StreamNext, PromptStep, HandleStep, ReaderStep

LEMMA ClientNext ==
    ASSUME ClientType, [StreamNext]_streamVars
    PROVE  ClientType'
<1> USE DEF ClientType, clientVars
<1>1. ASSUME NEW p \in Prompts, StartPrompt(p) \/ PromptStep(p) PROVE ClientType'
  <2>1. CASE StartPrompt(p)
    BY <2>1 DEF StartPrompt
  <2>2. CASE CallStart(p)
    BY <2>2 DEF CallStart
  <2>3. CASE CallFails(p) \/ CallWrite(p)
    BY <2>3 DEF CallFails, CallWrite
  <2>4. CASE CallReturns(p) \/ EmitResult(p) \/ EmitFinal(p)
    BY <2>4 DEF CallReturns, EmitResult, EmitFinal
  <2>5. CASE Unsubscribe(p) \/ CloseEvents(p)
    BY <2>5 DEF Unsubscribe, Detach, CloseEvents
  <2>6. QED
    BY <1>1, <2>1, <2>2, <2>3, <2>4, <2>5 DEF PromptStep
<1>2. ASSUME NEW p \in Prompts, HeartbeatTick(p) \/ HeartbeatCeiling(p) \/ HeartbeatStep(p)
      PROVE ClientType'
  BY <1>2 DEF HeartbeatTick, HeartbeatCeiling, HeartbeatStep, HeartbeatSend, HeartbeatStop
<1>3. ASSUME NEW p \in Prompts, HandleStep(p) \/ HandleIdle(p) \/ Interrupt(p)
      PROVE ClientType'
  BY <1>3 DEF HandleStep, HandleEvent, HandlePermission, HandleAnswer, HandleEnds,
     HandleDrain, HandleIdle, Interrupt
<1>4. ASSUME NEW i \in Procs, ReaderStep(i) \/ ReadEOF(i) PROVE ClientType'
  BY <1>4 DEF ReaderStep, SendUpdate, SendResponse, ReadEOF
<1>5. ASSUME NEW i \in Procs, ReadGarbage(i) PROVE ClientType'
  BY <1>5 DEF ReadGarbage, FailAll
<1>6. ASSUME NEW i \in Procs, ProcessExits(i) PROVE ClientType'
  BY <1>6 DEF ProcessExits
<1>7. ASSUME NEW i \in Procs, ProcessReaped(i) PROVE ClientType'
  BY <1>7 DEF ProcessReaped, FailAll
<1>8. ASSUME NEW i \in Procs, NEW s \in Sessions, ReadUpdate(i, s) \/ ReadPermission(i, s)
      PROVE ClientType'
  BY <1>8 DEF ReadUpdate, ReadPermission
<1>9. ASSUME NEW i \in Procs, NEW p \in Prompts, ReadResponse(i, p) PROVE ClientType'
  BY <1>9 DEF ReadResponse, TakePending
<1>10. ASSUME NEW s \in Sessions, PermissionStep(s) PROVE ClientType'
  BY <1>10 DEF PermissionStep, PermissionLookup, PermissionRaise, PermissionDecided
<1>11. CASE UNCHANGED streamVars
  BY <1>11 DEF streamVars
<1>12. QED
  BY <1>1, <1>2, <1>3, <1>4, <1>5, <1>6, <1>7, <1>8, <1>9, <1>10, <1>11
     DEF StreamNext

LEMMA ReadNext ==
    ASSUME ClientType, ReadType, [StreamNext]_streamVars
    PROVE  ReadType'
<1> USE DEF ReadType, Reader, PermissionAt, readVars, permVars
<1>1. ASSUME NEW p \in Prompts, StartPrompt(p) \/ PromptStep(p) PROVE ReadType'
  <2>1. CASE CallStart(p)
    BY <2>1 DEF CallStart
  <2>2. CASE StartPrompt(p) \/ CallFails(p) \/ CallWrite(p)
    BY <2>2 DEF StartPrompt, CallFails, CallWrite
  <2>3. CASE CallReturns(p) \/ EmitResult(p) \/ EmitFinal(p)
    BY <2>3 DEF CallReturns, EmitResult, EmitFinal
  <2>4. CASE Unsubscribe(p) \/ CloseEvents(p)
    BY <2>4 DEF Unsubscribe, CloseEvents
  <2>5. QED
    BY <1>1, <2>1, <2>2, <2>3, <2>4 DEF PromptStep
<1>2. ASSUME NEW p \in Prompts, HeartbeatTick(p) \/ HeartbeatCeiling(p) \/ HeartbeatStep(p)
      PROVE ReadType'
  BY <1>2 DEF HeartbeatTick, HeartbeatCeiling, HeartbeatStep, HeartbeatSend, HeartbeatStop
<1>3. ASSUME NEW p \in Prompts, HandleStep(p) \/ HandleIdle(p) \/ Interrupt(p)
      PROVE ReadType'
  BY <1>3 DEF HandleStep, HandleEvent, HandlePermission, HandleAnswer, HandleEnds,
     HandleDrain, HandleIdle, Interrupt
<1>4. ASSUME NEW i \in Procs, ReaderStep(i) \/ ReadEOF(i) PROVE ReadType'
  BY <1>4 DEF ReaderStep, SendUpdate, SendResponse, ReadEOF
<1>5. ASSUME NEW i \in Procs, ReadGarbage(i) \/ ProcessExits(i) \/ ProcessReaped(i)
      PROVE ReadType'
  BY <1>5 DEF ReadGarbage, ProcessExits, ProcessReaped
<1>6. ASSUME NEW i \in Procs, NEW s \in Sessions, ReadUpdate(i, s) \/ ReadPermission(i, s)
      PROVE ReadType'
  BY <1>6 DEF ReadUpdate, ReadPermission, ClientType
<1>7. ASSUME NEW i \in Procs, NEW p \in Prompts, ReadResponse(i, p) PROVE ReadType'
  BY <1>7 DEF ReadResponse
<1>8. ASSUME NEW s \in Sessions, PermissionStep(s) PROVE ReadType'
  BY <1>8 DEF PermissionStep, PermissionLookup, PermissionRaise, PermissionDecided, ClientType
<1>9. CASE UNCHANGED streamVars
  BY <1>9 DEF streamVars
<1>10. QED
  BY <1>1, <1>2, <1>3, <1>4, <1>5, <1>6, <1>7, <1>8, <1>9 DEF StreamNext

LEMMA HistoryNext ==
    ASSUME ClientType, ReadType, HistoryType, [StreamNext]_streamVars
    PROVE  HistoryType'
<1> USE DEF HistoryType, Panic, histVars, boundVars
<1>1. ASSUME NEW p \in Prompts, StartPrompt(p) \/ PromptStep(p) PROVE HistoryType'
  <2>1. CASE StartPrompt(p)
    BY <2>1 DEF StartPrompt
  <2>2. CASE CallStart(p) \/ CallFails(p)
    BY <2>2 DEF CallStart, CallFails
  <2>3. CASE CallWrite(p)
    BY <2>3 DEF CallWrite, ClientType
  <2>4. CASE CallReturns(p)
    BY <2>4 DEF CallReturns
  <2>5. CASE EmitResult(p) \/ EmitFinal(p) \/ Unsubscribe(p) \/ CloseEvents(p)
    BY <2>5 DEF EmitResult, EmitFinal, Unsubscribe, CloseEvents
  <2>6. QED
    BY <1>1, <2>1, <2>2, <2>3, <2>4, <2>5 DEF PromptStep
<1>2. ASSUME NEW p \in Prompts, HeartbeatTick(p) \/ HeartbeatCeiling(p) \/ HeartbeatStep(p)
      PROVE HistoryType'
  BY <1>2 DEF HeartbeatTick, HeartbeatCeiling, HeartbeatStep, HeartbeatSend, HeartbeatStop
<1>3. ASSUME NEW p \in Prompts, HandleEvent(p) PROVE HistoryType'
  BY <1>3 DEF HandleEvent
<1>4. ASSUME NEW p \in Prompts,
             \/ HandlePermission(p) \/ HandleAnswer(p) \/ HandleEnds(p) \/ HandleDrain(p)
             \/ HandleIdle(p) \/ Interrupt(p)
      PROVE HistoryType'
  BY <1>4 DEF HandlePermission, HandleAnswer, HandleEnds, HandleDrain, HandleIdle, Interrupt
<1>5. ASSUME NEW i \in Procs, ReaderStep(i) \/ ReadEOF(i) PROVE HistoryType'
  BY <1>5 DEF ReaderStep, SendUpdate, SendResponse, Respond, ReadEOF
<1>6. ASSUME NEW i \in Procs, ReadGarbage(i) \/ ProcessExits(i) \/ ProcessReaped(i)
      PROVE HistoryType'
  <2>1. ASSUME FailAll PROVE crashed' \subseteq {"stdin", "heartbeat", "reader", "response", "permission"}
    <3>1. crashed' = crashed \/ crashed' = crashed \cup {"response"}
      BY <2>1 DEF FailAll
    <3>2. QED
      BY <3>1
  <2>2. CASE ReadGarbage(i)
    BY <2>1, <2>2 DEF ReadGarbage
  <2>3. CASE ProcessExits(i)
    BY <2>3 DEF ProcessExits
  <2>4. CASE ProcessReaped(i)
    BY <2>1, <2>4 DEF ProcessReaped
  <2>5. QED
    BY <1>6, <2>2, <2>3, <2>4
<1>7. ASSUME NEW i \in Procs, NEW s \in Sessions, ReadUpdate(i, s) PROVE HistoryType'
  <2>1. subscribers[s] \in Prompts \cup {NoPrompt}
    BY DEF ClientType
  <2>2. owed' \in [Prompts -> Nat]
    <3>1. CASE subscribers[s] = NoPrompt
      BY <1>7, <3>1 DEF ReadUpdate
    <3>2. CASE subscribers[s] # NoPrompt /\ subscribers[s] \in pending /\ asked[subscribers[s]] = i
      BY <1>7, <3>2 DEF ReadUpdate
    <3>3. CASE subscribers[s] # NoPrompt /\ ~(subscribers[s] \in pending /\ asked[subscribers[s]] = i)
      BY <1>7, <3>3 DEF ReadUpdate
    <3>4. QED
      BY <3>1, <3>2, <3>3
  <2>3. QED
    BY <1>7, <2>2 DEF ReadUpdate
<1>8. ASSUME NEW i \in Procs, NEW s \in Sessions, ReadPermission(i, s) PROVE HistoryType'
  BY <1>8 DEF ReadPermission, ClientType
<1>9. ASSUME NEW i \in Procs, NEW p \in Prompts, ReadResponse(i, p) PROVE HistoryType'
  BY <1>9 DEF ReadResponse
<1>10. ASSUME NEW s \in Sessions, PermissionStep(s) PROVE HistoryType'
  BY <1>10 DEF PermissionStep, PermissionLookup, PermissionRaise, PermissionDecided
<1>11. CASE UNCHANGED streamVars
  BY <1>11 DEF streamVars
<1>12. QED
  BY <1>1, <1>2, <1>3, <1>4, <1>5, <1>6, <1>7, <1>8, <1>9, <1>10, <1>11
     DEF StreamNext, HandleStep

\* Every variable keeps its type, and no channel exceeds its capacity.
THEOREM StreamTypeCorrect == StreamSpec => []StreamTypeOK
<1>1. StreamInit => StreamTypeOK
  <2> SUFFICES ASSUME StreamInit PROVE StreamTypeOK
    OBVIOUS
  <2>1. ClientType /\ TurnType
    BY DEF StreamInit, ClientType, TurnType
  <2>2. ReadType /\ HistoryType
    BY DEF StreamInit, ReadType, HistoryType
  <2>3. ChannelType
    BY StreamAssumption DEF StreamInit, ChannelType
  <2>4. QED
    BY <2>1, <2>2, <2>3, TypeParts
<1>2. StreamTypeOK /\ [StreamNext]_streamVars => StreamTypeOK'
  <2> SUFFICES ASSUME StreamTypeOK, [StreamNext]_streamVars PROVE StreamTypeOK'
    OBVIOUS
  <2>1. ClientType /\ TurnType /\ ReadType /\ HistoryType
    BY TypeParts
  <2>2. ClientType' /\ TurnType' /\ ReadType' /\ HistoryType'
    BY <2>1, ClientNext, TurnNext, ReadNext, HistoryNext
  <2>3. QED
    BY <2>2, ChannelNext DEF StreamTypeOK, ChannelType, ClientType, TurnType, ReadType, HistoryType
<1>3. QED
  BY <1>1, <1>2, PTL DEF StreamSpec

-----------------------------------------------------------------------------
(* The heartbeat and the close.                                             *)

\* The goroutine of a prompt closes its channel as its last step, after the wait.
HeartbeatInv ==
    /\ \A p \in Prompts : stage[p] \in {"closing", "done"} => hb[p] = "exited"
    /\ \A p \in closed : stage[p] = "done"
    /\ "heartbeat" \notin crashed

LEMMA HeartbeatNext ==
    ASSUME StreamTypeOK, HeartbeatInv, [StreamNext]_streamVars
    PROVE  HeartbeatInv'
<1> USE DEF HeartbeatInv, turnVars
<1>0. TurnType
  BY TypeParts
<1>1. ASSUME NEW p \in Prompts, StartPrompt(p) \/ CallStart(p) \/ CallFails(p) \/ CallWrite(p)
      PROVE  HeartbeatInv'
  BY <1>0, <1>1 DEF TurnType, PromptAt, Panic, StartPrompt, CallStart, CallFails, CallWrite
<1>2. ASSUME NEW p \in Prompts, CallReturns(p) \/ EmitResult(p) \/ EmitFinal(p)
      PROVE  HeartbeatInv'
  BY <1>0, <1>2 DEF TurnType, PromptAt, CallReturns, EmitResult, EmitFinal
<1>3. ASSUME NEW p \in Prompts, Unsubscribe(p) \/ CloseEvents(p) PROVE HeartbeatInv'
  BY <1>0, <1>3 DEF TurnType, PromptAt, HeartbeatGone, Unsubscribe, CloseEvents
<1>4. ASSUME NEW p \in Prompts, HeartbeatTick(p) \/ HeartbeatCeiling(p) \/ HeartbeatStep(p)
      PROVE  HeartbeatInv'
  BY <1>0, <1>4 DEF TurnType, HeartbeatTick, HeartbeatCeiling, HeartbeatStep, HeartbeatSend,
     HeartbeatStop
<1>5. ASSUME NEW p \in Prompts, HandleStep(p) \/ HandleIdle(p) \/ Interrupt(p)
      PROVE  HeartbeatInv'
  BY <1>5 DEF HandleStep, HandleEvent, HandlePermission, HandleAnswer, HandleEnds,
     HandleDrain, HandleIdle, Interrupt
<1>6. ASSUME NEW i \in Procs, ReaderStep(i) \/ ReadEOF(i) \/ ProcessExits(i) PROVE HeartbeatInv'
  BY <1>6 DEF ReaderStep, SendUpdate, SendResponse, Respond, Panic, ReadEOF, ProcessExits
<1>7. ASSUME NEW i \in Procs, ReadGarbage(i) \/ ProcessReaped(i) PROVE HeartbeatInv'
  BY <1>7 DEF ReadGarbage, ProcessReaped, FailAll
<1>8. ASSUME NEW i \in Procs, NEW s \in Sessions, ReadUpdate(i, s) \/ ReadPermission(i, s)
      PROVE  HeartbeatInv'
  BY <1>8 DEF ReadUpdate, ReadPermission
<1>9. ASSUME NEW i \in Procs, NEW p \in Prompts, ReadResponse(i, p) PROVE HeartbeatInv'
  BY <1>9 DEF ReadResponse
<1>10. ASSUME NEW s \in Sessions, PermissionStep(s) PROVE HeartbeatInv'
  BY <1>10 DEF PermissionStep, PermissionLookup, PermissionRaise, PermissionDecided, Panic
<1>11. CASE UNCHANGED streamVars
  BY <1>11 DEF streamVars
<1>12. QED
  BY <1>1, <1>2, <1>3, <1>4, <1>5, <1>6, <1>7, <1>8, <1>9, <1>10, <1>11
     DEF StreamNext, PromptStep

\* A keep-alive never races the close of its channel: the prompt's goroutine waits
\* for the heartbeat before it unsubscribes and closes.
THEOREM HeartbeatIsGone == StreamSpec => []HeartbeatNeverRacesClose
<1>1. StreamInit => HeartbeatInv
  BY DEF StreamInit, HeartbeatInv
<1>2. StreamTypeOK /\ HeartbeatInv /\ [StreamNext]_streamVars => HeartbeatInv'
  BY HeartbeatNext
<1>3. StreamTypeOK /\ HeartbeatInv => HeartbeatNeverRacesClose
  BY DEF StreamTypeOK, HeartbeatInv, HeartbeatNeverRacesClose
<1>4. QED
  BY <1>1, <1>2, <1>3, StreamTypeCorrect, PTL DEF StreamSpec

-----------------------------------------------------------------------------
(* Responses.                                                               *)

Responding(i, p) == rlOp[i] = "responding" /\ rlTo[i] = p

\* Whoever takes a response channel out of pending is the only one to send on it.
ResponseInv ==
    /\ \A p \in pending : reply[p] = "none" /\ stage[p] = "waiting"
    /\ \A i \in Procs, p \in Prompts : Responding(i, p) => reply[p] = "none" /\ p \notin pending
    /\ \A i, j \in Procs, p \in Prompts : Responding(i, p) /\ Responding(j, p) => i = j
    /\ \A p \in Prompts : stage[p] \in {"new", "start", "write"} =>
          reply[p] = "none" /\ \A i \in Procs : ~Responding(i, p)
    /\ \A i \in Procs : rlOp[i] = "responding" => rlTo[i] \in Prompts
    /\ "response" \notin crashed

\* A call that is over, or goes on without a response of its own.
LEMMA CallOver ==
    ASSUME StreamTypeOK, ResponseInv, NEW p \in Prompts, NEW label,
           label \notin {"new", "start", "write", "waiting"}, PromptAt(p, label),
           pending' = pending \ {p} \/ (pending' = pending /\ p \notin pending),
           UNCHANGED <<reply, readVars>>, "response" \notin crashed'
    PROVE  ResponseInv'
<1>1. DOMAIN stage = Prompts /\ pending \subseteq Prompts
  BY TypeParts DEF TurnType, ClientType
<1>2. \A q \in Prompts : stage'[q] = IF q = p THEN label ELSE stage[q]
  BY <1>1 DEF PromptAt
<1>3. QED
  BY <1>1, <1>2 DEF ResponseInv, Responding, readVars

LEMMA ResponseNext ==
    ASSUME StreamTypeOK, ResponseInv, [StreamNext]_streamVars
    PROVE  ResponseInv'
<1> USE DEF ResponseInv, Responding, clientVars, turnVars, readVars
<1>0. ClientType /\ TurnType /\ ReadType
  BY TypeParts
<1>1. ASSUME NEW p \in Prompts, StartPrompt(p) \/ PromptStep(p) PROVE ResponseInv'
  <2>0. DOMAIN stage = Prompts
    BY <1>0 DEF TurnType
  <2>1. CASE StartPrompt(p)
    BY <1>0, <2>1 DEF PromptAt, TurnType, StartPrompt
  <2>2. CASE CallStart(p)
    BY <1>0, <2>2 DEF PromptAt, TurnType, ReadType, CallStart
  <2>3. CASE CallFails(p)
    BY <1>0, <2>3 DEF PromptAt, TurnType, CallFails
  <2>4. CASE CallWrite(p)
    <3>1. CASE proc = 0
      BY <2>4, <3>1 DEF CallWrite, Panic
    <3>2. CASE proc # 0
      <4>1. \A q \in Prompts : stage'[q] = IF q = p THEN "waiting" ELSE stage[q]
        BY <2>0, <2>4, <3>2 DEF CallWrite, PromptAt
      <4>2. pending' = pending \cup {p} /\ stage[p] = "write"
            /\ UNCHANGED <<reply, rlOp, rlTo, crashed>>
        BY <2>4, <3>2 DEF CallWrite
      <4>3. QED
        BY <1>0, <4>1, <4>2 DEF ClientType
    <3>3. QED
      BY <3>1, <3>2
  <2>5. CASE CallReturns(p)
    BY <2>5, CallOver DEF CallReturns
  <2>6. CASE EmitResult(p)
    BY <2>6, CallOver DEF EmitResult
  <2>7. CASE EmitFinal(p)
    BY <2>7, CallOver DEF EmitFinal
  <2>8. CASE Unsubscribe(p)
    BY <2>8, CallOver DEF Unsubscribe
  <2>9. CASE CloseEvents(p)
    BY <2>9, CallOver DEF CloseEvents
  <2>10. QED
    BY <1>1, <2>1, <2>2, <2>3, <2>4, <2>5, <2>6, <2>7, <2>8, <2>9 DEF PromptStep
<1>2. ASSUME NEW p \in Prompts, HeartbeatTick(p) \/ HeartbeatCeiling(p) \/ HeartbeatStep(p)
      PROVE  ResponseInv'
  BY <1>2 DEF HeartbeatTick, HeartbeatCeiling, HeartbeatStep, HeartbeatSend, HeartbeatStop, Panic
<1>3. ASSUME NEW p \in Prompts, HandleStep(p) \/ HandleIdle(p) \/ Interrupt(p)
      PROVE  ResponseInv'
  BY <1>3 DEF HandleStep, HandleEvent, HandlePermission, HandleAnswer, HandleEnds,
     HandleDrain, HandleIdle, Interrupt
<1>4. ASSUME NEW i \in Procs, SendUpdate(i) PROVE ResponseInv'
  BY <1>0, <1>4 DEF ReadType, SendUpdate, Reader, Panic
<1>5. ASSUME NEW i \in Procs, SendResponse(i) PROVE ResponseInv'
  <2>1. PICK r : Respond(rlTo[i], r)
    BY <1>5 DEF SendResponse
  <2>2. rlTo[i] \in Prompts /\ reply[rlTo[i]] = "none" /\ rlTo[i] \notin pending
        /\ stage[rlTo[i]] \notin {"new", "start", "write"}
    BY <1>5 DEF SendResponse
  <2>3. \A q \in Prompts : q # rlTo[i] => reply'[q] = reply[q]
    BY <1>0, <2>1, <2>2 DEF Respond, TurnType
  <2>4. \A j \in Procs : rlOp'[j] = (IF j = i THEN "reading" ELSE rlOp[j])
                          /\ (j # i => rlTo'[j] = rlTo[j])
    BY <1>0, <1>5 DEF ReadType, SendResponse, Reader
  <2>5. UNCHANGED <<pending, stage, crashed>>
    BY <1>5, <2>1, <2>2 DEF SendResponse, Respond
  <2>6. \A j \in Procs, q \in Prompts :
           Responding(j, q)' => j # i /\ q # rlTo[i] /\ Responding(j, q)
    BY <1>5, <2>2, <2>4 DEF SendResponse
  <2>7. QED
    BY <1>0, <2>2, <2>3, <2>4, <2>5, <2>6 DEF ClientType
<1>6. ASSUME NEW i \in Procs, ReadEOF(i) \/ ProcessExits(i) PROVE ResponseInv'
  BY <1>0, <1>6 DEF ReadType, ReadEOF, Reader, ProcessExits
<1>7. ASSUME NEW i \in Procs, ReadGarbage(i) PROVE ResponseInv'
  BY <1>0, <1>7 DEF ReadType, ReadGarbage, Reader, FailAll
<1>8. ASSUME NEW i \in Procs, ProcessReaped(i) PROVE ResponseInv'
  BY <1>8 DEF ProcessReaped, FailAll
<1>9. ASSUME NEW i \in Procs, NEW s \in Sessions, ReadUpdate(i, s) PROVE ResponseInv'
  BY <1>0, <1>9 DEF ReadType, ReadUpdate, Reader
<1>10. ASSUME NEW i \in Procs, NEW s \in Sessions, ReadPermission(i, s) PROVE ResponseInv'
  BY <1>10 DEF ReadPermission
<1>11. ASSUME NEW i \in Procs, NEW p \in Prompts, ReadResponse(i, p) PROVE ResponseInv'
  BY <1>0, <1>11 DEF ReadType, ClientType, ReadResponse, TakePending, Reader
<1>12. ASSUME NEW s \in Sessions, PermissionStep(s) PROVE ResponseInv'
  BY <1>12 DEF PermissionStep, PermissionLookup, PermissionRaise, PermissionDecided, Panic
<1>13. CASE UNCHANGED streamVars
  BY <1>13 DEF streamVars
<1>14. QED
  BY <1>1, <1>2, <1>3, <1>4, <1>5, <1>6, <1>7, <1>8, <1>9, <1>10, <1>11, <1>12, <1>13
     DEF StreamNext, ReaderStep

\* A response channel is resolved once, whichever of deliverResponse, failAll and the
\* caller's cancellation come first.
THEOREM ResolvesOnce == StreamSpec => []ResponseInv
<1>1. StreamInit => ResponseInv
  BY DEF StreamInit, ResponseInv, Responding
<1>2. StreamTypeOK /\ ResponseInv /\ [StreamNext]_streamVars => ResponseInv'
  BY ResponseNext
<1>3. QED
  BY <1>1, <1>2, StreamTypeCorrect, PTL DEF StreamSpec

-----------------------------------------------------------------------------
(* The newest prompt of a session.                                          *)

LEMMA SubscriptionNext ==
    ASSUME StreamTypeOK, LiveSubscription, [StreamNext]_streamVars
    PROVE  LiveSubscription'
<1> USE DEF LiveSubscription, clientVars, turnVars, histVars
<1>0. subscribers \in [Sessions -> Prompts \cup {NoPrompt}] /\ TurnType
      /\ newest \in [Sessions -> Prompts \cup {NoPrompt}] /\ NoPrompt \notin Prompts
      /\ SessionOf \in [Prompts -> Sessions]
  BY TypeParts, StreamAssumption DEF ClientType, HistoryType
<1>1. ASSUME NEW p \in Prompts, StartPrompt(p) PROVE LiveSubscription'
  BY <1>0, <1>1 DEF TurnType, PromptAt, StartPrompt
<1>2. ASSUME NEW p \in Prompts, CallStart(p) \/ CallFails(p) \/ CallWrite(p)
      PROVE  LiveSubscription'
  BY <1>0, <1>2 DEF TurnType, PromptAt, CallStart, CallFails, CallWrite
<1>3. ASSUME NEW p \in Prompts, CallReturns(p) \/ EmitResult(p) \/ EmitFinal(p)
      PROVE  LiveSubscription'
  BY <1>0, <1>3 DEF TurnType, PromptAt, CallReturns, EmitResult, EmitFinal
<1>4. ASSUME NEW p \in Prompts, Unsubscribe(p) PROVE LiveSubscription'
  BY <1>0, <1>4 DEF TurnType, PromptAt, Unsubscribe, Detach
<1>5. ASSUME NEW p \in Prompts, CloseEvents(p) PROVE LiveSubscription'
  BY <1>0, <1>5 DEF TurnType, PromptAt, CloseEvents
<1>6. ASSUME NEW p \in Prompts, HeartbeatTick(p) \/ HeartbeatCeiling(p) \/ HeartbeatStep(p)
      PROVE  LiveSubscription'
  BY <1>6 DEF HeartbeatTick, HeartbeatCeiling, HeartbeatStep, HeartbeatSend, HeartbeatStop
<1>7. ASSUME NEW p \in Prompts, HandleStep(p) \/ HandleIdle(p) \/ Interrupt(p)
      PROVE  LiveSubscription'
  BY <1>7 DEF HandleStep, HandleEvent, HandlePermission, HandleAnswer, HandleEnds,
     HandleDrain, HandleIdle, Interrupt
<1>8. ASSUME NEW i \in Procs,
             \/ ReaderStep(i) \/ ReadGarbage(i) \/ ReadEOF(i)
             \/ ProcessExits(i) \/ ProcessReaped(i)
      PROVE  LiveSubscription'
  BY <1>8 DEF ReaderStep, SendUpdate, SendResponse, ReadGarbage, ReadEOF, ProcessExits,
     ProcessReaped
<1>9. ASSUME NEW i \in Procs, NEW s \in Sessions, ReadUpdate(i, s) \/ ReadPermission(i, s)
      PROVE  LiveSubscription'
  BY <1>9 DEF ReadUpdate, ReadPermission
<1>10. ASSUME NEW i \in Procs, NEW p \in Prompts, ReadResponse(i, p) PROVE LiveSubscription'
  BY <1>10 DEF ReadResponse
<1>11. ASSUME NEW s \in Sessions, PermissionStep(s) PROVE LiveSubscription'
  BY <1>11 DEF PermissionStep, PermissionLookup, PermissionRaise, PermissionDecided
<1>12. CASE UNCHANGED streamVars
  BY <1>12 DEF streamVars
<1>13. QED
  BY <1>1, <1>2, <1>3, <1>4, <1>5, <1>6, <1>7, <1>8, <1>9, <1>10, <1>11, <1>12
     DEF StreamNext, PromptStep

\* Prompts of one session stay apart: a slower predecessor does not unsubscribe the
\* newest, and no response channel is sent on twice.
THEOREM PromptsStayApart == StreamSpec => []PromptsApart
<1>1. StreamInit => LiveSubscription
  BY DEF StreamInit, LiveSubscription
<1>2. StreamTypeOK /\ LiveSubscription /\ [StreamNext]_streamVars => LiveSubscription'
  BY SubscriptionNext
<1>3. StreamTypeOK /\ ResponseInv /\ LiveSubscription => PromptsApart
  BY DEF ResponseInv, ResolvedOnce, PromptsApart
<1>4. QED
  BY <1>1, <1>2, <1>3, StreamTypeCorrect, ResolvesOnce, PTL DEF StreamSpec

-----------------------------------------------------------------------------
(* Order of the events.                                                     *)

\* The updates among the first n events of a channel.
UpdatesIn(c, n) == {k \in 1..n : c[k] = "update"}
UpTo(c, n) == Cardinality(UpdatesIn(c, n))

Counts(e) == IF e = "update" THEN 1 ELSE 0

LEMMA UpToIsNat ==
    ASSUME NEW c, NEW n \in Nat
    PROVE  IsFiniteSet(UpdatesIn(c, n)) /\ UpTo(c, n) \in Nat
<1>1. IsFiniteSet(1..n) /\ UpdatesIn(c, n) \in SUBSET (1..n)
  BY FS_Interval DEF UpdatesIn
<1>2. QED
  BY <1>1, FS_Subset, FS_CardinalityType DEF UpTo

LEMMA UpToNothing == ASSUME NEW c PROVE UpTo(c, 0) = 0
<1>1. UpdatesIn(c, 0) = {}
  BY DEF UpdatesIn
<1>2. QED
  BY <1>1, FS_EmptySet DEF UpTo

LEMMA UpToAppend ==
    ASSUME NEW c \in Seq(Events), NEW e \in Events
    PROVE  /\ \A n \in 0..Len(c) : UpTo(Append(c, e), n) = UpTo(c, n)
           /\ UpTo(Append(c, e), Len(c) + 1) = UpTo(c, Len(c)) + Counts(e)
<1>0. \A k \in 1..Len(c) : Append(c, e)[k] = c[k]
  OBVIOUS
<1>00. Append(c, e)[Len(c) + 1] = e /\ Len(c) \in Nat
  OBVIOUS
<1>1. \A n \in 0..Len(c) : UpdatesIn(Append(c, e), n) = UpdatesIn(c, n)
  BY <1>0, <1>00 DEF UpdatesIn
<1>2. UpdatesIn(Append(c, e), Len(c) + 1) =
      IF e = "update" THEN UpdatesIn(c, Len(c)) \cup {Len(c) + 1} ELSE UpdatesIn(c, Len(c))
  <2>1. 1..(Len(c) + 1) = 1..Len(c) \cup {Len(c) + 1}
    BY <1>00
  <2>2. QED
    BY <1>0, <1>00, <2>1 DEF UpdatesIn
<1>3. Len(c) + 1 \notin UpdatesIn(c, Len(c))
  BY <1>00 DEF UpdatesIn
<1>4. UpTo(Append(c, e), Len(c) + 1) = UpTo(c, Len(c)) + Counts(e)
  <2>1. IsFiniteSet(UpdatesIn(c, Len(c))) /\ UpTo(c, Len(c)) \in Nat
    BY <1>00, UpToIsNat
  <2>2. CASE e = "update"
    <3>1. Cardinality(UpdatesIn(c, Len(c)) \cup {Len(c) + 1}) = Cardinality(UpdatesIn(c, Len(c))) + 1
      BY <1>3, <2>1, FS_AddElement
    <3>2. QED
      BY <1>2, <2>2, <3>1 DEF UpTo, Counts
  <2>3. CASE e # "update"
    BY <1>2, <2>1, <2>3 DEF UpTo, Counts
  <2>4. QED
    BY <2>2, <2>3
<1>5. QED
  BY <1>1, <1>4 DEF UpTo

LEMMA UpToTail ==
    ASSUME NEW c \in Seq(Events), c # <<>>, NEW n \in 0..(Len(c) - 1)
    PROVE  UpTo(c, n + 1) = UpTo(Tail(c), n) + Counts(Head(c))
<1> DEFINE S == UpdatesIn(Tail(c), n)
           T == UpdatesIn(c, n + 1) \ {1}
           f == [k \in S |-> k + 1]
<1>1. Len(c) \in Nat \ {0} /\ Head(c) = c[1]
      /\ \A k \in 1..n : Tail(c)[k] = c[k + 1]
  OBVIOUS
<1>2. S \subseteq 1..n /\ T = {k \in 2..(n + 1) : c[k] = "update"}
  BY <1>1 DEF UpdatesIn
<1>3. f \in Bijection(S, T)
  <2>1. \A k \in S : k + 1 \in T
    BY <1>1, <1>2 DEF UpdatesIn
  <2>2. f \in [S -> T]
    BY <2>1
  <2>3. \A a, b \in S : f[a] = f[b] => a = b
    BY <1>2
  <2>4. \A m \in T : \E k \in S : f[k] = m
    <3>1. TAKE m \in T
    <3>2. m - 1 \in 1..n /\ (m - 1) + 1 = m /\ c[m] = "update"
      BY <1>2
    <3>3. m - 1 \in S
      BY <1>1, <3>2 DEF UpdatesIn
    <3>4. f[m - 1] = m
      BY <3>2, <3>3
    <3>5. QED
      BY <3>3, <3>4
  <2>5. QED
    BY <2>2, <2>3, <2>4 DEF Bijection, Injection, Surjection, IsInjective
<1>4. IsFiniteSet(S) /\ UpTo(Tail(c), n) \in Nat /\ IsFiniteSet(UpdatesIn(c, n + 1))
  BY UpToIsNat
<1>5. Cardinality(T) = UpTo(Tail(c), n)
  <2>1. ExistsBijection(S, T)
    BY <1>3 DEF ExistsBijection
  <2>2. QED
    BY <1>4, <2>1, FS_Bijection DEF UpTo
<1>6. Cardinality(T) = IF 1 \in UpdatesIn(c, n + 1) THEN UpTo(c, n + 1) - 1 ELSE UpTo(c, n + 1)
  BY <1>4, FS_RemoveElement DEF UpTo
<1>7. 1 \in UpdatesIn(c, n + 1) <=> Head(c) = "update"
  BY <1>1 DEF UpdatesIn
<1>8. UpTo(c, n + 1) \in Nat
  BY UpToIsNat
<1>9. QED
  BY <1>4, <1>5, <1>6, <1>7, <1>8 DEF Counts

\* The updates the consumer of p has handled by the time it takes the n-th event, and
\* those it will have when the channel has been drained.
ByEvent(p, n) == seen[p] + UpTo(chan[p], n)
ByNow(p) == ByEvent(p, Len(chan[p]))

\* A consumer that may still take events.
Consuming(p) == handle[p] \in {"off", "reading", "asking"}

\* The process p's call waits for has one of its updates in hand.
InHand(p) == rlOp[asked[p]] = "sending" /\ rlTo[asked[p]] = p

\* An event that is new in the channel of p.
NewEvent(p, e) ==
    /\ e = "complete" => stage[p] = "complete" /\ stage'[p] = "stopping"
    /\ e = "permission" => \E s \in Sessions : perm[s] = "held" /\ permTo[s] = p

\* What a step does to the events of p: nothing, one more, one handled, or its
\* consumer is past caring.
EventStep(p) ==
    \/ ~Consuming(p)'
    \/ chan'[p] = chan[p] /\ seen'[p] = seen[p]
    \/ \E e \in Events :
          /\ chan'[p] = Append(chan[p], e) /\ seen'[p] = seen[p]
          /\ NewEvent(p, e)
    \/ /\ handle[p] = "reading" /\ chan[p] # <<>>
       /\ chan'[p] = Tail(chan[p]) /\ seen'[p] = seen[p] + Counts(Head(chan[p]))

LEMMA OneMore ==
    ASSUME StreamTypeOK, NEW p \in Prompts, NEW q, NEW e \in Events, Send(q, e),
           UNCHANGED seen, NewEvent(q, e)
    PROVE  EventStep(p)
<1>1. DOMAIN chan = Prompts
  BY DEF StreamTypeOK
<1>2. CASE q = p
  BY <1>1, <1>2 DEF Send, EventStep
<1>3. CASE q # p
  BY <1>1, <1>3 DEF Send, EventStep
<1>4. QED
  BY <1>2, <1>3

\* Before a prompt is started nobody consumes its events, and before a process is
\* started nobody reads it.
StartInv ==
    /\ \A p \in Prompts : stage[p] = "new" => handle[p] = "off"
    /\ \A i \in Procs : procState[i] = "off" => rlOp[i] = "off"

LEMMA StartNext ==
    ASSUME StreamTypeOK, StartInv, [StreamNext]_streamVars
    PROVE  StartInv'
<1> USE DEF StartInv, clientVars, turnVars, readVars
<1>0. ClientType /\ TurnType /\ ReadType
  BY TypeParts
<1>1. ASSUME NEW p \in Prompts, StartPrompt(p) \/ PromptStep(p) PROVE StartInv'
  <2> USE DEF PromptAt
  <2>1. CASE StartPrompt(p)
    BY <1>0, <2>1 DEF TurnType, StartPrompt
  <2>2. CASE CallStart(p)
    BY <1>0, <2>2 DEF TurnType, ClientType, ReadType, CallStart
  <2>3. CASE CallFails(p) \/ CallWrite(p)
    BY <1>0, <2>3 DEF TurnType, CallFails, CallWrite
  <2>4. CASE CallReturns(p) \/ EmitResult(p) \/ EmitFinal(p)
    BY <1>0, <2>4 DEF TurnType, CallReturns, EmitResult, EmitFinal
  <2>5. CASE Unsubscribe(p) \/ CloseEvents(p)
    BY <1>0, <2>5 DEF TurnType, Unsubscribe, CloseEvents
  <2>6. QED
    BY <1>1, <2>1, <2>2, <2>3, <2>4, <2>5 DEF PromptStep
<1>2. ASSUME NEW p \in Prompts, HeartbeatTick(p) \/ HeartbeatCeiling(p) \/ HeartbeatStep(p)
      PROVE  StartInv'
  BY <1>2 DEF HeartbeatTick, HeartbeatCeiling, HeartbeatStep, HeartbeatSend, HeartbeatStop
<1>3. ASSUME NEW p \in Prompts, HandleStep(p) \/ HandleIdle(p) \/ Interrupt(p)
      PROVE  StartInv'
  BY <1>0, <1>3 DEF TurnType, HandleAt, HandleReturns, HandleStep, HandleEvent,
     HandlePermission, HandleAnswer, HandleEnds, HandleDrain, HandleIdle, Interrupt
<1>4. ASSUME NEW i \in Procs, ReaderStep(i) \/ ReadGarbage(i) \/ ReadEOF(i) PROVE StartInv'
  BY <1>0, <1>4 DEF ReadType, Reader, ReaderStep, SendUpdate, SendResponse, ReadGarbage,
     ReadEOF, Reading
<1>5. ASSUME NEW i \in Procs, ProcessExits(i) \/ ProcessReaped(i) PROVE StartInv'
  BY <1>0, <1>5 DEF ClientType, ProcessExits, ProcessReaped
<1>6. ASSUME NEW i \in Procs, NEW s \in Sessions, ReadUpdate(i, s) \/ ReadPermission(i, s)
      PROVE  StartInv'
  BY <1>0, <1>6 DEF ReadType, Reader, Reading, ReadUpdate, ReadPermission
<1>7. ASSUME NEW i \in Procs, NEW p \in Prompts, ReadResponse(i, p) PROVE StartInv'
  BY <1>0, <1>7 DEF ReadType, Reader, Reading, ReadResponse
<1>8. ASSUME NEW s \in Sessions, PermissionStep(s) PROVE StartInv'
  BY <1>8 DEF PermissionStep, PermissionLookup, PermissionRaise, PermissionDecided
<1>9. CASE UNCHANGED streamVars
  BY <1>9 DEF streamVars
<1>10. QED
  BY <1>1, <1>2, <1>3, <1>4, <1>5, <1>6, <1>7, <1>8, <1>9 DEF StreamNext

LEMMA ConsumerEvents ==
    ASSUME StreamTypeOK, NEW p \in Prompts, NEW q \in Prompts,
           HandleStep(q) \/ HandleIdle(q) \/ Interrupt(q)
    PROVE  EventStep(p) /\ (Consuming(p)' => Consuming(p))
<1> USE DEF Consuming, HandleAt, HandleReturns, EventStep, Pop, Received
<1>0. DOMAIN chan = Prompts /\ DOMAIN handle = Prompts /\ DOMAIN seen = Prompts
      /\ seen[q] \in Nat
  BY DEF StreamTypeOK
<1>1. CASE HandleEvent(q)
  BY <1>0, <1>1 DEF HandleEvent, Counts
<1>2. CASE HandlePermission(q)
  BY <1>0, <1>2 DEF HandlePermission, Counts, histVars
<1>3. CASE HandleAnswer(q)
  BY <1>0, <1>3 DEF HandleAnswer, histVars
<1>4. CASE HandleEnds(q)
  BY <1>0, <1>4 DEF HandleEnds, histVars
<1>5. CASE HandleDrain(q)
  BY <1>0, <1>5 DEF HandleDrain, histVars
<1>6. CASE HandleIdle(q)
  BY <1>0, <1>6 DEF HandleIdle, histVars
<1>7. CASE Interrupt(q)
  BY <1>7 DEF Interrupt, histVars
<1>8. QED
  BY <1>1, <1>2, <1>3, <1>4, <1>5, <1>6, <1>7 DEF HandleStep

LEMMA FailAllEvents ==
    ASSUME StreamTypeOK, FailAll, UNCHANGED seen, NEW p \in Prompts
    PROVE  EventStep(p)
<1>1. "error" \in Events
  BY DEF Events
<1>2. CASE subscribers[SessionOf[p]] = p /\ RoomFor(p)
  BY <1>1, <1>2 DEF FailAll, EventStep, NewEvent
<1>3. CASE ~(subscribers[SessionOf[p]] = p /\ RoomFor(p))
  BY <1>3 DEF FailAll, EventStep
<1>4. QED
  BY <1>2, <1>3

LEMMA EventNext ==
    ASSUME StreamTypeOK, StartInv, [StreamNext]_streamVars, NEW p \in Prompts
    PROVE  EventStep(p) /\ (Consuming(p)' => Consuming(p))
<1> DEFINE Goal == EventStep(p) /\ (Consuming(p)' => Consuming(p))
<1>0. "update" \in Events /\ "status" \in Events /\ "permission" \in Events
      /\ "result" \in Events /\ "complete" \in Events /\ "error" \in Events
      /\ "complete" # "permission" /\ "status" # "permission" /\ "update" # "permission"
      /\ "result" # "permission" /\ "error" # "permission"
  BY DEF Events
<1>00. UNCHANGED <<chan, seen, handle>> => Goal
  BY DEF EventStep, Consuming
<1>01. EventStep(p) /\ UNCHANGED handle => Goal
  BY DEF Consuming
<1> HIDE DEF Goal
<1> USE DEF turnVars, histVars
<1>1. ASSUME NEW q \in Prompts, StartPrompt(q) PROVE Goal
  <2>1. DOMAIN handle = Prompts /\ handle[q] = "off"
    BY <1>1 DEF StreamTypeOK, StartInv, StartPrompt
  <2>2. UNCHANGED <<chan, seen>> /\ \A r \in Prompts : r # q => handle'[r] = handle[r]
    BY <1>1, <2>1 DEF StartPrompt
  <2>3. QED
    BY <2>1, <2>2 DEF Goal, EventStep, Consuming
<1>2. ASSUME NEW q \in Prompts, PromptStep(q) PROVE Goal
  <2>1. CASE CallStart(q) \/ CallFails(q) \/ CallWrite(q) \/ CallReturns(q)
    BY <1>00, <2>1 DEF CallStart, CallFails, CallWrite, CallReturns
  <2>2. CASE Unsubscribe(q) \/ CloseEvents(q)
    BY <1>00, <2>2 DEF Unsubscribe, CloseEvents
  <2>3. CASE EmitResult(q)
    <3>1. CASE UNCHANGED chan
      BY <1>00, <2>3, <3>1 DEF EmitResult
    <3>2. CASE Send(q, "result")
      BY <1>0, <1>01, <2>3, <3>2, OneMore DEF NewEvent, EmitResult
    <3>3. QED
      BY <2>3, <3>1, <3>2 DEF EmitResult
  <2>4. CASE EmitFinal(q)
    <3>1. DOMAIN stage = Prompts
      BY DEF StreamTypeOK
    <3>2. stage'[q] = "stopping" /\ stage[q] \in Events /\ stage[q] # "permission"
      BY <1>0, <2>4, <3>1 DEF EmitFinal, PromptAt
    <3>3. NewEvent(q, stage[q])
      BY <3>2 DEF NewEvent
    <3>4. QED
      BY <1>01, <2>4, <3>2, <3>3, OneMore DEF EmitFinal
  <2>5. QED
    BY <1>2, <2>1, <2>2, <2>3, <2>4 DEF PromptStep
<1>3. ASSUME NEW q \in Prompts, HeartbeatTick(q) \/ HeartbeatCeiling(q) \/ HeartbeatStop(q)
      PROVE  Goal
  BY <1>00, <1>3 DEF HeartbeatTick, HeartbeatCeiling, HeartbeatStop
<1>4. ASSUME NEW q \in Prompts, HeartbeatSend(q) PROVE Goal
  <2>1. CASE q \in closed
    BY <1>00, <1>4, <2>1 DEF HeartbeatSend
  <2>2. CASE q \notin closed
    BY <1>0, <1>01, <1>4, <2>2, OneMore DEF NewEvent, HeartbeatSend
  <2>3. QED
    BY <2>1, <2>2
<1>5. ASSUME NEW q \in Prompts, HandleStep(q) \/ HandleIdle(q) \/ Interrupt(q) PROVE Goal
  BY <1>5, ConsumerEvents DEF Goal
<1>6. ASSUME NEW i \in Procs, SendUpdate(i) PROVE Goal
  <2>1. CASE rlTo[i] \in closed
    BY <1>00, <1>6, <2>1 DEF SendUpdate
  <2>2. CASE rlTo[i] \notin closed
    BY <1>0, <1>01, <1>6, <2>2, OneMore DEF NewEvent, SendUpdate, Deliver
  <2>3. QED
    BY <2>1, <2>2
<1>7. ASSUME NEW i \in Procs, SendResponse(i) \/ ReadEOF(i) \/ ProcessExits(i) PROVE Goal
  BY <1>00, <1>7 DEF SendResponse, ReadEOF, ProcessExits
<1>8. ASSUME NEW i \in Procs, ReadGarbage(i) \/ ProcessReaped(i) PROVE Goal
  BY <1>01, <1>8, FailAllEvents DEF ReadGarbage, ProcessReaped
<1>9. ASSUME NEW i \in Procs, NEW s \in Sessions, ReadUpdate(i, s) \/ ReadPermission(i, s)
      PROVE  Goal
  BY <1>00, <1>9 DEF ReadUpdate, ReadPermission
<1>10. ASSUME NEW i \in Procs, NEW q \in Prompts, ReadResponse(i, q) PROVE Goal
  BY <1>00, <1>10 DEF ReadResponse
<1>11. ASSUME NEW s \in Sessions, PermissionStep(s) PROVE Goal
  <2>1. CASE PermissionLookup(s) \/ PermissionDecided(s)
    BY <1>00, <2>1 DEF PermissionLookup, PermissionDecided
  <2>2. CASE PermissionRaise(s)
    <3>1. CASE UNCHANGED chan
      BY <1>00, <2>2, <3>1 DEF PermissionRaise
    <3>2. CASE Send(permTo[s], "permission")
      BY <1>0, <1>01, <2>2, <3>2, OneMore DEF NewEvent, PermissionRaise
    <3>3. QED
      BY <2>2, <3>1, <3>2 DEF PermissionRaise
  <2>3. QED
    BY <1>11, <2>1, <2>2 DEF PermissionStep
<1>12. ASSUME UNCHANGED streamVars PROVE Goal
  BY <1>00, <1>12 DEF streamVars
<1>13. Goal
  BY <1>1, <1>2, <1>3, <1>4, <1>5, <1>6, <1>7, <1>8, <1>9, <1>10, <1>11, <1>12
     DEF StreamNext, HeartbeatStep, ReaderStep
<1>14. QED
  BY <1>13 DEF Goal

\* While p's events are consumed, what an event that stays has before it does not
\* change, and a new one has all there is before it.
LEMMA Progress ==
    ASSUME StreamTypeOK, StreamTypeOK', NEW p \in Prompts, EventStep(p), Consuming(p)'
    PROVE  /\ ByNow(p) \in Nat /\ ByNow(p)' \in Nat /\ ByNow(p) <= ByNow(p)'
           /\ \A k \in 1..Len(chan'[p]) :
                 \/ \E m \in 1..Len(chan[p]) :
                       chan'[p][k] = chan[p][m] /\ ByEvent(p, k)' = ByEvent(p, m)
                 \/ /\ NewEvent(p, chan'[p][k])
                    /\ ByEvent(p, k)' \in Nat /\ ByNow(p) <= ByEvent(p, k)'
<1> DEFINE c == chan[p]
           d == chan'[p]
           Old(k) == \E m \in 1..Len(c) : d[k] = c[m] /\ ByEvent(p, k)' = ByEvent(p, m)
<1>0. c \in Seq(Events) /\ d \in Seq(Events) /\ Len(c) \in Nat /\ Len(d) \in Nat
      /\ seen[p] \in Nat /\ seen'[p] \in Nat
  BY DEF StreamTypeOK
<1>1. ByNow(p) = seen[p] + UpTo(c, Len(c)) /\ ByNow(p)' = seen'[p] + UpTo(d, Len(d))
      /\ \A k : ByEvent(p, k) = seen[p] + UpTo(c, k) /\ ByEvent(p, k)' = seen'[p] + UpTo(d, k)
  BY DEF ByNow, ByEvent
<1>2. UpTo(c, Len(c)) \in Nat /\ UpTo(d, Len(d)) \in Nat
  BY <1>0, UpToIsNat
<1>3. ByNow(p) \in Nat /\ ByNow(p)' \in Nat
  BY <1>0, <1>1, <1>2
<1>4. CASE d = c /\ seen'[p] = seen[p]
  BY <1>1, <1>3, <1>4
<1>5. ASSUME NEW e \in Events, d = Append(c, e), seen'[p] = seen[p], NewEvent(p, e)
      PROVE  /\ ByNow(p) <= ByNow(p)'
             /\ \A k \in 1..Len(d) :
                   Old(k) \/ (NewEvent(p, d[k]) /\ ByEvent(p, k)' \in Nat /\ ByNow(p) <= ByEvent(p, k)')
  <2>1. Len(d) = Len(c) + 1 /\ d[Len(d)] = e /\ \A k \in 1..Len(c) : d[k] = c[k]
    BY <1>0, <1>5
  <2>2. UpTo(d, Len(d)) = UpTo(c, Len(c)) + Counts(e) /\ Counts(e) \in Nat
    BY <1>0, <1>5, <2>1, UpToAppend DEF Counts
  <2>3. ByNow(p) <= ByNow(p)'
    BY <1>0, <1>1, <1>2, <1>5, <2>2
  <2>4. ASSUME NEW k \in 1..Len(d), k # Len(d) PROVE Old(k)
    <3>1. k \in 1..Len(c) /\ k \in 0..Len(c)
      BY <1>0, <2>1, <2>4
    <3>2. UpTo(d, k) = UpTo(c, k)
      BY <1>0, <1>5, <3>1, UpToAppend
    <3>3. ByEvent(p, k)' = ByEvent(p, k) /\ d[k] = c[k]
      BY <1>1, <1>5, <2>1, <3>1, <3>2
    <3>4. QED
      BY <3>1, <3>3
  <2>5. ASSUME NEW k \in 1..Len(d), k = Len(d)
        PROVE  NewEvent(p, d[k]) /\ ByEvent(p, k)' \in Nat /\ ByNow(p) <= ByEvent(p, k)'
    <3>1. ByEvent(p, k)' = ByNow(p)'
      BY <1>1, <2>5
    <3>2. NewEvent(p, d[k])
      BY <1>5, <2>1, <2>5
    <3>3. QED
      BY <1>3, <2>3, <3>1, <3>2
  <2>6. QED
    BY <2>3, <2>4, <2>5
<1>6. CASE c # <<>> /\ d = Tail(c) /\ seen'[p] = seen[p] + Counts(Head(c))
  <2>1. Len(c) \in Nat \ {0} /\ Len(d) = Len(c) - 1 /\ \A k \in 1..Len(d) : d[k] = c[k + 1]
    BY <1>0, <1>6
  <2>2. \A k \in 0..Len(d) : UpTo(c, k + 1) = UpTo(d, k) + Counts(Head(c)) /\ UpTo(d, k) \in Nat
    <3>1. TAKE k \in 0..Len(d)
    <3>2. k \in 0..(Len(c) - 1) /\ k \in Nat
      BY <2>1
    <3>3. QED
      BY <1>0, <1>6, <3>2, UpToTail, UpToIsNat
  <2>3. Counts(Head(c)) \in Nat
    BY DEF Counts
  <2>4. \A k \in 0..Len(d) : ByEvent(p, k)' = ByEvent(p, k + 1)
    BY <1>0, <1>1, <1>6, <2>1, <2>2, <2>3
  <2>5. ByNow(p)' = ByNow(p)
    <3>1. Len(d) \in 0..Len(d) /\ Len(d) + 1 = Len(c)
      BY <2>1
    <3>2. QED
      BY <2>4, <3>1 DEF ByNow
  <2>6. ASSUME NEW k \in 1..Len(d) PROVE Old(k)
    <3>1. k + 1 \in 1..Len(c) /\ k \in 0..Len(d)
      BY <2>1
    <3>2. QED
      BY <2>1, <2>4, <3>1
  <2>7. QED
    BY <1>3, <2>5, <2>6
<1>7. QED
  BY <1>3, <1>4, <1>5, <1>6 DEF EventStep

\* The consumer takes an event that is not an update: what it has handled is all
\* there was before that event.
LEMMA HeadEvent ==
    ASSUME StreamTypeOK, NEW p \in Prompts, NEW e, e # "update", Received(p, e)
    PROVE  1 \in 1..Len(chan[p]) /\ chan[p][1] = e /\ ByEvent(p, 1) = seen[p]
<1>1. chan[p] \in Seq(Events) /\ chan[p] # <<>> /\ seen[p] \in Nat
  BY DEF StreamTypeOK, Received
<1>2. 1 \in 1..Len(chan[p]) /\ chan[p][1] = e /\ 0 \in 0..(Len(chan[p]) - 1)
  BY <1>1 DEF Received
<1>3. UpTo(chan[p], 0 + 1) = UpTo(Tail(chan[p]), 0) + Counts(Head(chan[p]))
  BY <1>1, <1>2, UpToTail
<1>4. UpTo(chan[p], 1) = 0
  BY <1>3, UpToNothing DEF Counts, Received
<1>5. QED
  BY <1>1, <1>2, <1>4 DEF ByEvent

\* A session's events, requests and decisions stay in the session.
SessionInv ==
    \A s \in Sessions :
       /\ subscribers[s] # NoPrompt => SessionOf[subscribers[s]] = s
       /\ permTo[s] # NoPrompt => SessionOf[permTo[s]] = s
       /\ owedAsk[s].prompt # NoPrompt =>
             SessionOf[owedAsk[s].prompt] = s /\ perm[s] # "none"

LEMMA SessionNext ==
    ASSUME StreamTypeOK, SessionInv, [StreamNext]_streamVars
    PROVE  SessionInv'
<1> USE DEF SessionInv, clientVars, permVars, histVars
<1>0. subscribers \in [Sessions -> Prompts \cup {NoPrompt}] /\ DOMAIN permTo = Sessions
      /\ DOMAIN perm = Sessions /\ DOMAIN owedAsk = Sessions /\ NoPrompt \notin Prompts
      /\ SessionOf \in [Prompts -> Sessions]
  BY StreamAssumption DEF StreamTypeOK
<1>1. ASSUME NEW p \in Prompts, StartPrompt(p) PROVE SessionInv'
  BY <1>0, <1>1 DEF StartPrompt
<1>2. ASSUME NEW p \in Prompts, PromptStep(p) PROVE SessionInv'
  <2>1. CASE Unsubscribe(p)
    BY <1>0, <2>1 DEF Unsubscribe, Detach
  <2>2. CASE CallStart(p) \/ CallFails(p) \/ CallWrite(p) \/ CallReturns(p)
    BY <2>2 DEF CallStart, CallFails, CallWrite, CallReturns
  <2>3. CASE EmitResult(p) \/ EmitFinal(p) \/ CloseEvents(p)
    BY <2>3 DEF EmitResult, EmitFinal, CloseEvents
  <2>4. QED
    BY <1>2, <2>1, <2>2, <2>3 DEF PromptStep
<1>3. ASSUME NEW p \in Prompts, HeartbeatTick(p) \/ HeartbeatCeiling(p) \/ HeartbeatStep(p)
      PROVE  SessionInv'
  BY <1>3 DEF HeartbeatTick, HeartbeatCeiling, HeartbeatStep, HeartbeatSend, HeartbeatStop
<1>4. ASSUME NEW p \in Prompts, HandleAnswer(p) PROVE SessionInv'
  BY <1>0, <1>4 DEF HandleAnswer
<1>5. ASSUME NEW p \in Prompts,
             \/ HandleEvent(p) \/ HandlePermission(p) \/ HandleEnds(p) \/ HandleDrain(p)
             \/ HandleIdle(p) \/ Interrupt(p)
      PROVE  SessionInv'
  BY <1>5 DEF HandleEvent, HandlePermission, HandleEnds, HandleDrain, HandleIdle, Interrupt
<1>6. ASSUME NEW i \in Procs,
             \/ ReaderStep(i) \/ ReadGarbage(i) \/ ReadEOF(i)
             \/ ProcessExits(i) \/ ProcessReaped(i)
      PROVE  SessionInv'
  BY <1>6 DEF ReaderStep, SendUpdate, SendResponse, ReadGarbage, ReadEOF, ProcessExits,
     ProcessReaped
<1>7. ASSUME NEW i \in Procs, NEW s \in Sessions, ReadUpdate(i, s) PROVE SessionInv'
  BY <1>7 DEF ReadUpdate
<1>8. ASSUME NEW i \in Procs, NEW s \in Sessions, ReadPermission(i, s) PROVE SessionInv'
  <2>1. perm'[s] = "spawned" /\ \A r \in Sessions : r # s => perm'[r] = perm[r]
    BY <1>0, <1>8 DEF ReadPermission
  <2>2. /\ owedAsk'[s].prompt \in {owedAsk[s].prompt, subscribers[s]}
        /\ \A r \in Sessions : r # s => owedAsk'[r] = owedAsk[r]
    BY <1>0, <1>8 DEF ReadPermission
  <2>3. UNCHANGED <<subscribers, permTo>>
    BY <1>8 DEF ReadPermission
  <2>4. QED
    BY <2>1, <2>2, <2>3
<1>9. ASSUME NEW i \in Procs, NEW p \in Prompts, ReadResponse(i, p) PROVE SessionInv'
  BY <1>9 DEF ReadResponse
<1>10. ASSUME NEW s \in Sessions, PermissionStep(s) PROVE SessionInv'
  <2>1. CASE PermissionLookup(s)
    BY <1>0, <2>1 DEF PermissionLookup, PermissionAt
  <2>2. CASE PermissionRaise(s)
    BY <1>0, <2>2 DEF PermissionRaise, PermissionAt
  <2>3. CASE PermissionDecided(s)
    BY <1>0, <2>3 DEF PermissionDecided, PermissionAt
  <2>4. QED
    BY <1>10, <2>1, <2>2, <2>3 DEF PermissionStep
<1>11. CASE UNCHANGED streamVars
  BY <1>11 DEF streamVars
<1>12. QED
  BY <1>1, <1>2, <1>3, <1>4, <1>5, <1>6, <1>7, <1>8, <1>9, <1>10, <1>11
     DEF StreamNext, HandleStep

\* The response of p has been read.
Answered(p) == (\E i \in Procs : Responding(i, p)) \/ reply[p] = "result"

\* A completion: every update counted for p is in its channel before it.
CompletionOf(p) ==
    /\ stage[p] \in {"new", "start", "write"} => owed[p] = 0
    /\ stage[p] \in {"result", "complete"} => reply[p] = "result"
    /\ Consuming(p) =>
          /\ asked[p] # 0 => owed[p] <= ByNow(p) + (IF InHand(p) THEN 1 ELSE 0)
          /\ Answered(p) => owed[p] <= ByNow(p)
          /\ \A k \in 1..Len(chan[p]) :
                chan[p][k] = "complete" =>
                   stage[p] \in {"stopping", "closing", "done"} /\ owed[p] <= ByEvent(p, k)

\* Any step but those of the call of p, and any that only makes it advance.
QuietCall(p) ==
    /\ UNCHANGED owed[p]
    /\ asked'[p] = 0 \/ (UNCHANGED asked[p] /\ (InHand(p) => InHand(p)'))
    /\ Answered(p)' => Answered(p)
    /\ stage'[p] \in {"new", "start", "write"} => stage[p] \in {"new", "start", "write"}
    /\ stage'[p] \in {"result", "complete"} => reply'[p] = "result"
    /\ stage[p] \in {"stopping", "closing", "done"} => stage'[p] \in {"stopping", "closing", "done"}

LEMMA QuietKeeps ==
    ASSUME StreamTypeOK, StreamTypeOK', StartInv, [StreamNext]_streamVars,
           NEW p \in Prompts, CompletionOf(p), QuietCall(p)
    PROVE  CompletionOf(p)'
<1>1. /\ stage'[p] \in {"new", "start", "write"} => owed'[p] = 0
      /\ stage'[p] \in {"result", "complete"} => reply'[p] = "result"
  BY DEF CompletionOf, QuietCall
<1>2. ASSUME Consuming(p)'
      PROVE  /\ asked'[p] # 0 => owed'[p] <= ByNow(p)' + (IF InHand(p)' THEN 1 ELSE 0)
             /\ Answered(p)' => owed'[p] <= ByNow(p)'
             /\ \A k \in 1..Len(chan'[p]) :
                   chan'[p][k] = "complete" =>
                      stage'[p] \in {"stopping", "closing", "done"} /\ owed'[p] <= ByEvent(p, k)'
  <2>1. Consuming(p) /\ EventStep(p)
    BY <1>2, EventNext
  <2>2. /\ ByNow(p) \in Nat /\ ByNow(p)' \in Nat /\ ByNow(p) <= ByNow(p)'
        /\ \A k \in 1..Len(chan'[p]) :
                 \/ \E m \in 1..Len(chan[p]) :
                       chan'[p][k] = chan[p][m] /\ ByEvent(p, k)' = ByEvent(p, m)
                 \/ /\ NewEvent(p, chan'[p][k])
                    /\ ByEvent(p, k)' \in Nat /\ ByNow(p) <= ByEvent(p, k)'
    BY <1>2, <2>1, Progress
  <2>3. owed[p] \in Nat /\ owed'[p] = owed[p]
    BY DEF StreamTypeOK, QuietCall
  <2>4. asked'[p] # 0 => owed'[p] <= ByNow(p)' + (IF InHand(p)' THEN 1 ELSE 0)
    BY <2>1, <2>2, <2>3 DEF CompletionOf, QuietCall
  <2>5. Answered(p)' => owed'[p] <= ByNow(p)'
    BY <2>1, <2>2, <2>3 DEF CompletionOf, QuietCall
  <2>6. ASSUME NEW k \in 1..Len(chan'[p]), chan'[p][k] = "complete"
        PROVE  stage'[p] \in {"stopping", "closing", "done"} /\ owed'[p] <= ByEvent(p, k)'
    <3>1. CASE \E m \in 1..Len(chan[p]) :
                  chan'[p][k] = chan[p][m] /\ ByEvent(p, k)' = ByEvent(p, m)
      BY <2>1, <2>3, <2>6, <3>1 DEF CompletionOf, QuietCall
    <3>2. CASE /\ NewEvent(p, chan'[p][k])
               /\ ByEvent(p, k)' \in Nat /\ ByNow(p) <= ByEvent(p, k)'
      <4>1. stage[p] = "complete" /\ stage'[p] = "stopping"
        BY <2>6, <3>2 DEF NewEvent
      <4>2. owed[p] <= ByNow(p)
        BY <2>1, <4>1 DEF CompletionOf, Answered
      <4>3. QED
        BY <2>2, <2>3, <3>2, <4>1, <4>2
    <3>3. QED
      BY <2>2, <3>1, <3>2
  <2>7. QED
    BY <2>4, <2>5, <2>6
<1>3. QED
  BY <1>1, <1>2 DEF CompletionOf

LEMMA UpdateArrives ==
    ASSUME StreamTypeOK, NEW p \in Prompts, Send(p, "update"), UNCHANGED seen[p]
    PROVE  ByNow(p)' = ByNow(p) + 1
<1>1. chan[p] \in Seq(Events) /\ chan'[p] = Append(chan[p], "update") /\ seen[p] \in Nat
      /\ "update" \in Events
  BY DEF StreamTypeOK, Send, Events
<1>2. Len(chan'[p]) = Len(chan[p]) + 1 /\ Len(chan[p]) \in Nat
  BY <1>1
<1>3. UpTo(chan'[p], Len(chan'[p])) = UpTo(chan[p], Len(chan[p])) + 1
  BY <1>1, <1>2, UpToAppend DEF Counts
<1>4. UpTo(chan[p], Len(chan[p])) \in Nat
  BY <1>2, UpToIsNat
<1>5. QED
  BY <1>1, <1>3, <1>4 DEF ByNow, ByEvent

\* An update the call is waiting for is counted when it is read, and in the channel
\* once it is sent.
LEMMA UpdateKeeps ==
    ASSUME StreamTypeOK, StreamTypeOK', StartInv, ResponseInv, [StreamNext]_streamVars,
           NEW p \in Prompts, CompletionOf(p), NEW i \in Procs,
           SendUpdate(i) \/ \E s \in Sessions : ReadUpdate(i, s)
    PROVE  CompletionOf(p)'
<1> USE DEF clientVars, turnVars, histVars
<1>0. /\ DOMAIN rlOp = Procs /\ DOMAIN rlTo = Procs /\ DOMAIN owed = Prompts
      /\ owed[p] \in Nat /\ seen[p] \in Nat /\ NoPrompt \notin Prompts
      /\ subscribers \in [Sessions -> Prompts \cup {NoPrompt}]
      /\ chan[p] \in Seq(Events)
  BY StreamAssumption DEF StreamTypeOK
<1>1. CASE SendUpdate(i)
  <2>1. CASE rlTo[i] \in closed
    <3>1. QuietCall(p)
      BY <1>1, <2>1 DEF SendUpdate, QuietCall, InHand, Answered, Responding, readVars,
         CompletionOf
    <3>2. QED
      BY <3>1, QuietKeeps
  <2>2. CASE rlTo[i] \notin closed
    <3>1. /\ rlOp[i] = "sending" /\ Send(rlTo[i], "update")
          /\ UNCHANGED <<stage, reply, asked, owed, seen, handle>>
          /\ \A j \in Procs : j # i => rlOp'[j] = rlOp[j] /\ rlTo'[j] = rlTo[j]
          /\ rlOp'[i] = "reading"
      BY <1>0, <1>1, <2>2 DEF SendUpdate, Deliver, Reader
    <3>2. Answered(p)' => Answered(p)
      BY <3>1 DEF Answered, Responding
    <3>3. CASE rlTo[i] # p \/ asked[p] # i
      <4>1. asked[p] \in Procs \cup {0}
        BY DEF StreamTypeOK
      <4>2. asked'[p] = 0 \/ (UNCHANGED asked[p] /\ (InHand(p) => InHand(p)'))
        BY <3>1, <3>3, <4>1 DEF InHand
      <4>3. QuietCall(p)
        BY <3>1, <3>2, <4>2 DEF QuietCall, CompletionOf
      <4>4. QED
        BY <4>3, QuietKeeps
    <3>4. CASE rlTo[i] = p /\ asked[p] = i
      <4>1. ByNow(p)' = ByNow(p) + 1 /\ EventStep(p) /\ (Consuming(p)' => Consuming(p))
        BY <3>1, <3>4, UpdateArrives, EventNext
      <4>2. ASSUME Consuming(p)'
            PROVE  /\ ByNow(p) \in Nat /\ owed[p] <= ByNow(p)'
                   /\ \A k \in 1..Len(chan'[p]) :
                         chan'[p][k] = "complete" =>
                            stage[p] \in {"stopping", "closing", "done"} /\ owed[p] <= ByEvent(p, k)'
        <5>1. ByNow(p) \in Nat
          BY <4>1, <4>2, Progress
        <5>2. owed[p] <= ByNow(p) + 1
          <6>1. CASE asked[p] = 0
            BY <3>4, <6>1 DEF Procs
          <6>2. CASE asked[p] # 0
            BY <3>1, <3>4, <4>1, <4>2, <6>2 DEF CompletionOf, InHand
          <6>3. QED
            BY <6>1, <6>2
        <5>3. ASSUME NEW k \in 1..Len(chan'[p]), chan'[p][k] = "complete"
              PROVE  stage[p] \in {"stopping", "closing", "done"} /\ owed[p] <= ByEvent(p, k)'
          <6>1. chan'[p] = Append(chan[p], "update") /\ seen'[p] = seen[p]
            BY <3>1, <3>4 DEF Send, StreamTypeOK
          <6>2. k \in 1..Len(chan[p]) /\ chan[p][k] = "complete"
            BY <1>0, <5>3, <6>1
          <6>3. UpTo(chan'[p], k) = UpTo(chan[p], k)
            BY <1>0, <6>1, <6>2, UpToAppend DEF Events
          <6>4. ByEvent(p, k)' = ByEvent(p, k)
            BY <6>1, <6>3 DEF ByEvent
          <6>5. QED
            BY <4>1, <4>2, <6>2, <6>4 DEF CompletionOf
        <5>4. QED
          BY <1>0, <4>1, <5>1, <5>2, <5>3
      <4>3. asked'[p] = i /\ owed'[p] = owed[p] /\ stage'[p] = stage[p] /\ reply'[p] = reply[p]
            /\ ~InHand(p)'
        BY <3>1, <3>4 DEF InHand
      <4>4. QED
        BY <1>0, <4>1, <4>2, <4>3 DEF CompletionOf
    <3>5. QED
      BY <3>3, <3>4
  <2>3. QED
    BY <2>1, <2>2
<1>2. ASSUME NEW s \in Sessions, ReadUpdate(i, s) PROVE CompletionOf(p)'
  <2>1. CASE subscribers[s] = NoPrompt
    <3>1. QuietCall(p)
      BY <1>2, <2>1 DEF ReadUpdate, QuietCall, InHand, Answered, Responding, readVars,
         CompletionOf
    <3>2. QED
      BY <3>1, QuietKeeps
  <2>2. CASE subscribers[s] # NoPrompt
    <3> DEFINE q == subscribers[s]
    <3>1. /\ rlOp[i] = "reading" /\ UNCHANGED <<stage, reply, asked, chan, seen, handle>>
          /\ rlOp'[i] = "sending" /\ rlTo'[i] = q
          /\ \A j \in Procs : j # i => rlOp'[j] = rlOp[j] /\ rlTo'[j] = rlTo[j]
          /\ owed' = [owed EXCEPT ![q] = IF q \in pending /\ asked[q] = i THEN @ + 1 ELSE @]
      BY <1>0, <1>2, <2>2 DEF ReadUpdate, Reading, Reader
    <3>2. Answered(p)' => Answered(p)
      BY <3>1 DEF Answered, Responding
    <3>3. asked[p] \in Procs \cup {0}
      BY DEF StreamTypeOK
    <3>4. CASE owed'[p] = owed[p]
      <4>1. asked'[p] = 0 \/ (InHand(p) => InHand(p)')
        BY <3>1, <3>3 DEF InHand
      <4>2. QuietCall(p)
        BY <3>1, <3>2, <3>4, <4>1 DEF QuietCall, CompletionOf
      <4>3. QED
        BY <4>2, QuietKeeps
    <3>5. CASE q = p /\ p \in pending /\ asked[p] = i
      <4>1. owed'[p] = owed[p] + 1 /\ ~InHand(p) /\ InHand(p)'
        BY <1>0, <3>1, <3>5 DEF InHand
      <4>2. stage[p] = "waiting" /\ ~Answered(p)
        BY <3>5 DEF ResponseInv, Answered
      <4>3. ByNow(p)' = ByNow(p) /\ (Consuming(p)' => Consuming(p))
            /\ \A k : ByEvent(p, k)' = ByEvent(p, k)
        BY <3>1 DEF ByNow, ByEvent, Consuming
      <4>4. ByNow(p) \in Nat
        <5>1. Len(chan[p]) \in Nat
          BY <1>0
        <5>2. QED
          BY <1>0, <5>1, UpToIsNat DEF ByNow, ByEvent
      <4>5. Consuming(p)' => /\ owed'[p] <= ByNow(p)' + 1
                             /\ \A k \in 1..Len(chan'[p]) : chan'[p][k] # "complete"
        <5>1. asked[p] # 0
          BY <3>5 DEF Procs
        <5>2. QED
          BY <1>0, <3>1, <4>1, <4>2, <4>3, <4>4, <5>1 DEF CompletionOf
      <4>6. stage'[p] = "waiting" /\ ~Answered(p)'
        BY <3>1, <3>2, <4>2
      <4>7. QED
        BY <4>1, <4>5, <4>6 DEF CompletionOf
    <3>6. QED
      BY <1>0, <3>1, <3>4, <3>5
  <2>3. QED
    BY <2>1, <2>2
<1>3. QED
  BY <1>1, <1>2

\* The goroutine of a prompt.
LEMMA PromptKeeps ==
    ASSUME StreamTypeOK, StreamTypeOK', StartInv, ResponseInv, [StreamNext]_streamVars,
           NEW p \in Prompts, CompletionOf(p), NEW q \in Prompts,
           StartPrompt(q) \/ PromptStep(q)
    PROVE  CompletionOf(p)'
<1> USE DEF clientVars, turnVars, histVars, readVars
<1>0. /\ DOMAIN stage = Prompts /\ DOMAIN asked = Prompts /\ DOMAIN rlOp = Procs
      /\ asked[p] \in Procs \cup {0} /\ owed[p] \in Nat
  BY DEF StreamTypeOK
<1>1. CASE UNCHANGED <<reply, readVars, asked, owed>>
  <2>1. ASSUME NEW label, PromptAt(q, label), stage[q] # "new" => label \notin {"new", "start"},
               label = "write" => stage[q] = "start",
               label \in {"result", "complete"} => reply[q] = "result",
               stage[q] \in {"stopping", "closing", "done"} => label \in {"closing", "done"}
        PROVE  CompletionOf(p)'
    <3>1. stage'[p] = IF p = q THEN label ELSE stage[p]
      BY <1>0, <2>1 DEF PromptAt
    <3>2. QuietCall(p)
      BY <1>1, <2>1, <3>1 DEF QuietCall, InHand, Answered, Responding, CompletionOf
    <3>3. QED
      BY <3>2, QuietKeeps
  <2>2. CASE StartPrompt(q)
    <3>1. stage'[p] = IF p = q THEN "start" ELSE stage[p]
      BY <1>0, <2>2 DEF PromptAt, StartPrompt
    <3>2. QuietCall(p)
      BY <1>1, <2>2, <3>1 DEF StartPrompt, QuietCall, InHand, Answered, Responding, CompletionOf
    <3>3. QED
      BY <3>2, QuietKeeps
  <2>3. CASE CallStart(q)
    BY <2>1, <2>3 DEF CallStart
  <2>4. CASE CallFails(q)
    BY <2>1, <2>4 DEF CallFails
  <2>5. CASE EmitResult(q)
    <3>1. CASE q = p
      <4>1. reply[q] = "result"
        BY <2>5, <3>1 DEF CompletionOf, EmitResult
      <4>2. QED
        BY <2>1, <2>5, <4>1 DEF EmitResult
    <3>2. CASE q # p
      <4>1. stage'[p] = stage[p]
        BY <2>5, <3>2 DEF EmitResult, PromptAt
      <4>2. QuietCall(p)
        BY <1>1, <4>1 DEF QuietCall, InHand, Answered, Responding, CompletionOf
      <4>3. QED
        BY <4>2, QuietKeeps
    <3>3. QED
      BY <3>1, <3>2
  <2>6. CASE EmitFinal(q)
    BY <2>1, <2>6 DEF EmitFinal
  <2>7. CASE Unsubscribe(q)
    BY <2>1, <2>7 DEF Unsubscribe
  <2>8. CASE CloseEvents(q)
    BY <2>1, <2>8 DEF CloseEvents
  <2>9. CASE UNCHANGED stage
    <3>1. QuietCall(p)
      BY <1>1, <2>9 DEF QuietCall, InHand, Answered, Responding, CompletionOf
    <3>2. QED
      BY <3>1, QuietKeeps
  <2>10. CASE CallWrite(q)
    <3>1. CASE proc = 0
      BY <2>9, <2>10, <3>1 DEF CallWrite
    <3>2. CASE proc # 0
      BY <1>0, <1>1, <2>1, <2>10, <3>2 DEF CallWrite
    <3>3. QED
      BY <3>1, <3>2
  <2>11. CASE CallReturns(q)
    BY <2>1, <2>11 DEF CallReturns
  <2>12. QED
    BY <2>2, <2>3, <2>4, <2>5, <2>6, <2>7, <2>8, <2>10, <2>11 DEF PromptStep
<1>2. CASE CallStart(q)
  <2>1. stage'[p] \in {"write", stage[p]} /\ (stage'[p] = "write" => stage[p] \in {"start", "write"})
        /\ UNCHANGED <<reply, asked, owed, rlTo>>
    BY <1>0, <1>2 DEF CallStart, PromptAt
  <2>2. \A i \in Procs : rlOp'[i] = rlOp[i] \/ (rlOp[i] = "off" /\ rlOp'[i] = "reading")
    BY <1>0, <1>2 DEF CallStart, StartInv
  <2>3. stage[p] \in {"stopping", "closing", "done"} => stage'[p] = stage[p]
    BY <1>0, <1>2 DEF CallStart, PromptAt
  <2>4. QuietCall(p)
    BY <1>0, <2>1, <2>2, <2>3 DEF QuietCall, InHand, Answered, Responding, CompletionOf
  <2>5. QED
    BY <2>4, QuietKeeps
<1>3. CASE CallWrite(q) /\ proc # 0
  <2>1. /\ UNCHANGED <<reply, owed, rlOp, rlTo, chan, seen, handle>>
        /\ stage'[p] = IF p = q THEN "waiting" ELSE stage[p]
        /\ asked'[p] = IF p = q THEN proc ELSE asked[p]
        /\ stage[q] = "write"
    BY <1>0, <1>3 DEF CallWrite, PromptAt
  <2>2. CASE q # p
    <3>1. QuietCall(p)
      BY <2>1, <2>2 DEF QuietCall, InHand, Answered, Responding, CompletionOf
    <3>2. QED
      BY <3>1, QuietKeeps
  <2>3. CASE q = p
    <3>1. ByNow(p)' \in Nat
      <4>1. chan'[p] \in Seq(Events) /\ seen'[p] \in Nat /\ Len(chan'[p]) \in Nat
        BY DEF StreamTypeOK
      <4>2. UpTo(chan'[p], Len(chan'[p])) \in Nat
        BY <4>1, UpToIsNat
      <4>3. QED
        BY <4>1, <4>2 DEF ByNow, ByEvent
    <3>2. owed'[p] = 0 /\ stage'[p] = "waiting"
      BY <2>1, <2>3 DEF CompletionOf
    <3>3. Consuming(p)' => \A k \in 1..Len(chan'[p]) : chan'[p][k] # "complete"
      BY <2>1, <2>3 DEF CompletionOf, Consuming
    <3>4. QED
      BY <3>1, <3>2, <3>3 DEF CompletionOf
  <2>4. QED
    BY <2>2, <2>3
<1>4. CASE CallReturns(q)
  <2>1. /\ UNCHANGED <<reply, owed, rlOp, rlTo>>
        /\ stage[q] = "waiting"
        /\ asked'[p] = IF p = q THEN 0 ELSE asked[p]
        /\ p # q => stage'[p] = stage[p]
        /\ p = q => stage'[p] = "error" \/ (stage'[p] = "result" /\ reply[p] = "result")
    BY <1>0, <1>4 DEF CallReturns, PromptAt
  <2>2. QuietCall(p)
    BY <2>1 DEF QuietCall, InHand, Answered, Responding, CompletionOf
  <2>3. QED
    BY <2>2, QuietKeeps
<1>5. QED
  BY <1>1, <1>2, <1>3, <1>4 DEF PromptStep, StartPrompt, CallFails, CallWrite, EmitResult,
     EmitFinal, Unsubscribe, CloseEvents

\* The other messages of the agent, and its exit.
LEMMA ReaderKeeps ==
    ASSUME StreamTypeOK, StreamTypeOK', StartInv, ResponseInv, [StreamNext]_streamVars,
           NEW p \in Prompts, CompletionOf(p), NEW i \in Procs,
           \/ SendResponse(i) \/ ReadGarbage(i) \/ ReadEOF(i) \/ ProcessReaped(i)
           \/ \E q \in Prompts : ReadResponse(i, q)
    PROVE  CompletionOf(p)'
<1> USE DEF clientVars, turnVars, histVars, readVars
<1>0. /\ DOMAIN rlOp = Procs /\ DOMAIN rlTo = Procs /\ DOMAIN reply = Prompts
      /\ asked[p] \in Procs \cup {0} /\ owed[p] \in Nat
  BY DEF StreamTypeOK
<1>1. ASSUME UNCHANGED <<stage, asked, owed>>, rlOp[i] # "sending" \/ UNCHANGED readVars,
             \A j \in Procs : j # i => rlOp'[j] = rlOp[j] /\ rlTo'[j] = rlTo[j],
             Answered(p)' => Answered(p), reply[p] = "result" => reply'[p] = "result"
      PROVE  CompletionOf(p)'
  <2>1. asked'[p] = 0 \/ (InHand(p) => InHand(p)')
    BY <1>0, <1>1 DEF InHand
  <2>2. QuietCall(p)
    BY <1>1, <2>1 DEF QuietCall, CompletionOf
  <2>3. QED
    BY <2>2, QuietKeeps
<1>2. CASE SendResponse(i)
  <2>1. /\ rlOp[i] = "responding" /\ rlTo[i] \in Prompts /\ reply[rlTo[i]] = "none"
        /\ UNCHANGED <<stage, asked, owed>>
        /\ rlOp'[i] = "reading"
        /\ \A j \in Procs : j # i => rlOp'[j] = rlOp[j] /\ rlTo'[j] = rlTo[j]
    BY <1>0, <1>2 DEF SendResponse, Reader, ResponseInv, Responding
  <2>2. p # rlTo[i] => reply'[p] = reply[p]
    BY <1>0, <1>2, <2>1 DEF SendResponse, Respond
  <2>3. reply[p] = "result" => reply'[p] = "result"
    BY <2>1, <2>2
  <2>4. Answered(p)' => Answered(p)
    BY <2>1, <2>2 DEF Answered, Responding
  <2>5. QED
    BY <1>1, <2>1, <2>3, <2>4
<1>3. CASE ReadGarbage(i) \/ ProcessReaped(i)
  <2>1. reply'[p] = reply[p] \/ (reply[p] = "none" /\ reply'[p] = "failed")
    BY <1>3 DEF ReadGarbage, ProcessReaped, FailAll
  <2>2. CASE ReadGarbage(i)
    <3>1. /\ UNCHANGED <<stage, asked, owed>> /\ rlOp[i] = "reading" /\ rlOp'[i] = "eof"
          /\ \A j \in Procs : j # i => rlOp'[j] = rlOp[j] /\ rlTo'[j] = rlTo[j]
      BY <1>0, <2>2 DEF ReadGarbage, Reading, Reader
    <3>2. Answered(p)' => Answered(p)
      BY <2>1, <3>1 DEF Answered, Responding
    <3>3. QED
      BY <1>1, <2>1, <3>1, <3>2
  <2>3. CASE ProcessReaped(i)
    <3>1. UNCHANGED <<stage, asked, owed, rlOp, rlTo>>
      BY <2>3 DEF ProcessReaped
    <3>2. Answered(p)' => Answered(p)
      BY <2>1, <3>1 DEF Answered, Responding
    <3>3. QED
      BY <1>1, <2>1, <3>1, <3>2
  <2>4. QED
    BY <1>3, <2>2, <2>3
<1>4. CASE ReadEOF(i)
  <2>1. /\ UNCHANGED <<stage, asked, owed, reply>> /\ rlOp[i] = "reading" /\ rlOp'[i] = "eof"
        /\ \A j \in Procs : j # i => rlOp'[j] = rlOp[j] /\ rlTo'[j] = rlTo[j]
    BY <1>0, <1>4 DEF ReadEOF, Reading, Reader
  <2>2. Answered(p)' => Answered(p)
    BY <2>1 DEF Answered, Responding
  <2>3. QED
    BY <1>1, <2>1, <2>2
<1>5. ASSUME NEW q \in Prompts, ReadResponse(i, q) PROVE CompletionOf(p)'
  <2>1. /\ UNCHANGED <<stage, asked, owed, reply, chan, seen, handle>>
        /\ rlOp[i] = "reading" /\ rlOp'[i] = "responding" /\ rlTo'[i] = q
        /\ \A j \in Procs : j # i => rlOp'[j] = rlOp[j] /\ rlTo'[j] = rlTo[j]
        /\ q \in pending /\ asked[q] = i
    BY <1>0, <1>5 DEF ReadResponse, Reading, Reader
  <2>2. CASE q # p
    <3>1. Answered(p)' => Answered(p)
      BY <2>1, <2>2 DEF Answered, Responding
    <3>2. QED
      BY <1>1, <2>1, <3>1
  <2>3. CASE q = p
    <3>1. ~InHand(p) /\ asked[p] # 0
      BY <2>1, <2>3 DEF InHand, Procs
    <3>2. UNCHANGED <<ByNow(p), Consuming(p)>> /\ \A k : ByEvent(p, k)' = ByEvent(p, k)
      BY <2>1 DEF ByNow, ByEvent, Consuming
    <3>3. ~InHand(p)' /\ stage[p] = "waiting"
      BY <2>1, <2>3 DEF InHand, ResponseInv
    <3>4. Consuming(p)' => owed'[p] <= ByNow(p)'
      <4>1. ByNow(p) \in Nat
        <5>1. chan[p] \in Seq(Events) /\ seen[p] \in Nat /\ Len(chan[p]) \in Nat
          BY DEF StreamTypeOK
        <5>2. UpTo(chan[p], Len(chan[p])) \in Nat
          BY <5>1, UpToIsNat
        <5>3. QED
          BY <5>1, <5>2 DEF ByNow, ByEvent
      <4>2. Consuming(p) => owed[p] <= ByNow(p) + 0
        BY <3>1 DEF CompletionOf
      <4>3. QED
        BY <1>0, <2>1, <3>2, <4>1, <4>2
    <3>5. Consuming(p)' => \A k \in 1..Len(chan'[p]) : chan'[p][k] # "complete"
      BY <2>1, <3>2, <3>3 DEF CompletionOf
    <3>6. ByNow(p)' \in Nat
      <4>1. chan'[p] \in Seq(Events) /\ seen'[p] \in Nat /\ Len(chan'[p]) \in Nat
        BY DEF StreamTypeOK
      <4>2. UpTo(chan'[p], Len(chan'[p])) \in Nat
        BY <4>1, UpToIsNat
      <4>3. QED
        BY <4>1, <4>2 DEF ByNow, ByEvent
    <3>7. QED
      BY <1>0, <2>1, <3>3, <3>4, <3>5, <3>6 DEF CompletionOf
  <2>4. QED
    BY <2>2, <2>3
<1>6. QED
  BY <1>2, <1>3, <1>4, <1>5

CompletionInv == \A p \in Prompts : CompletionOf(p)

LEMMA CompletionNext ==
    ASSUME StreamTypeOK, StreamTypeOK', StartInv, ResponseInv, CompletionInv,
           [StreamNext]_streamVars
    PROVE  CompletionInv'
<1> SUFFICES ASSUME NEW p \in Prompts PROVE CompletionOf(p)'
  BY DEF CompletionInv
<1>0. CompletionOf(p)
  BY DEF CompletionInv
<1>1. ASSUME UNCHANGED <<stage, reply, readVars, asked, owed>> PROVE CompletionOf(p)'
  <2>1. QuietCall(p)
    BY <1>0, <1>1 DEF QuietCall, InHand, Answered, Responding, CompletionOf, readVars
  <2>2. QED
    BY <1>0, <2>1, QuietKeeps
<1> USE DEF turnVars, histVars
<1>2. ASSUME NEW q \in Prompts, StartPrompt(q) \/ PromptStep(q) PROVE CompletionOf(p)'
  BY <1>0, <1>2, PromptKeeps
<1>3. ASSUME NEW q \in Prompts, HeartbeatTick(q) \/ HeartbeatCeiling(q) \/ HeartbeatStep(q)
      PROVE  CompletionOf(p)'
  BY <1>1, <1>3 DEF HeartbeatTick, HeartbeatCeiling, HeartbeatStep, HeartbeatSend, HeartbeatStop
<1>4. ASSUME NEW q \in Prompts, HandleStep(q) \/ HandleIdle(q) \/ Interrupt(q)
      PROVE  CompletionOf(p)'
  BY <1>1, <1>4 DEF HandleStep, HandleEvent, HandlePermission, HandleAnswer, HandleEnds,
     HandleDrain, HandleIdle, Interrupt
<1>5. ASSUME NEW i \in Procs, SendUpdate(i) \/ \E s \in Sessions : ReadUpdate(i, s)
      PROVE  CompletionOf(p)'
  BY <1>0, <1>5, UpdateKeeps
<1>6. ASSUME NEW i \in Procs,
             \/ SendResponse(i) \/ ReadGarbage(i) \/ ReadEOF(i) \/ ProcessReaped(i)
             \/ \E q \in Prompts : ReadResponse(i, q)
      PROVE  CompletionOf(p)'
  BY <1>0, <1>6, ReaderKeeps
<1>7. ASSUME NEW i \in Procs, ProcessExits(i) PROVE CompletionOf(p)'
  BY <1>1, <1>7 DEF ProcessExits
<1>8. ASSUME NEW i \in Procs, NEW s \in Sessions, ReadPermission(i, s) PROVE CompletionOf(p)'
  BY <1>1, <1>8 DEF ReadPermission
<1>9. ASSUME NEW s \in Sessions, PermissionStep(s) PROVE CompletionOf(p)'
  BY <1>1, <1>9 DEF PermissionStep, PermissionLookup, PermissionRaise, PermissionDecided
<1>10. ASSUME UNCHANGED streamVars PROVE CompletionOf(p)'
  BY <1>1, <1>10 DEF streamVars
<1>11. QED
  BY <1>2, <1>3, <1>4, <1>5, <1>6, <1>7, <1>8, <1>9, <1>10 DEF StreamNext, ReaderStep

\* A consumer is asked, and will be asked, only what the agent has requested.
Requested(p) ==
    Consuming(p) /\ (handle[p] = "asking" \/ \E k \in 1..Len(chan[p]) : chan[p][k] = "permission")
       => perm[SessionOf[p]] # "none"

\* A permission request: every update read before it is in the channel before it.
RequestOf(s, p) ==
    p = owedAsk[s].prompt /\ Consuming(p) =>
       /\ owedAsk[s].updates <= ByNow(p)
       /\ \A k \in 1..Len(chan[p]) :
             chan[p][k] = "permission" => owedAsk[s].updates <= ByEvent(p, k)
       /\ handle[p] = "asking" => owedAsk[s].updates <= seen[p]

RequestInv == \A p \in Prompts : Requested(p) /\ \A s \in Sessions : RequestOf(s, p)

\* Who asks, who requests and what a request remembers.
LEMMA RequestStep ==
    ASSUME StreamTypeOK, [StreamNext]_streamVars, NEW p \in Prompts, NEW s \in Sessions
    PROVE  /\ perm[s] # "none" => perm'[s] # "none"
           /\ handle'[p] = "asking" => handle[p] = "asking" \/ HandlePermission(p)
           /\ UNCHANGED owedAsk[s] \/ \E i \in Procs : ReadPermission(i, s)
<1> DEFINE Goal == /\ perm[s] # "none" => perm'[s] # "none"
                   /\ handle'[p] = "asking" => handle[p] = "asking" \/ HandlePermission(p)
                   /\ UNCHANGED owedAsk[s] \/ \E i \in Procs : ReadPermission(i, s)
<1>0. DOMAIN handle = Prompts /\ DOMAIN perm = Sessions /\ DOMAIN owedAsk = Sessions
  BY DEF StreamTypeOK
<1>00. UNCHANGED <<perm, handle, owedAsk>> => Goal
  OBVIOUS
<1> HIDE DEF Goal
<1> USE DEF turnVars, permVars, histVars
<1>1. ASSUME NEW q \in Prompts, StartPrompt(q) PROVE Goal
  BY <1>0, <1>1 DEF StartPrompt, Goal
<1>2. ASSUME NEW q \in Prompts, PromptStep(q) PROVE Goal
  BY <1>00, <1>2 DEF PromptStep, CallStart, CallFails, CallWrite, CallReturns, EmitResult,
     EmitFinal, Unsubscribe, CloseEvents
<1>3. ASSUME NEW q \in Prompts, HeartbeatTick(q) \/ HeartbeatCeiling(q) \/ HeartbeatStep(q)
      PROVE  Goal
  BY <1>00, <1>3 DEF HeartbeatTick, HeartbeatCeiling, HeartbeatStep, HeartbeatSend, HeartbeatStop
<1>4. ASSUME NEW q \in Prompts,
             \/ HandleEvent(q) \/ HandleEnds(q) \/ HandleDrain(q)
             \/ HandleIdle(q) \/ Interrupt(q)
      PROVE  Goal
  BY <1>0, <1>4 DEF HandleEvent, HandleEnds, HandleDrain, HandleIdle, Interrupt, HandleAt,
     HandleReturns, Goal
<1>5. ASSUME NEW q \in Prompts, HandlePermission(q) PROVE Goal
  <2>1. CASE q = p
    BY <1>5, <2>1 DEF HandlePermission, Goal
  <2>2. CASE q # p
    BY <1>0, <1>5, <2>2 DEF HandlePermission, HandleAt, Goal
  <2>3. QED
    BY <2>1, <2>2
<1>6. ASSUME NEW q \in Prompts, HandleAnswer(q) PROVE Goal
  BY <1>0, <1>6 DEF HandleAnswer, HandleAt, Goal
<1>7. ASSUME NEW i \in Procs,
             \/ ReaderStep(i) \/ ReadGarbage(i) \/ ReadEOF(i)
             \/ ProcessExits(i) \/ ProcessReaped(i)
      PROVE  Goal
  BY <1>00, <1>7 DEF ReaderStep, SendUpdate, SendResponse, ReadGarbage, ReadEOF, ProcessExits,
     ProcessReaped
<1>8. ASSUME NEW i \in Procs, NEW r \in Sessions, ReadUpdate(i, r) PROVE Goal
  BY <1>00, <1>8 DEF ReadUpdate
<1>9. ASSUME NEW i \in Procs, NEW r \in Sessions, ReadPermission(i, r) PROVE Goal
  <2>1. perm[s] # "none" => perm'[s] # "none"
    BY <1>0, <1>9 DEF ReadPermission
  <2>2. UNCHANGED handle
    BY <1>9 DEF ReadPermission
  <2>3. CASE r = s
    BY <1>9, <2>1, <2>2, <2>3 DEF Goal
  <2>4. CASE r # s
    <3>1. UNCHANGED owedAsk[s]
      BY <1>0, <1>9, <2>4 DEF ReadPermission
    <3>2. QED
      BY <2>1, <2>2, <3>1 DEF Goal
  <2>5. QED
    BY <2>3, <2>4
<1>10. ASSUME NEW i \in Procs, NEW q \in Prompts, ReadResponse(i, q) PROVE Goal
  BY <1>00, <1>10 DEF ReadResponse
<1>11. ASSUME NEW r \in Sessions, PermissionStep(r) PROVE Goal
  BY <1>0, <1>11 DEF PermissionStep, PermissionLookup, PermissionRaise, PermissionDecided,
     PermissionAt, Goal
<1>12. ASSUME UNCHANGED streamVars PROVE Goal
  BY <1>00, <1>12 DEF streamVars
<1>13. Goal
  BY <1>1, <1>2, <1>3, <1>4, <1>5, <1>6, <1>7, <1>8, <1>9, <1>10, <1>11, <1>12
     DEF StreamNext, HandleStep
<1>14. QED
  BY <1>13 DEF Goal

LEMMA RequestNext ==
    ASSUME StreamTypeOK, StreamTypeOK', StartInv, SessionInv, CompletionInv, RequestInv,
           [StreamNext]_streamVars
    PROVE  RequestInv'
<1> SUFFICES ASSUME NEW p \in Prompts
             PROVE  Requested(p)' /\ \A s \in Sessions : RequestOf(s, p)'
  BY DEF RequestInv
<1> SUFFICES ASSUME Consuming(p)'
             PROVE  Requested(p)' /\ \A s \in Sessions : RequestOf(s, p)'
  BY DEF Requested, RequestOf
<1>1. Consuming(p) /\ EventStep(p)
  BY EventNext
<1>2. /\ ByNow(p) \in Nat /\ ByNow(p)' \in Nat /\ ByNow(p) <= ByNow(p)'
      /\ \A k \in 1..Len(chan'[p]) :
               \/ \E m \in 1..Len(chan[p]) :
                     chan'[p][k] = chan[p][m] /\ ByEvent(p, k)' = ByEvent(p, m)
               \/ /\ NewEvent(p, chan'[p][k])
                  /\ ByEvent(p, k)' \in Nat /\ ByNow(p) <= ByEvent(p, k)'
  BY <1>1, Progress
<1>3. Requested(p) /\ \A s \in Sessions : RequestOf(s, p)
  BY DEF RequestInv
<1>4. SessionOf[p] \in Sessions /\ p # NoPrompt
  BY StreamAssumption
<1>5. HandlePermission(p) =>
         \E m \in 1..Len(chan[p]) : chan[p][m] = "permission" /\ ByEvent(p, m) = seen[p]
  BY HeadEvent DEF HandlePermission
<1>6. Requested(p)'
  <2>1. perm[SessionOf[p]] # "none" => perm'[SessionOf[p]] # "none"
    BY <1>4, RequestStep
  <2>2. CASE handle'[p] = "asking"
    <3>1. handle[p] = "asking" \/ \E m \in 1..Len(chan[p]) : chan[p][m] = "permission"
      BY <1>4, <1>5, <2>2, RequestStep
    <3>2. QED
      BY <1>1, <1>3, <2>1, <3>1 DEF Requested
  <2>3. ASSUME NEW k \in 1..Len(chan'[p]), chan'[p][k] = "permission"
        PROVE  perm'[SessionOf[p]] # "none"
    <3>1. CASE \E m \in 1..Len(chan[p]) : chan[p][m] = "permission"
      BY <1>1, <1>3, <2>1, <3>1 DEF Requested
    <3>2. CASE NewEvent(p, "permission")
      <4>1. PICK s \in Sessions : perm[s] = "held" /\ permTo[s] = p
        BY <3>2 DEF NewEvent
      <4>2. SessionOf[p] = s
        BY <1>4, <4>1 DEF SessionInv
      <4>3. QED
        BY <2>1, <4>1, <4>2
    <3>3. QED
      BY <1>2, <2>3, <3>1, <3>2
  <2>4. QED
    BY <2>2, <2>3 DEF Requested
<1>7. ASSUME NEW s \in Sessions PROVE RequestOf(s, p)'
  <2>0. owedAsk[s].updates \in Nat /\ owed[p] \in Nat /\ seen[p] \in Nat
    BY DEF StreamTypeOK
  <2>1. CASE UNCHANGED owedAsk[s]
    <3> SUFFICES ASSUME p = owedAsk[s].prompt
                 PROVE  /\ owedAsk[s].updates <= ByNow(p)'
                        /\ \A k \in 1..Len(chan'[p]) :
                              chan'[p][k] = "permission" => owedAsk[s].updates <= ByEvent(p, k)'
                        /\ handle'[p] = "asking" => owedAsk[s].updates <= seen'[p]
      BY <2>1 DEF RequestOf
    <3>1. /\ owedAsk[s].updates <= ByNow(p)
          /\ \A k \in 1..Len(chan[p]) :
                chan[p][k] = "permission" => owedAsk[s].updates <= ByEvent(p, k)
          /\ handle[p] = "asking" => owedAsk[s].updates <= seen[p]
      BY <1>1, <1>3 DEF RequestOf
    <3>2. owedAsk[s].updates <= ByNow(p)'
      BY <1>2, <2>0, <3>1
    <3>3. ASSUME NEW k \in 1..Len(chan'[p]), chan'[p][k] = "permission"
          PROVE  owedAsk[s].updates <= ByEvent(p, k)'
      <4>1. CASE \E m \in 1..Len(chan[p]) :
                    chan'[p][k] = chan[p][m] /\ ByEvent(p, k)' = ByEvent(p, m)
        BY <3>1, <3>3, <4>1
      <4>2. CASE ByEvent(p, k)' \in Nat /\ ByNow(p) <= ByEvent(p, k)'
        BY <1>2, <2>0, <3>1, <4>2
      <4>3. QED
        BY <1>2, <4>1, <4>2
    <3>4. ASSUME handle'[p] = "asking" PROVE owedAsk[s].updates <= seen'[p]
      <4>1. CASE HandlePermission(p)
        <5>1. seen'[p] = seen[p]
          BY <4>1 DEF HandlePermission, histVars
        <5>2. QED
          BY <1>5, <3>1, <4>1, <5>1
      <4>2. CASE handle[p] = "asking"
        <5>1. seen'[p] = seen[p]
          BY <1>1, <4>2 DEF EventStep
        <5>2. QED
          BY <3>1, <4>2, <5>1
      <4>3. QED
        BY <3>4, <4>1, <4>2, RequestStep
    <3>5. QED
      BY <3>2, <3>3, <3>4
  <2>2. ASSUME NEW i \in Procs, ReadPermission(i, s) PROVE RequestOf(s, p)'
    <3>1. rlOp[i] = "reading" /\ perm[s] = "none" /\ UNCHANGED <<chan, seen, handle>>
          /\ owedAsk'[s] = IF subscribers[s] = NoPrompt THEN owedAsk[s]
                ELSE [prompt |-> subscribers[s],
                      updates |-> IF asked[subscribers[s]] = i THEN owed[subscribers[s]] ELSE 0]
      BY <2>2 DEF ReadPermission, Reading, turnVars, StreamTypeOK
    <3>2. CASE subscribers[s] = NoPrompt
      BY <2>1, <3>1, <3>2
    <3>3. CASE subscribers[s] # NoPrompt /\ subscribers[s] # p
      BY <3>1, <3>3 DEF RequestOf
    <3>4. CASE subscribers[s] = p
      <4>1. perm[SessionOf[p]] = "none"
        BY <1>4, <3>1, <3>4 DEF SessionInv
      <4>2. handle'[p] # "asking" /\ \A k \in 1..Len(chan'[p]) : chan'[p][k] # "permission"
        BY <1>1, <1>3, <3>1, <4>1 DEF Requested
      <4>3. owedAsk'[s].updates = IF asked[p] = i THEN owed[p] ELSE 0
        BY <1>4, <3>1, <3>4
      <4>4. owedAsk'[s].updates <= ByNow(p)'
        <5>1. CASE asked[p] = i
          <6>1. asked[p] # 0 /\ ~InHand(p)
            BY <3>1, <5>1 DEF InHand, Procs
          <6>2. owed[p] <= ByNow(p) + 0
            BY <1>1, <6>1 DEF CompletionInv, CompletionOf
          <6>3. QED
            BY <1>2, <2>0, <4>3, <5>1, <6>2
        <5>2. CASE asked[p] # i
          BY <1>2, <4>3, <5>2
        <5>3. QED
          BY <5>1, <5>2
      <4>5. QED
        BY <4>2, <4>4 DEF RequestOf
    <3>5. QED
      BY <3>2, <3>3, <3>4
  <2>3. QED
    BY <2>1, <2>2, RequestStep
<1>8. QED
  BY <1>6, <1>7

\* The turn's completion and the agent's permission request reach the consumer after
\* every update the same process wrote for the turn before them, whatever the prompts,
\* the processes started in between and the capacity of the channels.
THEOREM UpdatesComeFirst == StreamSpec => []NothingOvertaken
<1> DEFINE IInv == StartInv /\ SessionInv /\ CompletionInv /\ RequestInv
<1>1. StreamInit => IInv
  <2> SUFFICES ASSUME StreamInit PROVE IInv
    OBVIOUS
  <2>1. StartInv /\ SessionInv
    BY DEF StreamInit, StartInv, SessionInv
  <2>2. ASSUME NEW p \in Prompts PROVE CompletionOf(p) /\ Requested(p)
    <3>1. ByNow(p) = 0
      BY UpToNothing DEF StreamInit, ByNow, ByEvent
    <3>2. stage[p] = "new" /\ owed[p] = 0 /\ asked[p] = 0 /\ chan[p] = <<>> /\ handle[p] = "off"
      BY DEF StreamInit
    <3>3. QED
      BY <3>1, <3>2 DEF CompletionOf, Requested
  <2>3. ASSUME NEW p \in Prompts, NEW s \in Sessions PROVE RequestOf(s, p)
    BY StreamAssumption DEF StreamInit, RequestOf
  <2>4. QED
    BY <2>1, <2>2, <2>3 DEF CompletionInv, RequestInv
<1>2. StreamTypeOK /\ StreamTypeOK' /\ ResponseInv /\ IInv /\ [StreamNext]_streamVars => IInv'
  BY StartNext, SessionNext, CompletionNext, RequestNext
<1>3. StreamTypeOK /\ IInv => NothingOvertaken
  <2> SUFFICES ASSUME StreamTypeOK, IInv PROVE NothingOvertaken
    OBVIOUS
  <2>1. ASSUME NEW p \in Prompts, handle[p] = "reading", Received(p, "complete")
        PROVE  seen[p] >= owed[p]
    <3>1. owed[p] <= ByEvent(p, 1)
      BY <2>1, HeadEvent DEF CompletionInv, CompletionOf, Consuming
    <3>2. ByEvent(p, 1) = seen[p] /\ owed[p] \in Nat /\ seen[p] \in Nat
      BY <2>1, HeadEvent DEF StreamTypeOK
    <3>3. QED
      BY <3>1, <3>2
  <2>2. ASSUME NEW s \in Sessions, NEW p, p = owedAsk[s].prompt, p # NoPrompt,
               handle[p] = "asking"
        PROVE  seen[p] >= owedAsk[s].updates
    <3>1. p \in Prompts /\ owedAsk[s].updates \in Nat
      BY <2>2 DEF StreamTypeOK
    <3>2. owedAsk[s].updates <= seen[p] /\ seen[p] \in Nat
      BY <2>2, <3>1 DEF RequestInv, RequestOf, Consuming, StreamTypeOK
    <3>3. QED
      BY <3>1, <3>2
  <2>3. QED
    BY <2>1, <2>2 DEF NothingOvertaken
<1>4. QED
  BY <1>1, <1>2, <1>3, StreamTypeCorrect, ResolvesOnce, PTL DEF StreamSpec
=============================================================================
