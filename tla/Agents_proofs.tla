----------------------------- MODULE Agents_proofs -----------------------------
(***************************************************************************)
(* Proofs about what serves an agent and what hands it work: the bridge to  *)
(* Murtaugh's tools (Bridge) and the delegation of a job or a rule          *)
(* (Delegation).                                                           *)
(***************************************************************************)
EXTENDS Bridge, Delegation, TLAPS

(* -------------------------------- the bridge --------------------------- *)

AllTools(up) == Builtins \cup UNION {Remote[r] : r \in up}

\* No session is registered before the third-party servers were opened, for all sessions
\* at once.
OpenedOnce ==
    /\ DOMAIN tokens \subseteq Sessions /\ DOMAIN phase = Sessions
    /\ once = "opened" => merged = AllTools(found)
    /\ once # "opened" => DOMAIN tokens = {}

\* What is never asked about again was approved once.
Remembered == \A x \in always : \E p \in approved : GateSummary(p[1], p[2]) = x

GuardInv == OpenedOnce /\ Remembered /\ ToolsGuarded

LEMMA GuardNext ==
    ASSUME GuardInv, [BridgeNext]_bvars
    PROVE  GuardInv'
<1> USE DEF GuardInv, ToolsGuarded
<1>1. ASSUME UNCHANGED <<always, approved, invoked>>
      PROVE  (Remembered /\ ApprovedFirst)'
  BY <1>1 DEF Remembered, ApprovedFirst
<1>2. ASSUME UNCHANGED <<tokens, once, merged, found, phase>>
      PROVE  (OpenedOnce /\ SameToolset /\ NoOrphanToken)'
  BY <1>2 DEF OpenedOnce, SameToolset, NoOrphanToken
<1>3. CASE Listen \/ CloseServer
  BY <1>1, <1>2, <1>3 DEF Listen, CloseServer, human
<1>4. CASE CloseClient
  <2>1. UNCHANGED <<once, merged, found, phase, human>> /\ DOMAIN tokens' \subseteq DOMAIN tokens
        /\ \A s \in DOMAIN tokens' : tokens'[s] = tokens[s]
    BY <1>4 DEF CloseClient, Without
  <2>2. (OpenedOnce /\ SameToolset /\ NoOrphanToken)'
    BY <2>1 DEF OpenedOnce, SameToolset, NoOrphanToken
  <2>3. QED
    BY <1>1, <2>1, <2>2 DEF human
<1>5. ASSUME NEW s \in Sessions, NewSession(s) PROVE GuardInv'
  <2>1. UNCHANGED <<tokens, merged, found, human>> /\ phase' = [phase EXCEPT ![s] = "resolving"]
        /\ (once' = "opened" <=> once = "opened")
    BY <1>5, BridgeAssumption DEF NewSession
  <2>2. (OpenedOnce /\ SameToolset /\ NoOrphanToken)'
    BY <2>1 DEF OpenedOnce, SameToolset, NoOrphanToken
  <2>3. QED
    BY <1>1, <2>1, <2>2 DEF human
<1>6. ASSUME NEW s \in Sessions, OpenServers(s) PROVE GuardInv'
  <2>1. UNCHANGED <<tokens, phase, human>> /\ once # "opened" /\ once' = "opened"
        /\ merged' = AllTools(found')
    BY <1>6, BridgeAssumption DEF OpenServers, AllTools
  <2>2. (OpenedOnce /\ SameToolset /\ NoOrphanToken)'
    BY <2>1 DEF OpenedOnce, SameToolset, NoOrphanToken
  <2>3. QED
    BY <1>1, <2>1, <2>2 DEF human
<1>7. ASSUME NEW s \in Sessions, RegisterSession(s) PROVE GuardInv'
  <2>1. UNCHANGED <<once, merged, found, human>> /\ once = "opened"
        /\ phase' = [phase EXCEPT ![s] = "calling"]
        /\ DOMAIN tokens' = DOMAIN tokens \cup {s} /\ tokens'[s] = merged
        /\ \A t \in DOMAIN tokens : t # s => tokens'[t] = tokens[t]
    BY <1>7 DEF RegisterSession, MayPass
  <2>2. (OpenedOnce /\ SameToolset /\ NoOrphanToken)'
    BY <2>1 DEF OpenedOnce, SameToolset, NoOrphanToken, AllTools
  <2>3. QED
    BY <1>1, <2>1, <2>2 DEF human
<1>8. ASSUME NEW s \in Sessions, SessionOpened(s) PROVE GuardInv'
  <2>1. UNCHANGED <<tokens, once, merged, found, human>> /\ phase' = [phase EXCEPT ![s] = "open"]
    BY <1>8 DEF SessionOpened
  <2>2. (OpenedOnce /\ SameToolset /\ NoOrphanToken)'
    BY <2>1 DEF OpenedOnce, SameToolset, NoOrphanToken
  <2>3. QED
    BY <1>1, <2>1, <2>2 DEF human
<1>9. ASSUME NEW s \in Sessions, SessionFails(s) PROVE GuardInv'
  <2>1. UNCHANGED <<once, merged, found, human>> /\ phase' = [phase EXCEPT ![s] = "failed"]
        /\ DOMAIN tokens' = DOMAIN tokens \ {s}
        /\ \A t \in DOMAIN tokens' : tokens'[t] = tokens[t]
    BY <1>9 DEF SessionFails, Unregistered, Without
  <2>2. (OpenedOnce /\ SameToolset /\ NoOrphanToken)'
    BY <2>1 DEF OpenedOnce, SameToolset, NoOrphanToken
  <2>3. QED
    BY <1>1, <2>1, <2>2 DEF human
<1>10. ASSUME NEW b \in Bridges, NEW s \in Sessions, Dial(b, s) PROVE GuardInv'
  BY <1>1, <1>2, <1>10 DEF Dial, gateway, human
<1>11. ASSUME NEW b \in Bridges,
              \/ ServeConn(b) \/ Reset(b) \/ CloseStdin(b) \/ RunBridgeReturns(b)
              \/ Decline(b) \/ Answered(b)
       PROVE  GuardInv'
  BY <1>1, <1>2, <1>11 DEF ServeConn, Reset, CloseStdin, RunBridgeReturns, Decline, Answered,
     gateway, human
<1>12. ASSUME NEW b \in Bridges, NEW t \in pipe[b].tools, NEW a \in Args, Call(b, t, a)
       PROVE  GuardInv'
  <2>1. UNCHANGED <<tokens, once, merged, found, phase>>
    BY <1>12 DEF Call, gateway
  <2>2. UNCHANGED human \/
        /\ UNCHANGED <<always, approved>>
        /\ invoked' = invoked \cup {<<pipe[b].session, t, a>>}
        /\ (t.asks /\ pipe[b].session \in Chat => GateSummary(t, a) \in always)
    BY <1>12 DEF Call, Asks
  <2>3. (Remembered /\ ApprovedFirst)'
    BY <2>2, <1>1 DEF human, Remembered, ApprovedFirst
  <2>4. QED
    BY <1>2, <2>1, <2>3
<1>13. ASSUME NEW b \in Bridges, NEW forGood \in BOOLEAN, Approve(b, forGood) PROVE GuardInv'
  <2>1. UNCHANGED <<tokens, once, merged, found, phase>>
    BY <1>13 DEF Approve, gateway
  <2> DEFINE t == pipe[b].call.tool
             a == pipe[b].call.args
  <2>2. /\ approved' = approved \cup {<<t, a>>}
        /\ always' \subseteq always \cup {GateSummary(t, a)}
        /\ invoked' = invoked \cup {<<pipe[b].session, t, a>>}
    BY <1>13 DEF Approve
  <2> HIDE DEF t, a
  <2>3. \E p \in approved' : GateSummary(p[1], p[2]) = GateSummary(t, a)
    <3>1. <<t, a>> \in approved' /\ <<t, a>>[1] = t /\ <<t, a>>[2] = a
      BY <2>2
    <3>2. QED
      BY <3>1
  <2>4. Remembered'
    BY <2>2, <2>3 DEF Remembered
  <2>5. ApprovedFirst'
    <3> SUFFICES ASSUME NEW c \in invoked', c[1] \in Chat /\ c[2].asks
                 PROVE  \E p \in approved' : GateSummary(p[1], p[2]) = GateSummary(c[2], c[3])
      BY DEF ApprovedFirst
    <3>1. CASE c \in invoked
      BY <2>2, <3>1 DEF ApprovedFirst
    <3>2. CASE c = <<pipe[b].session, t, a>>
      BY <2>3, <3>2
    <3>3. QED
      BY <2>2, <3>1, <3>2
  <2>6. QED
    BY <1>2, <2>1, <2>4, <2>5
<1>14. CASE UNCHANGED bvars
  BY <1>1, <1>2, <1>14 DEF bvars
<1>15. QED
  BY <1>3, <1>4, <1>5, <1>6, <1>7, <1>8, <1>9, <1>10, <1>11, <1>12, <1>13, <1>14
     DEF BridgeNext, BridgeStep

\* However many sessions of an agent are opened, closed and failed at once, each is served
\* the same tools, a failed one leaves no token, and a tool with side effects runs for a
\* conversation only after a human approved a call like it.
THEOREM ToolsAreGuarded == BridgeSpec => []ToolsGuarded
<1>1. BridgeInit => GuardInv
  BY DEF BridgeInit, GuardInv, OpenedOnce, Remembered, ToolsGuarded, SameToolset, NoOrphanToken,
     ApprovedFirst
<1>2. GuardInv /\ [BridgeNext]_bvars => GuardInv'
  BY GuardNext
<1>3. GuardInv => ToolsGuarded
  BY DEF GuardInv
<1>4. QED
  BY <1>1, <1>2, <1>3, PTL DEF BridgeSpec

(* ------------------------------ the delegation ------------------------- *)

LEMMA AppendIs ==
    ASSUME NEW S, NEW s \in Seq(S), NEW x \in S
    PROVE  /\ Append(s, x) \in Seq(S) /\ Len(Append(s, x)) = Len(s) + 1
           /\ DOMAIN s = 1..Len(s) /\ Len(s) \in Nat
           /\ DOMAIN Append(s, x) = 1..(Len(s) + 1)
           /\ \A i \in 1..Len(s) : Append(s, x)[i] = s[i]
           /\ Append(s, x)[Len(s) + 1] = x
  OBVIOUS

LEMMA TailIs ==
    ASSUME NEW S, NEW s \in Seq(S), s # <<>>
    PROVE  /\ Tail(s) \in Seq(S) /\ Head(s) = s[1] /\ s[1] \in S
           /\ Len(s) \in Nat /\ Len(s) >= 1 /\ DOMAIN s = 1..Len(s)
           /\ Len(Tail(s)) = Len(s) - 1 /\ DOMAIN Tail(s) = 1..(Len(s) - 1)
           /\ \A i \in 1..(Len(s) - 1) : Tail(s)[i] = s[i + 1]
  OBVIOUS

EventTypes == {"text", "task", "status", "permission", "complete", "error"}
EventType == [type : EventTypes, text : Nat]

\* The texts of the channel, by number, and that they are in the order they were written.
Texts(es) == {es[i].text : i \in {j \in DOMAIN es : es[j].type = "text"}}
InOrder(es) == \A i, j \in DOMAIN es :
                 i < j /\ es[i].type = "text" /\ es[j].type = "text" => es[i].text < es[j].text
Numbered(s) == s \in Seq(Nat) /\ \A i \in DOMAIN s : s[i] = i
LastIsEnd(es) == \A i \in DOMAIN es : es[i].type \in {"complete", "error"} => i = Len(es)

DelegationType ==
    /\ events \in Seq(EventType) /\ Numbered(written)
    /\ expired \in BOOLEAN /\ aborted \in BOOLEAN /\ finished \in BOOLEAN

Before == step \in {"start", "initialize", "session"}

\* Nothing was dropped yet: nobody has cancelled the turn.
Reading == step = "reading" /\ ~expired

\* What the agent wrote is what Run has taken and what waits for it, in order; the
\* channel's last event, and no other, is the turn's end.
Flowing ==
    /\ ~aborted /\ Numbered(buf)
    /\ Len(buf) <= Len(written) /\ Texts(events) = (Len(buf) + 1)..Len(written)
    /\ InOrder(events) /\ LastIsEnd(events)
    /\ \A i \in DOMAIN events : /\ events[i].type \in {"complete", "error"} => work = "ended"
                                /\ events[i].type = "complete" => finished
    /\ work = "ended" => events # <<>> /\ events[Len(events)].type \in {"complete", "error"}

DelegationInv ==
    /\ DelegationType
    /\ Before => work = "none" /\ events = <<>> /\ buf = <<>> /\ written = <<>>
                   /\ (aborted => expired)
    /\ result # "" => step = "done"
    /\ Reading => Flowing
    /\ result = "ok" /\ ~expired => buf = written /\ finished /\ work = "ended"

LEMMA EmptyIs ==
    /\ DOMAIN <<>> = {} /\ Len(<<>>) = 0 /\ Numbered(<<>>) /\ Texts(<<>>) = {}
    /\ 0 <= 0 /\ (0 + 1)..0 = {}
<1>1. DOMAIN <<>> = {} /\ Len(<<>>) = 0
  OBVIOUS
<1>2. Texts(<<>>) = {}
  BY <1>1 DEF Texts
<1>3. Numbered(<<>>)
  BY DEF Numbered
<1>4. 0 <= 0 /\ (0 + 1)..0 = {}
  OBVIOUS
<1>5. QED
  BY <1>1, <1>2, <1>3, <1>4

LEMMA LenIsNat == ASSUME NEW s \in Seq(Nat) PROVE Len(s) \in Nat
  OBVIOUS

LEMMA PlusTwo == ASSUME NEW n \in Nat PROVE (n + 1) + 1 = n + 2
  OBVIOUS

LEMMA PushText ==
    ASSUME DelegationType, Flowing, NEW e \in EventType
    PROVE  /\ Append(events, e) \in Seq(EventType) /\ Append(events, e) # <<>>
           /\ Append(events, e)[Len(Append(events, e))] = e
           /\ e.type # "text" => Texts(Append(events, e)) = Texts(events)
           /\ e.type = "text" => Texts(Append(events, e)) = Texts(events) \cup {e.text}
           /\ e.type # "text" \/ e.text = Len(written) + 1 => InOrder(Append(events, e))
           /\ work # "ended" => LastIsEnd(Append(events, e))
           /\ \A i \in DOMAIN Append(events, e) :
                 Append(events, e)[i] = e \/ \E j \in DOMAIN events : Append(events, e)[i] = events[j]
<1> DEFINE n == Len(events)
           es == Append(events, e)
<1>1. /\ es \in Seq(EventType) /\ Len(es) = n + 1 /\ DOMAIN events = 1..n /\ n \in Nat
      /\ DOMAIN es = 1..(n + 1) /\ \A i \in 1..n : es[i] = events[i]
      /\ es[n + 1] = e
  BY AppendIs DEF DelegationType
<1> HIDE DEF n, es
<1>2. \A i \in DOMAIN es : i = n + 1 \/ i \in DOMAIN events
  BY <1>1
<1>3. DOMAIN events \subseteq DOMAIN es /\ n + 1 \in DOMAIN es
  BY <1>1
<1>4. \A i \in DOMAIN events : es[i] = events[i]
  BY <1>1
<1>5. es # <<>>
  BY <1>3
<1>6. e.type # "text" => Texts(es) = Texts(events)
  BY <1>1, <1>2, <1>3, <1>4 DEF Texts
<1>7. e.type = "text" => Texts(es) = Texts(events) \cup {e.text}
  BY <1>1, <1>2, <1>3, <1>4 DEF Texts
<1>8. ASSUME e.type # "text" \/ e.text = Len(written) + 1 PROVE InOrder(es)
  <2>1. \A i \in DOMAIN events : events[i].type = "text" =>
           events[i].text \in (Len(buf) + 1)..Len(written)
    BY DEF Flowing, Texts
  <2>2. Len(written) \in Nat /\ Len(buf) \in Nat
    BY DEF DelegationType, Flowing, Numbered
  <2>3. ASSUME NEW i \in DOMAIN es, NEW j \in DOMAIN es, i < j,
               es[i].type = "text", es[j].type = "text"
        PROVE  es[i].text < es[j].text
    <3>1. i \in DOMAIN events
      BY <1>1, <2>3
    <3>2. CASE j = n + 1
      BY <1>1, <1>4, <1>8, <2>1, <2>2, <2>3, <3>1, <3>2
    <3>3. CASE j \in DOMAIN events
      BY <1>4, <2>3, <3>1, <3>3 DEF Flowing, InOrder
    <3>4. QED
      BY <1>2, <3>2, <3>3
  <2>4. QED
    BY <2>3 DEF InOrder
<1>9. work # "ended" => LastIsEnd(es)
  BY <1>1, <1>2, <1>4 DEF Flowing, LastIsEnd
<1>10. QED
  BY <1>1, <1>2, <1>4, <1>5, <1>6, <1>7, <1>8, <1>9 DEF n, es

LEMMA PopEvent ==
    ASSUME DelegationType, Flowing, events # <<>>
    PROVE  /\ Tail(events) \in Seq(EventType) /\ Head(events) \in EventType
           /\ Head(events).type = "text" =>
                 /\ Head(events).text = Len(buf) + 1 /\ Len(buf) + 1 <= Len(written)
                 /\ Texts(Tail(events)) = (Len(buf) + 2)..Len(written)
           /\ Head(events).type # "text" => Texts(Tail(events)) = Texts(events)
           /\ InOrder(Tail(events)) /\ LastIsEnd(Tail(events))
           /\ \A i \in DOMAIN Tail(events) : \E j \in DOMAIN events : Tail(events)[i] = events[j]
           /\ Head(events).type \in {"complete", "error"} =>
                 work = "ended" /\ Len(buf) = Len(written)
           /\ Head(events).type = "complete" => finished
           /\ Head(events).type \notin {"complete", "error"} /\ work = "ended" =>
                 /\ Tail(events) # <<>>
                 /\ Tail(events)[Len(Tail(events))].type \in {"complete", "error"}
<1> DEFINE n == Len(events)
           es == Tail(events)
           e  == Head(events)
<1>1. /\ es \in Seq(EventType) /\ e = events[1] /\ e \in EventType /\ n \in Nat /\ n >= 1
      /\ DOMAIN events = 1..n /\ Len(es) = n - 1 /\ DOMAIN es = 1..(n - 1)
      /\ \A i \in 1..(n - 1) : es[i] = events[i + 1]
  BY TailIs DEF DelegationType
<1>2. Len(buf) \in Nat /\ Len(written) \in Nat /\ n = Len(events)
  BY DEF DelegationType, Flowing, Numbered
<1> HIDE DEF n, es, e
<1>3. 1 \in DOMAIN events /\ \A i \in DOMAIN es : i + 1 \in DOMAIN events /\ es[i] = events[i + 1]
  BY <1>1
<1>4. \A j \in DOMAIN events : j # 1 => j - 1 \in DOMAIN es /\ es[j - 1] = events[j]
  BY <1>1
<1>5. e.type # "text" => Texts(es) = Texts(events)
  <2> SUFFICES ASSUME e.type # "text" PROVE Texts(es) = Texts(events)
    OBVIOUS
  <2>1. \A i \in DOMAIN es : es[i].type = "text" => es[i].text \in Texts(events)
    BY <1>3 DEF Texts
  <2>2. ASSUME NEW j \in DOMAIN events, events[j].type = "text" PROVE events[j].text \in Texts(es)
    <3>1. j # 1
      BY <1>1, <2>2
    <3>2. QED
      BY <1>4, <2>2, <3>1 DEF Texts
  <2>3. QED
    BY <2>1, <2>2 DEF Texts
<1>6. ASSUME e.type = "text"
      PROVE  /\ e.text = Len(buf) + 1 /\ Len(buf) + 1 <= Len(written)
             /\ Texts(es) = (Len(buf) + 2)..Len(written)
  <2>1. e.text \in (Len(buf) + 1)..Len(written)
    BY <1>1, <1>3, <1>6 DEF Flowing, Texts
  <2>2. \A j \in DOMAIN events : j # 1 /\ events[j].type = "text" => e.text < events[j].text
    <3>1. \A j \in DOMAIN events : j # 1 => 1 < j
      BY <1>1
    <3>2. QED
      BY <1>1, <1>3, <1>6, <3>1 DEF Flowing, InOrder
  <2>3. e.text = Len(buf) + 1
    <3>1. Len(buf) + 1 \in Texts(events)
      BY <1>2, <2>1 DEF Flowing
    <3>2. PICK j \in DOMAIN events : events[j].type = "text" /\ events[j].text = Len(buf) + 1
      BY <3>1 DEF Texts
    <3>3. CASE j = 1
      BY <1>1, <3>2, <3>3
    <3>4. CASE j # 1
      BY <1>2, <2>1, <2>2, <3>2, <3>4
    <3>5. QED
      BY <3>3, <3>4
  <2>4. ASSUME NEW k \in Texts(es) PROVE k \in (Len(buf) + 2)..Len(written)
    <3>1. PICK i \in DOMAIN es : es[i].type = "text" /\ es[i].text = k
      BY DEF Texts
    <3>2. i + 1 \in DOMAIN events /\ i + 1 # 1 /\ events[i + 1] = es[i]
      BY <1>1, <1>3
    <3>3. k \in Texts(events) /\ e.text < k
      BY <2>2, <3>1, <3>2 DEF Texts
    <3>4. QED
      BY <1>2, <2>3, <3>3 DEF Flowing
  <2>5. ASSUME NEW k \in (Len(buf) + 2)..Len(written) PROVE k \in Texts(es)
    <3>1. k \in Texts(events) /\ k # e.text
      BY <1>2, <2>3 DEF Flowing
    <3>2. PICK j \in DOMAIN events : events[j].type = "text" /\ events[j].text = k
      BY <3>1 DEF Texts
    <3>3. j # 1
      BY <1>1, <3>1, <3>2
    <3>4. QED
      BY <1>4, <3>2, <3>3 DEF Texts
  <2>6. Texts(es) = (Len(buf) + 2)..Len(written)
    BY <2>4, <2>5
  <2>7. Len(buf) + 1 <= Len(written)
    BY <1>2, <2>1, <2>3
  <2>8. QED
    BY <2>3, <2>6, <2>7
<1>7. InOrder(es)
  <2>1. ASSUME NEW i \in DOMAIN es, NEW j \in DOMAIN es, i < j,
               es[i].type = "text", es[j].type = "text"
        PROVE  es[i].text < es[j].text
    <3>1. i + 1 \in DOMAIN events /\ j + 1 \in DOMAIN events /\ i + 1 < j + 1
          /\ es[i] = events[i + 1] /\ es[j] = events[j + 1]
      BY <1>1, <1>3, <2>1
    <3>2. QED
      BY <2>1, <3>1 DEF Flowing, InOrder
  <2>2. QED
    BY <2>1 DEF InOrder
<1>8. ASSUME NEW i \in DOMAIN es, es[i].type \in {"complete", "error"} PROVE i = Len(es)
  <2>1. i + 1 = n
    BY <1>2, <1>3, <1>8 DEF Flowing, LastIsEnd
  <2>2. QED
    BY <1>1, <2>1
<1>9. ASSUME e.type \in {"complete", "error"} PROVE work = "ended" /\ Len(buf) = Len(written)
  <2>1. work = "ended" /\ n = 1
    BY <1>1, <1>2, <1>3, <1>9 DEF Flowing, LastIsEnd
  <2>2. Texts(events) = {}
    BY <1>1, <1>9, <2>1 DEF Texts
  <2>3. Len(buf) <= Len(written) /\ (Len(buf) + 1)..Len(written) = {}
    BY <2>2 DEF Flowing
  <2>4. Len(buf) + 1 \notin (Len(buf) + 1)..Len(written)
    BY <2>3
  <2>5. QED
    BY <1>2, <2>1, <2>3, <2>4
<1>10. e.type = "complete" => finished
  BY <1>1, <1>3 DEF Flowing
<1>11. ASSUME e.type \notin {"complete", "error"}, work = "ended"
       PROVE  es # <<>> /\ es[Len(es)].type \in {"complete", "error"}
  <2>1. n # 1
    BY <1>1, <1>2, <1>11 DEF Flowing
  <2>2. n - 1 \in DOMAIN es /\ es[n - 1] = events[n] /\ Len(es) = n - 1
    BY <1>1, <2>1
  <2>3. QED
    BY <1>2, <1>11, <2>2 DEF Flowing
<1>12. LastIsEnd(es)
  BY <1>8 DEF LastIsEnd
<1>13. QED
  BY <1>1, <1>3, <1>5, <1>6, <1>7, <1>9, <1>10, <1>11, <1>12 DEF n, es, e

LEMMA NumberedAppend ==
    ASSUME NEW s, Numbered(s)
    PROVE  Numbered(Append(s, Len(s) + 1)) /\ Len(Append(s, Len(s) + 1)) = Len(s) + 1
<1>1. s \in Seq(Nat) /\ Len(s) \in Nat
  BY DEF Numbered
<1>2. Len(s) + 1 \in Nat
  BY <1>1
<1>3. QED
  BY <1>1, <1>2, AppendIs DEF Numbered

LEMMA NumberedEqual ==
    ASSUME NEW s, NEW r, Numbered(s), Numbered(r), Len(s) = Len(r)
    PROVE  s = r
<1>1. s \in Seq(Nat) /\ r \in Seq(Nat) /\ DOMAIN s = 1..Len(s) /\ DOMAIN r = 1..Len(r)
  BY DEF Numbered
<1>2. \A i \in 1..Len(s) : s[i] = r[i]
  BY <1>1 DEF Numbered
<1>3. QED
  BY <1>1, <1>2

\* What a step of the turn emits: a text is the next one, and an end ends the turn.
Emits(e) ==
    /\ EmitEvent(e)
    /\ written' = IF e.type = "text" THEN Append(written, Len(written) + 1) ELSE written
    /\ e.type = "text" => e.text = Len(written) + 1
    /\ work' = "ended" <=> e.type \in {"complete", "error"}
    /\ e.type = "complete" => finished'
    /\ (finished => finished') /\ finished' \in BOOLEAN

Silent == UNCHANGED <<events, written, finished>> /\ work' # "ended"

LEMMA TurnEffect ==
    ASSUME DelegationType, Turn
    PROVE  /\ Elsewhere /\ work \in {"working", "tool", "asking", "ending"}
           /\ Silent \/ \E e \in EventType : Emits(e)
<1> USE DEF EventType, EventTypes
<1>1. CASE Write
  <2>1. Event("text", Len(written) + 1) \in EventType
    BY DEF Event, DelegationType, Numbered
  <2>2. Emits(Event("text", Len(written) + 1))
    BY <1>1 DEF Write, Emits, Event, DelegationType
  <2>3. QED
    BY <1>1, <2>1, <2>2 DEF Write
<1>2. CASE StartTool
  <2>1. Event("task", 0) \in EventType /\ Emits(Event("task", 0))
    BY <1>2 DEF StartTool, Emits, Event, DelegationType
  <2>2. QED
    BY <1>2, <2>1 DEF StartTool
<1>3. CASE KeepAlive
  <2>1. CASE ~profile.acp \/ ticks < MaxBeats
    <3>1. Event("status", 9) \in EventType /\ Emits(Event("status", 9))
      BY <1>3, <2>1 DEF KeepAlive, Emits, Event, DelegationType
    <3>2. QED
      BY <1>3, <3>1 DEF KeepAlive
  <2>2. CASE ~(~profile.acp \/ ticks < MaxBeats)
    BY <1>3, <2>2 DEF KeepAlive, Silent
  <2>3. QED
    BY <2>1, <2>2
<1>4. CASE ToolEnds \/ AskCancelled \/ Ends
  BY <1>4 DEF ToolEnds, AskCancelled, Ends, Silent
<1>5. CASE Ask
  <2>1. CASE UNCHANGED <<work, events>>
    BY <1>5, <2>1 DEF Ask, Silent
  <2>2. CASE EmitEvent(Event("permission", 0)) /\ work' = "asking"
    <3>1. Event("permission", 0) \in EventType /\ Emits(Event("permission", 0))
      BY <1>5, <2>2 DEF Ask, Emits, Event, DelegationType
    <3>2. QED
      BY <1>5, <3>1 DEF Ask
  <2>3. QED
    BY <1>5, <2>1, <2>2 DEF Ask
<1>6. CASE Last
  <2>1. CASE EmitEvent(Event("complete", 0)) /\ finished' = TRUE
    <3>1. Event("complete", 0) \in EventType /\ Emits(Event("complete", 0))
      BY <1>6, <2>1 DEF Last, Emits, Event, DelegationType
    <3>2. QED
      BY <1>6, <3>1 DEF Last
  <2>2. CASE EmitEvent(Event("error", 0)) /\ UNCHANGED finished
    <3>1. Event("error", 0) \in EventType /\ Emits(Event("error", 0))
      BY <1>6, <2>2 DEF Last, Emits, Event, DelegationType
    <3>2. QED
      BY <1>6, <3>1 DEF Last
  <2>3. QED
    BY <1>6, <2>1, <2>2 DEF Last
<1>7. QED
  BY <1>1, <1>2, <1>3, <1>4, <1>5, <1>6 DEF Turn

\* Whatever the turn emits while Run reads, Run will take.
LEMMA TurnNext ==
    ASSUME DelegationInv, Turn
    PROVE  DelegationInv'
<1>1. Elsewhere /\ work \in {"working", "tool", "asking", "ending"}
      /\ (Silent \/ \E e \in EventType : Emits(e))
  BY TurnEffect DEF DelegationInv
<1>2. UNCHANGED <<step, aborted, expired, buf, result>>
  BY <1>1 DEF Elsewhere
<1>3. ~Before /\ ~Before' /\ ~(result = "ok" /\ ~expired) /\ (result # "" => step = "done")
      /\ DelegationType /\ (Reading => Flowing) /\ Reading' = Reading
  BY <1>1, <1>2 DEF DelegationInv, Before, Reading
<1>4. CASE Silent
  <2>1. DelegationType'
    BY <1>2, <1>3, <1>4 DEF DelegationType, Silent
  <2>2. Reading' => Flowing'
    BY <1>1, <1>2, <1>3, <1>4 DEF Silent, Flowing
  <2>3. QED
    BY <1>2, <1>3, <2>1, <2>2 DEF DelegationInv
<1>5. ASSUME NEW e \in EventType, Emits(e) PROVE DelegationInv'
  <2>1. written \in Seq(Nat) /\ Len(written) \in Nat
    <3>1. written \in Seq(Nat)
      BY <1>3 DEF DelegationType, Numbered
    <3>2. QED
      BY <3>1
  <2>2. Numbered(written')
    BY <1>3, <1>5, NumberedAppend DEF Emits, DelegationType
  <2>3. events' = Append(events, e) \/ (aborted /\ events' = events)
    BY <1>5 DEF Emits, EmitEvent, Pushed
  <2>4. DelegationType'
    <3>1. events' \in Seq(EventType)
      <4>1. events \in Seq(EventType)
        BY <1>3 DEF DelegationType
      <4>2. QED
        BY <2>3, <4>1, AppendIs
    <3>2. QED
      BY <1>2, <1>3, <1>5, <2>2, <3>1 DEF DelegationType, Emits
  <2>5. ASSUME Reading PROVE Flowing'
    <3>1. Flowing /\ events' = Append(events, e) /\ ~aborted' /\ Numbered(buf')
      BY <1>2, <1>3, <2>3, <2>5 DEF Flowing
    <3>7. Len(buf) \in Nat
      BY <3>1 DEF Flowing, Numbered
    <3>2. /\ events' # <<>> /\ events'[Len(events')] = e
          /\ InOrder(events') /\ LastIsEnd(events')
          /\ \A i \in DOMAIN events' : events'[i] = e \/ \E j \in DOMAIN events : events'[i] = events[j]
      BY <1>1, <1>3, <1>5, <3>1, PushText DEF Emits
    <3>3. Len(buf) <= Len(written') /\ Texts(events') = (Len(buf) + 1)..Len(written')
      <4>1. CASE e.type = "text"
        <5>1. Len(written') = Len(written) + 1
          BY <1>3, <1>5, <4>1, NumberedAppend DEF Emits, DelegationType
        <5>2. Texts(events') = Texts(events) \cup {Len(written) + 1}
          BY <1>3, <1>5, <3>1, <4>1, PushText DEF Emits
        <5>3. (Len(buf) + 1)..(Len(written) + 1) = ((Len(buf) + 1)..Len(written)) \cup {Len(written) + 1}
          BY <2>1, <3>1, <3>7 DEF Flowing
        <5>4. Len(buf) <= Len(written) + 1
          BY <2>1, <3>1, <3>7 DEF Flowing
        <5>5. QED
          BY <3>1, <5>1, <5>2, <5>3, <5>4 DEF Flowing
      <4>2. CASE e.type # "text"
        BY <1>3, <1>5, <3>1, <4>2, PushText DEF Emits, Flowing
      <4>3. QED
        BY <4>1, <4>2
    <3>4. \A i \in DOMAIN events' : /\ events'[i].type \in {"complete", "error"} => work' = "ended"
                                    /\ events'[i].type = "complete" => finished'
      BY <1>1, <1>5, <3>1, <3>2 DEF Flowing, Emits
    <3>5. work' = "ended" => events'[Len(events')].type \in {"complete", "error"}
      BY <1>5, <3>2 DEF Emits
    <3>6. QED
      BY <1>2, <3>1, <3>2, <3>3, <3>4, <3>5 DEF Flowing
  <2>6. QED
    BY <1>2, <1>3, <2>4, <2>5 DEF DelegationInv
<1>6. QED
  BY <1>1, <1>4, <1>5

LEMMA RunNext ==
    ASSUME DelegationInv, Run \/ Fire \/ CallerEnds
    PROVE  DelegationInv'
<1> USE DEF DelegationInv
<1>1. CASE Begin
  BY <1>1 DEF Begin, Return, DelegationType, Before, Reading
<1>2. CASE Opens
  <2>1. Before /\ UNCHANGED <<events, buf, written, work, finished, expired>>
    BY <1>2 DEF Opens, Before
  <2>2. CASE step' = "session" /\ UNCHANGED <<aborted, result>>
    BY <2>1, <2>2 DEF DelegationType, Before, Reading
  <2>3. CASE Return("failed")
    BY <2>1, <2>3 DEF Return, DelegationType, Before, Reading
  <2>4. QED
    BY <1>2, <2>2, <2>3 DEF Opens
<1>3. CASE PromptAgent
  <2>1. events = <<>> /\ buf = <<>> /\ written = <<>>
        /\ (aborted => expired) /\ UNCHANGED <<events, buf, written, finished, expired>>
    BY <1>3 DEF PromptAgent, Before
  <2>2. CASE step' = "reading" /\ work' = "working" /\ UNCHANGED <<aborted, result>>
    <3>1. ~expired => Flowing'
      <4> SUFFICES ASSUME ~expired PROVE Flowing'
        OBVIOUS
      <4>1. events' = <<>> /\ buf' = <<>> /\ written' = <<>>
        BY <2>1
      <4>2. ~aborted' /\ work' = "working"
        BY <2>1, <2>2
      <4>3. QED
        BY <4>1, <4>2, EmptyIs DEF Flowing, InOrder, LastIsEnd
    <3>2. DelegationType' /\ ~Before' /\ result' = ""
      BY <1>3, <2>1, <2>2 DEF PromptAgent, DelegationType, Before
    <3>3. Reading' => Flowing'
      BY <2>1, <3>1 DEF Reading
    <3>4. QED
      BY <3>2, <3>3
  <2>3. CASE Return("failed") /\ UNCHANGED work
    BY <1>3, <2>1, <2>3 DEF Return, DelegationType, Before, Reading
  <2>4. QED
    BY <1>3, <2>2, <2>3 DEF PromptAgent
<1>4. CASE TakeEvent
  <2> DEFINE e == Head(events)
  <2>1. /\ step = "reading" /\ events # <<>> /\ result = "" /\ ~Before
        /\ events' = Tail(events) /\ buf' = Captured(buf, e)
        /\ UNCHANGED <<expired, work, written, finished>>
        /\ \/ e.type = "complete" /\ Return("ok")
           \/ e.type = "error" /\ Return("failed")
           \/ e.type \notin {"complete", "error"} /\ UNCHANGED <<step, aborted, result>>
    BY <1>4 DEF TakeEvent, Before
  <2>2. events \in Seq(EventType) /\ Numbered(written)
        /\ expired \in BOOLEAN /\ finished \in BOOLEAN /\ aborted \in BOOLEAN
    BY DEF DelegationType
  <2>3. Tail(events) \in Seq(EventType) /\ e \in EventType
    BY <2>1, <2>2, TailIs
  <2>4. aborted' \in BOOLEAN
    BY <2>1, <2>2 DEF Return
  <2>5. DelegationType'
    BY <2>1, <2>2, <2>3, <2>4 DEF DelegationType
  <2>6. CASE expired
    BY <2>1, <2>5, <2>6 DEF Before, Reading, Return
  <2>7. CASE ~expired
    <3>1. Flowing /\ Numbered(buf)
      BY <2>1, <2>7 DEF Reading, Flowing
    <3>2. CASE e.type \in {"complete", "error"}
      <4>1. Len(buf) = Len(written) /\ work = "ended" /\ (e.type = "complete" => finished)
        BY <2>1, <3>1, <3>2, PopEvent
      <4>2. buf' = written'
        BY <2>1, <2>2, <3>1, <3>2, <4>1, NumberedEqual DEF Captured
      <4>3. QED
        BY <2>1, <2>5, <3>2, <4>1, <4>2 DEF Return, Before, Reading
    <3>3. CASE e.type \notin {"complete", "error"}
      <4>1. UNCHANGED <<step, aborted, result>> /\ ~aborted'
        <5>1. ~aborted
          BY <3>1 DEF Flowing
        <5>2. UNCHANGED <<step, aborted, result>>
          BY <2>1, <3>3
        <5>3. QED
          BY <5>1, <5>2
      <4>2. /\ InOrder(events') /\ LastIsEnd(events')
            /\ \A i \in DOMAIN events' : \E j \in DOMAIN events : events'[i] = events[j]
        BY <2>1, <3>1, PopEvent
      <4>3. work = "ended" => events' # <<>> /\ events'[Len(events')].type \in {"complete", "error"}
        BY <2>1, <3>1, <3>3, PopEvent
      <4>4. Numbered(buf') /\ Len(buf') <= Len(written)
            /\ Texts(events') = (Len(buf') + 1)..Len(written)
        <5>1. CASE e.type = "text"
          <6>1. e.text = Len(buf) + 1 /\ Len(buf) + 1 <= Len(written)
                /\ Texts(events') = (Len(buf) + 2)..Len(written)
            BY <2>1, <3>1, <5>1, PopEvent
          <6>2. buf' = Append(buf, Len(buf) + 1)
            BY <2>1, <5>1, <6>1 DEF Captured
          <6>3. Numbered(buf') /\ Len(buf') = Len(buf) + 1
            BY <3>1, <6>2, NumberedAppend
          <6>4. Len(buf) \in Nat
            <7>1. buf \in Seq(Nat)
              BY <3>1 DEF Numbered
            <7>2. QED
              BY <7>1, LenIsNat
          <6>5. Len(buf') + 1 = Len(buf) + 2
            BY <6>3, <6>4, PlusTwo
          <6>6. QED
            BY <6>1, <6>3, <6>5
        <5>2. CASE e.type # "text"
          BY <2>1, <3>1, <5>2, PopEvent DEF Captured, Flowing
        <5>3. QED
          BY <5>1, <5>2
      <4>5. \A i \in DOMAIN events' : /\ events'[i].type \in {"complete", "error"} => work = "ended"
                                      /\ events'[i].type = "complete" => finished
        BY <3>1, <4>2 DEF Flowing
      <4>6. Flowing'
        BY <2>1, <4>1, <4>2, <4>3, <4>4, <4>5 DEF Flowing
      <4>7. QED
        BY <2>1, <2>5, <4>1, <4>6 DEF Before
    <3>4. QED
      BY <3>2, <3>3
  <2>8. QED
    BY <2>2, <2>6, <2>7
<1>5. CASE TakeClosed
  <2>1. step = "reading" /\ events = <<>> /\ work = "ended" /\ Return("ok")
        /\ UNCHANGED <<expired, work, events, written, finished, buf>>
    BY <1>5 DEF TakeClosed
  <2>2. ~Reading
    BY <2>1 DEF Flowing
  <2>3. QED
    BY <2>1, <2>2 DEF Return, DelegationType, Before, Reading
<1>6. CASE TakeIdle
  BY <1>6 DEF TakeIdle, Unblock, DelegationType, Before, Reading
<1>7. CASE Drain
  <2>1. step = "draining" /\ UNCHANGED <<expired, work, written, finished, buf>>
        /\ ((events' = Tail(events) /\ events # <<>>) \/ UNCHANGED events)
        /\ (UNCHANGED <<step, aborted, result>> \/ Return("idle"))
    BY <1>7 DEF Drain
  <2>2. events' \in Seq(EventType)
    <3>1. events \in Seq(EventType)
      BY DEF DelegationType
    <3>2. QED
      BY <2>1, <3>1, TailIs
  <2>3. QED
    BY <2>1, <2>2 DEF Return, DelegationType, Before, Reading
<1>8. CASE Fire
  BY <1>8 DEF Fire, DelegationType, Before, Reading, Flowing
<1>9. CASE CallerEnds
  BY <1>9 DEF CallerEnds, DelegationType, Before, Reading
<1>10. QED
  BY <1>1, <1>2, <1>3, <1>4, <1>5, <1>6, <1>7, <1>8, <1>9 DEF Run, Reads, Waits

\* Run's answer is the whole of what the agent wrote: what was pushed while Run read was
\* taken, in order, and a turn that Run saw end was complete.
THEOREM ResultsAreWhole == DelegationSpec => []ResultIsWhole
<1>1. DelegationInit => DelegationInv
  <2>1. Numbered(<<>>) /\ <<>> \in Seq(EventType)
    BY EmptyIs
  <2>2. QED
    BY <2>1 DEF DelegationInit, DelegationInv, DelegationType, Before, Reading
<1>2. DelegationInv /\ [DelegationNext]_dvars => DelegationInv'
  <2> SUFFICES ASSUME DelegationInv, [DelegationNext]_dvars PROVE DelegationInv'
    OBVIOUS
  <2>1. CASE UNCHANGED dvars
    BY <2>1 DEF dvars, DelegationInv, DelegationType, Before, Reading, Flowing
  <2>2. CASE DelegationNext
    BY <2>2, RunNext, TurnNext DEF DelegationNext
  <2>3. QED
    BY <2>1, <2>2
<1>3. DelegationInv => ResultIsWhole
  BY DEF DelegationInv, ResultIsWhole
<1>4. QED
  BY <1>1, <1>2, <1>3, PTL DEF DelegationSpec

=============================================================================
