---------------------------- MODULE Daemon_proofs ----------------------------
(***************************************************************************)
(* Proofs about Daemon, for any number of processes, requests, messages    *)
(* and faults: a process greets once and handles a message once, and a     *)
(* notice says "back online" only when a later process says so.            *)
(***************************************************************************)
EXTENDS Daemon, TLAPS

\* A greeting not yet given has not been counted.
GreetInv ==
    /\ greet = "off" <=> ~connectHandled
    /\ greet \in {"off", "load", "edit", "clearThenPing", "ping"} => greetings = 0
    /\ GreetsOnce

\* A process has handled just what it has seen.
HandledInv == \A m \in Messages : handled[m] = IF m \in seen THEN 1 ELSE 0

\* A request is at work only after the first Connected event of a process that
\* is up; so, but for an overlap, it posts its notice once the process greeted.
AtWork(r) == req[r] \in {"post", "save", "ask"}

HonestInv ==
    /\ link = "up" => connectHandled
    /\ \A r \in Requests : AtWork(r) => connectHandled /\ life # "down"
    /\ \A r \in Requests : postedIn[r] <= gen
    /\ ~overlap /\ greet # "done" => \A r \in Requests : postedIn[r] < gen
    /\ BackOnlineHonest

-----------------------------------------------------------------------------
\* The flags are Booleans.
Flags ==
    /\ recycled \in BOOLEAN /\ connectHandled \in BOOLEAN /\ greetLive \in BOOLEAN
    /\ fresh \in BOOLEAN /\ overlap \in BOOLEAN

LEMMA FlagsNext == Flags /\ [Next]_vars => Flags'
<1> SUFFICES ASSUME Flags, [Next]_vars PROVE Flags'
  OBVIOUS
<1> USE DEF Flags, procVars, socketVars, greetVars, markerVars, reqVars, msgVars, boundVars
<1>1. CASE Connects
  BY <1>1, Zenon DEF Connects
<1>2. ASSUME StartAttempt \/ LinkFails \/ Recycle \/ RecycleHealthy \/ AttemptEnds
             \/ SupervisorStops
      PROVE  Flags'
  BY <1>2, Zenon DEF StartAttempt, LinkFails, Recycle, RecycleHealthy, AttemptEnds, SupervisorStops
<1>3. ASSUME Greeting PROVE Flags'
  BY <1>3, Zenon DEF Greeting, GreetLoad, GreetEdit, GreetClear, GreetPing
<1>4. ASSUME NEW r \in Requests, PostNotice(r) PROVE Flags'
  BY <1>4, Zenon DEF PostNotice
<1>5. ASSUME NEW r \in Requests, Slash(r) \/ Confirm(r) \/ SaveMarker(r) \/ Ask(r) PROVE Flags'
  BY <1>5, Zenon DEF Slash, Confirm, SaveMarker, Ask
<1>6. ASSUME Drains \/ GraceExit \/ Crash PROVE Flags'
  BY <1>6, Zenon DEF Drains, GraceExit, Crash, Dies
<1>7. CASE Boot
  <2>1. fresh' \in BOOLEAN
    BY <1>7, Zenon DEF Boot
  <2>2. QED
    BY <1>7, <2>1, Zenon DEF Boot
<1>8. ASSUME NEW m \in Messages, Deliver(m) PROVE Flags'
  BY <1>8, Zenon DEF Deliver
<1>9. CASE UNCHANGED vars
  BY <1>9, Zenon DEF vars
<1>10. QED
  BY <1>1, <1>2, <1>3, <1>4, <1>5, <1>6, <1>7, <1>8, <1>9, Zenon DEF Next, Request

\* Every variable keeps its type.
THEOREM TypeCorrect == Spec => []TypeOK
<1>1. Init => TypeOK
  <2> SUFFICES ASSUME Init PROVE TypeOK
    OBVIOUS
  <2>1. Flags
    BY Zenon DEF Init, Flags
  <2>2. QED
    BY <2>1, DaemonAssumption DEF Init, TypeOK, Flags
<1>2. TypeOK /\ [Next]_vars => TypeOK'
  <2> SUFFICES ASSUME TypeOK, [Next]_vars PROVE TypeOK'
    OBVIOUS
  <2> Flags'
    BY FlagsNext, Zenon DEF TypeOK, Flags
  <2> USE DaemonAssumption DEF TypeOK, Flags, NoFault, Fault, procVars, socketVars, greetVars,
          markerVars, reqVars, msgVars, boundVars
  <2>1. ASSUME StartAttempt \/ Connects \/ LinkFails \/ Recycle \/ RecycleHealthy PROVE TypeOK'
    BY <2>1 DEF StartAttempt, Connects, LinkFails, Recycle, RecycleHealthy
  <2>2. ASSUME AttemptEnds \/ SupervisorStops PROVE TypeOK'
    BY <2>2 DEF AttemptEnds, SupervisorStops
  <2>3. CASE GreetLoad
    BY <2>3 DEF GreetLoad, Decodes
  <2>4. CASE GreetEdit
    BY <2>4 DEF GreetEdit
  <2>5. ASSUME GreetClear \/ GreetPing PROVE TypeOK'
    BY <2>5 DEF GreetClear, GreetPing
  <2>6. ASSUME NEW r \in Requests, Slash(r) \/ Confirm(r) PROVE TypeOK'
    BY <2>6 DEF Slash, Confirm
  <2>7. ASSUME NEW r \in Requests, PostNotice(r) PROVE TypeOK'
    BY <2>7 DEF PostNotice
  <2>8. ASSUME NEW r \in Requests, SaveMarker(r) PROVE TypeOK'
    BY <2>8 DEF SaveMarker, Saved
  <2>9. ASSUME NEW r \in Requests, Ask(r) PROVE TypeOK'
    BY <2>9 DEF Ask
  <2>10. ASSUME Dies, outages' \in 0..MaxOutages PROVE TypeOK'
    BY <2>10 DEF Dies
  <2>11. ASSUME Drains \/ GraceExit \/ Crash PROVE TypeOK'
    BY <2>10, <2>11 DEF Drains, GraceExit, Crash
  <2>12. CASE Boot
    BY <2>12 DEF Boot
  <2>13. ASSUME NEW m \in Messages, Deliver(m) PROVE TypeOK'
    BY <2>13 DEF Deliver
  <2>14. CASE UNCHANGED vars
    BY <2>14 DEF vars
  <2>15. QED
    BY <2>1, <2>2, <2>3, <2>4, <2>5, <2>6, <2>7, <2>8, <2>9, <2>11, <2>12, <2>13, <2>14
       DEF Next, Greeting, Request
<1>3. QED
  BY <1>1, <1>2, PTL DEF Spec

-----------------------------------------------------------------------------
LEMMA GreetNext == TypeOK /\ GreetInv /\ [Next]_vars => GreetInv'
<1> SUFFICES ASSUME TypeOK, GreetInv, [Next]_vars PROVE GreetInv'
  OBVIOUS
<1> USE DEF GreetInv, GreetsOnce
<1>1. CASE Connects
  BY <1>1 DEF Connects, Greets, TypeOK
<1>2. CASE GreetLoad
  BY <1>2 DEF GreetLoad
<1>3. CASE GreetEdit
  BY <1>3 DEF GreetEdit, TypeOK
<1>4. CASE GreetClear
  BY <1>4 DEF GreetClear
<1>5. CASE GreetPing
  BY <1>5 DEF GreetPing, TypeOK
<1>6. CASE Boot
  BY <1>6 DEF Boot
<1>7. ASSUME UNCHANGED <<connectHandled, greet, greetings>> PROVE GreetInv'
  BY <1>7
<1>8. QED
  BY <1>1, <1>2, <1>3, <1>4, <1>5, <1>6, <1>7
     DEF Next, Greeting, Request, StartAttempt, LinkFails, Recycle, RecycleHealthy, AttemptEnds,
         SupervisorStops, Slash, Confirm, PostNotice, SaveMarker, Ask, Drains, GraceExit, Crash,
         Dies, Deliver, greetVars, vars

LEMMA GreetHolds == Spec => []GreetInv
<1>1. Init => GreetInv
  BY DEF Init, GreetInv, GreetsOnce
<1>2. QED
  BY <1>1, GreetNext, TypeCorrect, PTL DEF Spec

\* A process greets at most once, however often it reconnects.
THEOREM GreetedAtMostOnce == Spec => []GreetsOnce
<1>1. GreetInv => GreetsOnce
  BY DEF GreetInv
<1>2. QED
  BY <1>1, GreetHolds, PTL

-----------------------------------------------------------------------------
LEMMA HandledNext == TypeOK /\ HandledInv /\ [Next]_vars => HandledInv'
<1> SUFFICES ASSUME TypeOK, HandledInv, [Next]_vars PROVE HandledInv'
  OBVIOUS
<1>1. ASSUME NEW m \in Messages, Deliver(m) PROVE HandledInv'
  BY <1>1 DEF HandledInv, Deliver, Duplicate, TypeOK
<1>2. CASE Boot
  BY <1>2 DEF HandledInv, Boot
<1>3. ASSUME UNCHANGED <<seen, handled>> PROVE HandledInv'
  BY <1>3 DEF HandledInv
<1>4. QED
  BY <1>1, <1>2, <1>3
     DEF Next, Greeting, Request, StartAttempt, Connects, LinkFails, Recycle, RecycleHealthy,
         AttemptEnds, SupervisorStops, GreetLoad, GreetEdit, GreetClear, GreetPing, Slash,
         Confirm, PostNotice, SaveMarker, Ask, Drains, GraceExit, Crash, Dies, msgVars, vars

\* A process handles a message at most once, however often it is delivered.
THEOREM HandledAtMostOnce == Spec => []HandledOnce
<1>1. Init => HandledInv
  BY DEF Init, HandledInv
<1>2. HandledInv => HandledOnce
  BY DEF HandledInv, HandledOnce
<1>3. QED
  BY <1>1, <1>2, HandledNext, TypeCorrect, PTL DEF Spec

-----------------------------------------------------------------------------
LEMMA HonestNext == TypeOK /\ GreetInv /\ HonestInv /\ [Next]_vars => HonestInv'
<1> SUFFICES ASSUME TypeOK, GreetInv, HonestInv, [Next]_vars PROVE HonestInv'
  OBVIOUS
<1> USE DEF HonestInv, BackOnlineHonest, AtWork
<1>1. CASE Connects
  <2>1. connectHandled' /\ (greet = "off" \/ greet' = greet)
    BY <1>1, Zenon DEF Connects, Greets, GreetInv
  <2>2. UNCHANGED <<gen, life, req, notice, postedIn, overlap>>
    BY <1>1 DEF Connects, procVars, reqVars
  <2>3. greet' # "done" => greet # "done"
    BY <2>1
  <2>4. QED
    BY <2>1, <2>2, <2>3
<1>2. ASSUME StartAttempt \/ LinkFails \/ AttemptEnds PROVE HonestInv'
  BY <1>2 DEF StartAttempt, LinkFails, AttemptEnds, procVars, greetVars, reqVars
<1>3. CASE GreetEdit
  BY <1>3 DEF GreetEdit, TypeOK, procVars, socketVars
<1>4. ASSUME GreetLoad \/ GreetClear \/ GreetPing PROVE HonestInv'
  BY <1>4 DEF GreetLoad, GreetClear, GreetPing, procVars, socketVars, reqVars
<1>5. ASSUME NEW r \in Requests, Slash(r) \/ Confirm(r) PROVE HonestInv'
  BY <1>5 DEF Slash, Confirm, Listening, TypeOK, procVars, socketVars, greetVars
<1>6. ASSUME NEW r \in Requests, PostNotice(r) PROVE HonestInv'
  <2>1. greet # "off"
    BY <1>6 DEF PostNotice, GreetInv
  <2>2. CASE UNCHANGED <<notice, postedIn, overlap>>
    BY <1>6, <2>2 DEF PostNotice, TypeOK, procVars, socketVars, greetVars
  <2>3. CASE /\ notice' = [notice EXCEPT ![r] = "restarting"]
             /\ postedIn' = [postedIn EXCEPT ![r] = gen]
             /\ overlap' = (overlap \/ greet \notin {"off", "done"})
             /\ req' = [req EXCEPT ![r] = "save"]
    BY <1>6, <2>1, <2>3 DEF PostNotice, TypeOK, procVars, socketVars, greetVars
  <2>4. QED
    BY <1>6, <2>2, <2>3 DEF PostNotice
<1>7. ASSUME NEW r \in Requests, SaveMarker(r) PROVE HonestInv'
  BY <1>7 DEF SaveMarker, TypeOK, procVars, socketVars, greetVars
<1>8. ASSUME NEW r \in Requests, Ask(r) PROVE HonestInv'
  BY <1>8 DEF Ask, TypeOK
<1>9. ASSUME Drains \/ GraceExit \/ Crash PROVE HonestInv'
  BY <1>9 DEF Drains, GraceExit, Crash, Dies, socketVars, greetVars
<1>10. CASE Boot
  BY <1>10 DEF Boot, TypeOK, reqVars
<1>11. ASSUME UNCHANGED <<gen, life, link, connectHandled, greet, req, notice, postedIn, overlap>>
       PROVE  HonestInv'
  BY <1>11
<1>12. QED
  BY <1>1, <1>2, <1>3, <1>4, <1>5, <1>6, <1>7, <1>8, <1>9, <1>10, <1>11
     DEF Next, Greeting, Request, Recycle, RecycleHealthy, SupervisorStops, Deliver,
         procVars, socketVars, greetVars, reqVars, vars

\* A notice says "back online" only when a later process says so, unless the
\* restart was requested while this process was still greeting.
THEOREM BackOnlineIsHonest == Spec => []BackOnlineHonest
<1>1. Init => HonestInv
  BY DEF Init, HonestInv, BackOnlineHonest, AtWork
<1>2. HonestInv => BackOnlineHonest
  BY DEF HonestInv
<1>3. QED
  BY <1>1, <1>2, HonestNext, GreetHolds, TypeCorrect, PTL DEF Spec
=============================================================================
