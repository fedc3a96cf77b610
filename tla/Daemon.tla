--------------------------------- MODULE Daemon ---------------------------------
(***************************************************************************)
(* The gateway daemon across restarts: the supervisor that keeps the Slack *)
(* socket connected, the event loop it runs, the restart coordinator, and  *)
(* the marker by which the next process turns a "restarting" notice into a *)
(* "back online" card.                                                     *)
(*                                                                         *)
(* A process is spawned again by launchd whenever it exits.  The marker is *)
(* the only state that survives it.  Slack is external: the link may fail, *)
(* or fall silent without failing, messages are delivered at least once,   *)
(* and a Web API call may be refused.                                      *)
(***************************************************************************)
EXTENDS Naturals, FiniteSets

CONSTANTS
    Requests,    \* requests to restart: slash commands and confirmed cards
    Messages,    \* messages to the bot
    MaxProcs,    \* bound on processes
    MaxOutages,  \* bound on link failures, silences, idle recycles and crashes
    MaxFaults,   \* bound on refused Web API calls and lost acks
    MaxTwins,    \* bound on second deliveries of an acknowledged message
    None, Torn   \* no marker, and a marker file that does not decode

ASSUME DaemonAssumption ==
    /\ MaxProcs \in Nat \ {0}
    /\ MaxOutages \in Nat /\ MaxFaults \in Nat /\ MaxTwins \in Nat
    /\ None # Torn /\ {None, Torn} \cap Requests = {}

VARIABLES
    \* the process: its number, and whether its root context is cancelled
    gen, life,
    \* superviseSocket and runSocketAttempt: the attempt, its link, whether the
    \* watchdog cancelled it, and the slash command the event loop is in
    sup, link, recycled, loop,
    \* notifyConnected
    connectHandled, greet, greetLive, loaded,
    \* the marker file, and whether it is younger than an hour
    marker, fresh,
    \* a request's handler, its notice in Slack
    req, notice,
    \* event delivery: acknowledged and remembered messages
    acked, seen,
    \* history: greetings and handled messages of this process, the process
    \* that posted a notice, and whether a notice met a greeting at work
    greetings, handled, postedIn, overlap,
    \* bounds
    outages, faults, twins

procVars   == <<gen, life>>
socketVars == <<sup, link, recycled, loop>>
greetVars  == <<connectHandled, greet, greetLive, loaded, greetings>>
markerVars == <<marker, fresh>>
reqVars    == <<req, notice, postedIn, overlap>>
msgVars    == <<acked, seen, handled>>
boundVars  == <<outages, faults, twins>>
vars == <<procVars, socketVars, greetVars, markerVars, reqVars, msgVars, boundVars>>

TypeOK ==
    /\ gen \in 1..MaxProcs
    /\ life \in {"running", "stopping", "down"}
    /\ sup \in {"waiting", "running", "stopped"}
    /\ link \in {"off", "connecting", "up", "silent", "ended"}
    /\ recycled \in BOOLEAN
    /\ loop \in Requests \cup {None}
    /\ connectHandled \in BOOLEAN /\ greetLive \in BOOLEAN
    /\ greet \in {"off", "load", "edit", "clear", "clearThenPing", "ping", "done"}
    /\ loaded \in Requests \cup {None}
    /\ marker \in Requests \cup {None, Torn} /\ fresh \in BOOLEAN
    /\ req \in [Requests -> {"new", "post", "save", "ask", "accepted", "declined", "lost"}]
    /\ notice \in [Requests -> {"none", "restarting", "back"}]
    /\ postedIn \in [Requests -> 0..MaxProcs]
    /\ acked \subseteq Messages /\ seen \subseteq Messages
    /\ greetings \in Nat /\ handled \in [Messages -> Nat]
    /\ overlap \in BOOLEAN
    /\ outages \in 0..MaxOutages /\ faults \in 0..MaxFaults /\ twins \in 0..MaxTwins

Init ==
    /\ gen = 1 /\ life = "running"
    /\ sup = "waiting" /\ link = "off" /\ recycled = FALSE /\ loop = None
    /\ connectHandled = FALSE /\ greet = "off" /\ greetLive = FALSE /\ loaded = None
    /\ marker = None /\ fresh = TRUE
    /\ req = [r \in Requests |-> "new"]
    /\ notice = [r \in Requests |-> "none"]
    /\ postedIn = [r \in Requests |-> 0]
    /\ acked = {} /\ seen = {}
    /\ greetings = 0 /\ handled = [m \in Messages |-> 0] /\ overlap = FALSE
    /\ outages = 0 /\ faults = 0 /\ twins = 0

Fault == faults < MaxFaults /\ faults' = faults + 1

NoFault == UNCHANGED faults

-----------------------------------------------------------------------------
(* superviseSocket: one attempt after the other.                            *)

StartAttempt ==
    /\ life = "running" /\ sup = "waiting"
    /\ sup' = "running" /\ link' = "connecting" /\ recycled' = FALSE
    /\ UNCHANGED <<procVars, loop, greetVars, markerVars, reqVars, msgVars, boundVars>>

\* Mutant of Greets: every Connected event greets.
AlwaysGreets == TRUE

\* Slack may emit several Connected events; only the first one greets.
Greets == ~connectHandled

\* RunContext connects and the event loop handles the Connected event:
\* notifyConnected.  The greeting runs under the attempt's context.
Connects ==
    /\ life # "down" /\ sup = "running" /\ loop = None
    /\ link = "connecting"
    /\ link' = "up"
    /\ IF Greets
       THEN connectHandled' = TRUE /\ greet' = "load" /\ greetLive' = (life = "running" /\ ~recycled)
       ELSE UNCHANGED <<connectHandled, greet, greetLive>>
    /\ UNCHANGED <<procVars, sup, recycled, loop, loaded, greetings, markerVars, reqVars,
                   msgVars, boundVars>>

\* RunContext returns, or stops receiving without noticing.
LinkFails ==
    /\ life # "down" /\ outages < MaxOutages
    /\ link \in {"connecting", "up"}
    /\ link' \in {"ended", "silent"}
    /\ outages' = outages + 1
    /\ UNCHANGED <<procVars, sup, recycled, loop, greetVars, markerVars, reqVars, msgVars,
                   faults, twins>>

\* Mutant of Stalled: only the heartbeat is watched, and the Web API still works.
NeverStalled == FALSE

\* Nothing arrived for longer than the silence window.
Stalled == link = "silent"

\* The watchdog cancels the attempt, and with it the greeting.
Recycle ==
    /\ life # "down" /\ sup = "running" /\ ~recycled
    /\ Stalled
    /\ recycled' = TRUE /\ greetLive' = FALSE
    /\ UNCHANGED <<procVars, sup, link, loop, connectHandled, greet, loaded, greetings,
                   markerVars, reqVars, msgVars, boundVars>>

\* It also cancels one that is idle or slow, or whose heartbeats fail.
RecycleHealthy ==
    /\ life # "down" /\ sup = "running" /\ ~recycled
    /\ link \in {"connecting", "up"} /\ outages < MaxOutages
    /\ outages' = outages + 1
    /\ recycled' = TRUE /\ greetLive' = FALSE
    /\ UNCHANGED <<procVars, sup, link, loop, connectHandled, greet, loaded, greetings,
                   markerVars, reqVars, msgVars, faults, twins>>

\* runSocketAttempt returns, once the handler it is in does, and the
\* supervisor backs off - or stops, when the daemon does.
AttemptEnds ==
    /\ life # "down" /\ sup = "running" /\ loop = None
    /\ recycled \/ link = "ended" \/ life = "stopping"
    /\ sup' = IF life = "stopping" THEN "stopped" ELSE "waiting"
    /\ link' = "off" /\ greetLive' = FALSE
    /\ UNCHANGED <<procVars, recycled, loop, connectHandled, greet, loaded, greetings,
                   markerVars, reqVars, msgVars, boundVars>>

\* The supervisor sees the cancelled root context while it backs off.
SupervisorStops ==
    /\ life = "stopping" /\ sup = "waiting"
    /\ sup' = "stopped"
    /\ UNCHANGED <<procVars, link, recycled, loop, greetVars, markerVars, reqVars, msgVars, boundVars>>

-----------------------------------------------------------------------------
(* The greeting: consumeResumeMarker, then NotifyStartup.                   *)

Decodes == marker \in Requests

\* A file that cannot be read or decoded is left where it is.
GreetLoad ==
    /\ life # "down" /\ greet = "load"
    /\ \/ ~Decodes /\ greet' = "ping" /\ UNCHANGED loaded
       \/ Decodes /\ ~fresh /\ greet' = "clearThenPing" /\ UNCHANGED loaded
       \/ Decodes /\ fresh /\ greet' = "edit" /\ loaded' = marker
    /\ UNCHANGED <<procVars, socketVars, connectHandled, greetLive, greetings, markerVars,
                   reqVars, msgVars, boundVars>>

GreetEdit ==
    /\ life # "down" /\ greet = "edit"
    /\ \/ /\ greetLive /\ NoFault
          /\ notice' = [notice EXCEPT ![loaded] = "back"]
          /\ greetings' = greetings + 1
          /\ greet' = "clear"
       \/ /\ (~greetLive /\ NoFault) \/ Fault
          /\ greet' = "clearThenPing"
          /\ UNCHANGED <<notice, greetings>>
    /\ UNCHANGED <<procVars, socketVars, connectHandled, greetLive, loaded, markerVars,
                   req, postedIn, overlap, msgVars, outages, twins>>

\* The deferred Clear removes the file, whatever it holds by now.
GreetClear ==
    /\ life # "down" /\ greet \in {"clear", "clearThenPing"}
    /\ marker' = None
    /\ greet' = IF greet = "clear" THEN "done" ELSE "ping"
    /\ UNCHANGED <<procVars, socketVars, connectHandled, greetLive, loaded, greetings, fresh,
                   reqVars, msgVars, boundVars>>

GreetPing ==
    /\ life # "down" /\ greet = "ping"
    /\ \/ greetLive /\ NoFault /\ greetings' = greetings + 1
       \/ ((~greetLive /\ NoFault) \/ Fault) /\ UNCHANGED greetings
    /\ greet' = "done"
    /\ UNCHANGED <<procVars, socketVars, connectHandled, greetLive, loaded, markerVars,
                   reqVars, msgVars, outages, twins>>

-----------------------------------------------------------------------------
(* Restart requests.                                                        *)

Listening == life # "down" /\ sup = "running" /\ link = "up" /\ loop = None

\* handleRestartSlashCommand runs on the event loop, under the attempt's context ...
Slash(r) ==
    /\ Listening /\ req[r] = "new"
    /\ req' = [req EXCEPT ![r] = "post"]
    /\ loop' = r
    /\ UNCHANGED <<procVars, sup, link, recycled, greetVars, markerVars, notice, postedIn,
                   overlap, msgVars, boundVars>>

\* ... and handleRestartSuggestionConfirm in a goroutine, under its own.
Confirm(r) ==
    /\ Listening /\ req[r] = "new"
    /\ req' = [req EXCEPT ![r] = "post"]
    /\ UNCHANGED <<procVars, socketVars, greetVars, markerVars, notice, postedIn, overlap,
                   msgVars, boundVars>>

\* postRestartNoticeAndSaveMarker, the notice: without it there is no marker.
PostNotice(r) ==
    /\ life # "down" /\ req[r] = "post"
    /\ \/ /\ loop = r => ~recycled /\ life = "running"
          /\ NoFault
          /\ notice' = [notice EXCEPT ![r] = "restarting"]
          /\ postedIn' = [postedIn EXCEPT ![r] = gen]
          /\ overlap' = (overlap \/ greet \notin {"off", "done"})
          /\ req' = [req EXCEPT ![r] = "save"]
       \/ /\ Fault \/ (loop = r /\ (recycled \/ life = "stopping") /\ NoFault)
          /\ req' = [req EXCEPT ![r] = "ask"]
          /\ UNCHANGED <<notice, postedIn, overlap>>
    /\ UNCHANGED <<procVars, socketVars, greetVars, markerVars, msgVars, outages, twins>>

\* Mutant of Saved: the marker is not written.
NotSaved(r) == UNCHANGED marker

\* Save overwrites the marker there is.
Saved(r) == marker' = r

SaveMarker(r) ==
    /\ life # "down" /\ req[r] = "save"
    /\ \/ Saved(r) /\ fresh' = TRUE /\ NoFault
       \/ Fault /\ UNCHANGED markerVars
    /\ req' = [req EXCEPT ![r] = "ask"]
    /\ UNCHANGED <<procVars, socketVars, greetVars, notice, postedIn, overlap, msgVars,
                   outages, twins>>

\* RestartCoordinator.Request: the first one cancels the root context, and with
\* it the attempt's; the others are told that a restart is in progress.
Ask(r) ==
    /\ life # "down" /\ req[r] = "ask"
    /\ IF life = "stopping"
       THEN req' = [req EXCEPT ![r] = "declined"] /\ UNCHANGED <<life, greetLive>>
       ELSE req' = [req EXCEPT ![r] = "accepted"] /\ life' = "stopping" /\ greetLive' = FALSE
    /\ loop' = IF loop = r THEN None ELSE loop
    /\ UNCHANGED <<gen, sup, link, recycled, connectHandled, greet, loaded, greetings,
                   markerVars, notice, postedIn, overlap, msgVars, boundVars>>

\* What dies with a process: a marker half written is torn.
Dies ==
    /\ life' = "down"
    /\ marker' \in {marker} \cup {Torn : r \in {q \in Requests : req[q] = "save"}}
    /\ req' = [r \in Requests |-> IF req[r] \in {"post", "save", "ask"} THEN "lost" ELSE req[r]]
    /\ UNCHANGED <<gen, socketVars, greetVars, fresh, notice, postedIn, overlap, msgVars,
                   faults, twins>>

\* Run returns after the supervisor stopped and the deferred cleanups ran.
Drains ==
    /\ life = "stopping" /\ sup = "stopped"
    /\ Dies /\ UNCHANGED outages

\* Mutant of GraceElapsed: nobody waits with os.Exit.
NeverElapses == FALSE

GraceElapsed == life = "stopping"

\* exitAfterGrace: the process exits whatever still runs.
GraceExit ==
    /\ GraceElapsed
    /\ Dies
    /\ UNCHANGED outages

Crash ==
    /\ life # "down" /\ outages < MaxOutages
    /\ outages' = outages + 1
    /\ Dies

\* launchd starts the next process, at once or after more than an hour.
Boot ==
    /\ life = "down" /\ gen < MaxProcs
    /\ gen' = gen + 1 /\ life' = "running"
    /\ sup' = "waiting" /\ link' = "off" /\ recycled' = FALSE /\ loop' = None
    /\ connectHandled' = FALSE /\ greet' = "off" /\ greetLive' = FALSE /\ loaded' = None
    /\ fresh' \in {fresh, FALSE}
    /\ seen' = {}
    /\ greetings' = 0 /\ handled' = [m \in Messages |-> 0]
    /\ UNCHANGED <<marker, reqVars, acked, boundVars>>

-----------------------------------------------------------------------------
(* Messages: at-least-once delivery, and the dedup cache.                  *)

\* Mutant of Duplicate: what was acknowledged is not expected again.
AckedBefore(m) == m \in acked

\* isDuplicateEvent.  Slack stops redelivering long before an entry expires.
Duplicate(m) == m \in seen

\* handleEventsAPI: the event is acknowledged, and handled unless it was seen.
\* A mention is delivered a second time, as a plain message.
Deliver(m) ==
    /\ Listening
    /\ \/ m \notin acked /\ UNCHANGED twins
       \/ m \in acked /\ twins < MaxTwins /\ twins' = twins + 1
    /\ \/ acked' = acked \cup {m} /\ NoFault
       \/ Fault /\ UNCHANGED acked
    /\ seen' = seen \cup {m}
    /\ handled' = [handled EXCEPT ![m] = IF Duplicate(m) THEN @ ELSE @ + 1]
    /\ UNCHANGED <<procVars, socketVars, greetVars, markerVars, reqVars, outages>>

-----------------------------------------------------------------------------
Greeting == GreetLoad \/ GreetEdit \/ GreetClear \/ GreetPing

Request(r) == PostNotice(r) \/ SaveMarker(r) \/ Ask(r)

Next ==
    \/ StartAttempt \/ Connects \/ LinkFails \/ Recycle \/ RecycleHealthy
    \/ AttemptEnds \/ SupervisorStops
    \/ Greeting
    \/ \E r \in Requests : Slash(r) \/ Confirm(r) \/ Request(r)
    \/ Drains \/ GraceExit \/ Crash \/ Boot
    \/ \E m \in Messages : Deliver(m)

Spec == Init /\ [][Next]_vars

\* Goroutines run, timers fire, Slack is reachable again and launchd respawns
\* the daemon; that a drain ends is not assumed.
FairSpec ==
    /\ Spec
    /\ WF_vars(StartAttempt) /\ WF_vars(Connects) /\ WF_vars(Recycle) /\ WF_vars(AttemptEnds)
    /\ WF_vars(Greeting) /\ WF_vars(GraceExit) /\ WF_vars(Boot)
    /\ \A r \in Requests : WF_vars(Request(r))

-----------------------------------------------------------------------------
(* Properties.                                                              *)

\* A process greets at most once, however often it reconnects: with the back
\* online card or with the startup ping, never both.
GreetsOnce == greetings <= 1

\* A process handles a message at most once, whatever is delivered again after
\* a reconnect, a lost ack, or as the twin of a mention.
HandledOnce == \A m \in Messages : handled[m] <= 1

\* A notice says "back online" only when a later process says so - unless the
\* restart was requested while this process was still greeting.
BackOnlineHonest ==
    overlap \/ \A r \in Requests : notice[r] = "back" => postedIn[r] < gen

\* An accepted restart ends the process, whether or not it drains.
RestartHappens == life = "stopping" ~> life = "down"

\* A daemon that is not connected gets connected, also when the link fell
\* silent without failing, unless it stops first.
Reconnects == life = "running" /\ link # "up" ~> link = "up" \/ life # "running"

\* A restart asked for by r alone, with nothing going wrong around it.
Calm(r) ==
    /\ outages = 0 /\ faults = 0 /\ fresh /\ ~overlap
    /\ \A q \in Requests \ {r} : req[q] = "new"

\* The notice of a restart is not left behind: the next process turns it into
\* the back online card.
RestartConfirmed ==
    \A r \in Requests :
        (req[r] = "accepted" /\ gen < MaxProcs /\ Calm(r)) ~> (notice[r] = "back" \/ ~Calm(r))
=============================================================================
