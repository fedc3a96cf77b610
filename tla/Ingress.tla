------------------------------- MODULE Ingress -------------------------------
(***************************************************************************)
(* The daemon from its configuration files to its chat turns: it loads and *)
(* validates them, builds the agents, resolves every user reference to an   *)
(* id, reports what will not answer, and then turns Slack events and slash  *)
(* commands into turns, each routed to an agent by the channel's name.      *)
(*                                                                         *)
(* Names come from a cache that a ticker, and a miss, refresh in the        *)
(* background while channels are renamed; a message that mentions the bot   *)
(* is delivered as two events, each possibly twice.                         *)
(***************************************************************************)
EXTENDS ChatRoutes, AgentBuild, SequencesExt

CONSTANTS
  Directories,    \* configuration directories the daemon may be started on
  Host,           \* what the host offers (module AgentBuild)
  Bundled,        \* names of the bundled skills
  Users,          \* users.list: a sequence of [id, handles, active]
  Messages,       \* messages written in Slack (a record each, see Request)
  Commands,       \* /murtaugh chat commands, likewise
  Channels,       \* channel ids
  OldName,        \* their names at first ...
  NewName,        \* ... and after a rename: functions on Channels
  MaxDeliveries   \* bound: how often Slack delivers one event

(* The parts of a configuration this module reads, and the lists of user    *)
(* references in it.                                                        *)
UserRefs == [kind : {"id", "handle", "blank"}, user : STRING]

ConfigOK(c) ==
  /\ {"access", "agents", "chat"} \subseteq DOMAIN c
  /\ c.access.admin \in UserRefs /\ c.access.allowed \in Seq(UserRefs)
  /\ c.chat.everywhere \in Seq(UserRefs)
  /\ IsFiniteSet(DOMAIN c.chat.byChannel)
  /\ \A k \in DOMAIN c.chat.byChannel : c.chat.byChannel[k] \in Seq(UserRefs)

(* A message has a timestamp, a command has none.  "" is the server of      *)
(* Murtaugh's own tools, and none of those has the name of a tool that a     *)
(* native agent brings itself.                                              *)
ASSUME IngressAssumption ==
  /\ \A d \in Directories : ConfigOK(d.config)
  /\ \A m \in Messages : m.ts # ""
  /\ \A m \in Commands : m.ts = ""
  /\ "" \notin DOMAIN Host.remote
  /\ \A t \in Host.registry :
       t.name \notin {"read", "write", "edit", "ls", "terminal", "skills"}

VARIABLES
  files,      \* the configuration directory
  gateway,    \* "start", "refused" or "serving"
  config,     \* the loaded configuration
  built,      \* chatSessions: the agents that could be built
  problems,   \* what the startup summary reports
  access,     \* [admin, allowed] after resolveAllowSet
  everywhere, byChannel,   \* the no-mention lists, as resolved ids
  names,      \* channelNameCache.byID: a function on the known channels
  slackName,  \* the name each channel has now
  refresh,    \* refresh[r]: what the refresher r has listed, if it is listing
  handled,    \* recentEvents: <<channel, ts>> of the messages handled
  delivered,  \* bound: how often each <<message, event>> was delivered
  acked,      \* history: the commands that were told an answer is coming
  turns       \* the chat turns, in the order they were started

startup == <<files, gateway, config, built, problems, access, everywhere, byChannel>>
cache   == <<names, slackName, refresh>>
ingressVars == <<startup, cache, handled, delivered, acked, turns>>

Refreshers == {"ticker", "async"}
NotListing == [listing |-> FALSE]

(* ------------------------------- startup ------------------------------- *)

(* slackUserMatchesHandle, resolveUserIDs: the ids of the references, in    *)
(* order, or nothing when one is blank or matches no active user.           *)
UsersWith(ref) ==
  SelectSeq(Users, LAMBDA u : u.active /\ ref.user \in u.handles)

Resolvable(ref) ==
  ref.kind = "id" \/ (ref.kind = "handle" /\ UsersWith(ref) # <<>>)

ResolveRef(ref) == IF ref.kind = "id" THEN ref ELSE UserId(UsersWith(ref)[1].id)

KeySeq(c) == SetToSeq(DOMAIN c.chat.byChannel)

(* The references resolveAllowSet sends to resolveUserIDs, concatenated.    *)
References(c) ==
  (IF c.access.admin.kind = "blank" THEN <<>> ELSE <<c.access.admin>>)
    \o c.access.allowed \o c.chat.everywhere
    \o FlattenSeq([i \in 1..Len(KeySeq(c)) |-> c.chat.byChannel[KeySeq(c)[i]]])

(* Mutant of Slices: the admin's own slot is not skipped.                   *)
SlicesFromZero(c) ==
  LET a == 0
      b == a + Len(c.access.allowed)
      e == b + Len(c.chat.everywhere)
  IN  [allowed |-> <<a, b>>, everywhere |-> <<b, e>>, keys |-> e]

(* Where each list starts and ends in the resolved sequence.                *)
Slices(c) ==
  LET a == IF c.access.admin.kind = "blank" THEN 0 ELSE 1
      b == a + Len(c.access.allowed)
      e == b + Len(c.chat.everywhere)
  IN  [allowed |-> <<a, b>>, everywhere |-> <<b, e>>, keys |-> e]

Slice(ids, bounds) == SubSeq(ids, bounds[1] + 1, bounds[2])

(* The part of the resolved sequence that belongs to the i-th channel key.  *)
KeySlice(c, i) ==
  LET before == FlattenSeq([j \in 1..(i - 1) |-> c.chat.byChannel[KeySeq(c)[j]]])
      start  == Slices(c).keys + Len(before)
  IN  <<start, start + Len(c.chat.byChannel[KeySeq(c)[i]])>>

Users_(seq) == {seq[i].user : i \in 1..Len(seq)}

ResolveAllowSet(c) ==
  LET refs == References(c)
      ids  == [i \in 1..Len(refs) |-> ResolveRef(refs[i])]
  IN  /\ access' = [admin   |-> IF c.access.admin.kind = "blank" THEN NoUser
                                                                 ELSE ids[1],
                    allowed |-> Slice(ids, Slices(c).allowed)]
      /\ everywhere' = Users_(Slice(ids, Slices(c).everywhere))
      /\ byChannel' = [k \in DOMAIN c.chat.byChannel |->
           LET i == CHOOSE i \in 1..Len(KeySeq(c)) : KeySeq(c)[i] = k
           IN  Users_(Slice(ids, KeySlice(c, i)))]

Servers(c) == DOMAIN c.servers

Built(c) ==
  IF c.chat.enabled THEN {a \in DOMAIN c.agents : Builds(c.agents[a], Host)} ELSE {}

(* Mutant of Problems: only the routes are checked.                         *)
RouteProblems(c, up) ==
  {<<"route", c.chat.channels[k].agent>> :
     k \in {k \in DOMAIN c.chat.channels : c.chat.channels[k].agent \notin up \cup {""}}}

(* buildStartupSummary: an agent that was not built, the tools one lost,    *)
(* and the routes and defaults that lead to an agent that was not built.    *)
Problems(c, up) ==
  IF ~c.chat.enabled THEN {}
  ELSE {<<"agent", a>> : a \in DOMAIN c.agents \ up}
         \cup UNION {{<<"tool", a, g>> : g \in Dropped(c.agents[a], Host)} : a \in DOMAIN c.agents}
         \cup {<<"route", IF c.chat.channels[k].agent = "" THEN c.chat.agent
                          ELSE c.chat.channels[k].agent>> : k \in
                 {k \in DOMAIN c.chat.channels :
                    (IF c.chat.channels[k].agent = "" THEN c.chat.agent
                     ELSE c.chat.channels[k].agent) \notin up}}
         \cup {<<"default", a>> : a \in {c.chat.agent, c.chat.dmAgent} \ (up \cup {""})}

(* app: Load, then gateway.New and the first steps of Run.                  *)
StartServing ==
  /\ gateway = "start"
  /\ IF Loads(files, Bundled)
     THEN LET c == Baked(files.config) IN
          /\ config' = c
          /\ IF \A i \in 1..Len(References(c)) : Resolvable(References(c)[i])
             THEN /\ gateway' = "serving"
                  /\ built' = Built(c)
                  /\ problems' = Problems(c, Built(c))
                  /\ ResolveAllowSet(c)
             ELSE /\ gateway' = "refused"
                  /\ UNCHANGED <<built, problems, access, everywhere, byChannel>>
     ELSE /\ gateway' = "refused"
          /\ UNCHANGED <<config, built, problems, access, everywhere, byChannel>>
  /\ UNCHANGED <<files, cache, handled, delivered, acked, turns>>

(* --------------------------- the channel cache ------------------------- *)

(* nameFor: "" for a channel the cache has not learned.                     *)
NameFor(ch) == IF ch \in DOMAIN names THEN names[ch] ELSE ""

(* refreshAsync on a miss: at most one background refresh at a time.        *)
AfterLookup(r, ch) ==
  IF ch \in DOMAIN names \/ r["async"].listing THEN r
  ELSE [r EXCEPT !["async"] = [listing |-> TRUE, found |-> slackName]]

(* The ticker fires, or run warms the cache: ListChannels reads the names.  *)
TickNames ==
  /\ gateway = "serving" /\ ~refresh["ticker"].listing
  /\ refresh' = [refresh EXCEPT !["ticker"] = [listing |-> TRUE, found |-> slackName]]
  /\ UNCHANGED <<startup, names, slackName, handled, delivered, acked, turns>>

(* refresh: the list arrives and replaces the cache, however old it is ...  *)
Listed(r) ==
  /\ refresh[r].listing
  /\ names' = refresh[r].found
  /\ refresh' = [refresh EXCEPT ![r] = NotListing]
  /\ UNCHANGED <<startup, slackName, handled, delivered, acked, turns>>

(* ... or the call fails and the cache stays as it is.                      *)
ListFails(r) ==
  /\ refresh[r].listing
  /\ refresh' = [refresh EXCEPT ![r] = NotListing]
  /\ UNCHANGED <<startup, names, slackName, handled, delivered, acked, turns>>

Rename(ch) ==
  /\ slackName[ch] # NewName[ch]
  /\ slackName' = [slackName EXCEPT ![ch] = NewName[ch]]
  /\ UNCHANGED <<startup, names, refresh, handled, delivered, acked, turns>>

(* ------------------------------- events -------------------------------- *)

Request(m, source) ==
  [channel |-> m.channel, dm |-> m.dm /\ source = "dm", user |-> m.user,
   thread |-> m.thread, ts |-> m.ts, empty |-> m.empty, override |-> "",
   source |-> source]

NotHandled == [channel |-> "", dm |-> FALSE, thread |-> ""]

(* Gateway.startChat: the route is resolved, for the conversation the turn  *)
(* is registered under, and a goroutine is started for chat.Handle.  (The   *)
(* registry and the interrupts are module ChatTurns.)                       *)
BeginTurn(req, r) ==
  \E route \in Routes(req, NameFor(req.channel), config.chat) :
    /\ turns' = Append(turns,
         [req |-> req, known |-> NameFor(req.channel), route |-> route,
          registered |-> ConversationKey(req, route.threaded), at |-> "started",
          key |-> NotHandled, reply |-> "", display |-> ""])
    /\ refresh' = IF req.dm THEN r ELSE AfterLookup(r, req.channel)

(* Mutant of Duplicate: events are not deduplicated.                        *)
NeverDuplicate(m) == FALSE
Duplicate(m) == <<m.channel, m.ts>> \in handled

Accept(m, source, r) ==
  IF Duplicate(m)
  THEN refresh' = r /\ UNCHANGED <<handled, turns>>
  ELSE /\ handled' = handled \cup {<<m.channel, m.ts>>}
       /\ BeginTurn(Request(m, source), r)

Receive(m, event) ==
  /\ gateway = "serving" /\ delivered[<<m, event>>] < MaxDeliveries
  /\ delivered' = [delivered EXCEPT ![<<m, event>>] = @ + 1]
  /\ UNCHANGED <<startup, names, slackName, acked>>

Ignore == UNCHANGED <<refresh, handled, turns>>

(* handleEventsAPI, app_mention: Slack sends it for a mention in a channel. *)
Mention(m) ==
  /\ m.mentions /\ ~m.dm
  /\ Receive(m, "mention")
  /\ IF config.chat.enabled /\ m.kind # "bot" /\ IsAllowedUser(access, m.user)
     THEN Accept(m, "app_mention", refresh) ELSE Ignore

(* handleEventsAPI, message: bots and edits are ignored; handleDirectMessage *)
(* and handleChannelMessage.  Only an author who is waived from the mention  *)
(* requirement is answered in a channel, and only a message that passed all *)
(* this is remembered, so that its twin event is still handled.              *)
Message(m) ==
  /\ Receive(m, "message")
  /\ IF ~(config.chat.enabled /\ m.kind \in {"text", "upload"}
          /\ IsAllowedUser(access, m.user))
     THEN Ignore
     ELSE IF m.dm THEN Accept(m, "dm", refresh)
     ELSE IF m.user \in UsersAllowedWithoutMention(m.channel, NameFor(m.channel),
                                                   everywhere, byChannel)
     THEN Accept(m, "channel_no_mention", AfterLookup(refresh, m.channel))
     ELSE /\ refresh' = AfterLookup(refresh, m.channel)
          /\ UNCHANGED <<handled, turns>>

(* handleChatSlashCommand: the payload of a slash command has no message.   *)
SlashChat(m) ==
  /\ gateway = "serving" /\ m \notin acked
  /\ config.chat.enabled /\ IsAllowedUser(access, m.user) /\ ~m.empty
  /\ acked' = acked \cup {m}
  /\ BeginTurn(Request(m, "slash_command"), refresh)
  /\ UNCHANGED <<startup, names, slackName, handled, delivered>>

(* ChatHandler.Handle up to the prompt.  It resolves the route again.       *)
Handle(i) ==
  /\ turns[i].at = "started"
  /\ LET req == turns[i].req IN
     \E route \in Routes(req, NameFor(req.channel), config.chat) :
       /\ turns' = [turns EXCEPT ![i] = [@ EXCEPT
            !.route = route,
            !.key = ConversationKey(req, route.threaded),
            !.reply = ReplyThreadTS(req, route.threaded),
            !.display = EffectiveProgressDisplay(config, route.agent),
            !.at = CASE route.agent \notin built          -> "no agent"
                     [] req.empty                         -> "empty prompt"
                     [] req.thread = "" /\ req.ts = ""    -> "no timestamp"
                     [] OTHER                             -> "answering"]]
       /\ refresh' = IF req.dm THEN refresh ELSE AfterLookup(refresh, req.channel)
  /\ UNCHANGED <<startup, names, slackName, handled, delivered, acked>>

(* --------------------------- specification ----------------------------- *)

NoConfig == [chat |-> [enabled |-> FALSE]]

IngressInit ==
  /\ files \in Directories /\ gateway = "start" /\ config = NoConfig
  /\ built = {} /\ problems = {}
  /\ access = [admin |-> NoUser, allowed |-> <<>>]
  /\ everywhere = {} /\ byChannel = [k \in {} |-> {}]
  /\ names = [ch \in {} |-> ""] /\ slackName = OldName
  /\ refresh = [r \in Refreshers |-> NotListing]
  /\ handled = {} /\ acked = {} /\ turns = <<>>
  /\ delivered = [e \in Messages \X {"mention", "message"} |-> 0]

IngressNext ==
  \/ StartServing
  \/ TickNames
  \/ \E r \in Refreshers : Listed(r) \/ ListFails(r)
  \/ \E ch \in Channels : Rename(ch)
  \/ \E m \in Messages : Mention(m) \/ Message(m)
  \/ \E m \in Commands : SlashChat(m)
  \/ \E i \in 1..Len(turns) : Handle(i)

IngressSpec == IngressInit /\ [][IngressNext]_ingressVars

(* ----------------------------- properties ------------------------------ *)

(* The users a list of references of the files names: by id, or as the      *)
(* first active user with that handle.                                      *)
NamedIn(refs) == {ResolveRef(refs[i]).user : i \in 1..Len(refs)}

(* Whoever gets a turn is named for it in the files: as the admin or an     *)
(* allowed user and, for a plain channel message, also in a no-mention list *)
(* that covers the channel under the name the gateway knew (the positional  *)
(* slices of resolveAllowSet, gateway.go:735-752; the waiver is             *)
(* "mention-only", gateway.go:1209).                                        *)
OnlyNamedUsers ==
  \A i \in 1..Len(turns) :
    LET t == turns[i]
        c == files.config
        admin == IF c.access.admin.kind = "blank" THEN <<>> ELSE <<c.access.admin>>
    IN  /\ t.req.user \in NamedIn(admin \o c.access.allowed)
        /\ t.req.source = "channel_no_mention" =>
             \/ t.req.user \in NamedIn(c.chat.everywhere)
             \/ \E k \in DOMAIN c.chat.byChannel :
                  /\ KeyMatches(k, t.req.channel, t.known)
                  /\ t.req.user \in NamedIn(c.chat.byChannel[k])

(* A message starts one turn however its two events are delivered, and one  *)
(* that mentions the bot is never lost between them: when both have arrived *)
(* there is a turn (gateway.go:1214-1218).                                  *)
OneTurnPerMessage ==
  \A m \in Messages :
    LET n == Cardinality({i \in 1..Len(turns) :
                turns[i].req.channel = m.channel /\ turns[i].req.ts = m.ts})
    IN  /\ n <= 1
        /\ (/\ \A e \in {"mention", "message"} : delivered[<<m, e>>] > 0
            /\ m.mentions /\ m.kind = "text" /\ config.chat.enabled
            /\ IsAllowedUser(access, m.user)) => n = 1

(* A turn that is refused because its agent did not come up was announced:  *)
(* the startup summary named that agent, so a misroute is visible without   *)
(* reproducing it (startup_routing.go:30-32).                               *)
RefusalAnnounced ==
  \A i \in 1..Len(turns) :
    turns[i].at = "no agent" => <<"agent", turns[i].route.agent>> \in problems

(* An ACP agent is served what a native agent with the same profile has,    *)
(* less the groups it brings itself and the tools that rewrite Murtaugh's   *)
(* configuration (aggregator.go:24-30, 140-146).                            *)
SameSurface ==
  \A a \in built :
    LET p == config.agents[a] IN
    ResolvedKind(p) = "acp" =>
      /\ Surface(p, Servers(config), Host) =
           NativeSurface(p, Servers(config), Host)
             \ ((UNION {GroupTools(g) : g \in {"files", "terminal", "skills"}})
                  \cup Own({"setup"})
                  \cup Own({t.name : t \in {t \in Host.registry : t.ns = "setup"}}))

(* Whoever gets a turn is named for it in the files, and an ACP agent is     *)
(* served the tools of a native one (gateway.go:735-752,                     *)
(* aggregator.go:24-30).                                                     *)
NamedAndServed == OnlyNamedUsers /\ SameSurface

(* A message starts one turn however its two events are delivered, and a    *)
(* turn that is refused was announced at startup (gateway.go:1214-1218,      *)
(* startup_routing.go:30-32).                                               *)
TurnsAccounted == OneTurnPerMessage /\ RefusalAnnounced
=============================================================================
