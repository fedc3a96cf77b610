---------------------------- MODULE Configuration ----------------------------
(***************************************************************************)
(* The configuration files as they are parsed, what Config.Validate        *)
(* accepts, and the settings the running daemon derives from them.  Pure   *)
(* operators: the state machines that load and use a configuration are     *)
(* Ingress and Workflow.  (The jobs part of Validate is in module Jobs.)   *)
(*                                                                         *)
(* A text is a model value or a short string; "" is a blank one.  A block  *)
(* that is absent from the YAML (a nil pointer) is Absent.  A map of the   *)
(* YAML is a function on its keys.                                         *)
(***************************************************************************)
EXTENDS Naturals, Sequences, FiniteSets

Absent == [absent |-> TRUE]

(* A setting the code compares with the words it knows: the word, and       *)
(* whether it is spelt exactly as the code spells it (it may have upper-case *)
(* letters, "Prompt").                                                       *)
Setting(w)   == [word |-> w, exact |-> TRUE]
Unset        == Setting("")
ToLower(s)   == Setting(s.word)

(* ------------------------------- types --------------------------------- *)

(* A duration is "" or the text of one: malformed, not positive, or usable. *)
ParsesOrBlank(d) == d # "malformed"
PositiveOrBlank(d) == d \notin {"malformed", "zero"}

(* RuntimeDefaults: the durations by name, the counts, the rendering and    *)
(* the approval policy every agent inherits.                                *)
NoDefaults ==
  [durations |-> [f \in {} |-> ""], maxConcurrent |-> 0, minChunk |-> 0,
   progress |-> Unset, approval |-> [terminal |-> Unset, requests |-> Unset]]

NativeBlock(provider) ==
  [provider |-> provider, model |-> "m", keyEnv |-> "KEY", prompt |-> "",
   promptFile |-> "", contextLimit |-> 0, compaction |-> Unset, cache |-> Unset]
ACPBlock(command) ==
  [command |-> command, interruptible |-> "probe", envKeys |-> {}]

Profile(native, acp) ==
  [workdir |-> "", tools |-> {}, export |-> {}, servers |-> {},
   approval |-> [terminal |-> Unset, requests |-> Unset], progress |-> Unset,
   native |-> native, acp |-> acp]

(* ----------------------------- validation ------------------------------ *)

KnownStreams == {"gateway", "job", "acp_session"}

(* JournalConfig.Validate.                                                  *)
ValidJournal(j) ==
  /\ \A s \in DOMAIN j.streams :
       s \in KnownStreams /\ PositiveOrBlank(j.streams[s].retention)
  /\ PositiveOrBlank(j.sweep)

(* validateProgressDisplay, normalizeProgressDisplay.                       *)
NormalDisplay(s) == IF s.word \in {"simplified", "tasks"} THEN s.word ELSE ""
ValidDisplay(s) == s.word = "" \/ NormalDisplay(s) # ""

(* RuntimeDefaults.Validate.  It says nothing of the approval policy, and a *)
(* duration only has to parse.                                              *)
ValidDefaults(d) ==
  /\ \A f \in DOMAIN d.durations : ParsesOrBlank(d.durations[f])
  /\ d.maxConcurrent >= 0 /\ d.minChunk >= 0
  /\ ValidDisplay(d.progress)

(* AgentProfile.ResolvedKind, ResolvedACPPermission.                        *)
ResolvedKind(p) == IF p.acp # Absent THEN "acp" ELSE "native"
ResolvedACPPermission(p) ==
  IF p.approval.requests.word = "" THEN "ask" ELSE p.approval.requests.word

(* AgentProfile.Validate.                                                   *)
ValidACPAgent(p) ==
  /\ p.acp.command # ""
  /\ ResolvedACPPermission(p) \in {"ask", "auto-allow", "auto-deny"}

TerminalModes == {"allowlist", "prompt", "off"}

(* validateNativeAgent.                                                     *)
ValidNativeAgent(p) ==
  LET n == p.native IN
  /\ n.provider \in {"gemini", "anthropic", "openai"}
  /\ n.model # "" /\ n.keyEnv # ""
  /\ n.prompt = "" \/ n.promptFile = ""
  /\ n.contextLimit >= 0
  /\ n.compaction.word \in {"", "truncate", "summarize"}
  /\ n.cache.word \in {"", "off", "none", "5m", "short", "1h", "long"}
  /\ ToLower(p.approval.terminal).word \in {""} \cup TerminalModes

(* validateExportSkills, validateMCPRefs: only known names.                 *)
ValidExports(p, bundled) == p.export \subseteq bundled \cup {"all"}
ValidRefs(p, servers)    == p.servers \subseteq DOMAIN servers

(* The checks of one agent in Config.Validate: exactly one backend block.   *)
ValidAgent(p, servers, bundled) ==
  /\ ValidDisplay(p.progress)
  /\ ValidExports(p, bundled)
  /\ (p.native = Absent) # (p.acp = Absent)
  /\ p.native # Absent => ValidNativeAgent(p)
  /\ p.acp # Absent => ValidACPAgent(p) /\ "has=sign" \notin p.acp.envKeys
  /\ ValidRefs(p, servers)

(* validateMCPServer: exactly one transport.                                *)
ValidServer(s) ==
  (s.command = "") # (s.url = "") /\ "has=sign" \notin s.envKeys

(* The chat part of Config.Validate; keys of the channel maps are ids,      *)
(* names or globs (module ChatRoutes), and only a glob can be malformed.    *)
ValidChat(chat, agents) ==
  chat.enabled =>
    /\ chat.agent \in DOMAIN agents
    /\ chat.dmAgent \in DOMAIN agents \cup {""}
    /\ \A k \in DOMAIN chat.channels :
         k.kind # "malformed" /\ chat.channels[k].agent \in DOMAIN agents \cup {""}
    /\ \A k \in DOMAIN chat.byChannel : k.kind # "malformed"

(* TriggerConfig.UnmarshalYAML: exactly one action, one of the three.       *)
Parses(trigger) ==
  trigger.action \in {"reply-to-slack", "run", "delegate-to-agent"}

ValidRun(r) == r.cmd # ""

(* validateDelegate: a prompt, and an agent that is defined or, where the   *)
(* channel router may choose, none.                                         *)
ValidDelegate(d, agents, agentOptional) ==
  /\ d # Absent
  /\ IF d.agent = "" THEN agentOptional ELSE d.agent \in DOMAIN agents
  /\ d.prompt # ""

(* What renders a reply or an unfurl: exactly one of the three.             *)
ValidSource(s, agents) ==
  /\ Cardinality({x \in {"template", "run", "delegate"} :
                    \/ x = "template" /\ s.template # ""
                    \/ x = "run" /\ s.run # Absent
                    \/ x = "delegate" /\ s.delegate # Absent}) = 1
  /\ s.run # Absent => ValidRun(s.run)
  /\ s.delegate # Absent => ValidDelegate(s.delegate, agents, FALSE)

(* validateTrigger.                                                         *)
ValidTrigger(t, agents) ==
  CASE t.action = "reply-to-slack"    -> ValidSource(t.source, agents)
    [] t.action = "run"               -> ValidRun(t.run)
    [] t.action = "delegate-to-agent" -> ValidDelegate(t.delegate, agents, TRUE)

(* The workflow part of Config.Validate.                                    *)
ValidRule(rule, agents) ==
  /\ rule.requestEvent = "interactive"
  /\ rule.match # {}
  /\ Len(rule.triggers) > 0
  /\ \A i \in 1..Len(rule.triggers) : ValidTrigger(rule.triggers[i], agents)

(* validateUnfurlRule.                                                      *)
ValidUnfurlRule(rule, agents) ==
  /\ rule.domain # "" \/ rule.prefix # "" \/ rule.pattern # ""
  /\ rule.pattern # "malformed"
  /\ "" \notin rule.channels
  /\ ValidSource(rule.source, agents)

(* Config.Validate.                                                         *)
Valid(c, bundled) ==
  /\ c.appToken # "" /\ c.botToken # ""
  /\ ValidJournal(c.journal)
  /\ \A i \in 1..Len(c.access.allowed) : c.access.allowed[i].kind # "blank"
  /\ ValidDefaults(c.defaults)
  /\ \A a \in DOMAIN c.agents : ValidAgent(c.agents[a], c.servers, bundled)
  /\ \A s \in DOMAIN c.servers : ValidServer(c.servers[s])
  /\ ValidChat(c.chat, c.agents)
  /\ \A r \in DOMAIN c.rules : ValidRule(c.rules[r], c.agents)
  /\ \A r \in DOMAIN c.unfurls : ValidUnfurlRule(c.unfurls[r], c.agents)

(* ------------------------------- loading ------------------------------- *)

(* Config.EffectiveApproval: each field of the agent wins when it is set.   *)
EffectiveApproval(c, p) ==
  [f \in DOMAIN p.approval |->
     IF p.approval[f].word # "" THEN p.approval[f] ELSE c.defaults.approval[f]]

(* config.Load: every file of the directory is parsed (one that is missing  *)
(* is empty, one that cannot be parsed fails the load), the result          *)
(* validated as a whole, and then the default approval policy baked into    *)
(* the agents.                                                              *)
Loads(files, bundled) ==
  /\ "gateway.yaml" \in files.present
  /\ files.unparsable \cap files.present = {}
  /\ \A r \in DOMAIN files.config.rules :
       \A i \in 1..Len(files.config.rules[r].triggers) :
         Parses(files.config.rules[r].triggers[i])
  /\ Valid(files.config, bundled)

Baked(c) ==
  [c EXCEPT !.agents = [a \in DOMAIN @ |->
     [@[a] EXCEPT !.approval = EffectiveApproval(c, c.agents[a])]]]

(* ------------------------- effective settings -------------------------- *)

(* Config.EffectiveProgressDisplay.                                         *)
EffectiveProgressDisplay(c, a) ==
  CASE a \in DOMAIN c.agents /\ NormalDisplay(c.agents[a].progress) # ""
         -> NormalDisplay(c.agents[a].progress)
    [] NormalDisplay(c.defaults.progress) # "" -> NormalDisplay(c.defaults.progress)
    [] OTHER -> "simplified"

(* ChatDefaults.EffectiveReplyOnThread: threaded unless it says otherwise.  *)
EffectiveReplyOnThread(chat) == chat.replyOnThread # "channel"

(* --------------------------- authorization ----------------------------- *)

(* A user reference is an id or a handle, or blank.                         *)
UserId(u)   == [kind |-> "id", user |-> u]
HandleOf(u) == [kind |-> "handle", user |-> u]
NoUser      == [kind |-> "blank", user |-> ""]

(* AccessConfig.IsAdminUser, IsAllowedUser: by id only, so a handle that    *)
(* was not resolved matches nobody.                                         *)
IsAdminUser(access, u) == access.admin = UserId(u)
IsAllowedUser(access, u) ==
  IsAdminUser(access, u)
  \/ \E i \in 1..Len(access.allowed) : access.allowed[i] = UserId(u)
=============================================================================
