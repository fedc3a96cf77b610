------------------------------ MODULE AgentBuild ------------------------------
(***************************************************************************)
(* From an agent profile to a client: the workspace (agentbuild.Resolve),  *)
(* the tools it is given (toolset.Resolve for a native agent, the          *)
(* aggregator's surface for an ACP agent), and whether the client can be    *)
(* built at all.  Pure operators over a host record:                        *)
(*   base      the configuration directory, "" when there is none           *)
(*   keys      the environment variables that hold a credential             *)
(*   prompts   the system prompt files that can be read                     *)
(*   registry  Murtaugh's own tools: a set of [name, ns]                    *)
(*   remote    the MCP servers that answer: a function to their tools       *)
(* A tool is <<server, name>>; the server of Murtaugh's own tools is "".     *)
(***************************************************************************)
EXTENDS Configuration

NativeGroups  == {"files", "terminal", "skills", "attach"}
WorkdirRooted == {"files", "terminal", "attach"}

(* Mutant of NativeOnlyACP: the terminal is served over the bridge too.     *)
AllButTerminal == {"files", "skills"}

NativeOnlyACP == {"files", "terminal", "skills"}

(* ------------------------- agentbuild.Resolve -------------------------- *)

(* The workdir of the profile, or the base directory.                       *)
Dir(p, host) == IF p.workdir # "" THEN p.workdir ELSE host.base
Rooted(p, host) == Dir(p, host) # ""

(* The groups that need a workspace are dropped when there is none, and     *)
(* each is reported as a problem; the agent itself stays.                   *)
Dropped(p, host) == IF Rooted(p, host) THEN {} ELSE p.tools \cap WorkdirRooted
EffectiveTools(p, host) == p.tools \ Dropped(p, host)

(* --------------------------- toolset.Resolve --------------------------- *)

Own(tools) == {<<"", t>> : t \in tools}
GroupTools(g) ==
  Own(IF g = "files" THEN {"read", "write", "edit", "ls"} ELSE {g})

(* registryMatches: an entry names a tool or a namespace; "manage" and a    *)
(* misspelt entry match nothing, silently.                                  *)
RegistryMatches(entry, registry) ==
  Own({t.name : t \in {t \in registry : entry = t.name \/ entry = t.ns}})

ResolveTools(allow, registry, remote, rooted, managedSkills) ==
  (UNION {GroupTools(g) : g \in {g \in allow \cap NativeGroups :
                                   /\ g \in WorkdirRooted => rooted
                                   /\ g = "skills" => managedSkills}})
  \cup (UNION {RegistryMatches(e, registry) : e \in allow \ NativeGroups})
  \cup remote

(* mcpclient.Open: every server of the configuration that answers, each of  *)
(* its tools under the server's name; the others are skipped.               *)
Remote(servers, host) ==
  UNION {{<<s, t>> : t \in host.remote[s]} : s \in servers \cap DOMAIN host.remote}

(* native.Client.Initialize.                                                *)
NativeSurface(p, servers, host) ==
  ResolveTools(EffectiveTools(p, host), host.registry, Remote(servers, host),
          Rooted(p, host), TRUE)

(* Mutant of BridgeUnsafe: only the bare name is recognized.                *)
UnsafeByName(registry) == Own({"setup"})

(* bridgeUnsafe: the tools that rewrite Murtaugh's own configuration.       *)
BridgeUnsafe(registry) ==
  Own({"setup"} \cup {t.name : t \in {t \in registry : t.ns = "setup"}})

(* resolveBuiltins and acpAggregator.resolvedToolset.                       *)
ACPSurface(p, servers, host) ==
  (ResolveTools(EffectiveTools(p, host) \ NativeOnlyACP, host.registry, {},
           Rooted(p, host), FALSE) \ BridgeUnsafe(host.registry))
  \cup Remote(servers, host)

Surface(p, servers, host) ==
  IF ResolvedKind(p) = "native" THEN NativeSurface(p, servers, host)
                                ELSE ACPSurface(p, servers, host)

(* ------------------------- agentbuild.Client --------------------------- *)

(* native.Build needs the credential and the system prompt file; an ACP     *)
(* agent's command is not looked up before its first session.               *)
Builds(p, host) ==
  p.native # Absent =>
    /\ p.native.keyEnv \in host.keys
    /\ p.native.promptFile \in host.prompts \cup {""}
=============================================================================
