------------------------------ MODULE MCSettings ------------------------------
(* Configurations, users and what they write, small enough for TLC: for the  *)
(* instances of Ingress and of Workflow.                                     *)
EXTENDS AgentBuild

(* Three agents (native, one whose credential is missing, ACP), a channel    *)
(* that is found by its id, by its name and by a glob, and user references   *)
(* that are ids, handles and a handle nobody has.                            *)
Id(c)         == [kind |-> "id", of |-> c, prefix |-> 0, names |-> {}]
Name(n)       == [kind |-> "name", of |-> n, prefix |-> 0, names |-> {}]
Glob(p, ns)   == [kind |-> "glob", of |-> "", prefix |-> p, names |-> ns]
To(a, reply)  == [agent |-> a, reply |-> reply]

SomeHost ==
  [base |-> "", keys |-> {"KEY"}, prompts |-> {},
   registry |-> {[name |-> "jobs_run", ns |-> "jobs"],
                 [name |-> "setup_apply", ns |-> "setup"]},
   remote |-> [s \in {"web"} |-> {"fetch"}]]

Native == [Profile(NativeBlock("gemini"), Absent) EXCEPT
             !.tools = {"files", "attach", "skills", "jobs", "setup"}, !.servers = {"web"}]
Broken == [Profile([NativeBlock("openai") EXCEPT !.keyEnv = "NONE"], Absent) EXCEPT
             !.workdir = "w"]
ACP    == [Profile(Absent, ACPBlock("claude")) EXCEPT
             !.tools = {"terminal", "attach", "jobs", "setup"}, !.servers = {"web"},
             !.workdir = "w"]

Chat(channels) ==
  [enabled |-> TRUE, agent |-> "nat", dmAgent |-> "acp", replyOnThread |-> "unset",
   channels |-> channels, everywhere |-> <<HandleOf("bob")>>,
   byChannel |-> [k \in {Glob(2, {"ops"})} |-> <<UserId("u3"), HandleOf("dan")>>]]

Config(agents, admin, channels) ==
  [appToken |-> "a", botToken |-> "b",
   journal |-> [streams |-> [s \in {} |-> {}], sweep |-> ""],
   access |-> [admin |-> admin, allowed |-> <<UserId("u2"), HandleOf("cyd")>>],
   defaults |-> [NoDefaults EXCEPT !.progress = Setting("tasks")],
   agents |-> agents, servers |-> [s \in {"web"} |-> [command |-> "", url |-> "u", envKeys |-> {}]],
   chat |-> Chat(channels), rules |-> [r \in {} |-> {}], unfurls |-> [r \in {} |-> {}]]

Directory(c) == [present |-> {"gateway.yaml"}, unparsable |-> {}, config |-> c]

Three == [a \in {"nat", "bad", "acp"} |->
            CASE a = "nat" -> Native [] a = "bad" -> Broken [] a = "acp" -> ACP]

SomeDirectories ==
  LET good == Config(Three, HandleOf("ann"),
                [k \in {Id("c1"), Name("ops"), Glob(1, {"ops"})} |->
                   CASE k.kind = "id"   -> To("", "channel")
                     [] k.kind = "name" -> To("bad", "unset")
                     [] OTHER           -> To("acp", "thread")])
  IN {Directory(good),
      Directory([good EXCEPT !.access.admin = NoUser, !.agents["nat"].native.keyEnv = "NONE"]),
      Directory([good EXCEPT !.access.allowed = <<>>]),
      Directory([good EXCEPT !.access.admin = HandleOf("gone")]),
      Directory([good EXCEPT !.chat.agent = "nobody"])}

SomeUsers == <<[id |-> "u9", handles |-> {"ann"}, active |-> FALSE],
             [id |-> "u1", handles |-> {"ann", "admin"}, active |-> TRUE],
             [id |-> "u2", handles |-> {"bob"}, active |-> TRUE],
             [id |-> "u3", handles |-> {"cyd"}, active |-> TRUE],
             [id |-> "u4", handles |-> {"dan"}, active |-> TRUE]>>

Written(ch, dm, u, mentions, ts) ==
  [channel |-> ch, dm |-> dm, user |-> u, mentions |-> mentions, kind |-> "text",
   thread |-> "", ts |-> ts, empty |-> FALSE]

SomeMessages == {Written("c2", FALSE, "u2", TRUE, "t1"),
               Written("c1", FALSE, "u1", FALSE, "t2"),
               Written("d", TRUE, "u3", FALSE, "t3")}
SomeCommands == {[channel |-> "c1", dm |-> FALSE, user |-> "u1", thread |-> "",
                ts |-> "", empty |-> FALSE]}
SomeChannels == {"c1", "c2"}
SomeNames == [c \in SomeChannels |-> IF c = "c2" THEN "ops" ELSE "gen"]
SomeNewNames == [c \in SomeChannels |-> IF c = "c2" THEN "dev" ELSE "gen"]

(* Two rules that both match a threaded button, a home-tab button a greedy   *)
(* rule also matches, and a message with more links than are previewed.      *)
Source(t, r, d) == [template |-> t, run |-> r, delegate |-> d]
Command == [cmd |-> "c"]
Agent   == [agent |-> "", prompt |-> "p"]
ReplyTrigger(s) == [action |-> "reply-to-slack", source |-> s]
RunTrigger   == [action |-> "run", run |-> Command]
AgentTrigger == [action |-> "delegate-to-agent", delegate |-> Agent]

Rule(match, triggers) ==
  [requestEvent |-> "interactive", match |-> match, triggers |-> triggers]
Unfurl(domain, channels) ==
  [domain |-> domain, prefix |-> "", pattern |-> "", channels |-> channels,
   source |-> Source("t", Absent, Absent)]

SomeSettings ==
  [access  |-> [admin |-> UserId("u1"), allowed |-> <<>>],
   chat    |-> [enabled |-> TRUE],
   rules   |-> <<Rule({"deploy", "prod"}, <<RunTrigger>>),
                 Rule({"deploy"}, <<ReplyTrigger(Source("", Absent, Agent)), RunTrigger, AgentTrigger>>),
                 Rule({"button"}, <<ReplyTrigger(Source("t", Absent, Absent))>>)>>,
   unfurls |-> <<Unfurl("d1", {"c2"}), Unfurl("d1", {}), Unfurl("d2", {})>>]

Click(kind, user, facts) ==
  [kind |-> kind, user |-> user, facts |-> facts, channel |-> "c1", thread |-> "t0",
   ts |-> "t1", responseURL |-> "r"]

SomeClicks == {Click("rule", "u1", {"deploy", "button"}),
             Click("home-update-click", "u1", {"button"}),
             Click("rule", "u2", {"deploy"})}

Link(url, domains) == [url |-> url, satisfies |-> domains]
SomeLinks == {[channel |-> "c1", composing |-> FALSE, own |-> FALSE,
              links |-> <<Link("a", {"d1"}), Link("a", {"d1"}), Link("b", {}),
                          Link("e", {"d2"}), Link("f", {"d1"})>>],
             [channel |-> "c1", composing |-> TRUE, own |-> FALSE,
              links |-> <<Link("a", {"d1"})>>]}
=============================================================================
