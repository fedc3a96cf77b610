------------------------------- MODULE Workflow -------------------------------
(***************************************************************************)
(* What the gateway does with a click, a modal submission and a shared      *)
(* link: Gateway.handleInteractive gives each callback to one owner, the    *)
(* built-ins and the broker first, and the rest to the workflow engine,     *)
(* which runs the triggers of the first rule that matches; the unfurl       *)
(* handler previews shared links.  Every callback is handled on a goroutine *)
(* of its own, and Slack may deliver it twice.                              *)
(*                                                                         *)
(* A payload is the set of the facts it states, and a rule's match the set  *)
(* of those it demands; the rules' names are numbers, in sorted order.      *)
(***************************************************************************)
EXTENDS Configuration, Functions

CONSTANTS
  Settings,       \* the loaded configuration
  Clicks,         \* interaction callbacks
  Shared,         \* link_shared events
  MaxUnfurlLinks, \* maxUnfurlLinks
  MaxSent         \* bound: how often Slack delivers one callback

(* Rules are named by numbers, and a configuration with a rule for any      *)
(* other event than "interactive" does not load (Configuration!ValidRule).  *)
ASSUME WorkflowAssumption ==
  /\ DOMAIN Settings.rules \cup DOMAIN Settings.unfurls \subseteq Nat
  /\ \A r \in DOMAIN Settings.rules : Settings.rules[r].requestEvent = "interactive"
  /\ \A e \in Shared : e.links \in Seq(Range(e.links))
  /\ MaxUnfurlLinks \in Nat

VARIABLES
  sent,      \* bound: deliveries of each callback
  claimed,   \* history: <<click, owner>> of the callbacks that were handled
  runs,      \* the engine's executions: [click, rule, next, effects, state]
  previews,  \* unfurl runs: [event, next, seen, processed, built, state]
  posted,    \* history: the chat.unfurl calls: [event, built]
  delegated  \* the chat turns StartChat was asked for, and for which button

wvars == <<sent, claimed, runs, previews, posted, delegated>>

(* ------------------------- Gateway.handleInteractive -------------------- *)

(* The callbacks the binary owns, in the order they are looked for.  What   *)
(* they do is in Daemon (restart), Updates (the home tab) and Interaction   *)
(* (the broker and its forms).                                              *)
BuiltIns == <<"restart-suggestion", "ping", "home-update-click", "home-update-submit",
              "home-restart-click", "home-restart-submit", "broker", "form-answer",
              "form-submission">>

(* Mutant of Owner: the rules of the configuration are consulted first.     *)
RulesFirst(c) ==
  IF \E r \in DOMAIN Settings.rules : Settings.rules[r].match \subseteq c.facts
  THEN "workflow" ELSE c.kind

(* The first of them that recognizes the callback; otherwise the engine.    *)
Owner(c) == IF \E i \in 1..Len(BuiltIns) : BuiltIns[i] = c.kind THEN c.kind
                                                               ELSE "workflow"

(* ----------------------------- the engine ------------------------------- *)

(* The names of the rules that match, and the first of them.  (matches: the *)
(* rule's tree is contained in the payload's.)                              *)
Matching(c) ==
  {r \in DOMAIN Settings.rules :
     /\ Settings.rules[r].requestEvent = "interactive"
     /\ Settings.rules[r].match \subseteq c.facts}

(* Mutant of FirstRule: the iteration order of the map decides.             *)
AnyRule(c) == CHOOSE r \in Matching(c) : \A s \in Matching(c) : r >= s

FirstRule(c) == CHOOSE r \in Matching(c) : \A s \in Matching(c) : r <= s

(* Engine.Execute, and the goroutine of handleInteractive it runs on.       *)
Execute(c) ==
  runs' = IF Matching(c) = {} THEN runs
          ELSE Append(runs, [click |-> c, rule |-> FirstRule(c), next |-> 1,
                             effects |-> <<>>, state |-> "running"])

Interactive(c) ==
  /\ sent[c] < MaxSent
  /\ sent' = [sent EXCEPT ![c] = @ + 1]
  /\ IF IsAllowedUser(Settings.access, c.user)
     THEN /\ claimed' = claimed \cup {<<c, Owner(c)>>}
          /\ IF Owner(c) = "workflow" THEN Execute(c) ELSE UNCHANGED runs
     ELSE UNCHANGED <<claimed, runs>>
  /\ UNCHANGED <<previews, posted, delegated>>

Trigger(i) == Settings.rules[runs[i].rule].triggers[runs[i].next]
Pending(i) == runs[i].state = "running"
              /\ runs[i].next <= Len(Settings.rules[runs[i].rule].triggers)

(* The trigger took effect; it was skipped; it failed and the rule stops.   *)
CarriedOut(r) == [r EXCEPT !.next = r.next + 1, !.effects = Append(r.effects, r.next)]
Done(i) == runs' = [runs EXCEPT ![i] = CarriedOut(runs[i])]
Skipped(i) == runs' = [runs EXCEPT ![i].next = @ + 1]

(* Mutant of Failed: the next trigger is tried.                             *)
FailedGoesOn(i) == runs' = [runs EXCEPT ![i].next = @ + 1]
Failed(i) == runs' = [runs EXCEPT ![i].state = "failed"]

(* reply-to-slack: a template, a command or an agent (module Delegation)    *)
(* renders the answer; an agent's text that is not JSON is skipped, and any *)
(* other failure, a command's text that is not JSON too, ends the rule.     *)
Reply(i) ==
  /\ Pending(i) /\ Trigger(i).action = "reply-to-slack"
  /\ \/ runs[i].click.responseURL # "" /\ Done(i)
     \/ Failed(i)
     \/ Trigger(i).source.delegate # Absent /\ Skipped(i)
  /\ UNCHANGED <<sent, claimed, previews, posted, delegated>>

(* run: the command and its arguments are rendered first, and it is killed  *)
(* when its own timeout, or thirty seconds, have passed.                    *)
RunCommand(i) ==
  /\ Pending(i) /\ Trigger(i).action = "run"
  /\ Done(i) \/ Failed(i)
  /\ UNCHANGED <<sent, claimed, previews, posted, delegated>>

(* delegate-to-agent: a chat turn is started in the thread of the message   *)
(* that carries the button, and the rule goes on at once.                   *)
ChatSpec(c, agent) ==
  [channel |-> c.channel, user |-> c.user, thread |-> c.ts, override |-> agent,
   button |-> c.ts]

Delegate(i) ==
  /\ Pending(i) /\ Trigger(i).action = "delegate-to-agent"
  /\ LET c == runs[i].click IN
     IF Settings.chat.enabled /\ c.channel # ""
     THEN \/ /\ Done(i)
             /\ delegated' = delegated \cup {ChatSpec(c, Trigger(i).delegate.agent)}
          \/ Failed(i) /\ UNCHANGED delegated
     ELSE Failed(i) /\ UNCHANGED delegated
  /\ UNCHANGED <<sent, claimed, previews, posted>>

(* ------------------------------- unfurls -------------------------------- *)

(* LinkUnfurlHandler.Handle, up to its loop: not for a message that is still *)
(* being composed, nor for the bot's own.                                   *)
LinkShared(e) ==
  /\ sent[e] < MaxSent
  /\ sent' = [sent EXCEPT ![e] = @ + 1]
  /\ previews' = IF DOMAIN Settings.unfurls = {} \/ e.composing \/ e.own THEN previews
                 ELSE Append(previews, [event |-> e, next |-> 1, seen |-> {},
                                        processed |-> 0, built |-> {}, state |-> "building"])
  /\ UNCHANGED <<claimed, runs, posted, delegated>>

(* Matcher.Match: every criterion a rule sets must hold.  A link is the set *)
(* of domains, prefixes and patterns it satisfies.                          *)
Applies(rule, link, channel) ==
  /\ rule.channels = {} \/ channel \in rule.channels
  /\ {rule.domain, rule.prefix, rule.pattern} \subseteq link.satisfies \cup {""}

RulesFor(link, channel) ==
  {r \in DOMAIN Settings.unfurls : Applies(Settings.unfurls[r], link, channel)}

FirstUnfurl(link, channel) ==
  CHOOSE r \in RulesFor(link, channel) : \A s \in RulesFor(link, channel) : r <= s

(* What rendering the template, running the command or asking the agent of  *)
(* the rule gives: a preview, or none when any step of it fails.            *)
Previews(link, channel) ==
  IF RulesFor(link, channel) = {} THEN {{}}
  ELSE {{}, {<<link.url, FirstUnfurl(link, channel)>>}}

(* Mutant of TriedLinks: only a link that got a preview is counted.            *)
BuiltLinks(p, new) == p.processed + Cardinality(new)
TriedLinks(p, new) == p.processed + 1

(* A link that was tried, with the preview it got, if any.                   *)
Tried(p, url, new) ==
  [p EXCEPT !.next = p.next + 1, !.seen = p.seen \cup {url},
            !.built = p.built \cup new, !.processed = TriedLinks(p, new)]

(* One turn of the loop over the links: a link without a URL and a repeated *)
(* one are passed over, and one whose preview cannot be built is skipped.   *)
BuildLink(i) ==
  LET p == previews[i]
      link == p.event.links[p.next]
  IN  /\ p.state = "building" /\ p.next <= Len(p.event.links)
      /\ p.processed < MaxUnfurlLinks
      /\ IF link.url = "" \/ link.url \in p.seen
         THEN previews' = [previews EXCEPT ![i].next = @ + 1]
         ELSE \E new \in Previews(link, p.event.channel) :
                previews' = [previews EXCEPT ![i] = Tried(p, link.url, new)]
      /\ UNCHANGED <<sent, claimed, runs, posted, delegated>>

(* One chat.unfurl call with every preview that was built, if any.          *)
PostUnfurl(i) ==
  LET p == previews[i] IN
  /\ p.state = "building"
  /\ p.next > Len(p.event.links) \/ p.processed >= MaxUnfurlLinks
  /\ previews' = [previews EXCEPT ![i].state = "done"]
  /\ posted' = IF p.built = {} THEN posted
               ELSE posted \cup {[event |-> p.event, built |-> p.built]}
  /\ UNCHANGED <<sent, claimed, runs, delegated>>

(* --------------------------- specification ----------------------------- *)

WorkflowInit ==
  /\ sent = [e \in Clicks \cup Shared |-> 0] /\ claimed = {} /\ runs = <<>>
  /\ previews = <<>> /\ posted = {} /\ delegated = {}

WorkflowNext ==
  \/ \E c \in Clicks : Interactive(c)
  \/ \E e \in Shared : LinkShared(e)
  \/ \E i \in 1..Len(runs) : Reply(i) \/ RunCommand(i) \/ Delegate(i)
  \/ \E i \in 1..Len(previews) : BuildLink(i) \/ PostUnfurl(i)

WorkflowSpec == WorkflowInit /\ [][WorkflowNext]_wvars

(* ----------------------------- properties ------------------------------ *)

(* A callback of the binary's own never reaches a rule of the configuration *)
(* (gateway.go:810-813), and a rule runs for a user who may click only.     *)
BuiltInsFirst ==
  /\ \A i \in 1..Len(runs) :
       /\ runs[i].click.kind \notin Range(BuiltIns)
       /\ IsAllowedUser(Settings.access, runs[i].click.user)
  /\ \A x \in claimed : x[2] = x[1].kind \/ x[2] = "workflow"

(* Each execution carries out the triggers of the first matching rule, in   *)
(* sorted-name order, in their order, each once, and none past one that     *)
(* failed; only an agent's reply that is not JSON leaves a gap              *)
(* (engine.go:154-190, 213-224).                                            *)
RulesInOrder ==
  \A i \in 1..Len(runs) :
    LET r == runs[i]
        rule == Settings.rules[r.rule]
        gaps == 1..(r.next - 1) \ Range(r.effects)
    IN  /\ rule.match \subseteq r.click.facts
        /\ \A s \in DOMAIN Settings.rules :
             s < r.rule => ~(Settings.rules[s].match \subseteq r.click.facts)
        /\ \A j, k \in 1..Len(r.effects) : j < k => r.effects[j] < r.effects[k]
        /\ \A g \in gaps : rule.triggers[g].action = "reply-to-slack"
                           /\ rule.triggers[g].source.delegate # Absent

(* A shared message is previewed with at most maxUnfurlLinks links tried,   *)
(* each URL once and by the first rule that applies in its channel, and     *)
(* never one of the bot's own or one still being composed                   *)
(* (link_unfurl_handler.go:100-118).                                        *)
UnfurlsBounded ==
  /\ \A i \in 1..Len(previews) : Cardinality(previews[i].seen) <= MaxUnfurlLinks
  /\ \A p \in posted :
       /\ ~p.event.own /\ ~p.event.composing
       /\ \A b \in p.built : \E j \in 1..Len(p.event.links) :
            LET link == p.event.links[j] IN
            /\ link.url = b[1] /\ Applies(Settings.unfurls[b[2]], link, p.event.channel)
            /\ \A s \in DOMAIN Settings.unfurls :
                 s < b[2] => ~Applies(Settings.unfurls[s], link, p.event.channel)

(* All three: a button's rule runs for a user who may click, its triggers in *)
(* order and each once, no built-in callback reaches a rule, and a message's *)
(* links are previewed within the limit, each by its first rule.            *)
RulesFollowed == BuiltInsFirst /\ RulesInOrder /\ UnfurlsBounded
=============================================================================
