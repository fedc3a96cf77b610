------------------------------- MODULE MCAgents -------------------------------
(***************************************************************************)
(* The agents a turn is given to, checked in one run: the native agent, the *)
(* delegation of a job or a rule to an agent, and the bridge that serves    *)
(* Murtaugh's tools to an ACP agent.  They share no state: a behaviour is   *)
(* one of a single part, and the others stay where they begin.              *)
(***************************************************************************)
EXTENDS MCNativeAgent, Delegation, Bridge

VARIABLE part   \* the part that runs

(* ------------------------ delegation and bridge ------------------------ *)

Profile(known, builds, acp, requests) ==
  [known |-> known, builds |-> builds, acp |-> acp, requests |-> requests]

\* An unknown agent, one that cannot be built, a native one, and ACP agents that
\* ask and that do not.
Unknown == Profile(FALSE, FALSE, FALSE, "ask")
SomeProfiles ==
  {Unknown, Profile(TRUE, FALSE, FALSE, "ask"), Profile(TRUE, TRUE, FALSE, "ask"),
   Profile(TRUE, TRUE, TRUE, "ask"), Profile(TRUE, TRUE, TRUE, "auto-allow")}

\* Two sessions of one ACP agent, one of them outside Slack, a tool of the agent's
\* own that asks, and a third-party server.
Tool(name, asks) == [name |-> name, asks |-> asks, summarizes |-> FALSE]
SomeSessions == {"s1", "s2"}
SomeChats    == {"s1"}
OneBridge    == {"b1"}
OwnTools     == {Tool("jobs_run", TRUE)}
WebTools     == [r \in {"web"} |-> {Tool("web__fetch", FALSE)}]

(* --------------------------- the specification ------------------------- *)

AgentsInit ==
  /\ part \in {"native", "delegation", "bridge"}
  /\ Init /\ (part # "native" => setting = Alone)
  /\ DelegationInit /\ (part # "delegation" => profile = Unknown)
  /\ BridgeInit

AgentsNext ==
  \/ part = "native" /\ Next /\ UNCHANGED <<part, dvars, bvars>>
  \/ part = "delegation" /\ DelegationNext /\ UNCHANGED <<part, vars, bvars>>
  \/ part = "bridge" /\ BridgeNext /\ UNCHANGED <<part, vars, dvars>>

\* The fairness of the part that runs (NativeAgent!FairSpec, DelegationFairness and
\* BridgeFairness).
AgentsFairness ==
  /\ \A p \in Prompts :
       /\ WF_vars(part = "native" /\ Step(p))
       /\ WF_vars(part = "native" /\ Consume(p) /\ p \notin cancelled)
  /\ WF_dvars(part = "delegation" /\ Reads)
  /\ WF_dvars(part = "delegation" /\ expired /\ Waits)
  /\ WF_dvars(part = "delegation" /\ Fire)
  /\ WF_dvars(part = "delegation" /\ Last)
  /\ WF_dvars(part = "delegation" /\ KeepAlive)
  /\ WF_dvars(part = "delegation" /\ aborted /\ (AskCancelled \/ Ends))
  /\ \A b \in Bridges :
       /\ WF_bvars(part = "bridge" /\ ServeConn(b))
       /\ WF_bvars(part = "bridge" /\ Reset(b))
       /\ WF_bvars(part = "bridge" /\ RunBridgeReturns(b))

AgentsSpec ==
  /\ AgentsInit /\ [][AgentsNext]_<<part, vars, dvars, bvars>>
  /\ AgentsFairness

(* ----------------------------- the properties -------------------------- *)

\* A delegation whose agent falls silent in its turn returns and leaves no client
\* open (delegate.go:162, 197-205); only its opening, which has no timeout, and a
\* native tool, whose heartbeat has no ceiling, hold it for good.
DelegationReturns ==
  (part = "delegation" /\ step = "start") ~>
    ((step = "done" /\ delegate # "open") \/ OpeningHangs \/ ToolHangs)
=============================================================================
