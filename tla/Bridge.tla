-------------------------------- MODULE Bridge --------------------------------
(***************************************************************************)
(* Murtaugh's tools for an ACP agent: the aggregator's socket              *)
(* (mcpbridge.Server), the sessions the client registers on it             *)
(* (acpAggregator, ProcessClient.NewSession), the third-party MCP servers  *)
(* it opens once for all of them (mcpclient), the bridge processes the     *)
(* agent spawns (RunBridge) and the MCP server behind each connection.      *)
(*                                                                         *)
(* Sessions of one client are opened concurrently.  A session's token is   *)
(* as good as the session itself, and only the agent that was given it can  *)
(* present it; a bridge without one is refused.                             *)
(***************************************************************************)
EXTENDS Naturals, FiniteSets

CONSTANTS
  Sessions,   \* the sessions the client opens
  Chat,       \* those that belong to a Slack conversation; a subset of Sessions
  Bridges,    \* the bridge processes
  Builtins,   \* the agent's own tools: records [name, asks, summarizes]
  Remote,     \* the third-party servers: a function to the tools each has
  Args        \* what a tool may be called with

\* sync.Once is no session.
ASSUME BridgeAssumption == "unopened" \notin Sessions /\ "opened" \notin Sessions

VARIABLES
  server,     \* "new", "listening", "disabled" (it could not bind) or "closed"
  tokens,     \* Server.sessions: the toolset each registered session is served
  once,       \* acpAggregator.once: "unopened", the session that opens, "opened"
  merged,     \* acpAggregator.toolset
  connected,  \* Manager.clients
  found,      \* history: the servers that answered when they were opened
  phase,      \* phase[s]: how far NewSession is with s
  releases,   \* ProcessClient.releases
  client,     \* "running", "closing" (Close took the releases) or "closed"
  pipe,       \* pipe[b]: the bridge, its connection and its call
  always,     \* GateApprover.allowed
  approved,   \* history: the <<tool, arguments>> a human approved
  invoked     \* history: the <<session, tool, arguments>> that ran

bvars == <<server, tokens, once, merged, connected, found, phase, releases,
           client, pipe, always, approved, invoked>>
gateway == <<server, tokens, once, merged, connected, found, phase, releases, client>>
human   == <<always, approved, invoked>>

NoCall   == [at |-> "none"]
Unused   == [at |-> "unused", session |-> "", conn |-> "none", stdin |-> "open",
             tools |-> {}, call |-> NoCall]

(* ------------------------------ the socket ----------------------------- *)

(* Server.Start, which the gateway runs in the background; a failure leaves *)
(* the agents without Murtaugh's tools.                                     *)
Listen ==
  /\ server = "new"
  /\ server' \in {"listening", "disabled"}
  /\ UNCHANGED <<tokens, once, merged, connected, found, phase, releases, client,
                 pipe, human>>

(* The gateway's context ends: Close, and every Run that serves a           *)
(* connection returns and closes it.                                        *)
CloseServer ==
  /\ server # "closed"
  /\ server' = "closed"
  /\ pipe' = [b \in Bridges |-> IF pipe[b].conn = "serving"
                                THEN [pipe[b] EXCEPT !.conn = "closed"] ELSE pipe[b]]
  /\ UNCHANGED <<tokens, once, merged, connected, found, phase, releases, client, human>>

(* ----------------------------- NewSession ------------------------------ *)

(* Mutant of MayPass: a second caller does not wait for the first to finish. *)
PassesWhileOpening(s) == once # "unopened"

(* sync.Once: the first caller opens the servers, the others wait for it.   *)
MayPass(s) == once = "opened"

NewSession(s) ==
  /\ phase[s] = "none" /\ client = "running"
  /\ phase' = [phase EXCEPT ![s] = "resolving"]
  /\ once' = IF once = "unopened" THEN s ELSE once
  /\ UNCHANGED <<server, tokens, merged, connected, found, releases, client, pipe, human>>

(* mcpclient.Open: a server that does not connect or list is skipped.       *)
OpenServers(s) ==
  /\ once = s
  /\ \E up \in SUBSET DOMAIN Remote :
       /\ connected' = up /\ found' = up
       /\ merged' = Builtins \cup UNION {Remote[r] : r \in up}
  /\ once' = "opened"
  /\ UNCHANGED <<server, tokens, phase, releases, client, pipe, human>>

(* RegisterSession, and session/new is sent with the token.                 *)
RegisterSession(s) ==
  /\ phase[s] = "resolving" /\ MayPass(s)
  /\ tokens' = [t \in DOMAIN tokens \cup {s} |-> IF t = s THEN merged ELSE tokens[t]]
  /\ phase' = [phase EXCEPT ![s] = "calling"]
  /\ UNCHANGED <<server, once, merged, connected, found, releases, client, pipe, human>>

SessionOpened(s) ==
  /\ phase[s] = "calling"
  /\ phase' = [phase EXCEPT ![s] = "open"]
  /\ releases' = releases \cup {s}
  /\ UNCHANGED <<server, tokens, once, merged, connected, found, client, pipe, human>>

Without(gone) == [t \in DOMAIN tokens \ gone |-> tokens[t]]

(* Mutant of Released: a session that failed keeps its token.               *)
KeepToken(s) == tokens

Unregistered(s) == Without({s})

(* The call fails, its result cannot be decoded, or names no session.       *)
SessionFails(s) ==
  /\ phase[s] = "calling"
  /\ phase' = [phase EXCEPT ![s] = "failed"]
  /\ tokens' = Unregistered(s)
  /\ UNCHANGED <<server, once, merged, connected, found, releases, client, pipe, human>>

(* ProcessClient.Close: the releases that are known run, the connections to *)
(* the third-party servers are closed, and then every pending call fails    *)
(* (SessionFails).  A session/new that was answered meanwhile is not among   *)
(* them.                                                                    *)
CloseClient ==
  /\ client = "running"
  /\ client' = "closed"
  /\ tokens' = Without(releases) /\ releases' = {}
  /\ connected' = {}
  /\ UNCHANGED <<server, once, merged, found, phase, pipe, human>>

(* ---------------------------- the bridges ------------------------------ *)

(* The agent spawns a bridge with the token of session s, which it knows    *)
(* from session/new on; nobody listens, and the bridge fails.               *)
Dial(b, s) ==
  /\ pipe[b].at = "unused" /\ phase[s] \in {"calling", "open"}
  /\ pipe' = [pipe EXCEPT ![b] =
       IF server = "listening"
       THEN [Unused EXCEPT !.at = "piping", !.session = s, !.conn = "handshake"]
       ELSE [Unused EXCEPT !.at = "ended", !.session = s]]
  /\ UNCHANGED <<gateway, human>>

(* serveConn: a token that is not registered is refused; the MCP server is  *)
(* built for the toolset that was registered with it.                       *)
ServeConn(b) ==
  /\ pipe[b].conn = "handshake" /\ server = "listening"
  /\ LET s == pipe[b].session IN
     pipe' = [pipe EXCEPT ![b] =
       IF s \in DOMAIN tokens THEN [@ EXCEPT !.conn = "serving", !.tools = tokens[s]]
                              ELSE [@ EXCEPT !.conn = "closed"]]
  /\ UNCHANGED <<gateway, human>>

(* The process that held it is gone: a connection it never answered breaks. *)
Reset(b) ==
  /\ pipe[b].conn = "handshake" /\ server = "closed"
  /\ pipe' = [pipe EXCEPT ![b].conn = "closed"]
  /\ UNCHANGED <<gateway, human>>

(* The agent ends its side of the pipe.                                     *)
CloseStdin(b) ==
  /\ pipe[b].at = "piping" /\ pipe[b].stdin = "open"
  /\ pipe' = [pipe EXCEPT ![b].stdin = "closed"]
  /\ UNCHANGED <<gateway, human>>

(* Mutant of Ended: the bridge waits for both of its copies.                *)
BothEnded(b) == pipe[b].stdin = "closed" /\ pipe[b].conn = "closed"

(* RunBridge returns when either direction has ended, ...                   *)
Ended(b) == pipe[b].stdin = "closed" \/ pipe[b].conn = "closed"

(* ... which closes the connection and lets the agent's client see EOF.     *)
RunBridgeReturns(b) ==
  /\ pipe[b].at = "piping" /\ Ended(b)
  /\ pipe' = [pipe EXCEPT ![b].at = "ended", ![b].conn = "closed"]
  /\ UNCHANGED <<gateway, human>>

(* ------------------------------ tool calls ----------------------------- *)

(* The summary the gate asks about and remembers: the tool's own, or else   *)
(* only the name it is published under.                                     *)
GateSummary(t, a) == IF t.summarizes THEN <<t.name, a>> ELSE <<t.name>>

(* Mutant of Asks: the location of the session is not on the context.       *)
NeverAsks(s, t) == FALSE

(* gate and GateApprover.Approve: the approver asks in the conversation of  *)
(* the session; one that has none is not gated.                             *)
Asks(s, t) == t.asks /\ s \in Chat

Call(b, t, a) ==
  /\ pipe[b].at = "piping" /\ pipe[b].conn = "serving"
  /\ pipe[b].call.at = "none" /\ t \in pipe[b].tools
  /\ LET s == pipe[b].session IN
     IF Asks(s, t) /\ GateSummary(t, a) \notin always
     THEN /\ pipe' = [pipe EXCEPT ![b].call = [at |-> "asking", tool |-> t, args |-> a]]
          /\ UNCHANGED human
     ELSE /\ pipe' = [pipe EXCEPT ![b].call = [at |-> "done"]]
          /\ invoked' = invoked \cup {<<s, t, a>>}
          /\ UNCHANGED <<always, approved>>
  /\ UNCHANGED gateway

(* The human approves, for this call or for every one with its summary.  A  *)
(* connection that was cut meanwhile has cancelled the question.            *)
Approve(b, forGood) ==
  /\ pipe[b].call.at = "asking" /\ pipe[b].conn = "serving"
  /\ LET t == pipe[b].call.tool
         a == pipe[b].call.args
     IN  /\ approved' = approved \cup {<<t, a>>}
         /\ always' = IF forGood THEN always \cup {GateSummary(t, a)} ELSE always
         /\ invoked' = invoked \cup {<<pipe[b].session, t, a>>}
  /\ pipe' = [pipe EXCEPT ![b].call = [at |-> "done"]]
  /\ UNCHANGED gateway

(* Denied, dismissed, timed out or cancelled: a note instead of a result.   *)
Decline(b) ==
  /\ pipe[b].call.at = "asking"
  /\ pipe' = [pipe EXCEPT ![b].call = [at |-> "done"]]
  /\ UNCHANGED <<gateway, human>>

(* The result is delivered and the agent may call again.                    *)
Answered(b) ==
  /\ pipe[b].call.at = "done"
  /\ pipe' = [pipe EXCEPT ![b].call = NoCall]
  /\ UNCHANGED <<gateway, human>>

(* --------------------------- specification ----------------------------- *)

BridgeInit ==
  /\ server = "new" /\ tokens = [s \in {} |-> {}]
  /\ once = "unopened" /\ merged = {} /\ connected = {} /\ found = {}
  /\ phase = [s \in Sessions |-> "none"] /\ releases = {} /\ client = "running"
  /\ pipe = [b \in Bridges |-> Unused]
  /\ always = {} /\ approved = {} /\ invoked = {}

BridgeStep(b) ==
  \/ ServeConn(b) \/ Reset(b) \/ CloseStdin(b) \/ RunBridgeReturns(b)
  \/ \E t \in pipe[b].tools, a \in Args : Call(b, t, a)
  \/ \E forGood \in BOOLEAN : Approve(b, forGood)
  \/ Decline(b) \/ Answered(b)

BridgeNext ==
  \/ Listen \/ CloseServer \/ CloseClient
  \/ \E s \in Sessions : \/ NewSession(s) \/ OpenServers(s) \/ RegisterSession(s)
                         \/ SessionOpened(s) \/ SessionFails(s)
  \/ \E b \in Bridges, s \in Sessions : Dial(b, s)
  \/ \E b \in Bridges : BridgeStep(b)

(* The serving goroutine and the copies of a bridge run; nothing is assumed *)
(* of the agent, of the human or of when the gateway stops.                 *)
BridgeFairness ==
  \A b \in Bridges :
    WF_bvars(ServeConn(b)) /\ WF_bvars(Reset(b)) /\ WF_bvars(RunBridgeReturns(b))

BridgeSpec == BridgeInit /\ [][BridgeNext]_bvars /\ BridgeFairness

(* ----------------------------- properties ------------------------------ *)

(* Every session that is registered, however many were opened at the same   *)
(* time, is served the agent's own tools and those of every third-party     *)
(* server that answered (aggregator.go:62-75).                              *)
SameToolset ==
  \A s \in DOMAIN tokens :
    tokens[s] = Builtins \cup UNION {Remote[r] : r \in found}

(* However it failed, and though the client may be closed at the same time, *)
(* a session that did not open leaves no token behind that a bridge could   *)
(* claim (process_client.go:287-309, bridge.go:140).                        *)
NoOrphanToken ==
  \A s \in Sessions : phase[s] = "failed" => s \notin DOMAIN tokens

(* A side-effecting tool runs for a chat session only after a human         *)
(* approved a call with the same summary (mcp.go:159-178).                  *)
ApprovedFirst ==
  \A c \in invoked :
    (c[1] \in Chat /\ c[2].asks) =>
      \E p \in approved : GateSummary(p[1], p[2]) = GateSummary(c[2], c[3])

(* All three: what a bridge can reach, and what it can run with it.          *)
ToolsGuarded == SameToolset /\ NoOrphanToken /\ ApprovedFirst

(* When the gateway drops a connection, refuses its token or goes away, the *)
(* bridge ends and the agent's MCP client sees the end of its stream        *)
(* "instead of blocking forever" (bridge.go:265-269).                       *)
BridgeEnds == \A b \in Bridges : (pipe[b].conn = "closed") ~> (pipe[b].at = "ended")
=============================================================================
