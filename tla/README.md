# Murtaugh: a verification project

Murtaugh is a Slack gateway for AI agents, written in Go.  One daemon process
holds a Slack socket, starts a chat turn for each message, runs the turn on an
agent (an ACP child process, or a loop in the daemon itself), renders what the
agent says, asks the user for approvals, and can restart itself.  This directory
models the concurrent core of the daemon in TLA+, checks it with TLC and proves
its central invariants with TLAPS.

Paths below are relative to the repository; `gateway/` stands for
`internal/slack/gateway/`, `interaction/` for `internal/slack/interaction/`,
`agent/` for `internal/agent/`.

## 1. Inventory

| Component | State it keeps | Operations | Hard behaviour |
|---|---|---|---|
| Chat turns (`gateway/gateway.go`, `inflight.go`, `chat_handler.go`) | `InFlightRegistry.entries`, one goroutine and context per turn | `startChat`, interrupt, `/stop`, idle watchdog, teardown | a message, a `/stop`, a timeout and the end of a turn race on one entry |
| Session manager (`agent/session_manager.go`) | conversation -> session table, `initialized`, the interruptible verdict, a mutex | open or reuse, evict, `Discard`, `Warm`, `Lookup` | the mutex is held across calls to the agent; eviction and opening race |
| ACP process client (`agent/process_client.go`, `tool_heartbeat.go`) | child process, `pending`, `subscribers`, `dests` | `Prompt`, `call`, the read loop, permission requests, `failAll` | channels closed by one goroutine and sent on by others; bounded channels; the process dies and is started again |
| Native agent (`agent/native/`) | message array, in-flight cancel per session | `Prompt`, `Cancel`, turn loop, tool calls, compaction, recovery | a follow-up overlaps its predecessor; nothing locks the array; heartbeats nobody waits for |
| Interaction broker (`interaction/`) | pending asks and forms, commands always allowed | `Ask`, `AskForm`, `Resolve`, `OpenForm`, `Approve` | clicks arrive late and twice, and race timeouts and the end of the turn |
| Daemon life cycle (`gateway/connection_watchdog.go`, `resume.go`, `restart_suggestion.go`, `startup_ping.go`, `event_dedup.go`, `app/restart.go`) | socket attempt, dedup cache, restart marker on disk | reconnect, greet, restart, consume the marker, drop duplicates | half-open sockets, redelivery, a drain that hangs, crashes between any two steps |
| Reply rendering (`gateway/chat_renderer.go`, `*_writer.go`, `chat_handler.go`) | what is buffered, the open stream, the cards and the plan, the status line, the indicator | append, flush, roll over, interject, finish, refresh | Slack finalizes a message or refuses a call at any moment; the turn is cancelled with a call under way; two goroutines set the indicator |
| Jobs and scheduler (`tools/jobs`, `gateway/scheduler.go`) | `jobs.yaml`, the daemon's snapshot of it, the jobs confirmed since the start | define, load, trigger, ask for the first run, run | two writers of one file; a job redefined while its approval is out; restarts forget approvals |
| Journal (`internal/journal/`, `tools/journal`) | bounded buffer, batch, SQL rows, transcript files | `Record`, flush, `Close`, sweep, prune | a full buffer, a batch that fails, a drain cut short, two processes that sweep one store |
| Configuration (`internal/config`) | the directory, its backup and version stamp | migrate, roll back, bootstrap, validate | killed or refused between any two writes; a second run on the result of half of the first |
| Gateway routing (`gateway/channel_match.go`, `channel_cache.go`, `user_resolver.go`, `startup_routing.go`, `gateway.go`) | resolved access lists, channel names, remembered events | start, refresh names, accept, route, refuse | two events per message; names that change or are not known yet; lists cut by lengths |
| Agent build and toolset (`agentbuild`, `toolset`) | none | resolve a profile and its tools, build a client | the two kinds of agent reach the same tools by different ways |
| Agent delegation (`agentdelegate`) | the idle timer, what was captured | run one prompt on a fresh agent | the timer, the events and the end race; nobody answers questions |
| MCP bridge and clients (`mcpbridge`, `mcpclient`, `frontends/mcp`) | tokens, connections, servers opened once | serve, dial, register, release, gate a call | sessions opened at once, half-closed pipes, failures between two steps |
| Workflow and previews (`workflow`, `unfurl`, `link_unfurl_handler.go`) | none | own a callback, run a rule, preview links | a trigger that fails after others have run; a link shared twice |
| File tools (`tools/files`) | a stamp per file, shared by the conversations of a process | read, write, edit | a change between the check and the write |
| Everything else (Slack client, cards, LLM wrapper, CLI, help, troubleshoot, the other tools) | none | requests and text | no state of its own |

How they interact: the socket event loop of the daemon calls `startChat` for a
message and `Broker.Resolve` or `OpenForm` for a click.  A turn's goroutine calls
`SessionManager.Prompt`, which opens a session on the agent's client and returns
an event channel; `ChatHandler.Handle` reads it until it is closed.  A tool call
of the native agent and a permission request of an ACP agent both end in
`Broker.Ask`, which blocks until the event loop delivers the click.  A restart
cancels the root context, under which all of it runs.

At start the program migrates and loads its configuration, builds an agent per
profile with the tools its allowlist names, and resolves users and routes.  An
event becomes a turn if its author may start one, and the channel decides which
agent answers; a click belongs to a built-in, to the broker or to a workflow
rule; a rule, a preview and a job may delegate a prompt to an agent of their own.
An ACP agent reaches Murtaugh's tools through a bridge process and the
aggregator's socket.  Turns and jobs leave records in the journal.

`PROJECT.json` lists every component with its files, and the hazards of the code
with the properties that cover them.

## 2. Modules

| Module | Models | Kind |
|---|---|---|
| `ChatTurns` | the life of chat turns around the in-flight registry | state machine, proofs |
| `SessionManager` | the session table, its mutex, warmup, the process behind it | state machine; implements `SessionBindings`; proofs |
| `AgentStream` | `ProcessClient`: read loop, calls, prompts, heartbeats, permissions, and the consumer in the gateway | state machine, proofs |
| `NativeAgent` | `native.Client`, `native.Loop`, `native.Conversation` | state machine, proofs |
| `Interaction` | the broker and the approval gate over it | state machine; implements `Rendezvous`; proofs |
| `Daemon` | supervisor, greeting, restart coordinator, marker, deduplication, across processes | state machine, proofs |
| `ReplyRenderer` | `ChatHandler.Handle` and the writers that put a turn on Slack | state machine over operators, proofs |
| `Jobs` | `jobs.yaml`, `jobs.define`, the scheduler, `jobs.run` | state machine, proofs |
| `Journal` | recorder, transcripts, sweeper, prune tool | state machine, proofs |
| `Migration` | the configuration directory, its migrations and the bootstrap | state machine, proofs |
| `Configuration` | the parsed files, `Validate`, derived settings | operators |
| `ChatRoutes` | matching of channels, routing, conversation keys, mention rules | operators, proofs |
| `AgentBuild` | profiles, toolsets, the aggregator's surface, what can be built | operators, proofs |
| `Ingress` | startup over the three above, the channel cache, events to turns | state machine, proofs |
| `Workflow` | the owner of a callback, rules, triggers, previews | state machine, proofs |
| `Delegation` | `Runner.Run` and the turn of its agent | state machine, proofs |
| `Bridge` | aggregator, tokens, bridge processes, served tools | state machine, proofs |
| `FileTools` | read, write and edit with their stamps | state machine, proofs |

`MC...` modules hold the instances.  Two of them put together what shares no state,
so that one run of TLC covers it: in `MCServices` and `MCAgents` the first state
chooses a part, only that part moves, and the variables of the others stay as they
begin; the states are a sum and not a product.  They `EXTEND` the modules whose
properties are proved, so that a run and a theorem speak of one definition
(`SessionManager`, `AgentStream`, `Jobs`, `Journal`, `FileTools`, `Workflow`, `Ingress`,
`Migration`, `ReplyRenderer`; `NativeAgent`, `Delegation`, `Bridge`).  Where components do share
state they are one module (`ChatTurns` has the session table and the agents of
its turns, `AgentStream` the gateway's consumer, `Delegation` the client's turn,
`Bridge` the client that opens sessions and the approval gate, `Ingress` the
routes and the build).  The `..._proofs` modules hold the theorems:
`Chat_proofs` those of `ChatTurns` and of `Ingress` with the operators under it,
`Services_proofs` those of `SessionManager`, `Jobs`, `Journal`, `FileTools`, `Workflow` and
`Migration`, `Agents_proofs` those of `Bridge` and `Delegation`, `Reply_proofs` that of
`ReplyRenderer`, the others those of the module they are named after.  Operators
whose comment begins with "Mutant of" are faults with which the properties, and
each conjunct of those that have several, were tried out; no action uses them.

State and actions correspond to the code like this:

* **ChatTurns.** A turn is one `startChat` call and its goroutine; `phase` is its
  program counter, `entries` the registry (an entry is named by the turn that
  holds it, which stands for the token), `closure` the goroutine started by
  `buildInterruptCancel`, which looks the session up, cancels it, sleeps and
  cancels the context.  The registry's mutex covers less than its callers do: what
  `Register` and `Cancel` take out is invoked after it (`taken`, `stopping`), in a step
  of its own, so another caller, a `/stop` or a teardown may come between.  `session` is
  the manager's table as turns see it, `generating` what the agent works on.  The
  manager's mutex is held while an agent answers `initialize` and `session/new`
  (`Locked`), and `Interruptible`, `Lookup` and `Discard` wait for it.  `interruptible` is
  what the manager answers: TRUE until `Warm` has resolved the verdict, and for good if
  it never does.  A caller of `startChat` is the socket event loop or a workflow's
  goroutine; each makes one call at a time (`Busy`).
* **SessionManager.** An actor is a prompting goroutine or the warmup one; `pc`
  follows `session()` from the fast path over the second look under the mutex to
  `initialize`, eviction and `session/new`.  `older` is the order of `lastUsed`.
  `strangers` counts requests written to a process that was never greeted.
* **AgentStream.** One read loop per process (`rlOp`, `rlTo`: what it is about to
  do with the line it read, and to whom), so every lock release between reading a
  map and using what was read is a step boundary.  Prompts, heartbeats, permission
  goroutines and the consumer have program counters of their own.  A panic is
  recorded in `crashed` and nothing happens after it.  The agent answers only what
  was written to it (`asked`), and `owed`, `owedAsk` remember how many updates it
  wrote before a completion and a permission request.
* **NativeAgent.** `pc` follows `Client.Prompt`'s goroutine through `Loop.Run`;
  `todo` and `out` are what it appends and emits before it goes on, an append
  being a load and a store.  A message is its role, whose it is, its turn and its
  call; token counts are message counts plus what a provider may report
  (`heavy`).  `setting` fixes the configuration of a behaviour.
* **Interaction.** `pc` follows `Ask` and `AskForm`; `pending` and `forms` are the
  broker's maps, `ch` the one-deep channel, `taken` the window between removing an
  entry and sending on its channel.  Clicks can be given at any time after the
  prompt is posted, and each is delivered once or more.
* **Daemon.** `gen` and `life` are the process, `sup`, `link` and `recycled` the
  supervisor, its socket and the watchdog's cancel, `greet` the greeting goroutine,
  `req` the handler of each restart request, `marker` the file.  `Dies` is what
  every end of a process has in common; `Boot` is launchd.

* **ReplyRenderer.** The state of a turn is one record `r`: the messages Slack has,
  what the text writer buffers, the cards with their plan, the status line, the
  indicator, and what remains of the scenario.  Every function of the renderers is
  an operator that returns the set of its outcomes, since each call to Slack may
  succeed, find its message finalized, or be refused; `ReplyNext` takes the agent's
  event, the functions it makes the handler call, and one outcome.  A call is served,
  finalized, refused, or applied by Slack although its answer is lost (`Lost`: the
  turn is cancelled while it is out, or the connection fails); what such a call painted
  is `stray`, and the writer still buffers it.  `painted` is what Slack has confirmed.
  The refresher of the indicator is a process beside it.  Text is a sequence of words, spaces and
  newlines, where splits happen.
* **Jobs.** `text` and `file` are `jobs.yaml`, `define` the program counter of each
  `jobs.define`, which reads, truncates and writes without a lock: a write lands at the
  start of the file, so it may leave the tail of a longer one (`Overwrite`), and it may be
  cut short (`WriteCut`).  What is left then is no YAML, or fewer jobs, of which one may
  have lost its `confirmed: false` (`Spoil`).  `snapshot` is what the daemon loaded,
  `confirmed` what was approved since, `entry` a scheduled job on its way, `jobCall` an
  agent's `jobs.run`: the question it raises, where there is anybody to ask, grants the
  call and confirms no job.
* **Journal.** `ch` is the buffer, `batch` what the writer has in hand, `rows` and
  `blobs` the store, `sweep` the program counter of each process that prunes.  The
  process may exit with the recorder in any state: after `Close`, when `Close` gave up on
  the writer, or from the grace timer of a restart.
* **Migration.** `dir` is the directory, a file being absent, torn or a record of
  what it still states; `migrator` the steps of the process that runs, `want` what the
  user had configured.  A crash or a refused write may come before any step.
* **Ingress, Workflow.** `config` is what was loaded, `access`, `names`, `built` what
  the running gateway derives from it; an event, a command, a callback or a link is
  drawn from a small set, and each may be delivered again.
* **Delegation.** `step` follows `Run`, `work` the turn of the client (which beats,
  asks and ends), `events` the channel, `idle` the timer, which runs from the prompt on.
  The heartbeat of an ACP agent's tool gives up at a ceiling, a native one's never does.
* **Bridge.** `phase` follows `NewSession` of each session, `once` the
  `sync.Once` of the aggregator, `server` and `pipe` the two ends of a bridge.
* **FileTools.** `disk` has a file's stamp and the changes it contains, `stamps` what
  the process remembers, `call` the program counter of each caller.  A read shows a
  window of the lines and stamps the whole version: `vouched` collects the versions
  that were read so, or written by a tool, `lost` what a tool overwrote.

## 3. Runs

| Run | Question | Instance | States |
|---|---|---|---|
| `turns` | is the registry sound, does an interrupt take effect, what holds the event loop | 2 turns of one conversation, 2 callers, warmup, 1 `/stop`, 1 Slack failure | 238 k |
| `turns_exclusive` | when do two prompts meet on one session | 3 turns of one conversation, 2 from the socket (symmetric) and 1 from a workflow, warmup | 4.5 M |
| `turns_teardown` | does a finished turn spare its follow-up - **no** | 2 turns | |
| `stream_live` | order, heartbeats, and that prompts and permission requests end | 1 prompt, 1 update, 1 permission request, 1 exit, 1 renderer failure | 132 k |
| `stream_permission_panic` | is a late permission request denied - **no** | 1 prompt, 1 request | |
| `sessions_override` | is the configured flag honoured - **no** | 3 callers, 2 conversations | |
| `ask` | does the broker implement the rendezvous, does consent hold | 2 asks of any kind, one command | 677 k |
| `daemon` | greeting, deduplication, reconnection, restarts | 2 processes, 2 requests, 1 message, 1 outage, 1 refused call, 1 second delivery | 363 k |
| `agents` | native agent, delegation, bridge | see below | 248 k |
| `native_pairing` | do results follow their calls - **no** | 2 prompts | |
| `services` | nine parts, see below | see below | 1.1 M |
| `migration_rerun` | is a migration idempotent - **no** | 1 legacy directory, 1 crash | |

The parts of `agents`:

| Part | Properties | Instance |
|---|---|---|
| native agent | `ArraySound`, `PromptsKeptApart`, `PromptEnds` | 4 settings, up to 2 prompts, a channel of 1 |
| delegation | `ResultIsWhole`, `DelegationReturns` | an unknown agent, one that cannot be built, a native one, ACP agents that ask and that do not; 2 texts, 1 tool, 1 beat |
| bridge | `ToolsGuarded`, `BridgeEnds` | 2 sessions, one outside Slack; a tool that asks and a third-party server |

The parts of `services`:

| Part | Properties | Instance |
|---|---|---|
| session manager | `WithinCapacity`, `LockReleased`, `GreetedFirst`, `BindingsKept` | 3 callers and warmup, 2 conversations, capacity 1, 1 exit |
| replies | `ReplyOnScreen` | 9 turns of up to 3 events in both cosmetics: finalized messages, a call that is refused or whose answer is lost, cancels, an indicator |
| jobs | `HeldUntilApproved`, `DefinitionsLoad` | 2 jobs, 2 definers, 3 requests, 2 starts |
| journal | `NothingLostSilently`, `PrunedTranscriptsRemoved` | 2 turns of one session, a buffer of 1, batches of 2, 2 sweepers |
| migration | `ConfigSurvives` | 5 directories (none, both schemas), 1 setup tool, 1 crash, 1 refused write |
| startup and messages | `NamedAndServed`, `TurnsAccounted` | `MCSettings`: 5 directories, of which some are refused, agents that can and cannot be built, 3 messages and 1 command, a renamed channel |
| workflow | `RulesFollowed` | `MCSettings`: 3 overlapping rules, triggers that fail, a message of 5 links and a limit of 3, one handle and one shared link twice |
| file tools | `NothingUnreadLost` | 1 file, 2 conversations, 3 calls, 1 change from outside |
| ACP client | `PromptsApart` | 2 prompts on one session (symmetric), 2 processes, 1 exit |

Why these bounds are enough to be interesting: every property is about two
actors meeting (two turns, two prompts, a prompt and its process, an ask and a
click, two processes, a definition and an approval, two sweepers, two
conversations on a file), and each instance has the two, plus one of every fault.
Channels hold one event where the code has 32, which makes "full" reachable
after one event.  A capacity of one session makes every second conversation
evict.  Three turns in `turns_exclusive` give a follow-up and a message of a second
caller that meets either of the two.  In the native part, `Summarizing` and
`Truncating` have limits of 4 and 6 messages, so that one or two prompts with
tools exceed them; `Racing` overlaps two prompts; `Alone` has retries and
heartbeats.  Two processes in `daemon` are the one that is asked to restart and
the one that confirms it.  Each property has a mutant of a mapped definition
under which the same run finds it violated.

Deadlock is checked in the `turns...` runs, in the instances of `SessionManager` and
`Migration`, and in `services`.  In `services`
only the session manager must go on: the other parts may stop, since their work
is bounded and ends.  For the same reason it is not checked in the other runs; a
daemon that panicked or a last process that died does nothing any more.

### Fairness

* `turns`: goroutines that are ready run, a mutex that stays free is acquired, and
  `Warm` ends by its timeout.  Users, watchdogs and agents are under no obligation.  An
  agent need not even answer `initialize` and `session/new`, which the code awaits
  without a limit and under the manager's mutex (process_client.go:646): then the event
  loop *is* held up for good, and the turn that waits cannot be interrupted, since its
  own closure needs the mutex for `Lookup`.  `LoopHeldOnlyByOpen` and
  `InterruptTakesEffect` state exactly that exception (`OpenHangs`): no prompt, no
  `session/cancel`, no warmup and no other caller does it.
* `stream_live`: goroutines run, the idle watchdog fires on a silent agent, an ask
  is answered or times out, and one tool does not beat for ever (it meets the
  ceiling of `tool_heartbeat.go`, which is on by default).  The agent need not answer.
* `agents`: in the native part goroutines run, the model and the tools return (both
  get the turn's context), and the consumer reads until it cancels the prompt.  In
  the delegation goroutines and timers run, and a context that ended ends what
  waits for it; the agent need not open, write, end or answer.  Two things bound
  nothing, and `DelegationReturns` names them as the only ones on which `Run` hangs: the
  opening of the agent, before the idle timer starts (delegate.go:177-183), and a
  native tool, whose heartbeat resets that timer without a ceiling
  (native/loop.go:348).  In the bridge the gateway's end of a dropped connection is
  noticed, and nothing is assumed of the agent.
* `daemon`: goroutines run, timers fire, Slack becomes reachable again, launchd
  respawns the daemon.  That a drain ends is *not* assumed: the grace timer is what
  `RestartHappens` rests on.

### What the violation runs show

1. `turns_teardown`: `startChat`'s goroutine ends with `inFlight.Cancel(key)`
   (gateway.go:1365), by key and not by token, so a turn that was interrupted and
   returns late cancels the follow-up that replaced it.  The comment there says
   "no-op if already replaced".
2. `stream_permission_panic`: `decidePermission` (process_client.go:864) copies the
   turn's channel under the lock and sends on it afterwards; if the prompt closed
   it in between, the daemon panics.  Its comment promises a denial.
3. `sessions_override`: a message that comes before warmup initializes the agent;
   `Warm` then returns before it resolves the interruptible flag, and
   `interruptible: false` is never read.
4. `native_pairing`: a follow-up appends its user message while the cancelled
   predecessor is still in a tool; the result lands behind the user message.  The
   comment on `AppendToolResult` (messages.go:96) rules that out.
5. `migration_rerun`: the first migration of a legacy directory is killed after it
   wrote `agents.yaml` and before it removed `slack.yaml`, by which it is detected.  The
   next start backs up the half-converted directory and migrates again; `migrateProfile`
   finds no flat backend field in a profile that is nested already, and replaces
   its backend with an empty one.  `migrate.go` (line 31) calls a migration
   idempotent.  The backup of the killed run, which had the original, is replaced first;
   `ConfigSurvives` excuses a rerun.

Seen while modelling, without a run of their own:

* Turns and sessions.  `/murtaugh chat` announces an answer and interrupts the
  conversation before it finds out that it has no agent (gateway.go:1012); a
  refused agent is answered with "no agent configured" where the startup report
  says "fall back to the default" (startup_routing.go).  A token of the bridge that
  `NewSession` obtains while `Close` runs is never released.
* Restarts.  A marker file that does not decode is never cleared although the
  comment on `consumeResumeMarker` (resume.go:149) says a marker always is; a second
  request overwrites the marker of the first before it is declined, so the first
  notice keeps saying "Restarting"; a request made while the greeting is at work can
  have its marker removed by the greeting's deferred clear (`BackOnlineHonest` and
  `RestartConfirmed` exclude that overlap explicitly); the cool-down of
  `RestartCoordinator` is dead code, since `fired` is never reset.
* Agents.  A stopped tool heartbeat of the native agent can meet the closed channel
  (`BeatPanics`).  A native agent whose context has ended drops its error event, so
  a delegation that was cancelled returns what it has as a success
  (delegate.go:205; `ResultIsWhole` excludes it).  A permission request of a
  delegated agent waits for the idle timer, though process_client.go:36 says it is
  denied at once.  The approval of a bridged tool shows and remembers the tool's
  name only, that of the native loop its arguments (mcp.go:169, native/loop.go:306); so
  the question about `jobs.run` does not show the command that run.go:104-109 would have
  approved, and an agent without an approver (headless, delegated: build.go:34-36,
  delegate.go:112-118) runs held jobs unasked.
* Replies.  An append that Slack applied although its answer was lost stays in the
  buffer, and the interruption marker or the last flush paints it again
  (stream_writer.go:146-149, chat_renderer.go:325-328): `TextInOrder` therefore speaks of
  what Slack has confirmed.  The safety net for cards left open does not run when the turn was
  cancelled (chat_handler.go:399), which `SettledAtEnd` allows for; `planOpen` is set
  before the call it announces succeeds.
* Files.  Two `jobs.define` at once lose one job, although define.go:118-120 says the
  others are kept, and their writes may leave a file that the daemon does not start
  with, or a job without its `confirmed: false` (io.go:73); `DefinitionsLoad` and
  `RedefinedIsHeld` excuse exactly that.  The stamps of the file tools are shared by the
  conversations of a process and vouch for a version of which a read showed a window
  (read.go:126-149), so `files.write` may overwrite lines no tool showed, and what another
  conversation has just edited; a write between `Verify` and the write goes
  unnoticed (`raced` in `FileTools`); a transcript can be removed while a turn that
  is being recorded refers to it (store.go:386).
* Journal.  `Record` after `Close` sends on a closed channel and panics
  (recorder.go:131).  What the recorder has in hand when the grace timer of a restart
  exits (restart.go:129-133) is lost without a word, and when `Close` gives up on the
  writer the log does not say how much (main.go:310).

## 4. Proofs

TLAPS checks the following for every value of the constants.

* `Chat_proofs`.  Of `ChatTurns`: `TypeCorrect`.  `NoStaleEntry`, `CancelledLeftRegistry` (together
  `RegistrySound`) and `OneCurrentTurn` are not inductive: none says which turn an entry belongs to.
  `RegistryInv` does - an entry is a live turn of its own conversation, a live turn
  is the entry exactly when its closure was neither invoked nor taken out by a
  goroutine that is about to invoke it, and only invoked closures cancel contexts - and
  the three follow from it.  `ExclusiveSessions` proves `OnePromptPerSession` for any
  callers and verdicts: two turns that one session works for at once include one that
  was let go (`LetGo`), by a `/stop`, by a predecessor's teardown, by a reply Slack
  refused, or by a follow-up that counted the agent as interruptible or came from
  another caller and so slipped in between another's check and registration.  Its
  invariant adds the names of sessions (`SessionNames`) and what one caller's turns know
  of each other between the check and the teardown (`CallerInv`).
  Of `Ingress`: `TurnsAreAccounted` proves `TurnsAccounted` from `TurnsInv`.  The turns of
  messages and the messages remembered correspond one to one (`Booked`), the event that
  is sure to be acted on has left its message remembered (`Arrived`), and the problems
  reported at startup are those of the configuration and the agents the gateway serves
  with (`Served`), so that a route to an agent that was not built leads to one of them
  (`RouteIsKnown`).  `NamedAreServed` proves `NamedAndServed` from `NamesInv`: what the access
  lists hold is named in the files (`ListsNamed`), and so is the author of every turn,
  under the name its channel had when it began.  The heart of it is
  `ResolveAllowSetNames`: all references are resolved in one sequence that is cut by
  lengths, and every cut is the list it was laid out from.  What concatenating a
  sequence of sequences does is proved with a least counterexample instead of an
  induction (`JoinedHolds`).  `SurfaceIsSame` is about `AgentBuild` alone.
* `AgentStream_proofs`.  `StreamTypeCorrect`; `HeartbeatIsGone` from `HeartbeatInv` (a
  prompt stops its beats and waits for them before it closes its channel);
  `ResolvesOnce` from `ResponseInv` (a prompt is in the pending map only while it waits,
  and at most one process is about to respond to it); `PromptsStayApart` from
  `SessionInv`, which says of a prompt that is its session's newest which map entries
  it has at each of its steps.  `UpdatesComeFirst` proves `NothingOvertaken`: what the
  agent had written before a completion is what the consumer has seen, what the
  channel holds before the event, and what the read loop has in hand, together
  (`CompletionOf`, and `RequestOf` for a permission request).  The counting lemmas say
  how a channel's updates change when an event is put into or taken out of it.
* `Interaction_proofs`.  `TypeCorrect`; `BrokerImplementsRendezvous`,
  `AsksAreForgotten` and `AcceptedAnswerStands` (together `AnswersStaySettled`) from
  `BrokerInv`: an entry belongs
  to an ask at work for which nothing was accepted, at most one answer is ever
  accepted, and whatever is on its way to the ask or was told to it is that
  answer.  `CommandsRunWithConsent` needs that to know that an approving decision
  was clicked, and `AllowedByUser` to know it of every summary allowed for good.
* `Daemon_proofs`.  `TypeCorrect`; `GreetedAtMostOnce` from `GreetInv` (before it
  is given, a greeting is not counted, and only the first Connected event starts
  one); `HandledAtMostOnce` from `HandledInv` (handled exactly if remembered);
  `BackOnlineIsHonest` from `HonestInv`: a request is at work only in a process
  that has connected, so, but for an overlap, while a process still greets every
  notice there is was posted by an earlier one.
* `NativeAgent_proofs`.  `ArrayIsSound` and `PromptsAreKeptApart`, from an invariant in
  layers.  `RunInv`, `PendingInv`, `ChannelType` and `EndInv` are about one goroutine:
  what it still appends and emits at each label, and how many ends it has emitted.
  `NoStaleCancel` and `BeatInv` are about the map of cancels and the heartbeats.
  `OrderInv` is the core: until two prompts overlap, at most one is at work, the array
  it loaded is the array there is, and the array is what it has to be at the
  prompt's label (`Standing`: sound, but for the calls that are still unanswered and
  what the prompt is about to append); while none is at work it is sound.  The
  lemmas before it say what an append, a round of calls and their results, and a
  compaction do to soundness and to what is asked of the model; that `CompactedKeeps`
  needs no fact about how a summary comes about but only where the cut may lie.
* `Agents_proofs`.  `ToolsAreGuarded` from `GuardInv`: the remote servers were opened
  once and the merged toolset is what answered then (`OpenedOnce`), and a summary is
  allowed for good only by an approval of that tool in that conversation
  (`Remembered`).  `ResultsAreWhole` from `DelegationInv`: while the runner reads,
  captured, buffered and unwritten texts together are the numbers from 1 on without
  a gap, and an end comes last (`Flowing`).
* `Services_proofs`.  Of `SessionManager`: `TypeCorrect`; `MutexReleased` from `LockInv` (the mutex
  is held exactly by the actor at one of four labels, whose conversation has no
  session); `CapacityHolds`; and `ManagerImplementsBindings`: every step is a
  `Bind`, a `Forget` or a stutter of `SessionBindings`, where opening a session is
  a bind because of `LockInv`.  `NoStrangers` proves `GreetedFirst` from `GreetInv`: as
  long as no process exits, `initialized` means that the process was greeted, and an
  actor past the initialization holds the mutex or knows so.
  Of `Jobs`: `DaemonStarts` from `TableInv` (until a write is spoiled the file and each
  definition under way are tables of valid jobs in which what an agent defined is held,
  and until two definitions overlap the one under way holds all there is),
  `HeldJobsWait` from `ApprovalInv` (a confirmation in memory is an approval of the command
  in the snapshot, which no agent's own call gives).  Of `FileTools`: `NoBlindWrite` from
  `FilesInv`: a stamp that equals its file's vouches for a version that was read or written.
  Of `Journal`: `LossIsReported` from `JournalInv` (each recorded event is in the buffer, the
  batch, the store, or among the pruned, the dropped and the reported, and nothing is in
  hand once the writer is done), whenever the process exits;
  `TranscriptsGo` from `TranscriptInv`: a transcript has an event that names it and was
  not pruned, or a sweep that will look at it.
  Of `Workflow`: `FirstRuleRuns` from `RulesInv` (an execution is of the first rule that
  matches; what it carried out is every trigger before the next, in order, but for
  skipped replies) and `UnfurlsInv` (the URLs seen are no more than the links counted, and
  each preview is of the first rule for its link).  That a first rule exists is the
  library's theorem on well-founded orders.
  Of `Migration`: `ConfigIsNotLost` proves `ConfigSurvives` from `MigrationInv`.  A migration
  that runs is the first thing that happened to the directory (`FirstOfAll`: with a
  killed process behind it, it would be a rerun), so its backup means what the user
  wanted, and the writes that are left make of the directory what the whole transform
  makes of that backup (`Converts`).  `FirstTransform` and `SecondTransform` say that a
  transform keeps the meaning of a directory of its schema, `SeedMeansNothing` that a
  file bootstrap creates, whole or torn, means what its absence did, `StampIsNoMatter`
  that the stamp means nothing.
* `Reply_proofs`.  `ReplyHolds` proves `ReplyOnScreen` from `HandleInv`.  None of the five
  conjuncts is inductive: what is on the screen when `Handle` returns is settled by
  what each writer buffered, painted and left open on the way.  The core, `Inv`, is about
  one record of the renderer, what was told, and the ids whose card may still spin.
  A section that is not open has no writer (`Sections`); the writer's message is the
  newest one and items are painted in the order of their messages (`Placed`); what is
  told is numbered, what is painted is in that order and all of it before what is
  buffered (`InOrder`); an id counts as sent only if a card was painted for it
  (`SentShown`).  Until the turn is cancelled or a call fails, all that was told is
  painted or buffered, once and in order, and nothing else (`Delivered`); a card that
  spins is of an id that runs, or has a newer one below it (`SpinsOnly`); and a message
  that streams is one some writer will still stop (`Streams`).  `HandleInv` adds what
  holds between two handlers (the tools that run were told and, undisturbed, a
  writer that has no message, or has stopped, buffers nothing), what the phases of
  `Handle` say of the section that is open, and
  the handshake with the refresher, of which `StatusCleared` is the end.
  Since every function of the renderers is a set of outcomes, each has one lemma about
  any outcome (`EmitIs`, `RolloverIs`, `UpdateIs`, `EndingIs`, `TaskIs`, ...): it keeps
  `Inv` whether Slack served, finalized, refused or lost its answer, and says what became
  of the buffer.
  The heart is that a rollover loses and repeats nothing: the words leave the buffer only
  when an append of them was confirmed, on the old message or on the new one.  What the recursive
  functions over the ids that run compute is proved with a least counterexample instead
  of an induction (`FinishesExists`, `FoldsExists`).

The assumptions are the `ASSUME`s of the modules: finite sets of keys, bounds in
`Nat`, channels and buffers that hold something, at least one process, `None`,
`NoRef`, `NoPrompt` and the labels of `once` apart from everything.  `JobsAssumption`
says that the jobs an operator wrote are ones the daemon starts with (else it would
not run); `NativeAssumption` that a behaviour's setting is a setting.  `WorkflowAssumption` says
that rules are numbered and that only rules for `interactive` events load.
`IngressAssumption` gives the lists of a configuration their types, a message a
timestamp and a command none, and says that no tool of the registry has the name of
one the toolset makes itself (`read`, `write`, `edit`, `ls`, `terminal`, `skills`; the
registry's tools all have other names) and that no MCP server goes by the mark that
the model gives Murtaugh's own tools.  `MigrationAssumption` gives the files
their types and says that the first start finds a directory of one schema: what is
stamped 1 or later has no shape of before, and where there are such shapes the user's
profiles are flat (a directory that mixes the two comes from a killed migration or a
setup tool, and both are steps of the model).  Of an agent's process the model, and so the
proofs, assume that it answers only what was written to it.  `IdsApart`, `DeltasAreText` and
`RepliesUseIds` say of a reply that finitely many ids occur, those of tool calls apart
from those of plan entries (those are made by process_client.go:1374), and that a delta is a sequence of
breaks.

Only model-checked: every liveness property, `InterruptTakesEffect`, `LoopHeldOnlyByOpen`
and the temporal properties of the daemon among them: fairness and `ENABLED` are out
of the prover's reach.  Every invariant that a passing run checks is a theorem.

## 5. Not modelled, and why

* Wording, blocks, parsing of payloads, templates, logging, and the SQL of the
  journal: data.  The terminal's command classifier is string matching.
* The Slack service, the ACP agent, the model provider, the tools and launchd are
  external: what they may do is a choice of the model, restricted only by the
  fairness above.  In `ReplyRenderer` a call is served, refused, or applied and not
  confirmed; in `Daemon` one that is applied and reported as failed counts as refused.
* `session/cancel` on the wire: whether an agent obeys is the agent's affair.
* The capacity of the agent's pipe, and with it the stall of all sessions of a
  client whose agent does not read.
* The dedup cache's expiry: Slack redelivers for minutes, an entry lives longer.
* The home tab, downloads, the thread backfill, the ping and restart cards: requests
  to Slack, whose answer is shown and not kept.
* The other tools, the LLM wrapper, updates, troubleshooting, help and the command
  line: no state that outlives a call.  The setup tools appear as writers in
  `Migration`.

## 6. Plan

1. *(done)* The concurrent core: `ChatTurns`, `SessionManager` with
   `SessionBindings`, `AgentStream`, `Interaction` with `Rendezvous`, `NativeAgent`,
   `Daemon`, and their theorems.
2. *(done)* What surrounds it: replies, jobs, journal, migration, startup and
   routing, workflow, delegation, bridge, file tools.
3. *(done)* Theorems about `AgentStream`, `Jobs`, `FileTools`, `Journal`, `Bridge`,
   `Delegation`, `NativeAgent`, `Workflow`, `Ingress`, `Migration` and `ReplyRenderer`.
4. Several sessions of one ACP client, to see one session's approval stall
   another's read loop; the pipe's capacity.
