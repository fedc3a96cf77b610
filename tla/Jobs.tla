-------------------------------- MODULE Jobs --------------------------------
(***************************************************************************)
(* Jobs: jobs.yaml, the jobs.define tool that rewrites it, the scheduler   *)
(* of the gateway and the jobs.run tool that executes a job.               *)
(*                                                                         *)
(* jobs.yaml is shared by every process that calls jobs.define (an agent's *)
(* turn, an MCP server, the command line); the file is read, changed in    *)
(* memory and rewritten with os.WriteFile, which truncates it and then      *)
(* writes from the start of the file: two writers, or a write that is cut   *)
(* short, leave part of one text or parts of two.  There is no lock.        *)
(* The daemon reads it once, when it starts, and keeps the snapshot.       *)
(***************************************************************************)
EXTENDS Naturals, FiniteSets

CONSTANTS
  Names,        \* the keys of jobs.yaml
  Definers,     \* invocations of jobs.define, in whatever process
  Requests,     \* the arguments jobs.define is called with
  HandWritten,  \* the jobs an operator wrote: a function on a subset of Names
  KnownAgents,  \* the agents of agents.yaml
  MaxStarts     \* bound: how often the daemon is started

VARIABLES
  text,       \* what jobs.yaml holds: "empty", "yaml", or "garbled": no YAML at all
  file,       \* the jobs it parses to: a function on a subset of Names
  define,     \* define[d]: where the invocation d is, and what it holds
  daemon,     \* "down", "up" or "refused" (the configuration did not validate)
  starts,     \* how often the daemon was started
  snapshot,   \* cfg.Jobs of the running daemon
  entry,      \* entry[n]: the scheduler's job for n
  confirmed,  \* Gateway.confirmedJobs
  jobCall,       \* the jobs.run call of an agent that is under way
  approvals,  \* history: the <<name, command>> a human approved in this process
  kept,       \* history: the jobs of the operator and of every definition made
  disturbed   \* history: "no"; "overlap": a definition began during another;
              \*          "spoiled": and a write was cut short, or met another's

fileVars == <<text, file, define, kept, disturbed>>
runVars == <<entry, confirmed, jobCall, approvals>>
jobVars == <<fileVars, daemon, starts, snapshot, runVars>>

NoJobs == [n \in {} |-> n]

(* config.JobProfile.  A blank string is ""; a duration is the text "bad" when *)
(* it does not parse and "zero" when it is not positive.                     *)
JobProfile(r, held) ==
  [command |-> r.command, agent |-> "", prompt |-> "", timeout |-> r.timeout,
   schedule |-> r.schedule, every |-> r.every, held |-> held]

ScheduleKind(p) ==
  IF p.schedule # "" THEN "cron" ELSE IF p.every # "" THEN "every" ELSE "manual"

(* The jobs part of Config.Validate.                                        *)
ValidJob(p) ==
  /\ \/ p.command # "" /\ p.agent = "" /\ p.prompt = ""
     \/ p.command = "" /\ p.agent \in KnownAgents /\ p.prompt # ""
  /\ p.timeout # "bad"
  /\ p.schedule = "" \/ p.every = ""
  /\ p.every \notin {"bad", "zero"}

(* What the operator wrote is a configuration the daemon starts with.       *)
ASSUME JobsAssumption == \A n \in DOMAIN HandWritten : ValidJob(HandWritten[n])

(* --------------------------- jobs.define ------------------------------- *)

(* Mutant of AcceptedRequest: the two kinds of schedule are not exclusive.  *)
AcceptsBothSchedules(r) ==
  r.command # "" /\ r.timeout # "bad" /\ r.every \notin {"bad", "zero"}

(* The checks Tool.Invoke makes of its arguments.                           *)
AcceptedRequest(r) ==
  /\ r.command # ""
  /\ r.timeout # "bad"
  /\ r.schedule = "" \/ r.every = ""
  /\ r.every \notin {"bad", "zero"}

(* Mutant of Stamp: an update of a job keeps its old confirmation.          *)
StampUnlessKnown(n, existing) == n \notin DOMAIN existing \/ existing[n].held

(* The Confirmed field jobs.define writes: non-nil false, a held job.       *)
Stamp(n, existing) == TRUE

Idle == [at |-> "idle"]
Invoked == [at |-> "done"]

(* The invocation d holds jobs it has yet to write.                         *)
Writes(d) == define[d].at \in {"read", "truncated"}

Disturb(how) == disturbed' = IF disturbed = "spoiled" THEN "spoiled" ELSE how

(* Tool.Invoke up to the end of readJobs: a missing file, and the empty one *)
(* of a write that another process has only begun, have no jobs; a file     *)
(* that does not parse is an error.                                         *)
ReadJobs(d, n, r) ==
  /\ define[d].at = "idle"
  /\ IF AcceptedRequest(r) /\ text # "garbled"
     THEN /\ define' = [define EXCEPT ![d] =
                [at |-> "read", name |-> n,
                 jobs |-> [m \in DOMAIN file \cup {n} |->
                             IF m = n THEN JobProfile(r, Stamp(n, file))
                                      ELSE file[m]]]]
          /\ IF \E e \in Definers : Writes(e) THEN Disturb("overlap")
                                             ELSE UNCHANGED disturbed
     ELSE /\ define' = [define EXCEPT ![d] = Invoked]
          /\ UNCHANGED disturbed
  /\ UNCHANGED <<text, file, kept, daemon, starts, snapshot, runVars>>

(* writeJobs: os.WriteFile truncates jobs.yaml ...                          *)
Truncate(d) ==
  /\ define[d].at = "read"
  /\ text' = "empty" /\ file' = NoJobs
  /\ define' = [define EXCEPT ![d].at = "truncated"]
  /\ UNCHANGED <<kept, disturbed, daemon, starts, snapshot, runVars>>

(* ... and then writes the jobs this invocation holds, from the start of    *)
(* the file: they are all it holds if it is still empty, or if what another *)
(* has written since is no longer.                                          *)
WriteJobs(d) ==
  /\ define[d].at = "truncated"
  /\ text' = "yaml" /\ file' = define[d].jobs
  /\ define' = [define EXCEPT ![d] = Invoked]
  /\ kept' = [m \in DOMAIN kept \cup {define[d].name} |->
                IF m = define[d].name THEN define[d].jobs[m] ELSE kept[m]]
  /\ UNCHANGED <<disturbed, daemon, starts, snapshot, runVars>>

(* What remains of some jobs whose text was cut or overwritten.  `confirmed`*)
(* is the last field of a job: one that is cut may lose its stamp.          *)
Remains(jobs) ==
  {[m \in kind[1] |-> IF m \in kind[2] THEN [jobs[m] EXCEPT !.held = FALSE]
                                      ELSE jobs[m]] :
     kind \in (SUBSET DOMAIN jobs) \X {{m} : m \in DOMAIN jobs}}

Spoil(jobs) ==
  /\ \/ text' = "garbled" /\ file' = NoJobs
     \/ text' = "yaml" /\ file' \in Remains(jobs)
  /\ Disturb("spoiled")

(* The text is shorter than what another has written after the truncation:  *)
(* the tail of that stays behind it.                                        *)
Overwrite(d) ==
  /\ define[d].at = "truncated" /\ text # "empty"
  /\ Spoil([m \in DOMAIN file \cup DOMAIN define[d].jobs |->
               IF m \in DOMAIN define[d].jobs THEN define[d].jobs[m] ELSE file[m]])
  /\ define' = [define EXCEPT ![d] = Invoked]
  /\ UNCHANGED <<kept, daemon, starts, snapshot, runVars>>

(* The disk is full or the process is killed before all of it is written.   *)
WriteCut(d) ==
  /\ define[d].at = "truncated"
  /\ Spoil(define[d].jobs)
  /\ define' = [define EXCEPT ![d] = Invoked]
  /\ UNCHANGED <<kept, daemon, starts, snapshot, runVars>>

(* ------------------------------ scheduler ------------------------------ *)

(* startScheduler registers the jobs that have a schedule gocron accepts.   *)
Registered(jobs) ==
  {n \in DOMAIN jobs : ScheduleKind(jobs[n]) # "manual"
                       /\ jobs[n].schedule # "malformed"}

(* The daemon loads jobs.yaml and starts the scheduler; a configuration     *)
(* that does not parse or validate keeps it from starting.                  *)
Start ==
  /\ daemon # "up" /\ starts < MaxStarts
  /\ starts' = starts + 1
  /\ IF text # "garbled" /\ \A n \in DOMAIN file : ValidJob(file[n])
     THEN /\ daemon' = "up"
          /\ snapshot' = file
          /\ entry' = [n \in Names |-> IF n \in Registered(file) THEN "waiting"
                                                                 ELSE "none"]
     ELSE daemon' = "refused" /\ UNCHANGED <<snapshot, entry>>
  /\ UNCHANGED <<fileVars, confirmed, jobCall, approvals>>

(* Mutant of Forget: the approvals of the last process are still trusted.   *)
KeepConfirmed == confirmed

(* The process ends: confirmations were only ever in its memory.            *)
Forget == {}

NoJobCall == [name |-> ""]

Stop ==
  /\ daemon = "up"
  /\ daemon' = "down"
  /\ snapshot' = NoJobs
  /\ entry' = [n \in Names |-> "none"]
  /\ confirmed' = Forget
  /\ jobCall' = NoJobCall /\ approvals' = {}
  /\ UNCHANGED <<fileVars, starts>>

AwaitingConfirmation(n) == snapshot[n].held

(* A trigger of n.  gocron's singleton mode drops one that fires while the  *)
(* previous run of n, the question it may be asking included, is under way. *)
FireJob(n) ==
  /\ entry[n] = "waiting"
  /\ entry' = [entry EXCEPT ![n] =
       IF AwaitingConfirmation(n) /\ n \notin confirmed THEN "asking"
                                                        ELSE "running"]
  /\ UNCHANGED <<fileVars, daemon, starts, snapshot, confirmed, jobCall, approvals>>

(* confirmHeldJob: the admin approves the command the question shows.       *)
Approve(n) ==
  /\ entry[n] = "asking"
  /\ confirmed' = confirmed \cup {n}
  /\ approvals' = approvals \cup {<<n, snapshot[n].command>>}
  /\ entry' = [entry EXCEPT ![n] = "running"]
  /\ UNCHANGED <<fileVars, daemon, starts, snapshot, jobCall>>

(* It is denied, times out or fails, or there is no broker or admin DM: the *)
(* job does not run and the next trigger asks again.                        *)
NotApproved(n) ==
  /\ entry[n] = "asking"
  /\ entry' = [entry EXCEPT ![n] = "waiting"]
  /\ UNCHANGED <<fileVars, daemon, starts, snapshot, confirmed, jobCall, approvals>>

(* ------------------------------- jobs.run ------------------------------ *)

(* Mutant of Lookup: jobs.run looks the job up in the file as it is now.    *)
LookupFile(n) == IF n \in DOMAIN file THEN {file[n]} ELSE {}

(* The lookup closures of the composition root: the loaded configuration.   *)
Lookup(n) == IF n \in DOMAIN snapshot THEN {snapshot[n]} ELSE {}

(* Tool.Invoke: a job that is not found, that has no command, or that       *)
(* delegates when no agent is configured executes nothing.                  *)
Executes(p) == IF p.agent # "" THEN KnownAgents # {} ELSE p.command # ""

Executed(n) == {p \in Lookup(n) : Executes(p)}

(* The scheduler's run of n executes Executed(n) and ends, however it ends: *)
(* a failure is logged and the next trigger fires as usual.                 *)
Run(n) ==
  /\ entry[n] = "running"
  /\ entry' = [entry EXCEPT ![n] = "waiting"]
  /\ UNCHANGED <<fileVars, daemon, starts, snapshot, confirmed, jobCall, approvals>>

RequiresApproval(n) == \E p \in Lookup(n) : p.held

(* An agent calls jobs.run in a session with an approver, a chat turn: a    *)
(* held job needs consent to the call.  The question, and what an answer of *)
(* "always" remembers, names the tool and at best the job, not the command. *)
(* A headless or delegated agent has no approver: its calls are not asked    *)
(* about, held or not, and change nothing here.                             *)
AgentCalls(n) ==
  /\ daemon = "up" /\ jobCall = NoJobCall
  /\ jobCall' = [name |-> n, consent |-> IF RequiresApproval(n) THEN "asked" ELSE "none"]
  /\ UNCHANGED <<fileVars, daemon, starts, snapshot, entry, confirmed, approvals>>

(* There was nothing to ask, or the answer is yes, and the tool executes    *)
(* Executed(jobCall.name); or it is no.                                     *)
AgentReturns ==
  /\ jobCall # NoJobCall
  /\ jobCall' = NoJobCall
  /\ UNCHANGED <<fileVars, daemon, starts, snapshot, entry, confirmed, approvals>>

(* --------------------------- specification ----------------------------- *)

JobsInit ==
  /\ text = "yaml" /\ file = HandWritten /\ kept = HandWritten /\ disturbed = "no"
  /\ define = [d \in Definers |-> Idle]
  /\ daemon = "down" /\ starts = 0 /\ snapshot = NoJobs
  /\ entry = [n \in Names |-> "none"]
  /\ confirmed = {} /\ jobCall = NoJobCall /\ approvals = {}

JobsNext ==
  \/ \E d \in Definers, n \in Names, r \in Requests : ReadJobs(d, n, r)
  \/ \E d \in Definers : Truncate(d) \/ WriteJobs(d) \/ Overwrite(d) \/ WriteCut(d)
  \/ Start
  \/ Stop
  \/ \E n \in Names : \/ FireJob(n) \/ Approve(n) \/ NotApproved(n) \/ Run(n)
                      \/ AgentCalls(n)
  \/ AgentReturns

JobsSpec == JobsInit /\ [][JobsNext]_jobVars

(* ----------------------------- properties ------------------------------ *)

(* What is about to run: the scheduler executes a job an agent defined only *)
(* if a human approved that very command in this process, across            *)
(* redefinitions while the question is open, restarts and agents' own runs, *)
(* which confirm nothing; a session that can ask does not run it unasked    *)
(* (run.go:104-109, scheduler.go:93-128).  What agents that cannot ask run  *)
(* is not limited by it.                                                    *)
ApprovedCommandRuns ==
  /\ \A n \in Names : entry[n] = "running" =>
       \A p \in Executed(n) : p.held => <<n, p.command>> \in approvals
  /\ jobCall # NoJobCall /\ jobCall.consent = "none" => \A p \in Executed(jobCall.name) : ~p.held

(* A job that was stamped by jobs.define is held wherever it is read again: *)
(* redefining a job an operator wrote does not inherit its trust.  A file   *)
(* that was spoiled may have lost a stamp.                                  *)
RedefinedIsHeld ==
  disturbed # "spoiled" =>
    \A n \in DOMAIN file :
      file[n].held \/ (n \in DOMAIN HandWritten /\ file[n] = HandWritten[n])

(* Both: a command an agent wrote into the file is never run by the         *)
(* scheduler on trust that was given to another command, by another process *)
(* or to its operator.                                                      *)
HeldUntilApproved == ApprovedCommandRuns /\ RedefinedIsHeld

(* What jobs.define accepts the configuration accepts too: no sequence of  *)
(* definitions keeps the daemon from starting again, however they           *)
(* interleave, unless a write was cut short or met another's; and no job is *)
(* lost unless two definitions overlapped (define.go:118-120).              *)
DefinitionsLoad ==
  /\ daemon = "refused" => disturbed = "spoiled"
  /\ disturbed = "no" => file = kept \/ \E d \in Definers : define[d].at = "truncated"
=============================================================================
