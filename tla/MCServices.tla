------------------------------ MODULE MCServices ------------------------------
(***************************************************************************)
(* The parts of the daemon that share no state with each other, checked in  *)
(* one run.  A behaviour is one of a single part, chosen at the start.  The  *)
(* parts whose properties are proved are extended and stay where they begin *)
(* while another runs; those that are only checked are instances, whose     *)
(* variables are then "off".                                                *)
(***************************************************************************)
EXTENDS SessionManager, AgentStream, Jobs, Journal, FileTools, Workflow, Ingress,
        Migration, ReplyRenderer

CONSTANTS
  g1, g2, g3, k1, k2, warm,  \* of the session manager
  e1, e2, e3,                \* a tool call, another, and an entry of a plan
  p1, p2, s1                 \* prompts and the session of the ACP client

VARIABLE
  service  \* the part that runs

(* -------------------------- the session manager ------------------------ *)

MCCallers == {g1, g2, g3}
MCKeys    == {k1, k2}
\* Two callers race for one conversation; a third has its own.
MCKeyOf   == [g \in MCCallers |-> IF g = g3 THEN k2 ELSE k1]
MCIds     == 1..3

(* ------------------------------ the replies ---------------------------- *)

\* A word, a line and the start of the next, and the end of a word and a word.
SomeDeltas == {<<"no">>, <<"nl", "no">>, <<"sp", "no">>}

ReplyTo(tasks, ids, inThread, cancels, events, ticks, failing, finals) ==
  [tasks |-> tasks, ids |-> ids, threaded |-> inThread, cancels |-> cancels,
   events |-> events, ticks |-> ticks, faults |-> failing, finals |-> finals]

\* Turns Slack finalizes messages of, turns with a call that fails, turns that are
\* cancelled and one with an indicator, in both cosmetics.
SomeReplies ==
  {ReplyTo(TRUE, {e1, e2}, FALSE, FALSE, 3, 0, 0, 1),
   ReplyTo(TRUE, {e1, e3}, FALSE, FALSE, 2, 0, 0, 2),
   ReplyTo(TRUE, {e1, e2, e3}, FALSE, FALSE, 3, 0, 0, 0),
   ReplyTo(FALSE, {e1}, FALSE, FALSE, 3, 0, 0, 2),
   ReplyTo(TRUE, {e1, e3}, FALSE, FALSE, 3, 0, 1, 0),
   ReplyTo(FALSE, {e1}, FALSE, FALSE, 3, 0, 1, 0),
   ReplyTo(TRUE, {e1, e3}, FALSE, TRUE, 2, 0, 0, 0),
   ReplyTo(FALSE, {e1}, FALSE, TRUE, 2, 0, 0, 0),
   ReplyTo(TRUE, {e1}, TRUE, TRUE, 1, 2, 1, 0)}

MCTools == {e1, e2}
MCPlans == {e3}

(* -------------------------------- the jobs ----------------------------- *)

Requested(c, t, s, e) == [command |-> c, timeout |-> t, schedule |-> s, every |-> e]
SomeRequests == {Requested("cmd1", "", "daily", ""), Requested("cmd2", "", "", "1h"),
                 Requested("cmd1", "", "daily", "1h")}

MCNames    == {"hand", "new"}
MCDefiners == {"d1", "d2"}
MCAgents   == {"nat"}
\* The job the operator wrote.
OwnJob == [n \in {"hand"} |-> JobProfile(Requested("own", "", "daily", ""), FALSE)]

(* ------------------- the journal, the files, the stream ---------------- *)

\* Two turns of one session.
MCTurns          == {"t1", "t2"}
MCConversationOf == [t \in MCTurns |-> "s"]
MCSweepers       == {"daemon", "tool"}

MCFiles     == {"f"}
MCToolUsers == {"a", "b"}

\* A prompt and its follow-up, on one session.
MCPrompts   == {p1, p2}
MCSessions  == {s1}
MCSessionOf == [p \in MCPrompts |-> s1]

\* Nothing tells the two apart, and no other part knows of them.
PromptSymmetry == Permutations(MCPrompts)

(* ----------------------------- the migration --------------------------- *)

Old == INSTANCE MCMigration WITH
  Layouts <- {}, Setups <- 0, MaxCrashes <- 0, MaxFailures <- 0

MCLayouts == Old!SomeDirectories

(* ---------------- the startup, the routes and the workflow ------------- *)

Some == INSTANCE MCSettings

MCDirectories == Some!SomeDirectories
MCHost        == Some!SomeHost
MCUsers       == Some!SomeUsers
MCMessages    == Some!SomeMessages
MCCommands    == Some!SomeCommands
MCChannels    == Some!SomeChannels
MCOldName     == Some!SomeNames
MCNewName     == Some!SomeNewNames

MCRules  == Some!SomeSettings
MCClicks == Some!SomeClicks
MCShared == Some!SomeLinks

(* --------------------------- the specification ------------------------- *)

serviceVars == <<service, vars, replyVars, jobVars, journalVars, migrationVars, ingressVars,
                 wvars, fvars, streamVars>>

Off == "off"

ReplyOff ==
  /\ r = InitialRecord(ReplyTo(FALSE, {}, FALSE, FALSE, 0, 0, 0, 0)) /\ told = <<>>
  /\ phase = "setup" /\ threaded = Off /\ refresher = Off /\ answering = Off

\* What the properties of a part that does not run look at has its first value.
IngressOff ==
  /\ files = Off /\ gateway = "start" /\ config = NoConfig
  /\ built = {} /\ problems = {} /\ access = Off
  /\ everywhere = Off /\ byChannel = Off
  /\ names = Off /\ slackName = Off
  /\ refresh = Off
  /\ handled = {} /\ acked = {} /\ turns = <<>>
  /\ delivered = [e \in Messages \X {"mention", "message"} |-> 0]

\* `rerun` excuses the configuration of a part that does not run.
MigrationOff ==
  /\ dir = Off /\ backup = Off /\ migrator = Off /\ want = Off /\ rerun = TRUE
  /\ setups = Off /\ crashes = Off /\ failures = Off

Parts == {"sessions", "replies", "jobs", "journal", "migration", "ingress",
          "workflow", "files", "stream"}

ServicesInit ==
  /\ service \in Parts
  /\ Init /\ JobsInit /\ JournalInit /\ StreamInit /\ WorkflowInit
  /\ IF service = "ingress" THEN IngressInit ELSE IngressOff
  /\ FilesInit /\ (service # "files" => disk = [f \in Files |-> Missing])
  /\ IF service = "replies" THEN ReplyInit ELSE ReplyOff
  /\ IF service = "migration" THEN MigrationInit ELSE MigrationOff

Still(part, v) == IF service = part THEN TRUE ELSE UNCHANGED v
OthersStill ==
  /\ Still("sessions", vars)
  /\ Still("replies", replyVars)
  /\ Still("jobs", jobVars)
  /\ Still("journal", journalVars)
  /\ Still("migration", migrationVars)
  /\ Still("ingress", ingressVars)
  /\ Still("workflow", wvars)
  /\ Still("files", fvars)
  /\ Still("stream", streamVars)

\* Only the session manager is never stuck: the others may come to an end.
ServicesNext ==
  /\ service' = service
  /\ OthersStill
  /\ \/ service = "sessions" /\ Next
     \/ service = "replies" /\ ReplyNext
     \/ service = "jobs" /\ JobsNext
     \/ service = "journal" /\ JournalNext
     \/ service = "migration" /\ MigrationNext
     \/ service = "ingress" /\ IngressNext
     \/ service = "workflow" /\ WorkflowNext
     \/ service = "files" /\ FilesNext
     \/ service = "stream" /\ StreamNext
     \/ service # "sessions" /\ UNCHANGED serviceVars

ServicesSpec == ServicesInit /\ [][ServicesNext]_serviceVars
=============================================================================
