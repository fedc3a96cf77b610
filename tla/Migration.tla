------------------------------ MODULE Migration ------------------------------
(***************************************************************************)
(* The configuration directory: the schema migrations every start of the   *)
(* program runs (internal/config/migrate), the bootstrap that seeds what   *)
(* is missing, and the setup tools that write into it without migrating.   *)
(*                                                                         *)
(* One process at a time; it may be killed between any two writes and any  *)
(* write may fail, which leaves the file torn.  Legacy files parse.        *)
(***************************************************************************)
EXTENDS Naturals, Sequences, FiniteSets

CONSTANTS
  Layouts,      \* the directories the first start may find
  Setups,       \* how often a setup tool may be run
  MaxCrashes,   \* bound: processes killed
  MaxFailures   \* bound: writes that fail

VARIABLES
  dir,       \* the files of the configuration directory
  backup,    \* .migration-backup
  migrator,  \* the running process: where it is, the versions still pending
             \*   and the writes of the transform that it still has to make
  want,      \* history: what the user's configuration means
  rerun,     \* history: a migration ran on what a killed one had left, or a
             \*   setup tool had written into an unmigrated directory
  setups, crashes, failures

migrationVars == <<dir, backup, migrator, want, rerun, setups, crashes, failures>>

CurrentVersion == 2

(* ------------------------------- files --------------------------------- *)

NoFile == [kind |-> "absent"]
Torn   == [kind |-> "torn"]
Present(d, f) == d[f].kind \notin {"absent", "torn"}

\* slack.yaml or gateway.yaml: which old shapes it carries, the rule blocks
\* still in it, chat.enabled, whose it is, whether its values fit the types.
Root(legacy, rules, enabled, owner, typed) ==
  [kind |-> "root", legacy |-> legacy, rules |-> rules, enabled |-> enabled,
   owner |-> owner, typed |-> typed]

\* agents.yaml: the enabled of the old runtime block ("none": no such block),
\* the runtime settings and the backend of its profiles.
Agents(runtime, settings, backend, typed) ==
  [kind |-> "agents", runtime |-> runtime, settings |-> settings,
   backend |-> backend, typed |-> typed]

Owned(owner) == [kind |-> "owned", owner |-> owner]
StampedAs(v) == [kind |-> "stamp", version |-> v]

Seed(f) == CASE f = "gateway" -> Root({}, {}, "unset", "seed", TRUE)
             [] f = "agents"  -> Agents("none", "seed", "nested", TRUE)
             [] OTHER         -> Owned("seed")

RuleFiles == {"workflow", "unfurl"}
Seeded == {"gateway", "agents", "other"} \cup RuleFiles
Empty  == [f \in Seeded \cup {"slack", "stamp"} |-> NoFile]

(* A missing or unparsable stamp is version 0.                              *)
Version(d) == IF Present(d, "stamp") THEN d["stamp"].version ELSE 0

(* The pending versions are computed once, before the first migration.      *)
PendingVersions(d) == [i \in 1 .. CurrentVersion - Version(d) |-> Version(d) + i]

(* ----------------------------- transforms ------------------------------ *)

DetectV1(d) ==
  \/ d["slack"].kind # "absent"
  \/ Present(d, "agents") /\ d["agents"].runtime # "none"
  \/ Present(d, "gateway") /\ "configuration" \in d["gateway"].legacy

DetectV2(d) == Present(d, "gateway") /\ "routing" \in d["gateway"].legacy

Detect(v, d) == IF v = 1 THEN DetectV1(d) ELSE DetectV2(d)

(* The file the legacy root is read from.                                   *)
Anchor(d) == IF d["slack"].kind # "absent" THEN "slack" ELSE "gateway"

(* readYAML of a file that is missing or does not parse: the empty document. *)
RootOf(d, f)  == IF Present(d, f) THEN d[f]
                 ELSE Root({}, {}, "unset", "none", TRUE)
AgentsOf(d)   == IF Present(d, "agents") THEN d["agents"]
                 ELSE Agents("none", "none", "lost", TRUE)

(* migrateProfile keeps the flat backend keys and nothing else: a profile   *)
(* that is nested already comes out with an empty backend.                  *)
MigrateProfile(backend) == IF backend = "flat" THEN "nested" ELSE "lost"

(* buildDefaults and migrateProfile.                                        *)
MigrateAgents(a) ==
  [a EXCEPT !.runtime = "none", !.backend = MigrateProfile(@)]

(* Mutant of MigrateRoot: `enabled` is dropped with the old runtime block.   *)
DropEnabled(r, a) == [r EXCEPT !.legacy = @ \ {"configuration"}, !.rules = {}]

(* The root document applyV1 writes: `enabled` moves there from the agents. *)
MigrateRoot(r, a) ==
  [r EXCEPT !.legacy = @ \ {"configuration"}, !.rules = {},
            !.enabled = IF a.runtime \in {"on", "off"} THEN a.runtime ELSE @]

WriteOf(f, doc) == [file |-> f, doc |-> doc]

(* The writes of applyV1 in their order; the legacy anchor goes last.       *)
ApplyV1(d) ==
  LET root == RootOf(d, Anchor(d)) IN
     (IF "workflow" \in root.rules THEN <<WriteOf("workflow", Owned("user"))>>
                                   ELSE <<>>)
  \o (IF "unfurl" \in root.rules THEN <<WriteOf("unfurl", Owned("user"))>>
                                 ELSE <<>>)
  \o <<WriteOf("gateway", MigrateRoot(root, AgentsOf(d))),
       WriteOf("agents", MigrateAgents(AgentsOf(d)))>>
  \o (IF d["slack"].kind # "absent" THEN <<WriteOf("slack", NoFile)>> ELSE <<>>)

(* applyV2 rewrites the chat block of gateway.yaml.                         *)
ApplyV2(d) ==
  <<WriteOf("gateway", [RootOf(d, "gateway") EXCEPT !.legacy = @ \ {"routing"}])>>

Apply(v, d) == IF v = 1 THEN ApplyV1(d) ELSE ApplyV2(d)

(* validateDir: what is there unmarshals into the configuration's types; an *)
(* empty file does.                                                         *)
Structural(d) ==
  \A f \in {"gateway", "agents"} : Present(d, f) => d[f].typed

(* ----------------------- the directories there are --------------------- *)

Owners == {"user", "seed", "none"}
Roots == [kind : {"root"}, legacy : SUBSET {"configuration", "routing"},
          rules : SUBSET RuleFiles, enabled : {"unset", "on", "off"},
          owner : Owners, typed : BOOLEAN]
AgentFiles == [kind : {"agents"}, runtime : {"none", "unset", "on", "off"},
               settings : Owners, backend : {"flat", "nested", "lost"}, typed : BOOLEAN]
OwnedFiles == [kind : {"owned"}, owner : Owners]
Stamps     == [kind : {"stamp"}, version : Nat]

WellTyped(d) ==
  /\ DOMAIN d = Seeded \cup {"slack", "stamp"}
  /\ \A f \in {"slack", "gateway"} : d[f] \in Roots \cup {NoFile, Torn}
  /\ d["agents"] \in AgentFiles \cup {NoFile, Torn}
  /\ \A f \in RuleFiles \cup {"other"} : d[f] \in OwnedFiles \cup {NoFile, Torn}
  /\ d["stamp"] \in Stamps \cup {NoFile, Torn}

(* The transform of the first schema is what stamps a directory 1, and the  *)
(* profiles it looks at are flat: a nested one of the user is of the second. *)
OfOneSchema(d) ==
  /\ Version(d) >= 1 => ~DetectV1(d)
  /\ DetectV1(d) /\ Present(d, "agents") =>
       d["agents"].backend # "nested" \/ d["agents"].settings # "user"

ASSUME MigrationAssumption == \A d \in Layouts : WellTyped(d) /\ OfOneSchema(d)

(* ------------------------------ migrate.Run ---------------------------- *)

NotRunning == [at |-> "idle", kind |-> "none", pending |-> <<>>, todo |-> <<>>]
MigratorAt(s) == migrator.at = s
GoTo(s) == migrator' = [migrator EXCEPT !.at = s]
Fault == failures < MaxFailures /\ failures' = failures + 1

(* A legacy directory, or one a killed migration left behind.               *)
Unmigrated == Version(dir) < CurrentVersion

(* The program is started: setup tools skip the migrations.                 *)
Invoke(k) ==
  /\ MigratorAt("idle")
  /\ k = "setup" => setups < Setups
  /\ setups' = IF k = "setup" THEN setups + 1 ELSE setups
  /\ migrator' = [at |-> IF k = "setup" THEN "bootstrap" ELSE "detect", kind |-> k,
                  pending |-> IF k = "setup" THEN <<>> ELSE PendingVersions(dir),
                  todo |-> <<>>]
  /\ rerun' = (rerun \/ (crashes > 0 /\ k # "setup" /\ Unmigrated))
  /\ UNCHANGED <<dir, backup, want, crashes, failures>>

(* No migration is left: `config migrate` ends, any other start bootstraps. *)
Migrated ==
  /\ MigratorAt("detect") /\ migrator.pending = <<>>
  /\ IF migrator.kind = "migrate" THEN migrator' = NotRunning ELSE GoTo("bootstrap")
  /\ UNCHANGED <<dir, backup, want, rerun, setups, crashes, failures>>

DetectNext ==
  /\ MigratorAt("detect") /\ migrator.pending # <<>>
  /\ GoTo(IF Detect(Head(migrator.pending), dir) THEN "clear" ELSE "stamp")
  /\ UNCHANGED <<dir, backup, want, rerun, setups, crashes, failures>>

(* backupConfigDir: whatever an earlier run left behind is removed first ... *)
Clear ==
  /\ MigratorAt("clear") /\ backup' = Empty /\ GoTo("copy")
  /\ UNCHANGED <<dir, want, rerun, setups, crashes, failures>>

(* Mutant of CopyBackup: the transform starts from an empty backup.         *)
CopyNothing(d) == backup

(* ... and every top-level file is copied, the stamp too.                   *)
CopyBackup(d) == d

Copy ==
  /\ MigratorAt("copy")
  /\ \/ /\ backup' = CopyBackup(dir)
        /\ migrator' = [migrator EXCEPT !.at = "apply",
                                        !.todo = Apply(Head(migrator.pending), dir)]
        /\ UNCHANGED failures
     \/ Fault /\ migrator' = NotRunning /\ UNCHANGED backup
  /\ UNCHANGED <<dir, want, rerun, setups, crashes>>

(* One write of the transform; when it fails the directory is restored.     *)
PutFile ==
  /\ MigratorAt("apply") /\ migrator.todo # <<>>
  /\ LET w == Head(migrator.todo) IN
     \/ /\ dir' = [dir EXCEPT ![w.file] = w.doc]
        /\ migrator' = [migrator EXCEPT !.todo = Tail(@)]
        /\ UNCHANGED failures
     \/ /\ Fault
        /\ dir' = [dir EXCEPT ![w.file] = IF w.doc = NoFile THEN @ ELSE Torn]
        /\ migrator' = [migrator EXCEPT !.at = "restore", !.todo = <<>>]
  /\ UNCHANGED <<backup, want, rerun, setups, crashes>>

Validate ==
  /\ MigratorAt("apply") /\ migrator.todo = <<>>
  /\ GoTo(IF Structural(dir) THEN "stamp" ELSE "restore")
  /\ UNCHANGED <<dir, backup, want, rerun, setups, crashes, failures>>

StampVersion ==
  /\ MigratorAt("stamp")
  /\ \/ /\ dir' = [dir EXCEPT !["stamp"] = StampedAs(Head(migrator.pending))]
        /\ migrator' = [migrator EXCEPT !.at = "detect", !.pending = Tail(@)]
        /\ UNCHANGED failures
     \/ Fault /\ migrator' = NotRunning /\ dir' = [dir EXCEPT !["stamp"] = Torn]
  /\ UNCHANGED <<backup, want, rerun, setups, crashes>>

(* restoreConfigDir: every top-level file is removed ...                    *)
Wipe ==
  /\ MigratorAt("restore") /\ dir' = Empty /\ GoTo("refill")
  /\ UNCHANGED <<backup, want, rerun, setups, crashes, failures>>

(* ... the backed-up ones are copied back ...                               *)
Refill ==
  /\ MigratorAt("refill") /\ dir' = backup /\ GoTo("drop")
  /\ UNCHANGED <<backup, want, rerun, setups, crashes, failures>>

(* ... and the backup is removed.  Run returns the error: the start fails.  *)
Drop ==
  /\ MigratorAt("drop") /\ backup' = Empty /\ migrator' = NotRunning
  /\ UNCHANGED <<dir, want, rerun, setups, crashes, failures>>

(* ------------------------------ bootstrap ------------------------------ *)

(* Mutant of MissingFiles: the shipped files refresh what is on disk.       *)
Stale(d) == {f \in Seeded : d[f] # Seed(f)}

(* copyAssetFile under preserveExisting: anything that exists is kept, a    *)
(* torn file too.                                                           *)
MissingFiles(d) == {f \in Seeded : d[f].kind = "absent"}

SeedOne(f) ==
  /\ MigratorAt("bootstrap") /\ f \in MissingFiles(dir)
  /\ \/ dir' = [dir EXCEPT ![f] = Seed(f)] /\ UNCHANGED <<migrator, failures>>
     \/ Fault /\ dir' = [dir EXCEPT ![f] = Torn] /\ migrator' = NotRunning
  /\ UNCHANGED <<backup, want, rerun, setups, crashes>>

Bootstrapped ==
  /\ MigratorAt("bootstrap") /\ MissingFiles(dir) = {}
  /\ IF migrator.kind = "setup" THEN GoTo("tool") ELSE migrator' = NotRunning
  /\ UNCHANGED <<dir, backup, want, rerun, setups, crashes, failures>>

(* setup.agents replaces agents.yaml by a document of the current schema,   *)
(* whatever the schema of the rest of the directory.                        *)
SetupAgents ==
  /\ MigratorAt("tool")
  /\ dir' = [dir EXCEPT !["agents"] = Agents("none", "user", "nested", TRUE)]
  /\ want' = [want EXCEPT !.agents = "user", !.settings = "user"]
  /\ rerun' = (rerun \/ Unmigrated)
  /\ migrator' = NotRunning
  /\ UNCHANGED <<backup, setups, crashes, failures>>

Crash ==
  /\ ~MigratorAt("idle") /\ crashes < MaxCrashes
  /\ crashes' = crashes + 1 /\ migrator' = NotRunning
  /\ UNCHANGED <<dir, backup, want, rerun, setups, failures>>

(* ---------------------------- specification ---------------------------- *)

(* What a directory means to whoever reads it in its own schema; a file     *)
(* bootstrap seeded means what its absence did.                             *)
Means(d) ==
  LET root   == RootOf(d, Anchor(d))
      agents == AgentsOf(d)
      owner(f) == IF Present(d, f) THEN d[f].owner ELSE "none"
      user(o)  == IF o = "user" THEN "user" ELSE "none"
  IN [root     |-> user(root.owner),
      chat     |-> IF agents.runtime \in {"on", "off"} THEN agents.runtime
                                                       ELSE root.enabled,
      rules    |-> [f \in RuleFiles |-> IF f \in root.rules THEN "user"
                                                            ELSE user(owner(f))],
      settings |-> user(agents.settings),
      agents   |-> IF agents.backend = "lost" \/ agents.settings # "user"
                   THEN "none" ELSE "user",
      other    |-> user(owner("other"))]

MigrationInit ==
  /\ dir \in Layouts /\ want = Means(dir)
  /\ backup = Empty /\ migrator = NotRunning
  /\ rerun = FALSE /\ setups = 0 /\ crashes = 0 /\ failures = 0

MigrationNext ==
  \/ \E k \in {"start", "migrate", "setup"} : Invoke(k)
  \/ Migrated \/ DetectNext \/ Clear \/ Copy \/ PutFile \/ Validate \/ StampVersion
  \/ Wipe \/ Refill \/ Drop
  \/ \E f \in Seeded : SeedOne(f)
  \/ Bootstrapped \/ SetupAgents \/ Crash

MigrationSpec == MigrationInit /\ [][MigrationNext]_migrationVars

(* ----------------------------- properties ------------------------------ *)

(* Whatever fails or is killed on the way, what the user had configured can *)
(* be read from the directory or from the backup, until a later run starts  *)
(* from a half-converted directory (migrate.go:93-98, 178-232): also across *)
(* the second backup, which replaces the first, and across bootstrap, which *)
(* fills the gaps of a directory that failed to migrate.                    *)
Recoverable == ~rerun => Means(dir) = want \/ Means(backup) = want

(* main.go:93-94: "a failure here leaves the original config intact": a     *)
(* program that is not running any more left the user's configuration.      *)
SettledConfigKept == ~rerun /\ crashes = 0 /\ MigratorAt("idle") => Means(dir) = want

(* What the user had configured is in the directory or in the backup        *)
(* whatever fails or is killed, and in the directory when nothing was killed *)
(* (migrate.go:93-98, main.go:93-94).                                       *)
ConfigSurvives == Recoverable /\ SettledConfigKept

(* migrate.go:31: "one ordered, idempotent transform", run again after "a   *)
(* partial prior run" (v1.go:43): a Run that got through left what the user *)
(* had configured.                                                          *)
Idempotent == migrator.pending = <<>> /\ MigratorAt("bootstrap") => Means(dir) = want
=============================================================================
