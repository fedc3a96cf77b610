---------------------------- MODULE MCMigration ----------------------------
(* Small instances of Migration for TLC.                                    *)
EXTENDS Migration

\* slack.yaml of before the first schema, gateway.yaml of the first, a new one.
Legacy(enabled, rules, typed) ==
  [Empty EXCEPT !["slack"]  = Root({"configuration", "routing"}, rules, "unset", "user", TRUE),
                !["agents"] = Agents(enabled, "user", "flat", typed),
                !["other"]  = Owned("user")]
SchemaOne ==
  [Empty EXCEPT !["gateway"]  = Root({"routing"}, {}, "on", "user", TRUE),
                !["agents"]   = Agents("none", "user", "nested", TRUE),
                !["workflow"] = Owned("user"), !["stamp"] = StampedAs(1)]

SomeDirectories ==
  {Empty, SchemaOne, Legacy("on", RuleFiles, TRUE), Legacy("off", {}, FALSE),
   [Legacy("unset", {"unfurl"}, TRUE) EXCEPT !["workflow"] = Owned("user")]}

\* One whose migration is valid and meets no refused write: a kill is all that
\* comes between its writes.
CleanDirectory == {Legacy("on", RuleFiles, TRUE)}
=============================================================================
