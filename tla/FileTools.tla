------------------------------- MODULE FileTools ------------------------------
(***************************************************************************)
(* The native file tools of one agent (files.read, files.write, files.edit) *)
(* and the stamp store they share, which guards a file against blind and    *)
(* stale writes.  The tools of concurrent conversations and the programs    *)
(* outside, the user's editor, work on the same files; a tool is as many     *)
(* steps as it makes calls to the file system.                              *)
(*                                                                         *)
(* A file's content is the set of the changes it contains, and its stamp     *)
(* (size and modification time) a number that every write advances.         *)
(***************************************************************************)
EXTENDS Naturals, FiniteSets

CONSTANTS
  Files,
  ToolUsers,   \* conversations of the agent
  MaxCalls,    \* bound: tool calls
  MaxOutside   \* bound: changes made outside the tools

VARIABLES
  disk,     \* [present, content, stamp] of each file
  stamps,   \* ReadState.stamps: a function on the files read so far
  call,     \* the tool call each caller is in
  vouched,  \* history: content of the versions the tools have read, be it in a
            \*   window of their lines, or written, per file
  lost,     \* history: changes that a tool overwrote, per file
  raced,    \* history: files changed outside while a tool was writing them
  calls, outside   \* bounds

fvars == <<disk, stamps, call, vouched, lost, raced, calls, outside>>

NoCall == [tool |-> "none"]
Missing == [present |-> FALSE, content |-> {}, stamp |-> 0]

(* Every write has a change of its own: here numbered.                      *)
Change == calls + outside + 1

(* --------------------------------- read -------------------------------- *)

Begin(c, tool, f) ==
  /\ call[c] = NoCall /\ calls < MaxCalls
  /\ calls' = calls + 1
  /\ call' = [call EXCEPT ![c] =
       [tool |-> tool, at |-> "start", file |-> f, stamp |-> 0, content |-> {},
        change |-> Change]]
  /\ UNCHANGED <<disk, stamps, vouched, lost, raced, outside>>

At(c, tool, step) == call[c].tool = tool /\ call[c].at = step
File(c) == call[c].file
On(c) == disk[File(c)]
Return(c) == call' = [call EXCEPT ![c] = NoCall]
To(c, step) == call' = [call EXCEPT ![c].at = step]
Counted == UNCHANGED <<calls, outside>>

(* Root.Resolve confines the path; read stats the file ...                  *)
ReadStat(c) ==
  /\ At(c, "read", "start")
  /\ IF On(c).present
     THEN call' = [call EXCEPT ![c].at = "open", ![c].stamp = On(c).stamp]
     ELSE Return(c)
  /\ UNCHANGED <<disk, stamps, vouched, lost, raced>> /\ Counted

(* ... and opens and scans it.  It returns a window of the lines, by default *)
(* the first 2000; the version it scanned is what the stamp will vouch for.  *)
ReadScan(c) ==
  /\ At(c, "read", "open")
  /\ IF On(c).present
     THEN call' = [call EXCEPT ![c].at = "mark", ![c].content = On(c).content]
     ELSE Return(c)
  /\ UNCHANGED <<disk, stamps, vouched, lost, raced>> /\ Counted

Stamped(f, n) == [g \in DOMAIN stamps \cup {f} |-> IF g = f THEN n ELSE stamps[g]]

(* Mutant of ReadStamp: the file is stat'd again once it has been read.     *)
LateStamp(c) == On(c).stamp

(* It records the stamp the file had before it was read.                    *)
ReadStamp(c) == call[c].stamp

ReadMark(c) ==
  /\ At(c, "read", "mark")
  /\ stamps' = Stamped(File(c), ReadStamp(c))
  /\ vouched' = [vouched EXCEPT ![File(c)] = @ \cup call[c].content]
  /\ Return(c)
  /\ UNCHANGED <<disk, lost, raced>> /\ Counted

(* ----------------------------- write and edit --------------------------- *)

(* ReadState.Verify: the file was read, and has the stamp it had then.      *)
Verified(f) == f \in DOMAIN stamps /\ disk[f].present /\ stamps[f] = disk[f].stamp

(* write: an existing file must be verified; a new one need not be.         *)
WriteCheck(c) ==
  /\ At(c, "write", "start")
  /\ IF On(c).present /\ ~Verified(File(c)) THEN Return(c) ELSE To(c, "put")
  /\ UNCHANGED <<disk, stamps, vouched, lost, raced>> /\ Counted

EditCheck(c) ==
  /\ At(c, "edit", "start")
  /\ IF Verified(File(c)) THEN To(c, "load") ELSE Return(c)
  /\ UNCHANGED <<disk, stamps, vouched, lost, raced>> /\ Counted

(* edit reads the file and looks for the old string, which may be gone.     *)
EditLoad(c) ==
  /\ At(c, "edit", "load")
  /\ \/ /\ On(c).present
        /\ call' = [call EXCEPT ![c].at = "put", ![c].content = On(c).content]
     \/ Return(c)
  /\ UNCHANGED <<disk, stamps, vouched, lost, raced>> /\ Counted

(* os.WriteFile: a write replaces the content, an edit adds its replacement *)
(* to the content it read.                                                  *)
New(c) == call[c].content \cup {call[c].change}

Put(c) ==
  /\ call[c].tool \in {"write", "edit"} /\ call[c].at = "put"
  /\ \/ Return(c) /\ UNCHANGED <<disk, vouched, lost>>
     \/ /\ disk' = [disk EXCEPT ![File(c)] =
              [present |-> TRUE, content |-> New(c), stamp |-> @.stamp + 1]]
        /\ lost' = [lost EXCEPT ![File(c)] = @ \cup (On(c).content \ New(c))]
        /\ vouched' = [vouched EXCEPT ![File(c)] = @ \cup New(c)]
        /\ To(c, "mark")
  /\ UNCHANGED <<stamps, raced>> /\ Counted

(* ReadState.Mark: the file is stat'd again, whoever wrote it last.         *)
Mark(c) ==
  /\ call[c].tool \in {"write", "edit"} /\ call[c].at = "mark"
  /\ stamps' = IF On(c).present THEN Stamped(File(c), On(c).stamp) ELSE stamps
  /\ Return(c)
  /\ UNCHANGED <<disk, vouched, lost, raced>> /\ Counted

(* ------------------------------- outside -------------------------------- *)

Writing(f) == \E c \in ToolUsers : call[c] # NoCall /\ call[c].file = f
                                 /\ call[c].tool # "read" /\ call[c].at # "start"

(* The user's editor, a command of the terminal tool, another agent: it adds *)
(* to the file, or deletes it.                                              *)
Outside(f) ==
  /\ outside < MaxOutside
  /\ outside' = outside + 1
  /\ disk' = [disk EXCEPT ![f] =
       [present |-> TRUE, content |-> @.content \cup {Change}, stamp |-> @.stamp + 1]]
  /\ raced' = IF Writing(f) THEN raced \cup {f} ELSE raced
  /\ UNCHANGED <<stamps, call, vouched, lost, calls>>

Deleted(f) ==
  /\ outside < MaxOutside /\ disk[f].present
  /\ outside' = outside + 1
  /\ disk' = [disk EXCEPT ![f] =
       [present |-> FALSE, content |-> {}, stamp |-> @.stamp + 1]]
  /\ UNCHANGED <<stamps, call, vouched, lost, raced, calls>>

(* --------------------------- specification ----------------------------- *)

FilesInit ==
  /\ disk \in [Files -> {Missing, [present |-> TRUE, content |-> {0}, stamp |-> 1]}]
  /\ stamps = [f \in {} |-> 0]
  /\ call = [c \in ToolUsers |-> NoCall]
  /\ vouched = [f \in Files |-> {}] /\ lost = [f \in Files |-> {}]
  /\ raced = {} /\ calls = 0 /\ outside = 0

FilesNext ==
  \/ \E c \in ToolUsers :
       \/ \E f \in Files, tool \in {"read", "write", "edit"} : Begin(c, tool, f)
       \/ call[c] # NoCall /\
            \/ ReadStat(c) \/ ReadScan(c) \/ ReadMark(c)
            \/ WriteCheck(c) \/ EditCheck(c) \/ EditLoad(c) \/ Put(c) \/ Mark(c)
  \/ \E f \in Files : Outside(f) \/ Deleted(f)

FilesSpec == FilesInit /\ [][FilesNext]_fvars

(* ----------------------------- properties ------------------------------ *)

(* No tool overwrites a version of a file that no tool has read or written, *)
(* unless a program outside changed the file after the tool had verified it *)
(* and before the tool had stamped it again (state.go:84-88, 122-128; the   *)
(* stamp of a read is the one from before it, read.go:147-149).  It is the  *)
(* version that counts: lines that were outside the window of the read may  *)
(* be overwritten, and so may what another tool has written meanwhile.      *)
NothingUnreadLost == \A f \in Files : lost[f] \subseteq vouched[f] \/ f \in raced
=============================================================================
