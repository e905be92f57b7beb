--------------------------- MODULE AndroidJobScript ---------------------------
(***************************************************************************)
(* scripts/android-job.sh for one job directory, step by step: the worker  *)
(* shell that `start` launches under setsid, and any number of `status`    *)
(* and `cancel` calls that run beside it and beside one another.  The      *)
(* steps are the points at which one script looks at, or changes, what     *)
(* another one can see: files, processes and signals.                      *)
(*                                                                         *)
(* A process id may be used again once its group is gone, but not in the   *)
(* instant between a cancel's identity test and its signal.                *)
(***************************************************************************)
EXTENDS Naturals

CONSTANTS
  Calls,     \* adbd shells that run `status` or `cancel`, each one call at a time
  MayLose,   \* BOOLEAN: Android may kill the worker, break `start` off or fail `ps`
  MayReuse   \* BOOLEAN: the worker's pid may be used again for a foreign group

ASSUME ScriptAssumption == MayLose \in BOOLEAN /\ MayReuse \in BOOLEAN

VARIABLES
  start,       \* "ready", "made" (directory exists) or "over"
  pidFile, cancelFile,
  exitFile,    \* "none", "empty", "zero" or "other"
  worker,      \* where the group leader is
  code,        \* the command's exit code, known to the leader only
  members,     \* the command, or something it left in the group, is alive
  foreign,     \* the recorded pid now leads a foreign group
  at,          \* [Calls -> position in the script]
  tries,       \* [Calls -> 0..3]: cancel's attempts
  result,      \* [Calls -> what the last call printed]
  told,        \* [Calls -> the exit code it printed]
  (* history *)
  cancelled,   \* some cancel call has returned
  hit          \* a foreign group has been signalled

files == <<pidFile, cancelFile, exitFile>>
group == <<start, worker, code, members, foreign>>
calls == <<at, tries, result, told>>
vars  == <<files, group, calls, cancelled, hit>>

Codes   == {"zero", "other"}
Workers == {"off", "boot", "published", "nocwd", "command", "ended", "exiting", "gone"}
Points  == {"idle", "cancel:mark", "cancel:wait", "cancel:test", "cancel:term",
            "cancel:again", "cancel:kill", "status:exit", "status:identity", "status:files",
            "status:nopid", "status:group", "status:recheck", "status:completed"}
Printed == {"nothing", "starting", "running", "completed", "cancelled", "unknown", "error"}

TypeOK ==
  /\ start \in {"ready", "made", "over"}
  /\ pidFile \in BOOLEAN /\ cancelFile \in BOOLEAN
  /\ exitFile \in Codes \cup {"none", "empty"}
  /\ worker \in Workers
  /\ code \in Codes \cup {"none"}
  /\ members \in BOOLEAN /\ foreign \in BOOLEAN
  /\ at \in [Calls -> Points]
  /\ tries \in [Calls -> 0..3]
  /\ result \in [Calls -> Printed]
  /\ told \in [Calls -> Codes \cup {"none"}]
  /\ cancelled \in BOOLEAN /\ hit \in BOOLEAN

Init ==
  /\ start = "ready"
  /\ pidFile = FALSE /\ cancelFile = FALSE /\ exitFile = "none"
  /\ worker = "off" /\ code = "none"
  /\ members = FALSE /\ foreign = FALSE
  /\ at = [c \in Calls |-> "idle"]
  /\ tries = [c \in Calls |-> 0]
  /\ result = [c \in Calls |-> "nothing"]
  /\ told = [c \in Calls |-> "none"]
  /\ cancelled = FALSE /\ hit = FALSE

LeaderAlive == worker \notin {"off", "gone"}

\* A bug for Identity: the start ticks are not compared.
IdentityByPid == pidFile /\ (LeaderAlive \/ foreign)

\* identity(): the recorded pid lives and has the recorded start ticks.
Identity == pidFile /\ LeaderAlive

\* group_alive(): some process has the recorded pid as its group.
GroupAlive == LeaderAlive \/ members \/ foreign

-----------------------------------------------------------------------------
(***************************************************************************)
(* `start` and the worker it generates.                                    *)
(***************************************************************************)
\* A bug for Mkdir: mkdir -p, which an existing directory does not stop.
MkdirAgain ==
  /\ start # "made"
  /\ start' = "made"
  /\ UNCHANGED <<files, worker, code, members, foreign, calls, cancelled, hit>>

Mkdir ==
  /\ start = "ready"
  /\ start' = "made"
  /\ UNCHANGED <<files, worker, code, members, foreign, calls, cancelled, hit>>

LaunchWorker ==
  /\ start = "made"
  /\ start' = "over"
  /\ worker' = "boot"
  /\ UNCHANGED <<files, code, members, foreign, calls, cancelled, hit>>

\* set -e: a failed write, or a connection gone, ends `start` before the launch.
StartBreaksOff ==
  /\ MayLose /\ start = "made"
  /\ start' = "over"
  /\ UNCHANGED <<files, worker, code, members, foreign, calls, cancelled, hit>>

PublishPid ==
  /\ worker = "boot"
  /\ worker' = "published"
  /\ pidFile' = TRUE
  /\ UNCHANGED <<cancelFile, exitFile, start, code, members, foreign, calls, cancelled, hit>>

\* A bug for RunCommand: the cancel file is not looked at.
RunCommandAnyway ==
  /\ worker = "published"
  /\ worker' = "command" /\ members' = TRUE
  /\ UNCHANGED <<files, start, code, foreign, calls, cancelled, hit>>

\* exit 125 if a cancel came first, otherwise cd and the command.
RunCommand ==
  /\ worker = "published"
  /\ \/ cancelFile /\ worker' = "gone" /\ UNCHANGED <<members, exitFile>>
     \/ ~cancelFile /\ worker' = "command" /\ members' = TRUE /\ UNCHANGED exitFile
     \/ ~cancelFile /\ worker' = "nocwd" /\ exitFile' = "empty" /\ UNCHANGED members
  /\ UNCHANGED <<pidFile, cancelFile, start, code, foreign, calls, cancelled, hit>>

\* The working directory is missing: 126 is written in place, not moved.
NoCwd ==
  /\ worker = "nocwd"
  /\ worker' = "exiting"
  /\ exitFile' = "other"
  /\ UNCHANGED <<pidFile, cancelFile, start, code, members, foreign, calls, cancelled, hit>>

\* The command ends, perhaps leaving something alive in its group.
CommandEnds ==
  /\ worker = "command"
  /\ worker' = "ended"
  /\ code' \in Codes
  /\ members' \in {members, FALSE}
  /\ UNCHANGED <<files, start, foreign, calls, cancelled, hit>>

PublishExit ==
  /\ worker = "ended"
  /\ worker' = "exiting"
  /\ exitFile' = code
  /\ UNCHANGED <<pidFile, cancelFile, start, code, members, foreign, calls, cancelled, hit>>

LeaderExits ==
  /\ worker = "exiting"
  /\ worker' = "gone"
  /\ UNCHANGED <<files, start, code, members, foreign, calls, cancelled, hit>>

MembersEnd ==
  /\ members /\ worker # "command"
  /\ members' = FALSE
  /\ UNCHANGED <<files, start, worker, code, foreign, calls, cancelled, hit>>

\* Low memory, the phantom-process killer, a reboot.
AndroidKills ==
  /\ MayLose /\ LeaderAlive
  /\ worker' = "gone"
  /\ members' \in {members, FALSE}
  /\ UNCHANGED <<files, start, code, foreign, calls, cancelled, hit>>

PidReused ==
  /\ MayReuse /\ pidFile /\ ~GroupAlive
  /\ \A c \in Calls : at[c] \notin {"cancel:term", "cancel:kill"}
  /\ foreign' = TRUE
  /\ UNCHANGED <<files, start, worker, code, members, calls, cancelled, hit>>

ForeignEnds ==
  /\ foreign
  /\ foreign' = FALSE
  /\ UNCHANGED <<files, start, worker, code, members, calls, cancelled, hit>>

-----------------------------------------------------------------------------
GoOn(c, p) == at' = [at EXCEPT ![c] = p]

Say(c, r, n) ==
  /\ GoOn(c, "idle")
  /\ result' = [result EXCEPT ![c] = r]
  /\ told' = [told EXCEPT ![c] = n]

\* A call on a directory that does not exist exits 66 and does nothing.
Call(c) ==
  /\ at[c] = "idle" /\ start # "ready"
  /\ \E p \in {"cancel:mark", "status:exit"} : GoOn(c, p)
  /\ tries' = [tries EXCEPT ![c] = 0]
  /\ result' = [result EXCEPT ![c] = "nothing"]
  /\ told' = [told EXCEPT ![c] = "none"]
  /\ UNCHANGED <<files, group, cancelled, hit>>

(***************************************************************************)
(* `cancel`.                                                               *)
(***************************************************************************)
CancelMark(c) ==
  /\ at[c] = "cancel:mark"
  /\ cancelFile' = TRUE
  /\ GoOn(c, "cancel:wait")
  /\ UNCHANGED <<pidFile, exitFile, group, tries, result, told, cancelled, hit>>

\* A bug for CancelWait: one attempt too many.
CancelWaitLonger(c) ==
  /\ at[c] = "cancel:wait"
  /\ IF ~pidFile /\ tries[c] <= 3
       THEN tries' = [tries EXCEPT ![c] = @ + 1] /\ UNCHANGED at
       ELSE GoOn(c, "cancel:test") /\ UNCHANGED tries
  /\ UNCHANGED <<files, group, result, told, cancelled, hit>>

\* At most three seconds for a just-starting worker to publish its identity.
CancelWait(c) ==
  /\ at[c] = "cancel:wait"
  /\ IF ~pidFile /\ tries[c] < 3
       THEN tries' = [tries EXCEPT ![c] = @ + 1] /\ UNCHANGED at
       ELSE GoOn(c, "cancel:test") /\ UNCHANGED tries
  /\ UNCHANGED <<files, group, result, told, cancelled, hit>>

CancelReturns(c) == GoOn(c, "idle") /\ cancelled' = TRUE

CancelTest(c) ==
  /\ at[c] = "cancel:test"
  /\ IF Identity THEN GoOn(c, "cancel:term") /\ UNCHANGED cancelled
                 ELSE CancelReturns(c)
  /\ UNCHANGED <<files, group, tries, result, told, hit>>

\* TERM reaches the group; a process may ignore it, or act on it late.
CancelTerm(c) ==
  /\ at[c] = "cancel:term"
  /\ worker' \in {worker, "gone"}
  /\ members' \in {members, FALSE}
  /\ hit' = (hit \/ foreign)
  /\ GoOn(c, "cancel:again")
  /\ UNCHANGED <<files, start, code, foreign, tries, result, told, cancelled>>

\* One second later: only a leader that is still itself is killed.
CancelAgain(c) ==
  /\ at[c] = "cancel:again"
  /\ IF Identity THEN GoOn(c, "cancel:kill") /\ UNCHANGED cancelled
                 ELSE CancelReturns(c)
  /\ UNCHANGED <<files, group, tries, result, told, hit>>

CancelKill(c) ==
  /\ at[c] = "cancel:kill"
  /\ worker' = "gone" /\ members' = FALSE
  /\ hit' = (hit \/ foreign)
  /\ CancelReturns(c)
  /\ UNCHANGED <<files, start, code, foreign, tries, result, told>>

Cancel(c) ==
  CancelMark(c) \/ CancelWait(c) \/ CancelTest(c) \/ CancelTerm(c)
    \/ CancelAgain(c) \/ CancelKill(c)

(***************************************************************************)
(* `status`.                                                               *)
(***************************************************************************)
Quiet == UNCHANGED <<files, group, tries, cancelled, hit>>

\* The first look at the exit file; an empty one is exit 65.
StatusExit(c) ==
  /\ at[c] = "status:exit"
  /\ \/ /\ exitFile = "none" /\ GoOn(c, "status:identity") /\ UNCHANGED <<result, told>>
     \/ /\ exitFile = "empty" /\ Say(c, "error", "none")
     \/ /\ exitFile \in Codes /\ GoOn(c, "status:completed")
        /\ told' = [told EXCEPT ![c] = exitFile] /\ UNCHANGED result
  /\ Quiet

StatusIdentity(c) ==
  /\ at[c] = "status:identity"
  /\ IF Identity THEN Say(c, "running", "none")
                 ELSE GoOn(c, "status:files") /\ UNCHANGED <<result, told>>
  /\ Quiet

StatusFiles(c) ==
  /\ at[c] = "status:files"
  /\ GoOn(c, IF pidFile /\ cancelFile THEN "status:group" ELSE "status:nopid")
  /\ UNCHANGED <<result, told>> /\ Quiet

StatusNoPid(c) ==
  /\ at[c] = "status:nopid"
  /\ IF ~pidFile THEN Say(c, "starting", "none")
                 ELSE GoOn(c, "status:recheck") /\ UNCHANGED <<result, told>>
  /\ Quiet

StatusGroup(c) ==
  /\ at[c] = "status:group"
  /\ \/ ~GroupAlive /\ Say(c, "cancelled", "none")
     \/ (GroupAlive \/ MayLose) /\ GoOn(c, "status:recheck") /\ UNCHANGED <<result, told>>
  /\ Quiet

\* The worker may have published its exit code between the first two tests.
StatusRecheck(c) ==
  /\ at[c] = "status:recheck"
  /\ \/ /\ exitFile = "none" /\ Say(c, "unknown", "none")
     \/ /\ exitFile = "empty" /\ Say(c, "error", "none")
     \/ /\ exitFile \in Codes /\ GoOn(c, "status:completed")
        /\ told' = [told EXCEPT ![c] = exitFile] /\ UNCHANGED result
  /\ Quiet

\* A bug for StatusCompleted: an exit code is taken for the end of the group.
StatusCompletedUnchecked(c) ==
  /\ at[c] = "status:completed"
  /\ Say(c, "completed", told[c])
  /\ Quiet

StatusCompleted(c) ==
  /\ at[c] = "status:completed"
  /\ \/ GroupAlive /\ Say(c, "running", told[c])
     \/ ~GroupAlive /\ Say(c, "completed", told[c])
     \/ MayLose /\ Say(c, "unknown", told[c])
  /\ Quiet

Status(c) ==
  StatusExit(c) \/ StatusIdentity(c) \/ StatusFiles(c) \/ StatusNoPid(c)
    \/ StatusGroup(c) \/ StatusRecheck(c) \/ StatusCompleted(c)

-----------------------------------------------------------------------------
WorkerStep ==
  \/ PublishPid \/ RunCommand \/ NoCwd \/ CommandEnds \/ PublishExit \/ LeaderExits

Next ==
  \/ Mkdir \/ LaunchWorker \/ StartBreaksOff \/ WorkerStep \/ MembersEnd
  \/ AndroidKills \/ PidReused \/ ForeignEnds
  \/ \E c \in Calls : Call(c) \/ Cancel(c) \/ Status(c)

Spec == Init /\ [][Next]_vars

-----------------------------------------------------------------------------
(***************************************************************************)
(* Properties.                                                             *)
(***************************************************************************)
\* The phase AndroidRemote gives this directory.
Phase ==
  CASE start = "ready" -> "absent"
    [] start # "ready" /\ ~pidFile ->
         IF start = "made" \/ worker = "boot" THEN "starting" ELSE "stillborn"
    [] pidFile /\ exitFile \in Codes ->
         IF LeaderAlive \/ members THEN "lingering" ELSE "completed"
    [] OTHER ->
         IF LeaderAlive THEN "running" ELSE IF members THEN "leaderless" ELSE "dead"

Contract == INSTANCE AndroidRemote WITH
  ShellJobs  <- {"job"},
  phase      <- [j \in {"job"} |-> Phase],
  cancelFile <- [j \in {"job"} |-> cancelFile],
  exit       <- [j \in {"job"} |-> IF exitFile = "empty" THEN "none" ELSE exitFile]

\* The script keeps the contract the Java queue is written against: a directory
\* is started once, a code is published once, nothing comes back to life.
KeepsContract == Contract!RemoteSpec

\* What a `status` call has printed as final is true from then on: "completed"
\* with this code and no process left, "cancelled" with none left either.
FinalReportsAreTrue ==
  \A c \in Calls :
    /\ result[c] = "completed" => Phase = "completed" /\ exitFile = told[c]
    /\ result[c] = "cancelled" => cancelFile /\ Phase \in {"completed", "dead"}

\* Once a `cancel` call has returned, the worker neither runs the command nor
\* will: the cancel file and the pid file are each written before the other's
\* owner looks for it.
CancelEndsCommand ==
  cancelled => worker \in {"off", "boot", "published", "gone"}

\* No cancel signals a group whose leader is not the recorded worker.
NeverSignalsForeign == ~hit
=============================================================================
