---------------------------- MODULE AndroidRemote ----------------------------
(***************************************************************************)
(* What scripts/android-job.sh promises about one remote directory per     *)
(* shell job: the abstract life of the process group it launches under     *)
(* adbd, and what its `status` action may report.                          *)
(*                                                                         *)
(* AndroidJobs composes this contract with the Java queue.                 *)
(* AndroidJobScript is the script step by step and implements it.          *)
(***************************************************************************)

CONSTANTS
  ShellJobs,  \* ids of the jobs whose action is "shell"
  MayLose     \* BOOLEAN: Android may kill remote processes, or fail to launch one

ASSUME MayLoseAssumption == MayLose \in BOOLEAN

VARIABLES
  phase,       \* [ShellJobs -> Phases]
  cancelFile,  \* [ShellJobs -> BOOLEAN]: $directory/cancel exists
  exit         \* [ShellJobs -> Exits]: what $directory/exit holds

remoteVars == <<phase, cancelFile, exit>>

(***************************************************************************)
(* absent     no directory: `start` has not run                            *)
(* starting   directory and worker exist, no pid file yet                  *)
(* stillborn  directory exists, no pid file, and no worker to write one    *)
(* running    the group leader is alive and has not published an exit code *)
(* lingering  exit code published, some member of the group still alive    *)
(* completed  exit code published, the group is gone                       *)
(* leaderless leader gone without an exit code, some member still alive    *)
(* dead       group gone without an exit code                              *)
(***************************************************************************)
Phases == {"absent", "starting", "stillborn", "running", "lingering",
           "completed", "leaderless", "dead"}
Exits == {"none", "zero", "other"}

RemoteTypeOK ==
  /\ phase \in [ShellJobs -> Phases]
  /\ cancelFile \in [ShellJobs -> BOOLEAN]
  /\ exit \in [ShellJobs -> Exits]

RemoteInit ==
  /\ phase = [j \in ShellJobs |-> "absent"]
  /\ cancelFile = [j \in ShellJobs |-> FALSE]
  /\ exit = [j \in ShellJobs |-> "none"]

MoveTo(j, p) == phase' = [phase EXCEPT ![j] = p]

\* No member of the job's group executes now or will ever execute.
Stopped(j) == phase[j] \in {"completed", "dead"}

Report(state, code) == [state |-> state, code |-> code]

(***************************************************************************)
(* What one `status` call may print: a state, and the exit code if one is  *)
(* published.  A running job may be reported "unknown" when its pid file   *)
(* appears between the two tests for it; a job that finished by itself     *)
(* after a cancel request may be reported "cancelled"; when `ps` fails the *)
(* state of the group is "unknown".                                        *)
(***************************************************************************)
Reports(j) ==
  LET psFails(code) == IF MayLose THEN {Report("unknown", code)} ELSE {}
      cancelled == IF cancelFile[j] THEN {Report("cancelled", "none")} ELSE {} IN
  CASE phase[j] \in {"starting", "stillborn"} -> {Report("starting", "none")}
    [] phase[j] = "running"    -> {Report("running", "none"), Report("unknown", "none")}
    [] phase[j] = "lingering"  -> {Report("running", exit[j]), Report("running", "none")}
                                    \cup psFails(exit[j])
    [] phase[j] = "completed"  -> {Report("completed", exit[j])} \cup cancelled
                                    \cup psFails(exit[j])
    [] phase[j] = "leaderless" -> {Report("unknown", "none")}
    [] phase[j] = "dead"       -> IF cancelFile[j] THEN cancelled \cup psFails("none")
                                                  ELSE {Report("unknown", "none")}
    [] OTHER                   -> {}   \* no directory: exit 66

-----------------------------------------------------------------------------
\* `start`: mkdir is exclusive, so a directory is never started twice.
Launch(j) ==
  /\ phase[j] = "absent"
  /\ \/ MoveTo(j, "starting")
     \/ MayLose /\ MoveTo(j, "stillborn")
  /\ UNCHANGED <<cancelFile, exit>>

\* The worker moves its pid file into place.
Publish(j) ==
  /\ phase[j] = "starting"
  /\ MoveTo(j, "running")
  /\ UNCHANGED <<cancelFile, exit>>

\* The command ends by itself and the worker publishes its code.
Finish(j) ==
  /\ phase[j] = "running"
  /\ MoveTo(j, "lingering")
  /\ \E code \in Exits \ {"none"} : exit' = [exit EXCEPT ![j] = code]
  /\ UNCHANGED cancelFile

\* The last member of the group exits.
Settle(j) ==
  /\ \/ phase[j] = "lingering" /\ MoveTo(j, "completed")
     \/ phase[j] = "leaderless" /\ MoveTo(j, "dead")
  /\ UNCHANGED <<cancelFile, exit>>

\* Android kills the worker: low memory, phantom-process limit, reboot.
Lose(j) ==
  /\ MayLose
  /\ \/ phase[j] = "starting" /\ MoveTo(j, "stillborn")
     \/ phase[j] = "running" /\ \E p \in {"leaderless", "dead"} : MoveTo(j, p)
  /\ UNCHANGED <<cancelFile, exit>>

\* `cancel` creates the cancel file.
Mark(j) ==
  /\ phase[j] # "absent"
  /\ cancelFile' = [cancelFile EXCEPT ![j] = TRUE]
  /\ UNCHANGED <<phase, exit>>

\* `cancel` signals the group of a leader whose identity it has checked, or
\* the worker finds the cancel file before it runs the command.
Kill(j) ==
  /\ cancelFile[j]
  /\ phase[j] = "running"
  /\ \E p \in {"leaderless", "dead"} : MoveTo(j, p)
  /\ UNCHANGED <<cancelFile, exit>>

\* One whole `cancel` call.  No report tells the state between Mark and Kill
\* from the one before Mark, so a caller cannot see the two apart.
CancelCall(j) ==
  /\ phase[j] # "absent"
  /\ cancelFile' = [cancelFile EXCEPT ![j] = TRUE]
  /\ IF phase[j] = "running"
       THEN \E p \in {"leaderless", "dead"} : MoveTo(j, p)
       ELSE UNCHANGED phase
  /\ UNCHANGED exit

\* What the remote process does without being asked.
RemoteStep(j) == Publish(j) \/ Finish(j) \/ Settle(j) \/ Lose(j)

RemoteNext == \E j \in ShellJobs : RemoteStep(j) \/ Launch(j) \/ Mark(j) \/ Kill(j)

RemoteSpec == RemoteInit /\ [][RemoteNext]_remoteVars
=============================================================================
