---------------------------- MODULE PackageProcess ----------------------------
(***************************************************************************)
(* The processes LocalLinuxRuntime starts for package jobs, as the app     *)
(* sees them: launch.sh writes the pid record and execs the native         *)
(* launcher, the launcher takes the lock of the Fedora root or dies "busy" *)
(* and execs PRoot with dnfast.  They outlive the app process.             *)
(***************************************************************************)
CONSTANTS
  Jobs       \* ids of package jobs

VARIABLES
  proc,      \* [Jobs -> Procs]: the job's latest process
  quit,      \* SUBSET Jobs: processes that have been sent SIGQUIT
  code       \* [Jobs -> {"null", "zero", "other"}]: its exit code

processVars == <<proc, quit, code>>

Procs == {"none", "shell", "launcher", "writer", "gone"}

ProcessTypeOK ==
  /\ proc \in [Jobs -> Procs]
  /\ quit \in SUBSET Jobs
  /\ code \in [Jobs -> {"null", "zero", "other"}]

ProcessInit ==
  /\ proc = [i \in Jobs |-> "none"]
  /\ quit = {}
  /\ code = [i \in Jobs |-> "null"]

Alive(i) == proc[i] \notin {"none", "gone"}

\* launch.sh has moved the finished record into place.
Recorded(i) == proc[i] \in {"launcher", "writer"}

\* Process.start() of one more command of job i.
Fork(i) ==
  /\ proc' = [proc EXCEPT ![i] = "shell"]
  /\ quit' = quit \ {i}
  /\ code' = [code EXCEPT ![i] = "null"]

\* mv "$record.tmp" "$record", and exec.
WriteRecord(i) ==
  /\ proc[i] = "shell"
  /\ proc' = [proc EXCEPT ![i] = "launcher"]
  /\ UNCHANGED <<quit, code>>

Ended(i, c) ==
  /\ proc' = [proc EXCEPT ![i] = "gone"]
  /\ code' = [code EXCEPT ![i] = c]
  /\ UNCHANGED quit

\* flock(root, LOCK_EX | LOCK_NB), or "Fedora root busy".
LockRoot(i) ==
  /\ proc[i] = "launcher"
  /\ IF \E k \in Jobs : proc[k] = "writer"
       THEN Ended(i, "other")
       ELSE /\ proc' = [proc EXCEPT ![i] = "writer"]
            /\ UNCHANGED <<quit, code>>

\* It ends by itself, fails, is killed by Android, or has been told to quit.
Dies(i) ==
  /\ Alive(i)
  /\ \E c \in {"zero", "other"} :
       /\ c = "zero" => proc[i] = "writer"
       /\ Ended(i, c)

ProcessStep(i) == WriteRecord(i) \/ LockRoot(i) \/ Dies(i)

\* SIGQUIT to every process of S whose record names it: PRoot kills its tracees.
Quit(S) ==
  /\ quit' = quit \cup {i \in S : Recorded(i)}
  /\ UNCHANGED <<proc, code>>
=============================================================================
