---------------------------- MODULE RuntimeService ----------------------------
(***************************************************************************)
(* RuntimeSetupService, the LocalLinuxRuntime it runs on its worker thread,*)
(* the backend process behind linux-launch.sh, and the tool calls of the   *)
(* patched OpenCode inside it. The main thread handles taps and destroys   *)
(* instances of the service while the worker of an instance, perhaps of    *)
(* the one before, is anywhere in its task. The app may be killed at every *)
(* step, with its processes or without them.                               *)
(*                                                                         *)
(* The short processes that prepare() runs are part of one step; so is     *)
(* their cancellation. The session monitor only draws notifications.       *)
(***************************************************************************)
EXTENDS Naturals

CONSTANTS Instances,    \* of the service that may overlap
          Processes,    \* of the backend
          Tools,        \* tool calls of the session
          MaxTaps,      \* bound on starts and stops by the user
          MaxFaults     \* bound on kills, failed preparations, crashes, late records

ASSUME ServiceAssumption ==
  /\ 1 \in Instances /\ 0 \notin Instances /\ 0 \notin Processes
  /\ Tools \subseteq Nat /\ MaxTaps \in Nat /\ MaxFaults \in Nat

VARIABLES wanted,       \* the preference a reopened app resumes by
          status,       \* the preference the app shows
          app,          \* the app process is alive
          bound,        \* the instance Android delivers to, or 0
          main,         \* what the main thread is in the middle of
          service,      \* fields and worker of every instance
          process,      \* launcher, then PRoot and the backend below it
          tool,         \* the stored part of a tool call, and its child
          captured,     \* the parts an abort has read and not yet rewritten
          abort,        \* the place the abort has reached
          taps, faults

serviceVars == <<wanted, status, app, bound, main, service, process, tool, captured, abort, taps, faults>>

Statuses == {"none", "starting", "ready", "stopping", "stopped", "abandoned", "failed"}

Idle == [running |-> FALSE, stopping |-> FALSE, destroy |-> FALSE, runtime |-> "none",
         backend |-> 0, queue |-> 0, pc |-> "idle", interrupted |-> FALSE, monitor |-> TRUE]
Gone == [st |-> "gone", by |-> 0, recover |-> FALSE, quit |-> FALSE, late |-> FALSE, orphan |-> FALSE]
NoCall == [st |-> "none", by |-> 0, child |-> FALSE]

Init ==
  /\ wanted = FALSE /\ status = "none" /\ app = TRUE
  /\ bound = 0 /\ main = "idle"
  /\ service = [i \in Instances |-> Idle]
  /\ process = [p \in Processes |-> Gone]
  /\ tool = [t \in Tools |-> NoCall] /\ captured = {} /\ abort = "none"
  /\ taps = 0 /\ faults = 0

Live == {p \in Processes : process[p].st # "gone"}
Free == {p \in Processes \ Live : \A i \in Instances : service[i].backend # p}
NewProcess == CHOOSE p \in Free : TRUE
Recorded == {p \in Live : process[p].st # "shell"}
Listening == {p \in Live : process[p].st = "listening"}

Fault == faults < MaxFaults /\ faults' = faults + 1
Tap == taps < MaxTaps /\ taps' = taps + 1

Calls == <<tool, captured, abort>>
Prefs == <<wanted, status>>

-----------------------------------------------------------------------------
(* The main thread. A command creates the instance it is delivered to.     *)

Unused(i) == i # bound /\ service[i].pc = "idle"

Delivered(i) ==
  IF bound # 0 THEN i = bound ELSE Unused(i) /\ i = CHOOSE j \in Instances : Unused(j)
Fields(i) == IF i = bound THEN service[i] ELSE Idle

\* A bug for StartCommand: a running instance prepares once more.
StartCommandAnew(i) ==
  /\ app /\ main = "idle" /\ Delivered(i)
  /\ bound' = i /\ wanted' = TRUE /\ status' = "starting"
  /\ service' = [service EXCEPT ![i] =
       [Fields(i) EXCEPT !.running = TRUE, !.stopping = FALSE, !.queue = @ + 1]]
  /\ UNCHANGED <<app, main, process, Calls>>

\* A running instance ignores the command; preparation is queued behind an ending task.
StartCommand(i) ==
  /\ app /\ main = "idle" /\ Delivered(i)
  /\ bound' = i
  /\ \/ Fields(i).running /\ UNCHANGED <<wanted, status, service>>
     \/ /\ ~Fields(i).running
        /\ wanted' = TRUE /\ status' = "starting"
        /\ service' = [service EXCEPT ![i] =
             [Fields(i) EXCEPT !.running = TRUE, !.stopping = FALSE, !.queue = @ + 1]]
  /\ UNCHANGED <<app, main, process, Calls>>

\* A bug for StopCommand: the worker is not told, only its runtime is.
StopCommandUnseen(i) ==
  /\ app /\ main = "idle" /\ Delivered(i)
  /\ bound' = i /\ main' = "stop"
  /\ wanted' = FALSE /\ status' = "stopping"
  /\ service' = [service EXCEPT ![i] = Fields(i)]
  /\ UNCHANGED <<app, process, Calls>>

StopCommand(i) ==
  /\ app /\ main = "idle" /\ Delivered(i)
  /\ bound' = i /\ main' = "stop"
  /\ wanted' = FALSE /\ status' = "stopping"
  /\ service' = [service EXCEPT ![i] = [Fields(i) EXCEPT !.stopping = TRUE]]
  /\ UNCHANGED <<app, process, Calls>>

\* SIGQUIT goes to recorded processes only. cancel() and start() exclude each other.
Quit(ps) == [p \in Processes |->
              IF p \in ps \cap Recorded THEN [process[p] EXCEPT !.quit = TRUE] ELSE process[p]]
Own(i) == {p \in Processes : process[p].by = i} \cup {service[i].backend}
MonitorFree(i) == service[i].pc # "recording"
CancelRuntime(i) == IF service[i].runtime = "none" THEN "none" ELSE "cancelled"

StopRuntime ==
  /\ main = "stop" /\ MonitorFree(bound)
  /\ main' = "idle"
  /\ service' = [service EXCEPT ![bound].runtime = CancelRuntime(bound),
                                ![bound].destroy = @ \/ ~service[bound].running]
  /\ process' = Quit(Own(bound))
  /\ UNCHANGED <<Prefs, app, bound, Calls, taps, faults>>

DestroyBegins ==
  /\ app /\ main = "idle" /\ bound # 0 /\ service[bound].destroy
  /\ main' = "destroy"
  /\ service' = [service EXCEPT ![bound].stopping = TRUE]
  /\ UNCHANGED <<Prefs, app, bound, process, Calls, taps, faults>>

\* shutdownNow drops what is queued and interrupts the task that runs.
DestroyEnds ==
  /\ main = "destroy" /\ MonitorFree(bound)
  /\ main' = "idle" /\ bound' = 0
  /\ service' = [service EXCEPT ![bound] =
       [service[bound] EXCEPT !.runtime = CancelRuntime(bound), !.queue = 0, !.destroy = FALSE,
          !.interrupted = service[bound].interrupted \/ service[bound].pc # "idle", !.monitor = FALSE]]
  /\ process' = Quit(Own(bound))
  /\ UNCHANGED <<Prefs, app, Calls, taps, faults>>

-----------------------------------------------------------------------------
(* The worker of instance i.                                               *)

At(i, pc) == app /\ service[i].pc = pc
Go(i, pc) == service' = [service EXCEPT ![i].pc = pc]

\* The catch clause of the task.
Caught(i) ==
  /\ status' = IF service[i].stopping THEN "abandoned" ELSE "failed"
  /\ Go(i, "finish")

WorkerOnly == UNCHANGED <<wanted, app, bound, main, Calls, taps>>

\* acquireRuntimeLock refuses an instance that has been stopped meanwhile.
Begin(i) ==
  /\ app /\ service[i].pc = "idle" /\ service[i].queue > 0
  /\ \/ /\ service[i].stopping
        /\ status' = "abandoned"
        /\ service' = [service EXCEPT ![i].queue = @ - 1, ![i].pc = "finish"]
     \/ /\ ~service[i].stopping
        /\ service' = [service EXCEPT ![i].queue = @ - 1, ![i].pc = "reap", ![i].runtime = "open"]
        /\ UNCHANGED status
  /\ WorkerOnly /\ UNCHANGED <<process, faults>>

\* A bug for Reap: the processes of the previous run are signalled and not waited for.
ReapWithoutWaiting(i) ==
  /\ At(i, "reap")
  /\ process' = Quit(Processes) /\ Go(i, "prepare")
  /\ WorkerOnly /\ UNCHANGED <<status, faults>>

\* Every recorded process is signalled and waited for; an empty record is just deleted.
Reap(i) ==
  /\ At(i, "reap")
  /\ \/ Recorded = {} /\ Go(i, "prepare") /\ UNCHANGED <<process, status>>
     \/ \E p \in Recorded : ~process[p].quit /\ process' = Quit(Processes) /\ UNCHANGED <<service, status>>
     \/ service[i].interrupted /\ Recorded # {} /\ Caught(i) /\ UNCHANGED process
  /\ WorkerOnly /\ UNCHANGED faults

\* A cancellation after the last process of prepare() was started is not noticed here.
Prepare(i) ==
  /\ At(i, "prepare")
  /\ \/ Go(i, "look") /\ UNCHANGED <<status, faults>>
     \/ (service[i].runtime = "cancelled" \/ service[i].interrupted) /\ Caught(i) /\ UNCHANGED faults
     \/ Fault /\ Caught(i)
  /\ WorkerOnly /\ UNCHANGED process

\* Before and after the bridge is opened; returning leaves the status as it is.
Look(i) ==
  /\ At(i, "look")
  /\ \/ service[i].stopping /\ Go(i, "finish") /\ UNCHANGED status
     \/ ~service[i].stopping /\ status' = "starting" /\ Go(i, "spawn")
  /\ WorkerOnly /\ UNCHANGED <<process, faults>>

Spawn(i) ==
  /\ At(i, "spawn")
  /\ \/ service[i].runtime = "cancelled" /\ Caught(i) /\ UNCHANGED process
     \/ /\ service[i].runtime = "open" /\ Free # {}
        /\ process' = [process EXCEPT ![NewProcess] = [Gone EXCEPT !.st = "shell", !.by = i, !.recover = TRUE]]
        /\ service' = [service EXCEPT ![i].pc = "recording", ![i].backend = NewProcess]
        /\ UNCHANGED status
  /\ WorkerOnly /\ UNCHANGED faults

\* The monitor is held for at most a second while the launcher writes its record.
Started(i) ==
  /\ At(i, "recording") /\ Go(i, "await")
  /\ \/ process[service[i].backend].st # "shell" /\ UNCHANGED <<process, faults>>
     \/ /\ process[service[i].backend].st = "shell" /\ Fault
        /\ process' = [process EXCEPT ![service[i].backend].late = TRUE]
  /\ WorkerOnly /\ UNCHANGED status

\* The health of the port is asked for, whoever listens there.
Await(i) ==
  /\ At(i, "await")
  /\ \/ process[service[i].backend].st # "gone" /\ Listening # {} /\ Go(i, "ready") /\ UNCHANGED status
     \/ (process[service[i].backend].st = "gone" \/ service[i].interrupted) /\ Caught(i)
  /\ WorkerOnly /\ UNCHANGED <<process, faults>>

\* A monitor that was shut down by an earlier task of the instance rejects the new one.
Ready(i) ==
  /\ At(i, "ready")
  /\ status' = "ready"
  /\ Go(i, IF service[i].monitor THEN "serving" ELSE "rejected")
  /\ WorkerOnly /\ UNCHANGED <<process, faults>>

Rejected(i) ==
  /\ At(i, "rejected") /\ Caught(i)
  /\ WorkerOnly /\ UNCHANGED <<process, faults>>

\* waitFor() returns, or is interrupted.
Serving(i) ==
  /\ At(i, "serving")
  /\ \/ /\ process[service[i].backend].st = "gone" /\ Go(i, "finish")
        /\ status' = IF service[i].stopping THEN "stopped" ELSE "failed"
     \/ service[i].interrupted /\ Caught(i)
  /\ WorkerOnly /\ UNCHANGED <<process, faults>>

\* finally: what is left of the backend is stopped, then a new command can be taken.
Finish(i) ==
  /\ At(i, "finish")
  /\ process' = Quit({service[i].backend})
  /\ service' = [service EXCEPT ![i].backend = 0, ![i].running = FALSE, ![i].pc = "close"]
  /\ WorkerOnly /\ UNCHANGED <<status, faults>>

\* stopSelf() of an instance that is destroyed already is ignored.
CloseTask(i) ==
  /\ At(i, "close")
  /\ service' = [service EXCEPT ![i] = [service[i] EXCEPT
       !.monitor = FALSE, !.pc = "idle", !.interrupted = FALSE, !.destroy = (i = bound)]]
  /\ WorkerOnly /\ UNCHANGED <<status, process, faults>>

Worker(i) ==
  \/ Begin(i) \/ Reap(i) \/ Prepare(i) \/ Look(i) \/ Spawn(i) \/ Started(i) \/ Await(i)
  \/ Ready(i) \/ Rejected(i) \/ Serving(i) \/ Finish(i) \/ CloseTask(i)

-----------------------------------------------------------------------------
(* The backend. Its tool children die with it: PRoot kills its tracees.    *)

Untouched == UNCHANGED <<Prefs, app, bound, main, service, taps>>

Orphaned(t) == [tool[t] EXCEPT !.by = 0, !.child = FALSE]
Die(p) ==
  /\ process' = [process EXCEPT ![p].st = "gone"]
  /\ tool' = [t \in Tools |-> IF tool[t].by = p THEN Orphaned(t) ELSE tool[t]]
  /\ IF process[p].st = "listening" THEN captured' = {} /\ abort' = "none" ELSE UNCHANGED <<captured, abort>>

Record(p) ==
  /\ process[p].st = "shell"
  /\ process' = [process EXCEPT ![p].st = "proot"]
  /\ Untouched /\ UNCHANGED <<Calls, faults>>

\* A bug for Recover: nothing is rewritten.
RecoverNothing(p) ==
  /\ process[p].st = "proot" /\ ~process[p].quit
  /\ process' = [process EXCEPT ![p].st = "recovered"]
  /\ Untouched /\ UNCHANGED <<Calls, faults>>

\* Under the flag of the app, whatever the database calls running was interrupted.
Recover(p) ==
  /\ process[p].st = "proot" /\ ~process[p].quit
  /\ process' = [process EXCEPT ![p].st = "recovered"]
  /\ tool' = [t \in Tools |-> IF process[p].recover /\ tool[t].st = "running"
                              THEN [tool[t] EXCEPT !.st = "recovered"] ELSE tool[t]]
  /\ Untouched /\ UNCHANGED <<captured, abort, faults>>

\* The port is taken while another backend listens.
Listen(p) ==
  /\ process[p].st = "recovered" /\ ~process[p].quit
  /\ IF Listening = {} THEN process' = [process EXCEPT ![p].st = "listening"] /\ UNCHANGED Calls
     ELSE Die(p)
  /\ Untouched /\ UNCHANGED faults

Dies(p) ==
  /\ process[p].quit /\ p \in Live /\ Die(p)
  /\ Untouched /\ UNCHANGED faults

Crashes(p) ==
  /\ p \in Live /\ Fault /\ Die(p)
  /\ Untouched

CallBegins(t) ==
  /\ tool[t].st = "none" /\ \A u \in Tools : u < t => tool[u].st # "none"
  /\ \E p \in Listening : tool' = [tool EXCEPT ![t] = [st |-> "running", by |-> p, child |-> TRUE]]
  /\ Untouched /\ UNCHANGED <<process, captured, abort, faults>>

\* The command has ended, and the backend that started it stores the result.
CallEnds(t) ==
  /\ tool[t].st = "running" /\ tool[t].by \in Listening
  /\ tool' = [tool EXCEPT ![t] = [tool[t] EXCEPT
       !.st = IF tool[t].child THEN "completed" ELSE "aborted", !.child = FALSE]]
  /\ Untouched /\ UNCHANGED <<process, captured, abort, faults>>

\* SessionPrompt.cancel: read the pending parts, cancel the session, rewrite those parts.
AbortReads ==
  /\ Listening # {} /\ abort = "none"
  /\ captured' = {t \in Tools : tool[t].st = "running"} /\ captured' # {}
  /\ abort' = "cancel"
  /\ Untouched /\ UNCHANGED <<process, tool, faults>>

\* A bug for AbortCancels: the session is released while its command goes on.
AbortCancelsNothing ==
  /\ abort = "cancel" /\ abort' = "mark"
  /\ Untouched /\ UNCHANGED <<process, tool, captured, faults>>

AbortCancels ==
  /\ abort = "cancel" /\ abort' = "mark"
  /\ tool' = [t \in Tools |-> IF tool[t].by \in Listening THEN [tool[t] EXCEPT !.child = FALSE] ELSE tool[t]]
  /\ Untouched /\ UNCHANGED <<process, captured, faults>>

AbortMarks ==
  /\ abort = "mark" /\ abort' = "none" /\ captured' = {}
  /\ tool' = [t \in Tools |-> IF t \in captured /\ tool[t].st = "running"
                              THEN [tool[t] EXCEPT !.st = "aborted"] ELSE tool[t]]
  /\ Untouched /\ UNCHANGED <<process, faults>>

Backend(p) == Record(p) \/ Recover(p) \/ Listen(p) \/ Dies(p)
Abort == AbortCancels \/ AbortMarks
Session == AbortReads \/ Abort \/ \E t \in Tools : CallBegins(t) \/ CallEnds(t)

-----------------------------------------------------------------------------
(* Android, and the user.                                                  *)

\* The app's processes go with it, as in a forced stop, or stay.
KillApp(all) ==
  /\ app /\ app' = FALSE
  /\ bound' = 0 /\ main' = "idle" /\ service' = [i \in Instances |-> Idle]
  /\ \/ /\ all /\ process' = [p \in Processes |-> Gone]
        /\ tool' = [t \in Tools |-> Orphaned(t)]
        /\ captured' = {} /\ abort' = "none"
     \/ /\ ~all
        /\ process' = [p \in Processes |->
             [process[p] EXCEPT !.by = 0, !.orphan = process[p].orphan \/ process[p].st = "shell"]]
        /\ UNCHANGED Calls
  /\ UNCHANGED <<Prefs, taps>>

Killed == \E all \in BOOLEAN : Fault /\ KillApp(all)

\* AppActivity.onCreate resumes a runtime that was wanted.
Reopen ==
  /\ ~app /\ app' = TRUE
  /\ \/ ~wanted /\ UNCHANGED <<Prefs, bound, service>>
     \/ /\ wanted
        /\ bound' = 1 /\ service' = [service EXCEPT ![1].running = TRUE, ![1].queue = 1]
        /\ status' = "starting" /\ UNCHANGED wanted
  /\ UNCHANGED <<main, process, Calls, taps, faults>>

User == Tap /\ UNCHANGED faults /\ \E i \in Instances : StartCommand(i) \/ StopCommand(i)

MainThread == StopRuntime \/ DestroyBegins \/ DestroyEnds

System ==
  \/ MainThread \/ (\E i \in Instances : Worker(i)) \/ (\E p \in Processes : Backend(p)) \/ Session

Next == System \/ User \/ Killed \/ Reopen \/ \E p \in Processes : Crashes(p)

Spec == Init /\ [][Next]_serviceVars

\* Threads run on, the launcher writes its record, a process that got SIGQUIT ends.
FairSpec ==
  /\ Spec
  /\ WF_serviceVars(MainThread)
  /\ \A i \in Instances : WF_serviceVars(Worker(i))
  /\ \A p \in Processes : WF_serviceVars(Backend(p))

-----------------------------------------------------------------------------
ServiceType ==
  [running : BOOLEAN, stopping : BOOLEAN, destroy : BOOLEAN,
   runtime : {"none", "open", "cancelled"}, backend : Processes \cup {0}, queue : 0 .. 1,
   pc : {"idle", "reap", "prepare", "look", "spawn", "recording", "await", "ready",
         "rejected", "serving", "finish", "close"},
   interrupted : BOOLEAN, monitor : BOOLEAN]
ProcessType ==
  [st : {"shell", "proot", "recovered", "listening", "gone"}, by : Instances \cup {0},
   recover : BOOLEAN, quit : BOOLEAN, late : BOOLEAN, orphan : BOOLEAN]
CallType ==
  [st : {"none", "running", "completed", "aborted", "recovered"},
   by : Processes \cup {0}, child : BOOLEAN]

TypeOK ==
  /\ wanted \in BOOLEAN /\ app \in BOOLEAN /\ status \in Statuses
  /\ bound \in Instances \cup {0} /\ main \in {"idle", "stop", "destroy"}
  /\ main # "idle" => bound # 0
  /\ service \in [Instances -> ServiceType]
  /\ process \in [Processes -> ProcessType]
  /\ tool \in [Tools -> CallType]
  /\ captured \subseteq Tools /\ abort \in {"none", "cancel", "mark"}
  /\ taps \in 0 .. MaxTaps /\ faults \in 0 .. MaxFaults

\* Live processes whose record the app has written, or is waiting for.
Ours == {p \in Live : ~process[p].orphan /\ ~process[p].late}

\* Beside processes that lost their app before they were recorded, or that recorded
\* themselves too late, at most one backend is alive, whatever taps, kills and overlapping
\* instances there were; and while the app says that it stopped its backend, none that it
\* started is alive and not told to end, but for a later command (RuntimeSetupService.java,
\* 117-118; LocalLinuxRuntime.java, 386-412). One that a killed app left behind may be.
OneBackend ==
  /\ \A p, q \in Ours : p = q
  /\ app /\ status = "stopped" =>
       \A p \in Ours : process[p].by = 0 \/ process[p].quit \/ service[process[p].by].running

\* No process escaped its record.
Clean == \A p \in Processes : ~process[p].orphan /\ ~process[p].late

\* A call whose stored state is final has no process left, and one that a backend of the
\* app lists as running belongs to it (startup-recovery.ts; SessionPrompt.cancel).
ToolStateIsTrue ==
  Clean => \A t \in Tools :
    /\ tool[t].st \in {"completed", "aborted", "recovered"} => ~tool[t].child
    /\ \A p \in Listening : process[p].recover /\ tool[t].st = "running" => tool[t].by = p

\* A stop reaches the worker wherever it is: the instance ends with no process left, unless
\* the runtime is wanted again or its record came too late (RuntimeSetupService.java, 37-46).
StopEnds ==
  \A i \in Instances :
    main = "stop" /\ bound = i ~>
      \/ wanted \/ (\E p \in Processes : process[p].late)
      \/ service[i].pc = "idle" /\ service[i].queue = 0 /\ \A p \in Live : process[p].by # i
=============================================================================
