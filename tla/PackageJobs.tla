----------------------------- MODULE PackageJobs -----------------------------
(***************************************************************************)
(* PackageJobs.java over LocalLinuxRuntime.java: one dnfast job at a time, *)
(* run by the worker thread of the bridge's current instance, cancelled by *)
(* its request thread, and recovered by the next instance.  All instances  *)
(* of one app process share the DnfastRuntime.class monitor; a killed app  *)
(* leaves the job rows, the pid records and the processes behind.          *)
(***************************************************************************)
EXTENDS PackageProcess, Naturals, Sequences

CONSTANTS
  InstallJobs,  \* the jobs whose action is "install"
  RefreshJobs,  \* those whose action is "refresh"; the others plan nothing
  MaxGen,       \* bound: how many instances are built
  MayCrash,     \* BOOLEAN: Android may kill the app
  MayFail,      \* BOOLEAN: writing a job row may fail
  MayLag,       \* BOOLEAN: a record or an exit may take longer than is waited for
  NoJob         \* current == null

ASSUME PackageAssumption ==
  /\ InstallJobs \cup RefreshJobs \subseteq Jobs /\ InstallJobs \cap RefreshJobs = {}
  /\ NoJob \notin Jobs
  /\ MaxGen \in Nat
  /\ {MayCrash, MayFail, MayLag} \subseteq BOOLEAN

Gens == 1..MaxGen

VARIABLES
  disk,             \* [Jobs -> Row]: the job files
  planned,          \* BOOLEAN: the planning marker matches the planning identity
  gen, life,        \* the newest instance; [Gens -> Lives]
  awaited,          \* processes recoverPreviousProcesses waits for
  todo, loaded,     \* files the constructor has still to look at; the row it holds
  current,          \* [Gens -> Jobs \cup {NoJob}]
  row,              \* [Gens -> Row]: currentRow, shared by worker and cancel()
  cancelRequested,  \* [Gens -> BOOLEAN]
  stopped,          \* [Gens -> BOOLEAN]: LocalLinuxRuntime.cancelled of the job's runtime
  cancelling,       \* [Gens -> BOOLEAN]: cancel() is between save and running.cancel()
  pc,               \* [Gens -> PCs]: the worker thread
  left,             \* [Gens -> Seq(Commands)]: commands the job has still to run
  lastExit,         \* [Gens -> Codes]: lastExitCode
  ran               \* history, [Jobs -> Seq(Commands)]: commands that succeeded

bootVars   == <<gen, life, awaited, todo, loaded>>
apiVars    == <<current, cancelRequested, cancelling>>
workerVars == <<pc, left, lastExit>>
vars == <<processVars, disk, planned, bootVars, apiVars, row, stopped, workerVars, ran>>

Commands  == {"check", "migrate", "verify", "refresh", "install", "other"}
Final     == {"completed", "cancelled", "failed"}
Transient == {"running", "cancel_requested"}
Statuses  == {"none", "interrupted"} \cup Final \cup Transient
Codes     == {"null", "zero", "other"}
Row       == [status : Statuses, exit : Codes]
Lives     == {"none", "recovering", "booting", "open", "closed", "dead"}
PCs       == {"idle", "entry", "plan", "launch", "starting", "reading", "stopping",
              "returned", "caught", "finish"}
Stored(s) == [status |-> s, exit |-> "null"]
Nothing   == [id |-> NoJob, row |-> Stored("none")]

TypeOK ==
  /\ ProcessTypeOK
  /\ disk \in [Jobs -> Row]
  /\ planned \in BOOLEAN
  /\ gen \in 0..MaxGen
  /\ life \in [Gens -> Lives]
  /\ awaited \in SUBSET Jobs
  /\ todo \in SUBSET Jobs
  /\ loaded \in {Nothing} \cup [id : Jobs, row : Row]
  /\ current \in [Gens -> Jobs \cup {NoJob}]
  /\ row \in [Gens -> Row]
  /\ cancelRequested \in [Gens -> BOOLEAN]
  /\ stopped \in [Gens -> BOOLEAN]
  /\ cancelling \in [Gens -> BOOLEAN]
  /\ pc \in [Gens -> PCs]
  /\ left \in [Gens -> Seq(Commands)]
  /\ lastExit \in [Gens -> Codes]
  /\ ran \in [Jobs -> Seq(Commands)]

Init ==
  /\ ProcessInit
  /\ disk = [i \in Jobs |-> Stored("none")]
  /\ planned \in BOOLEAN
  /\ gen = 0 /\ life = [g \in Gens |-> "none"]
  /\ awaited = {} /\ todo = {} /\ loaded = Nothing
  /\ current = [g \in Gens |-> NoJob]
  /\ row = [g \in Gens |-> Stored("none")]
  /\ cancelRequested = [g \in Gens |-> FALSE]
  /\ stopped = [g \in Gens |-> FALSE]
  /\ cancelling = [g \in Gens |-> FALSE]
  /\ pc = [g \in Gens |-> "idle"]
  /\ left = [g \in Gens |-> <<>>]
  /\ lastExit = [g \in Gens |-> "null"]
  /\ ran = [i \in Jobs |-> <<>>]

-----------------------------------------------------------------------------
Goto(g, p) == pc' = [pc EXCEPT ![g] = p]
Put(g, s)  == row' = [row EXCEPT ![g].status = s]

\* save(row): an exception leaves the previous file in place.
Saved(i, r)  == disk' = [disk EXCEPT ![i] = r]
SaveFails == MayFail /\ UNCHANGED disk

\* The monitor of instance g is free.
Free(g) == ~cancelling[g]

\* The worker of g is inside synchronized (DnfastRuntime.class).
Holding(g) == pc[g] \in {"plan", "launch", "starting", "reading", "stopping"}

Operation(i) ==
  IF i \in InstallJobs THEN "install" ELSE IF i \in RefreshJobs THEN "refresh" ELSE "other"

Preflight == <<"check", "migrate", "verify", "refresh">>

-----------------------------------------------------------------------------
(***************************************************************************)
(* A new instance: prepare() first reaps what the records name, then takes *)
(* the package monitor once; the constructor then rewrites the rows, which *)
(* the worker of a closed predecessor may still be writing.                *)
(***************************************************************************)
NewInstance ==
  /\ gen < MaxGen
  /\ gen > 0 => life[gen] \in {"closed", "dead"}
  /\ gen' = gen + 1
  /\ life' = [life EXCEPT ![gen + 1] = "recovering"]
  /\ Quit(Jobs)
  /\ awaited' = {i \in Jobs : Recorded(i)}
  /\ UNCHANGED <<todo, loaded, disk, planned, apiVars, row, stopped, workerVars, ran>>

Prepared ==
  /\ gen > 0 /\ life[gen] = "recovering"
  /\ \A i \in awaited : ~Alive(i)
  /\ \A g \in Gens : ~Holding(g)
  /\ life' = [life EXCEPT ![gen] = "booting"]
  /\ awaited' = {}
  /\ todo' = {i \in Jobs : disk[i].status # "none"}
  /\ UNCHANGED <<gen, loaded, processVars, disk, planned, apiVars, row, stopped,
                 workerVars, ran>>

\* A bug for LeftBehind: only a cancellation that was under way is looked for.
LeftBehindCancelling(status) == status = "cancel_requested"

LeftBehind(status) == status \in Transient

RecoverLoad(i) ==
  /\ i \in todo /\ loaded = Nothing
  /\ IF LeftBehind(disk[i].status)
       THEN /\ loaded' = [id |-> i, row |-> [disk[i] EXCEPT !.status = "interrupted"]]
            /\ UNCHANGED todo
       ELSE /\ todo' = todo \ {i}
            /\ UNCHANGED loaded
  /\ UNCHANGED <<gen, life, awaited, processVars, disk, planned, apiVars, row, stopped,
                 workerVars, ran>>

\* A failed save ends the constructor: the service goes on without a bridge.
RecoverSave ==
  /\ loaded # Nothing
  /\ \/ /\ Saved(loaded.id, loaded.row)
        /\ todo' = todo \ {loaded.id}
        /\ UNCHANGED life
     \/ /\ SaveFails
        /\ todo' = {}
        /\ life' = [life EXCEPT ![gen] = "closed"]
  /\ loaded' = Nothing
  /\ UNCHANGED <<gen, awaited, processVars, planned, apiVars, row, stopped, workerVars, ran>>

Booted ==
  /\ gen > 0 /\ life[gen] = "booting" /\ todo = {}
  /\ life' = [life EXCEPT ![gen] = "open"]
  /\ UNCHANGED <<gen, awaited, todo, loaded, processVars, disk, planned, apiVars, row,
                 stopped, workerVars, ran>>

-----------------------------------------------------------------------------
(***************************************************************************)
(* The API, on the bridge's request thread.                                *)
(***************************************************************************)
\* A known id only returns its row, and a second job is refused.
Submit(i) ==
  /\ gen > 0 /\ life[gen] = "open" /\ Free(gen)
  /\ disk[i].status = "none"
  /\ current[gen] = NoJob
  /\ Saved(i, Stored("running"))
  /\ current' = [current EXCEPT ![gen] = i]
  /\ row' = [row EXCEPT ![gen] = Stored("running")]
  /\ cancelRequested' = [cancelRequested EXCEPT ![gen] = FALSE]
  /\ stopped' = [stopped EXCEPT ![gen] = FALSE]
  /\ lastExit' = [lastExit EXCEPT ![gen] = "null"]
  /\ Goto(gen, "entry")
  /\ UNCHANGED <<processVars, planned, bootVars, cancelling, left, ran>>

\* cancel(current), up to running.cancel(); the monitor stays taken.
RequestCancel(g) ==
  /\ current[g] # NoJob
  /\ cancelRequested' = [cancelRequested EXCEPT ![g] = TRUE]
  /\ Put(g, "cancel_requested")
  /\ Saved(current[g], row'[g]) \/ SaveFails
  /\ cancelling' = [cancelling EXCEPT ![g] = TRUE]

Cancel ==
  /\ gen > 0 /\ life[gen] \in {"open", "closed"} /\ Free(gen)
  /\ RequestCancel(gen)
  /\ UNCHANGED <<processVars, planned, bootVars, current, stopped, workerVars, ran>>

\* A bug for Close: the job at hand is left running.
CloseOnly ==
  /\ gen > 0 /\ life[gen] = "open" /\ Free(gen)
  /\ life' = [life EXCEPT ![gen] = "closed"]
  /\ UNCHANGED <<processVars, disk, planned, gen, awaited, todo, loaded, apiVars, row,
                 stopped, workerVars, ran>>

\* close(): no more jobs, and the one at hand is cancelled.
Close ==
  /\ gen > 0 /\ life[gen] = "open" /\ Free(gen)
  /\ life' = [life EXCEPT ![gen] = "closed"]
  /\ \/ RequestCancel(gen)
     \/ current[gen] = NoJob /\ UNCHANGED <<disk, row, cancelRequested, cancelling>>
  /\ UNCHANGED <<processVars, planned, gen, awaited, todo, loaded, current, stopped,
                 workerVars, ran>>

\* A bug for Owned: cancel() only sets the flag.
OwnedNone(g) == {}

\* pids.keySet() of the running job's runtime.
Owned(g) == {current[g]}

\* running.cancel() waits for start(): both are synchronized on the runtime.
RuntimeCancel(g) ==
  /\ cancelling[g]
  /\ pc[g] # "starting"
  /\ stopped' = [stopped EXCEPT ![g] = TRUE]
  /\ Quit(Owned(g))
  /\ cancelling' = [cancelling EXCEPT ![g] = FALSE]
  /\ UNCHANGED <<disk, planned, bootVars, current, cancelRequested, row, workerVars, ran>>

-----------------------------------------------------------------------------
(***************************************************************************)
(* The worker thread of instance g.                                        *)
(***************************************************************************)
Enter(g) ==
  /\ pc[g] = "entry"
  /\ \A h \in Gens : ~Holding(h)
  /\ Goto(g, "plan")
  /\ UNCHANGED <<processVars, disk, planned, bootVars, apiVars, row, stopped, left,
                 lastExit, ran>>

\* An install under a changed execution environment is preceded by its planning.
Steps(i) ==
  IF i \in InstallJobs /\ ~planned THEN Append(Preflight, "install") ELSE <<Operation(i)>>

\* runPackages(): the notice of a planned install is the first line of output.
Plan(g) ==
  /\ pc[g] = "plan"
  /\ left' = [left EXCEPT ![g] = Steps(current[g])]
  /\ IF Len(left'[g]) = 1
       THEN Goto(g, "launch") /\ UNCHANGED disk
       ELSE /\ Free(g)
            /\ \/ Saved(current[g], row[g]) /\ Goto(g, "launch")
               \/ SaveFails /\ Goto(g, "caught")
  /\ UNCHANGED <<processVars, planned, bootVars, apiVars, row, stopped, lastExit, ran>>

\* A bug for Refuses: start() does not look at the flag.
RefusesNothing(g) == FALSE

\* start() of a cancelled runtime throws.
Refuses(g) == stopped[g]

Launch(g) ==
  /\ pc[g] = "launch"
  /\ lastExit' = [lastExit EXCEPT ![g] = "null"]
  /\ IF Refuses(g)
       THEN Goto(g, "caught") /\ UNCHANGED processVars
       ELSE \/ Fork(current[g]) /\ Goto(g, "starting")
            \/ Goto(g, "caught") /\ UNCHANGED processVars  \* the executables differ
  /\ UNCHANGED <<disk, planned, bootVars, apiVars, row, stopped, left, ran>>

\* start() returns when the record is written, or after a second without one.
Started(g) ==
  /\ pc[g] = "starting"
  /\ proc[current[g]] # "shell" \/ MayLag
  /\ Goto(g, "reading")
  /\ UNCHANGED <<processVars, disk, planned, bootVars, apiVars, row, stopped, left,
                 lastExit, ran>>

\* A line of output goes into the row; one that cannot be saved stops the process.
Output(g) ==
  /\ pc[g] = "reading" /\ Free(g)
  /\ \/ Saved(current[g], row[g]) /\ UNCHANGED <<pc, processVars>>
     \/ SaveFails /\ Goto(g, "stopping") /\ Quit({current[g]})
  /\ UNCHANGED <<planned, bootVars, apiVars, row, stopped, left, lastExit, ran>>

\* A bug for Accepted: the exit code alone does not fail a command.
AcceptedAnyExit(g) == ~stopped[g]

\* run() and runPackageCommand() return normally: not cancelled, and a zero exit.
Accepted(g) == ~stopped[g] /\ code[current[g]] = "zero"

\* Even then the command may have reported another result than success.
Exited(g) ==
  /\ pc[g] = "reading" /\ ~Alive(current[g])
  /\ lastExit' = [lastExit EXCEPT ![g] = code[current[g]]]
  /\ \/ /\ Accepted(g)
        /\ ran' = [ran EXCEPT ![current[g]] = Append(@, Head(left[g]))]
        /\ left' = [left EXCEPT ![g] = Tail(@)]
        /\ planned' \in {planned, planned \/ Head(left[g]) = "refresh"}
        /\ Goto(g, IF Len(left[g]) = 1 THEN "returned" ELSE "launch")
     \/ Goto(g, "caught") /\ UNCHANGED <<ran, left, planned>>
  /\ UNCHANGED <<processVars, disk, bootVars, apiVars, row, stopped>>

\* A bug for GiveUp: the stopped process is not waited for.
GiveUpAtOnce(g) == TRUE

\* waitFor(5, SECONDS) ran out: the process is left behind.
GiveUp(g) == MayLag

\* RuntimeProcessOutput after a failed line.
AwaitStop(g) ==
  /\ pc[g] = "stopping"
  /\ \/ ~Alive(current[g]) /\ lastExit' = [lastExit EXCEPT ![g] = code[current[g]]]
     \/ GiveUp(g) /\ UNCHANGED lastExit
  /\ Goto(g, "caught")
  /\ UNCHANGED <<processVars, disk, planned, bootVars, apiVars, row, stopped, left, ran>>

\* Bugs for Outcome: a word no reader of the row knows; a successful exit erases the
\* cancellation.
OutcomeError(g) ==
  IF cancelRequested[g] THEN "cancelled" ELSE IF pc[g] = "returned" THEN "completed" ELSE "error"
OutcomeOfExit(g) == IF pc[g] = "returned" THEN "completed"
                    ELSE IF cancelRequested[g] THEN "cancelled" ELSE "failed"

Outcome(g) ==
  IF cancelRequested[g] THEN "cancelled"
  ELSE IF pc[g] = "returned" THEN "completed" ELSE "failed"

\* The first synchronized block: the status is put into the row but not saved.
SetStatus(g) ==
  /\ pc[g] \in {"returned", "caught"} /\ Free(g)
  /\ Put(g, Outcome(g))
  /\ Goto(g, "finish")
  /\ UNCHANGED <<processVars, disk, planned, bootVars, apiVars, stopped, left, lastExit,
                 ran>>

\* A bug for Forget: the job stays current.
ForgetRowOnly(g) ==
  /\ row' = [row EXCEPT ![g] = Stored("none")]
  /\ UNCHANGED current

\* running=null;current=null;currentRow=null
Forget(g) ==
  /\ row' = [row EXCEPT ![g] = Stored("none")]
  /\ current' = [current EXCEPT ![g] = NoJob]

\* The second one, in the finally block: whatever the row says by now is saved.
Finish(g) ==
  /\ pc[g] = "finish" /\ Free(g)
  /\ Saved(current[g], [row[g] EXCEPT !.exit = lastExit[g]]) \/ SaveFails
  /\ Forget(g)
  /\ left' = [left EXCEPT ![g] = <<>>]
  /\ lastExit' = [lastExit EXCEPT ![g] = "null"]
  /\ stopped' = [stopped EXCEPT ![g] = FALSE]
  /\ cancelRequested' = [cancelRequested EXCEPT ![g] = FALSE]
  /\ Goto(g, "idle")
  /\ UNCHANGED <<processVars, planned, bootVars, cancelling, ran>>

-----------------------------------------------------------------------------
Process(i) ==
  /\ ProcessStep(i)
  /\ UNCHANGED <<disk, planned, bootVars, apiVars, row, stopped, workerVars, ran>>

\* The app is killed; an update it is killed for may change the planning identity.
Crash ==
  /\ MayCrash
  /\ gen > 0 /\ life[gen] # "dead"
  /\ life' = [g \in Gens |-> IF life[g] = "none" THEN "none" ELSE "dead"]
  /\ awaited' = {} /\ todo' = {} /\ loaded' = Nothing
  /\ current' = [g \in Gens |-> NoJob]
  /\ row' = [g \in Gens |-> Stored("none")]
  /\ cancelRequested' = [g \in Gens |-> FALSE]
  /\ stopped' = [g \in Gens |-> FALSE]
  /\ cancelling' = [g \in Gens |-> FALSE]
  /\ pc' = [g \in Gens |-> "idle"]
  /\ left' = [g \in Gens |-> <<>>]
  /\ lastExit' = [g \in Gens |-> "null"]
  /\ planned' \in {planned, FALSE}
  /\ UNCHANGED <<gen, processVars, disk, ran>>

-----------------------------------------------------------------------------
WorkerStep(g) ==
  \/ Enter(g) \/ Plan(g) \/ Launch(g) \/ Started(g) \/ Exited(g) \/ AwaitStop(g)
  \/ SetStatus(g) \/ Finish(g)

Constructor == Prepared \/ (\E i \in Jobs : RecoverLoad(i)) \/ RecoverSave \/ Booted

Next ==
  \/ NewInstance \/ Constructor \/ Cancel \/ Close \/ Crash
  \/ \E i \in Jobs : Submit(i) \/ Process(i)
  \/ \E g \in Gens : RuntimeCancel(g) \/ WorkerStep(g) \/ Output(g)

Spec == Init /\ [][Next]_vars

\* The worker runs and, the request thread waiting for its next client between two
\* cancellations, gets every monitor it waits for; cancel() returns; launch.sh
\* writes its record; a process that is sent SIGQUIT dies.
Fairness ==
  /\ \A g \in Gens : /\ SF_vars(WorkerStep(g))
                     /\ WF_vars(RuntimeCancel(g))
  /\ \A i \in Jobs : /\ WF_vars(Process(i) /\ WriteRecord(i))
                     /\ WF_vars(Process(i) /\ i \in quit /\ Dies(i))

FairSpec == Spec /\ Fairness

\* Every command ends by itself.
CommandsEnd == \A i \in Jobs : WF_vars(Process(i) /\ Dies(i))

-----------------------------------------------------------------------------
(***************************************************************************)
(* Properties.                                                             *)
(***************************************************************************)
\* A row that says the job is over says so after its last process has ended, even if
\* its output could not be stored: RuntimeProcessOutput.java:8 "failed output
\* delivery must not orphan its work".
FinalMeansGone == \A i \in Jobs : disk[i].status \in Final => ~Alive(i)

\* "completed" is said only of a job whose own command succeeded, after every
\* planning step an install needed succeeded in order, with exit code zero and with
\* nothing of it left running, whatever was refused by a process left behind.
CompletedIsTrue ==
  \A i \in Jobs :
    disk[i].status = "completed" =>
      /\ disk[i].exit = "zero" /\ ~Alive(i)
      /\ ran[i] = <<Operation(i)>> \/ (i \in InstallJobs /\ ran[i] = Append(Preflight, "install"))

\* A row that says "running" has a worker, or an instance about to look at it.
RunningRowsAreOwned ==
  \A i \in Jobs :
    disk[i].status = "running" =>
      \/ \E g \in Gens : current[g] = i
      \/ gen > 0 /\ (life[gen] = "dead" \/ (life[gen] = "booting" /\ i \in todo))
      \/ gen > 0 /\ life[gen] = "recovering"

(***************************************************************************)
(* Why the next two hold: a cancellation is known to the one worker that   *)
(* holds the job, and to its runtime, before it can be read from the row.  *)
(***************************************************************************)
BootInv ==
  /\ \A g \in Gens : /\ g < gen => life[g] \in {"closed", "dead"}
                     /\ g > gen => life[g] = "none"
  /\ loaded # Nothing => loaded.id \in todo /\ loaded.row.status = "interrupted"
  /\ todo # {} => gen > 0 /\ life[gen] = "booting"

OneWorker == \A g, h \in Gens : current[g] = current[h] /\ current[g] # NoJob => g = h

WorkerAt(g) ==
  /\ pc[g] = "idle" <=> current[g] = NoJob
  /\ pc[g] \in {"launch", "starting", "reading", "stopping"} => left[g] # <<>>
  /\ current[g] # NoJob =>
       /\ life[g] \in {"open", "closed"}
       /\ disk[current[g]].status \notin Final \cup {"none"}
       /\ pc[g] # "finish" => row[g].status \in Transient
       /\ cancelRequested[g] <=> row[g].status \in {"cancel_requested", "cancelled"}

CancelAt(g) ==
  /\ cancelling[g] => current[g] # NoJob /\ cancelRequested[g]
  /\ current[g] # NoJob /\ cancelRequested[g] => cancelling[g] \/ stopped[g]
  /\ current[g] # NoJob =>
       /\ life[g] = "closed" => cancelRequested[g]
       /\ disk[current[g]].status = "cancel_requested" => cancelRequested[g]
       /\ disk[current[g]].status = "interrupted" => life[g] = "closed"

\* A job has one worker, whose row, flag and runtime agree on whether it is
\* cancelled, and a worker left behind by a restart has been cancelled by close():
\* the inductive invariant behind StopsStarting and CancellationSticks.
CancelsReachWorker ==
  BootInv /\ OneWorker /\ \A g \in Gens : WorkerAt(g) /\ CancelAt(g)

\* Once cancel() has returned or a restart has given the job up, no further
\* command of it is started.
StopsStarting ==
  [][\A i \in Jobs :
       disk[i].status \in Final \cup {"cancel_requested", "interrupted"}
         /\ (\A g \in Gens : current[g] = i => ~cancelling[g])
         => ~(proc[i] # "shell" /\ proc'[i] = "shell")]_vars

\* An accepted cancellation is never overwritten by late output or by a successful
\* exit: it becomes "cancelled", or "interrupted" by a restart.
CancellationSticks ==
  [][\A i \in Jobs :
       disk[i].status = "cancel_requested" =>
         disk'[i].status \in {"cancel_requested", "cancelled", "interrupted"}]_vars

\* A cancelled job ends, though nothing makes its command end.
CancelEndsJob ==
  \A g \in Gens, i \in Jobs :
    current[g] = i /\ cancelRequested[g] ~> current[g] # i

\* If commands end, the worker becomes free again for the next job.
JobsEnd ==
  CommandsEnd => \A g \in Gens, i \in Jobs : current[g] = i ~> current[g] # i

(***************************************************************************)
(* What the repository says and the code does not do.                      *)
(***************************************************************************)
\* scripts/check-package-jobs-cancel.py:60-61 waits for "cancel_requested" to
\* become "cancelled": with no crash a row in that state still has a worker, or an
\* instance about to look at it.
CancelRequestedRowsAreOwned ==
  \A i \in Jobs :
    disk[i].status = "cancel_requested" =>
      \/ \E g \in Gens : current[g] = i
      \/ gen > 0 /\ life[gen] \in {"dead", "recovering"}
      \/ gen > 0 /\ life[gen] = "booting" /\ i \in todo
=============================================================================
