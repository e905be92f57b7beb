----------------------------- MODULE AndroidJobs -----------------------------
(***************************************************************************)
(* AndroidJobs.java: durable Android operations over the self-ADB          *)
(* connection.  Each bridge the service builds has one AndroidJobs         *)
(* instance (here: a generation) with a FIFO worker thread; the job rows   *)
(* are files all generations share.  A closed instance keeps draining its  *)
(* queue while its successor recovers the rows; a killed app loses every   *)
(* instance at once but not the rows, the remote processes or the ADB      *)
(* requests already handed to adbd.                                        *)
(***************************************************************************)
EXTENDS AndroidRemote, Naturals, Sequences, FiniteSets

CONSTANTS
  InstallJobs,  \* ids of the jobs whose action is "install"
  QueueLimit,   \* 16 in the code
  MaxGen,       \* bound: how many instances are built
  MayCrash,     \* BOOLEAN: Android may kill the app process
  NoJob         \* current == null

ASSUME JobsAssumption ==
  /\ ShellJobs \cap InstallJobs = {}
  /\ NoJob \notin ShellJobs \cup InstallJobs
  /\ QueueLimit \in Nat /\ MaxGen \in Nat
  /\ MayCrash \in BOOLEAN

Ids == ShellJobs \cup InstallJobs
Gens == 1..MaxGen

VARIABLES
  (* durable *)
  disk,       \* [Ids -> Row]: the job files
  installed,  \* SUBSET InstallJobs: PackageManager installed the APK
  (* one instance per generation *)
  gen,        \* the newest instance, 0 before the first
  life,       \* [Gens -> Lives]
  todo,       \* files the constructor has still to look at
  loaded,     \* the row the constructor has read and is about to rewrite
  controls,   \* [Gens -> SUBSET Ids]: keys of the controls map
  flagged,    \* [Gens -> SUBSET Ids]: controls whose AtomicBoolean is true
  current,    \* [Gens -> Ids \cup {NoJob}]
  active,     \* [Gens -> BOOLEAN]: active != null
  queue,      \* [Gens -> Seq(Task)]: tasks the executor has not begun
  (* the worker thread of each generation *)
  pc, job, create, row, submitted, open, rpc,
  (* requests in adbd whose caller is gone *)
  ghosts,
  (* history *)
  handed      \* [Ids -> Nat]: start commands or installs handed to Android

diskVars   == <<disk, installed>>
bootVars   == <<gen, life, todo, loaded>>
queueVars  == <<controls, flagged, queue>>
threadVars == <<pc, job, create, row, submitted, rpc>>
vars == <<remoteVars, diskVars, bootVars, queueVars, current, active, open,
          threadVars, ghosts, handed>>

Transient == {"queued", "starting", "checking", "running", "cancel_requested"}
Statuses  == Transient \cup {"none", "completed", "failed", "cancelled", "unknown"}
Codes     == {"null", "zero", "other"}
Row       == [status : Statuses, code : Codes]
Task      == [id : Ids, create : BOOLEAN, code : Codes]
Lives     == {"none", "booting", "open", "closed", "dead"}
PCs       == {"idle", "begin", "check1", "announce", "prove", "check2", "stage",
              "install", "start", "poll", "sendCancel", "query", "record", "finish"}
Ghosts    == [op : {"start", "cancel"}, id : ShellJobs] \cup [op : {"install"}, id : InstallJobs]
Stored(s) == [status |-> s, code |-> "null"]
Nothing   == [id |-> NoJob, row |-> Stored("none")]

TypeOK ==
  /\ RemoteTypeOK
  /\ disk \in [Ids -> Row]
  /\ installed \in SUBSET InstallJobs
  /\ gen \in 0..MaxGen
  /\ life \in [Gens -> Lives]
  /\ todo \in SUBSET Ids
  /\ loaded \in {Nothing} \cup [id : Ids, row : Row]
  /\ controls \in [Gens -> SUBSET Ids]
  /\ flagged \in [Gens -> SUBSET Ids]
  /\ current \in [Gens -> Ids \cup {NoJob}]
  /\ active \in [Gens -> BOOLEAN]
  /\ queue \in [Gens -> Seq(Task)]
  /\ pc \in [Gens -> PCs]
  /\ job \in [Gens -> Ids \cup {NoJob}]
  /\ create \in [Gens -> BOOLEAN]
  /\ row \in [Gens -> Row]
  /\ submitted \in [Gens -> BOOLEAN]
  /\ open \in [Gens -> BOOLEAN]
  /\ rpc \in [Gens -> {"none", "verified", "sent", "done", "refused"}]
  /\ ghosts \in SUBSET Ghosts
  /\ handed \in [Ids -> Nat]

Init ==
  /\ RemoteInit
  /\ disk = [i \in Ids |-> Stored("none")]
  /\ installed = {}
  /\ gen = 0 /\ life = [g \in Gens |-> "none"]
  /\ todo = {} /\ loaded = Nothing
  /\ controls = [g \in Gens |-> {}]
  /\ flagged = [g \in Gens |-> {}]
  /\ current = [g \in Gens |-> NoJob]
  /\ active = [g \in Gens |-> FALSE]
  /\ queue = [g \in Gens |-> <<>>]
  /\ pc = [g \in Gens |-> "idle"]
  /\ job = [g \in Gens |-> NoJob]
  /\ create = [g \in Gens |-> FALSE]
  /\ row = [g \in Gens |-> Stored("none")]
  /\ submitted = [g \in Gens |-> FALSE]
  /\ open = [g \in Gens |-> FALSE]
  /\ rpc = [g \in Gens |-> "none"]
  /\ ghosts = {}
  /\ handed = [i \in Ids |-> 0]

-----------------------------------------------------------------------------
Save(i, r)  == disk' = [disk EXCEPT ![i] = r]
Goto(g, p)  == pc' = [pc EXCEPT ![g] = p]
SetRow(g, s) == row' = [row EXCEPT ![g].status = s]

\* A bug for Run: a reopened job is started again instead of inspected.
RunAnew(g, i, new) ==
  /\ controls' = [controls EXCEPT ![g] = @ \cup {i}]
  /\ queue' = [queue EXCEPT ![g] = Append(@, [id |-> i, create |-> TRUE, code |-> disk[i].code])]

\* run(row, create): the control exists from here until the worker's finally.
Run(g, i, new) ==
  /\ controls' = [controls EXCEPT ![g] = @ \cup {i}]
  /\ queue' = [queue EXCEPT ![g] = Append(@, [id |-> i, create |-> new, code |-> disk[i].code])]

(***************************************************************************)
(* The constructor: one file after the other, reading and rewriting it     *)
(* under a monitor the closed predecessor's worker does not share.         *)
(***************************************************************************)
\* A bug for LeftBehind: the constructor's list forgets "checking".
LeftBehindButChecking(status) == status \in Transient \ {"checking"}

\* A row no worker of this process will ever finish.
LeftBehind(status) == status \in Transient

NewInstance ==
  /\ gen < MaxGen
  /\ gen > 0 => life[gen] \in {"closed", "dead"}
  /\ gen' = gen + 1
  /\ life' = [life EXCEPT ![gen + 1] = "booting"]
  /\ todo' = {i \in Ids : disk[i].status # "none"}
  /\ UNCHANGED <<loaded, remoteVars, diskVars, queueVars, current, active, open,
                 threadVars, ghosts, handed>>

RecoverLoad(i) ==
  /\ i \in todo /\ loaded = Nothing
  /\ IF LeftBehind(disk[i].status)
       THEN /\ loaded' = [id |-> i, row |-> [disk[i] EXCEPT !.status =
                           IF @ = "queued" THEN "cancelled" ELSE "unknown"]]
            /\ UNCHANGED todo
       ELSE /\ todo' = todo \ {i}
            /\ UNCHANGED loaded
  /\ UNCHANGED <<gen, life, remoteVars, diskVars, queueVars, current, active, open,
                 threadVars, ghosts, handed>>

RecoverSave ==
  /\ loaded # Nothing
  /\ Save(loaded.id, loaded.row)
  /\ todo' = todo \ {loaded.id}
  /\ loaded' = Nothing
  /\ UNCHANGED <<gen, life, remoteVars, installed, queueVars, current, active, open,
                 threadVars, ghosts, handed>>

Booted ==
  /\ gen > 0 /\ life[gen] = "booting" /\ todo = {}
  /\ life' = [life EXCEPT ![gen] = "open"]
  /\ UNCHANGED <<gen, todo, loaded, remoteVars, diskVars, queueVars, current, active,
                 open, threadVars, ghosts, handed>>

-----------------------------------------------------------------------------
(***************************************************************************)
(* The API, called by the bridge's request thread under the monitor.       *)
(***************************************************************************)
Serving == gen > 0 /\ life[gen] \in {"open", "closed"}

\* A known id returns its stored row and changes nothing; only a new one is run.
Submit(i) ==
  /\ gen > 0 /\ life[gen] = "open"
  /\ disk[i].status = "none"
  /\ Cardinality(controls[gen]) < QueueLimit
  /\ Save(i, Stored("queued"))
  /\ Run(gen, i, TRUE)
  /\ UNCHANGED <<flagged, installed, remoteVars, bootVars, current, active, open,
                 threadVars, ghosts, handed>>

\* The rows inspect() and cancel() may look at again.
Reopenable(i) ==
  /\ life[gen] = "open"
  /\ i \notin controls[gen]
  /\ i \in ShellJobs /\ disk[i].status = "unknown"

Inspect(i) ==
  /\ Serving /\ Reopenable(i)
  /\ Save(i, [disk[i] EXCEPT !.status = "checking"])
  /\ Run(gen, i, FALSE)
  /\ UNCHANGED <<flagged, installed, remoteVars, bootVars, current, active, open,
                 threadVars, ghosts, handed>>

\* A bug for Interrupts: an active install is flagged but not interrupted.
InterruptsNothing(i) == FALSE

\* Cancelling the install at hand closes its connection.
Interrupts(i) == current[gen] = i /\ i \in InstallJobs /\ active[gen]

\* cancel() of a job with a control rewrites a fresh copy of the stored row.
CancelControlled(i) ==
  /\ Serving /\ i \in controls[gen]
  /\ flagged' = [flagged EXCEPT ![gen] = @ \cup {i}]
  /\ open' = [open EXCEPT ![gen] = @ /\ ~Interrupts(i)]
  /\ Save(i, [disk[i] EXCEPT !.status =
                IF current[gen] = i THEN "cancel_requested" ELSE "cancelled"])
  /\ UNCHANGED <<controls, queue, installed, remoteVars, bootVars, current, active,
                 threadVars, ghosts, handed>>

\* cancel() of an unknown shell job inspects it with the flag already set.
CancelUnknown(i) ==
  /\ Serving /\ Reopenable(i)
  /\ Save(i, [disk[i] EXCEPT !.status = "checking"])
  /\ Run(gen, i, FALSE)
  /\ flagged' = [flagged EXCEPT ![gen] = @ \cup {i}]
  /\ UNCHANGED <<installed, remoteVars, bootVars, current, active, open, threadVars,
                 ghosts, handed>>

\* close(): the executor is shut down but drains what it has accepted.
Close ==
  /\ gen > 0 /\ life[gen] = "open"
  /\ life' = [life EXCEPT ![gen] = "closed"]
  /\ flagged' = [flagged EXCEPT ![gen] = controls[gen]]
  /\ open' = [open EXCEPT ![gen] = @ /\ ~(current[gen] \in InstallJobs /\ active[gen])]
  /\ UNCHANGED <<gen, todo, loaded, controls, queue, remoteVars, diskVars, current,
                 active, threadVars, ghosts, handed>>

-----------------------------------------------------------------------------
(***************************************************************************)
(* The worker thread of generation g, one action per interval in which a   *)
(* request, another worker or the remote side can intervene.               *)
(***************************************************************************)
\* A bug for Cancelled: it also ends inspections, before they have cancelled anything.
CancelledEvenInspection(g) == job[g] \in flagged[g]

\* create && cancelled.get()
Cancelled(g) == create[g] /\ job[g] \in flagged[g]

\* The executor takes the next task and a SelfAdbClient is built for it.
Take(g) ==
  /\ pc[g] = "idle" /\ queue[g] # <<>>
  /\ LET task == Head(queue[g]) IN
       /\ job' = [job EXCEPT ![g] = task.id]
       /\ create' = [create EXCEPT ![g] = task.create]
       /\ submitted' = [submitted EXCEPT ![g] = ~task.create]
       /\ row' = [row EXCEPT ![g] = [status |-> IF task.create THEN "queued" ELSE "checking",
                                       code |-> task.code]]
  /\ queue' = [queue EXCEPT ![g] = Tail(@)]
  /\ open' = [open EXCEPT ![g] = TRUE]
  /\ Goto(g, "begin")
  /\ UNCHANGED <<controls, flagged, remoteVars, diskVars, bootVars, current, active,
                 rpc, ghosts, handed>>

Begin(g) ==
  /\ pc[g] = "begin"
  /\ current' = [current EXCEPT ![g] = job[g]]
  /\ Goto(g, "check1")
  /\ UNCHANGED <<job, create, row, submitted, rpc, remoteVars, diskVars, bootVars,
                 queueVars, active, open, ghosts, handed>>

\* The first look at the flag, before anything is announced.
Check1(g) ==
  /\ pc[g] = "check1"
  /\ IF Cancelled(g) THEN SetRow(g, "cancelled") /\ Goto(g, "finish")
                     ELSE Goto(g, "announce") /\ UNCHANGED row
  /\ UNCHANGED <<job, create, submitted, rpc, remoteVars, diskVars, bootVars,
                 queueVars, current, active, open, ghosts, handed>>

Announce(g) ==
  /\ pc[g] = "announce"
  /\ SetRow(g, IF create[g] THEN "starting" ELSE "checking")
  /\ Save(job[g], row[g]')
  /\ active' = [active EXCEPT ![g] = TRUE]
  /\ Goto(g, "prove")
  /\ UNCHANGED <<job, create, submitted, rpc, remoteVars, installed, bootVars,
                 queueVars, current, open, ghosts, handed>>

\* The fresh self-device and UID proof succeeded and is recorded.
Prove(g) ==
  /\ pc[g] = "prove" /\ open[g]
  /\ Save(job[g], row[g])
  /\ Goto(g, "check2")
  /\ UNCHANGED <<job, create, row, submitted, rpc, remoteVars, installed, bootVars,
                 queueVars, current, active, open, ghosts, handed>>

\* The second look at the flag: the last one before anything is handed over.
Check2(g) ==
  /\ pc[g] = "check2"
  /\ IF Cancelled(g)
       THEN SetRow(g, "cancelled") /\ Goto(g, "finish") /\ UNCHANGED submitted
       ELSE /\ submitted' = [submitted EXCEPT ![g] = TRUE]
            /\ Goto(g, IF job[g] \in InstallJobs THEN "stage"
                       ELSE IF create[g] THEN "start" ELSE "poll")
            /\ UNCHANGED row
  /\ UNCHANGED <<job, create, rpc, remoteVars, diskVars, bootVars, queueVars, current,
                 active, open, ghosts, handed>>

\* install(): the APK is copied out of the workspace and its package read.
Stage(g) ==
  /\ pc[g] = "stage"
  /\ SetRow(g, "running")
  /\ Save(job[g], row[g]')
  /\ Goto(g, "install")
  /\ UNCHANGED <<job, create, submitted, rpc, remoteVars, installed, bootVars,
                 queueVars, current, active, open, ghosts, handed>>

\* The client looks for the last time whether it was closed, and reads the uid it runs as.
Verify(g) ==
  /\ pc[g] \in {"start", "sendCancel", "install"}
  /\ rpc[g] = "none" /\ open[g]
  /\ rpc' = [rpc EXCEPT ![g] = "verified"]
  /\ UNCHANGED <<pc, job, create, row, submitted, remoteVars, diskVars, bootVars,
                 queueVars, current, active, open, ghosts, handed>>

\* A request is written to adbd: a start or cancel script, or a streamed install.  A
\* client closed since its last look reconnects for it, or throws: Fail.
Send(g) ==
  /\ rpc[g] = "verified"
  /\ rpc' = [rpc EXCEPT ![g] = "sent"]
  /\ handed' = IF pc[g] = "sendCancel" THEN handed
               ELSE [handed EXCEPT ![job[g]] = @ + 1]
  /\ UNCHANGED <<pc, job, create, row, submitted, remoteVars, diskVars, bootVars,
                 queueVars, current, active, open, ghosts>>

\* The request succeeded and its answer arrived on a connection still open.
Answered(g) ==
  /\ rpc[g] = "done" /\ open[g]
  /\ rpc' = [rpc EXCEPT ![g] = "none"]
  /\ Goto(g, CASE pc[g] = "start" -> "poll"
               [] pc[g] = "sendCancel" -> "query"
               [] OTHER -> "finish")
  /\ row' = IF pc[g] = "install"
              THEN [row EXCEPT ![g] = [status |-> "completed", code |-> "zero"]]
              ELSE row
  /\ UNCHANGED <<job, create, submitted, remoteVars, diskVars, bootVars, queueVars,
                 current, active, open, ghosts, handed>>

\* A bug for Poll: a flag raised while the job runs is not looked at.
PollOnly(g) ==
  /\ pc[g] = "poll"
  /\ Goto(g, "query")
  /\ UNCHANGED <<job, create, row, submitted, rpc, remoteVars, diskVars, bootVars,
                 queueVars, current, active, open, ghosts, handed>>

\* The head of the polling loop: a flag raised meanwhile sends a cancel first.
Poll(g) ==
  /\ pc[g] = "poll"
  /\ Goto(g, IF job[g] \in flagged[g] THEN "sendCancel" ELSE "query")
  /\ UNCHANGED <<job, create, row, submitted, rpc, remoteVars, diskVars, bootVars,
                 queueVars, current, active, open, ghosts, handed>>

\* Bugs for StatusOf and CodeOf: the exit code is not looked at, -1 is kept.
StatusAsReported(report) == report.state
CodeAsReported(report) == report.code

\* A completed command with a non-zero code has failed; -1 is null.
StatusOf(report) ==
  IF report.state = "completed" /\ report.code = "other" THEN "failed" ELSE report.state
CodeOf(report) == IF report.code = "none" THEN "null" ELSE report.code

\* The status script's report, put into the worker's own row.
Query(g) ==
  /\ pc[g] = "query"
  /\ \E report \in Reports(job[g]) :
       row' = [row EXCEPT ![g] =
                [status |-> StatusOf(report), code |-> CodeOf(report)]]
  /\ Goto(g, "record")
  /\ UNCHANGED <<job, create, submitted, rpc, remoteVars, diskVars, bootVars,
                 queueVars, current, active, open, ghosts, handed>>

Record(g) ==
  /\ pc[g] = "record"
  /\ Save(job[g], row[g])
  /\ Goto(g, IF row[g].status \in {"starting", "running"} THEN "poll" ELSE "finish")
  /\ UNCHANGED <<job, create, row, submitted, rpc, remoteVars, installed, bootVars,
                 queueVars, current, active, open, ghosts, handed>>

\* The request's caller is gone, but adbd may still execute it.
Abandoned(g) ==
  IF rpc[g] # "sent" THEN {}
  ELSE {[op |-> IF pc[g] = "sendCancel" THEN "cancel" ELSE pc[g], id |-> job[g]]}

\* A bug for Failure: every exception makes the job "failed".
FailureIsFinal(g) == "failed"

\* The status an exception leaves.
Failure(g) == IF submitted[g] THEN "unknown" ELSE "failed"

\* Any exception of the try block: no connection, no proof, a refused request,
\* a lost answer, an unusable APK, no remote directory.
Fail(g) ==
  /\ pc[g] \in {"begin", "prove", "stage", "install", "start", "sendCancel", "query"}
  /\ SetRow(g, Failure(g))
  /\ ghosts' = ghosts \cup Abandoned(g)
  /\ rpc' = [rpc EXCEPT ![g] = "none"]
  /\ Goto(g, "finish")
  /\ UNCHANGED <<job, create, submitted, remoteVars, diskVars, bootVars, queueVars,
                 current, active, open, handed>>

\* A bug for Release: the control outlives its job.
ReleaseFlagOnly(g) ==
  /\ flagged' = [flagged EXCEPT ![g] = @ \ {job[g]}]
  /\ UNCHANGED controls

\* controls.remove(id), and with the control its flag.
Release(g) ==
  /\ controls' = [controls EXCEPT ![g] = @ \ {job[g]}]
  /\ flagged' = [flagged EXCEPT ![g] = @ \ {job[g]}]

\* The finally block, under the monitor.
Finally(g) ==
  /\ pc[g] = "finish"
  /\ Save(job[g], row[g])
  /\ active' = [active EXCEPT ![g] = FALSE]
  /\ current' = [current EXCEPT ![g] = NoJob]
  /\ Release(g)
  /\ job' = [job EXCEPT ![g] = NoJob]
  /\ row' = [row EXCEPT ![g] = Stored("none")]
  /\ open' = [open EXCEPT ![g] = FALSE]
  /\ create' = [create EXCEPT ![g] = FALSE]
  /\ submitted' = [submitted EXCEPT ![g] = FALSE]
  /\ Goto(g, "idle")
  /\ UNCHANGED <<rpc, queue, installed, remoteVars, bootVars,
                 ghosts, handed>>

-----------------------------------------------------------------------------
(***************************************************************************)
(* adbd and PackageManager.                                                *)
(***************************************************************************)
\* What executing a request does; answer is what its caller would be told.
Execute(op, i, answer) ==
  CASE op = "start" ->
         /\ \/ phase[i] = "absent" /\ Launch(i) /\ answer = "done"
            \/ phase[i] = "absent" /\ Launch(i) /\ phase'[i] = "stillborn" /\ answer = "refused"
            \/ phase[i] # "absent" /\ UNCHANGED remoteVars /\ answer = "refused"
         /\ UNCHANGED installed
    [] op = "cancel" ->
         /\ \/ CancelCall(i) /\ answer = "done"
            \/ phase[i] = "absent" /\ UNCHANGED remoteVars /\ answer = "refused"
         /\ UNCHANGED installed
    [] OTHER ->
         /\ \/ installed' = installed \cup {i} /\ answer = "done"
            \/ UNCHANGED installed /\ answer = "refused"
         /\ UNCHANGED remoteVars

Deliver(g) ==
  /\ rpc[g] = "sent"
  /\ \E request \in Abandoned(g), answer \in {"done", "refused"} :
       /\ Execute(request.op, request.id, answer)
       /\ rpc' = [rpc EXCEPT ![g] = answer]
  /\ UNCHANGED <<pc, job, create, row, submitted, disk, bootVars, queueVars, current,
                 active, open, ghosts, handed>>

DeliverGhost ==
  /\ \E request \in ghosts, answer \in {"done", "refused"} :
       /\ Execute(request.op, request.id, answer)
       /\ ghosts' = ghosts \ {request}
  /\ UNCHANGED <<disk, bootVars, queueVars, current, active, open, threadVars, handed>>

Remote(j) ==
  /\ RemoteStep(j)
  /\ UNCHANGED <<diskVars, bootVars, queueVars, current, active, open, threadVars,
                 ghosts, handed>>

\* Android kills the app: every instance and thread is gone, requests in adbd are not.
Crash ==
  /\ MayCrash
  /\ gen > 0 /\ life[gen] # "dead"
  /\ life' = [g \in Gens |-> IF life[g] = "none" THEN "none" ELSE "dead"]
  /\ todo' = {} /\ loaded' = Nothing
  /\ controls' = [g \in Gens |-> {}] /\ flagged' = [g \in Gens |-> {}]
  /\ queue' = [g \in Gens |-> <<>>]
  /\ current' = [g \in Gens |-> NoJob] /\ active' = [g \in Gens |-> FALSE]
  /\ open' = [g \in Gens |-> FALSE]
  /\ ghosts' = ghosts \cup UNION {Abandoned(g) : g \in Gens}
  /\ pc' = [g \in Gens |-> "idle"] /\ job' = [g \in Gens |-> NoJob]
  /\ create' = [g \in Gens |-> FALSE] /\ row' = [g \in Gens |-> Stored("none")]
  /\ submitted' = [g \in Gens |-> FALSE] /\ rpc' = [g \in Gens |-> "none"]
  /\ UNCHANGED <<gen, remoteVars, diskVars, handed>>

-----------------------------------------------------------------------------
WorkerStep(g) ==
  \/ Take(g) \/ Begin(g) \/ Check1(g) \/ Announce(g) \/ Prove(g) \/ Check2(g)
  \/ Stage(g) \/ Verify(g) \/ Send(g) \/ Answered(g) \/ Poll(g) \/ Query(g) \/ Record(g)
  \/ Fail(g) \/ Finally(g)

Constructor == (\E i \in Ids : RecoverLoad(i)) \/ RecoverSave \/ Booted

Request ==
  \E i \in Ids : Submit(i) \/ Inspect(i) \/ CancelControlled(i) \/ CancelUnknown(i)

Next ==
  \/ NewInstance \/ Constructor \/ Request \/ Close \/ Crash
  \/ \E g \in Gens : WorkerStep(g) \/ Deliver(g)
  \/ DeliverGhost
  \/ \E j \in ShellJobs : Remote(j)

Spec == Init /\ [][Next]_vars

\* The worker thread and the executor run, adbd executes what it received, the
\* constructor returns, and a launched worker shell writes its pid.  Nothing is
\* assumed of users, of commands or of Android's process killer.
Fairness ==
  /\ \A g \in Gens : WF_vars(WorkerStep(g)) /\ WF_vars(Deliver(g))
  /\ WF_vars(Constructor)
  /\ \A j \in ShellJobs : WF_vars(Remote(j) /\ Publish(j))

FairSpec == Spec /\ Fairness

\* Every command, and everything it leaves behind, ends by itself.
CommandsEnd ==
  \A j \in ShellJobs : WF_vars(Remote(j) /\ Finish(j)) /\ WF_vars(Remote(j) /\ Settle(j))

-----------------------------------------------------------------------------
(***************************************************************************)
(* Properties.                                                             *)
(***************************************************************************)
\* An accepted id is handed to Android at most once, whatever is resubmitted,
\* inspected, cancelled, lost or restarted: "an uncertain start is inspected,
\* never repeated".
HandedAtMostOnce == \A i \in Ids : handed[i] <= 1

\* A row that says "failed" without an exit code is a pre-submission failure:
\* no start command or install has been handed to Android for it.
FailedMeansNotSubmitted ==
  \A i \in Ids : disk[i] = Stored("failed") => handed[i] = 0

(***************************************************************************)
(* Why these two hold: the right to hand a job over is a claim that only   *)
(* submit() of an unseen id creates, and that queue, worker and request    *)
(* pass on without ever duplicating it.                                    *)
(***************************************************************************)
BeforeSend == {"begin", "check1", "announce", "prove", "check2", "stage", "install", "start"}

QueuedNew(g, i) == \E k \in DOMAIN queue[g] : queue[g][k].create /\ queue[g][k].id = i
HeldNew(g, i) ==
  pc[g] \in BeforeSend /\ rpc[g] \in {"none", "verified"} /\ create[g] /\ job[g] = i
Claim(g, i) == QueuedNew(g, i) \/ HeldNew(g, i)

\* The row is, or is about to become, a pre-submission failure.
FailedUnsent(i) ==
  \/ disk[i] = Stored("failed")
  \/ \E g \in Gens : pc[g] = "finish" /\ job[g] = i /\ row[g] = Stored("failed")

WorkerAt(g) ==
  /\ pc[g] # "idle" => job[g] \in Ids /\ row[g].status # "none"
  /\ pc[g] # "idle" /\ ~create[g] => job[g] \in ShellJobs
  /\ pc[g] \in {"stage", "install"} => job[g] \in InstallJobs
  /\ pc[g] \in {"start", "poll", "sendCancel", "query", "record"} => job[g] \in ShellJobs
  /\ pc[g] = "start" => create[g]
  /\ pc[g] # "finish" => row[g] # Stored("failed")
  /\ ~submitted[g] =>
       \/ create[g] /\ pc[g] \in {"begin", "check1", "announce", "prove", "check2"}
       \/ pc[g] \in {"idle", "finish"}
  /\ rpc[g] # "none" => pc[g] \in {"install", "start", "sendCancel"}

InspectsShell(g) ==
  \A k \in DOMAIN queue[g] : ~queue[g][k].create => queue[g][k].id \in ShellJobs

WorkerInv == \A g \in Gens : WorkerAt(g) /\ InspectsShell(g)

ClaimInv ==
  /\ \A g \in Gens : \A k, l \in DOMAIN queue[g] :
       queue[g][k].create /\ queue[g][l].create /\ queue[g][k].id = queue[g][l].id => k = l
  /\ \A g, h \in Gens, i \in Ids : Claim(g, i) /\ Claim(h, i) => g = h
  /\ \A g \in Gens, i \in Ids : ~(QueuedNew(g, i) /\ HeldNew(g, i))

HandedInv ==
  /\ loaded = Nothing \/ loaded.row.status \in {"cancelled", "unknown"}
  /\ \A i \in Ids :
       /\ handed[i] <= 1
       /\ disk[i].status = "none" \/ FailedUnsent(i) \/ (\E g \in Gens : Claim(g, i)) => handed[i] = 0
       /\ FailedUnsent(i) \/ (\E g \in Gens : Claim(g, i)) => disk[i].status # "none"
       /\ FailedUnsent(i) => \A g \in Gens : ~Claim(g, i)

\* No job is in two hands that could both hand it over, and none is in such hands
\* once it has been handed over or its row calls it failed: the inductive invariant
\* behind HandedAtMostOnce and FailedMeansNotSubmitted.
ClaimsAreUnique == WorkerInv /\ ClaimInv /\ HandedInv

\* An exit code in a row is the one the job published, even after cancel() or a
\* restart rewrote the status beside it; a row that calls the job "completed", or
\* "failed" with a code, also promises that nothing of its group is left.
CodesAreTrue ==
  \A i \in Ids :
    /\ disk[i].code # "null" =>
         IF i \in ShellJobs THEN exit[i] = disk[i].code
                           ELSE i \in installed /\ disk[i].code = "zero"
    /\ disk[i].status = "completed" => disk[i].code = "zero"
    /\ disk[i].status = "failed" => disk[i].code # "zero"
    /\ i \in ShellJobs /\ disk[i].status \in {"completed", "failed"}
         /\ disk[i].code # "null" => phase[i] = "completed"

\* A row a client still polls on is in somebody's hands: a live instance has a
\* control for it or a starting one has still to look at the file.
PolledRowsAreOwned ==
  \A i \in Ids :
    disk[i].status \in Transient =>
      \/ gen > 0 /\ life[gen] = "dead"
      \/ \E g \in Gens : i \in controls[g]
      \/ gen > 0 /\ life[gen] = "booting" /\ i \in todo

\* The job's command or install neither runs nor can ever run.
NeverRuns(i) ==
  /\ i \notin {request.id : request \in {r \in ghosts : r.op # "cancel"}}
  /\ IF i \in ShellJobs THEN Stopped(i) \/ (phase[i] = "absent" /\ handed[i] = 0)
                        ELSE handed[i] = 0

\* While no instance has been killed, a row that says "cancelled" and is in nobody's
\* hands tells the truth, even where a closed instance and its successor both wrote it.
CancelledMeansStopped ==
  (\A g \in Gens : life[g] # "dead") => \A i \in Ids :
    disk[i].status = "cancelled" /\ (\A g \in Gens : i \notin controls[g]) => NeverRuns(i)

\* The client of the job's worker has looked for the last time whether it was closed.
PastLastLook(i) == \E g \in Gens : job[g] = i /\ rpc[g] # "none"
Confirmed(i) == \E g \in Gens : job[g] = i /\ row[g].status = "completed"

\* An install whose cancellation was accepted goes no further than it had got.  One that
\* had not passed the client's last look at its connection never reaches PackageManager;
\* one that had may still be installed, but is never confirmed: it is left "unknown".
CancelledInstallGoesNoFurther ==
  [][\A i \in InstallJobs :
       (\E g \in Gens : i \in flagged[g]) =>
         /\ ~PastLastLook(i) => ~PastLastLook(i)' /\ handed'[i] = handed[i]
         /\ ~Confirmed(i) => ~Confirmed(i)']_vars

\* The worker, and with it the queue, gets past a cancelled job, unless the
\* command has ended and left processes of its group behind.
CancelReleasesWorker ==
  \A g \in Gens, i \in Ids :
    current[g] = i /\ i \in flagged[g]
      ~> current[g] # i \/ (i \in ShellJobs /\ phase[i] = "lingering")

\* If commands end, every accepted job leaves the queue.
QueueDrains ==
  CommandsEnd => \A g \in Gens, i \in Ids : i \in controls[g] ~> i \notin controls[g]

(***************************************************************************)
(* What the repository says and the code does not do.                      *)
(***************************************************************************)
\* RuntimeSetupService.java:80 "`--id UUID status` rechecks interrupted jobs;
\* `--id UUID cancel` terminates the verified process group": a job that runs while
\* nobody holds a control for it has a row that inspect() and cancel() will reopen.
RunningJobsStayReachable ==
  \A i \in ShellJobs :
    phase[i] = "running" /\ (\A g \in Gens : i \notin controls[g]) =>
      disk[i].status \in Transient \cup {"unknown"}

\* docs/ANDROID-EXECUTION-INTEGRATION.md:61 "AndroidJobs now distinguishes
\* pre-submission failure (failed) from uncertain remote submission/recovery
\* (unknown)": with no restart, "unknown" means something was submitted.
UnknownMeansSubmitted ==
  \A i \in Ids : disk[i].status = "unknown" => handed[i] = 1
=============================================================================
