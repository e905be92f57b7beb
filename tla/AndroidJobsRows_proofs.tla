----------------------- MODULE AndroidJobsRows_proofs -----------------------
(***************************************************************************)
(* What the rows of AndroidJobs tell their readers, for every set of jobs, *)
(* every queue limit and every number of instances: exit codes are the     *)
(* published ones, a polled row has an owner, and "cancelled" means that   *)
(* nothing runs.  AndroidJobs_proofs shows who may hand a job over.        *)
(***************************************************************************)
EXTENDS AndroidJobs_proofs

-----------------------------------------------------------------------------
(***************************************************************************)
(* Truth: every row that is, or may yet be, written to disk is one the     *)
(* remote side has already justified, and what justifies it is stable.     *)
(***************************************************************************)
RemoteInv == \A j \in ShellJobs : exit[j] # "none" <=> phase[j] \in {"lingering", "completed"}

Published(i, c) ==
  c # "null" => IF i \in ShellJobs THEN exit[i] = c ELSE i \in installed /\ c = "zero"

Told(i, r) ==
  /\ Published(i, r.code)
  /\ r.status = "completed" => r.code = "zero"
  /\ r.status = "failed" => r.code # "zero"
  /\ i \in ShellJobs /\ r.status \in {"completed", "failed"} /\ r.code # "null" =>
       phase[i] = "completed"

ToldAt(g) ==
  /\ pc[g] # "idle" => Told(job[g], row[g])
  /\ ~submitted[g] /\ pc[g] \notin {"idle", "finish"} => row[g].code = "null"
  /\ rpc[g] = "done" /\ pc[g] = "install" => job[g] \in installed
  /\ \A k \in DOMAIN queue[g] :
       /\ Published(queue[g][k].id, queue[g][k].code)
       /\ queue[g][k].create => queue[g][k].code = "null"

\* The inductive invariant behind CodesAreTrue: it holds of the worker's own row, of
\* the row a constructor is about to write back and of the codes queued with a task.
TruthInv ==
  /\ RemoteInv
  /\ \A i \in Ids : Told(i, disk[i]) /\ (disk[i].status = "none" => disk[i].code = "null")
  /\ loaded # Nothing => Told(loaded.id, loaded.row)
  /\ \A g \in Gens : ToldAt(g)

\* The remote side never takes back what it published.
WorldKept ==
  /\ \A j \in ShellJobs : /\ exit[j] # "none" => exit'[j] = exit[j]
                          /\ phase[j] = "completed" => phase'[j] = "completed"
  /\ installed \subseteq installed'

\* Published and Told of the next state, for a row of this one.
PublishedNext(i, c) ==
  c # "null" => IF i \in ShellJobs THEN exit'[i] = c ELSE i \in installed' /\ c = "zero"

ToldNext(i, r) ==
  /\ PublishedNext(i, r.code)
  /\ r.status = "completed" => r.code = "zero"
  /\ r.status = "failed" => r.code # "zero"
  /\ i \in ShellJobs /\ r.status \in {"completed", "failed"} /\ r.code # "null" =>
       phase'[i] = "completed"

LEMMA RemoteKeeps ==
  ASSUME RemoteTypeOK, RemoteInv, NEW j \in ShellJobs,
         Launch(j) \/ Publish(j) \/ Finish(j) \/ Settle(j) \/ Lose(j) \/ CancelCall(j)
  PROVE  /\ RemoteInv'
         /\ \A n \in ShellJobs : /\ exit[n] # "none" => exit'[n] = exit[n]
                                 /\ phase[n] = "completed" => phase'[n] = "completed"
  <1> USE DEF RemoteTypeOK, RemoteInv, MoveTo
  <1>1. CASE Launch(j)
    BY <1>1 DEF Launch
  <1>2. CASE Publish(j)
    BY <1>2 DEF Publish
  <1>3. CASE Finish(j)
    <2>1. PICK code \in Exits \ {"none"} : exit' = [exit EXCEPT ![j] = code]
      BY <1>3 DEF Finish
    <2> QED
      BY <1>3, <2>1 DEF Finish
  <1>4. CASE Settle(j)
    BY <1>4 DEF Settle
  <1>5. CASE Lose(j)
    BY <1>5 DEF Lose
  <1>6. CASE CancelCall(j)
    BY <1>6 DEF CancelCall
  <1> QED
    BY <1>1, <1>2, <1>3, <1>4, <1>5, <1>6

LEMMA ExecuteKeeps ==
  ASSUME RemoteTypeOK, RemoteInv, NEW request \in Ghosts, NEW answer,
         Execute(request.op, request.id, answer)
  PROVE  RemoteInv' /\ WorldKept /\ (request.op = "install" /\ answer = "done" => request.id \in installed')
  <1>1. CASE request.op = "start"
    <2>1. request.id \in ShellJobs
      BY <1>1 DEF Ghosts
    <2>2. installed' = installed /\ (Launch(request.id) \/ UNCHANGED remoteVars)
      BY <1>1 DEF Execute
    <2>3. CASE Launch(request.id)
      BY <1>1, <2>1, <2>2, <2>3, RemoteKeeps DEF WorldKept
    <2>4. CASE UNCHANGED remoteVars
      BY <1>1, <2>2, <2>4 DEF WorldKept, RemoteInv, remoteVars
    <2> QED
      BY <2>2, <2>3, <2>4
  <1>2. CASE request.op = "cancel"
    <2>1. request.id \in ShellJobs
      BY <1>2 DEF Ghosts
    <2>2. installed' = installed /\ (CancelCall(request.id) \/ UNCHANGED remoteVars)
      BY <1>2 DEF Execute
    <2>3. CASE CancelCall(request.id)
      BY <1>2, <2>1, <2>2, <2>3, RemoteKeeps DEF WorldKept
    <2>4. CASE UNCHANGED remoteVars
      BY <1>2, <2>2, <2>4 DEF WorldKept, RemoteInv, remoteVars
    <2> QED
      BY <2>2, <2>3, <2>4
  <1>3. CASE request.op = "install"
    BY <1>3 DEF Execute, remoteVars, WorldKept, RemoteInv
  <1> QED
    BY <1>1, <1>2, <1>3 DEF Ghosts

\* Requests in flight are requests.
LEMMA AbandonedFacts ==
  ASSUME WorkerInv, NEW g \in Gens
  PROVE  Abandoned(g) \subseteq Ghosts
  BY DEF Abandoned, Ghosts, WorkerInv, WorkerAt

LEMMA WorldStep ==
  ASSUME TypeOK, WorkerInv, RemoteInv, [Next]_vars
  PROVE  RemoteInv' /\ WorldKept
  <1> USE DEF diskVars
  <1>1. ASSUME UNCHANGED <<remoteVars, installed>> PROVE RemoteInv' /\ WorldKept
    BY <1>1 DEF WorldKept, RemoteInv, remoteVars
  <1>2. ASSUME NEW g \in Gens, Deliver(g) PROVE RemoteInv' /\ WorldKept
    <2>1. PICK request \in Abandoned(g), answer \in {"done", "refused"} :
            Execute(request.op, request.id, answer)
      BY <1>2 DEF Deliver
    <2> QED
      BY <2>1, ExecuteKeeps, AbandonedFacts DEF TypeOK
  <1>3. CASE DeliverGhost
    <2>1. PICK request \in ghosts, answer \in {"done", "refused"} :
            Execute(request.op, request.id, answer)
      BY <1>3 DEF DeliverGhost
    <2> QED
      BY <2>1, ExecuteKeeps DEF TypeOK
  <1>4. ASSUME NEW j \in ShellJobs, Remote(j) PROVE RemoteInv' /\ WorldKept
    BY <1>4, RemoteKeeps DEF Remote, RemoteStep, WorldKept, TypeOK
  <1>5. ASSUME NEW g \in Gens, WorkerStep(g) PROVE RemoteInv' /\ WorldKept
    BY <1>1, <1>5 DEF WorkerStep, Take, Begin, Check1, Announce, Prove, Check2, Stage, Verify, Send,
       Answered, Poll, Query, Record, Fail, Finally
  <1>6. CASE NewInstance \/ Constructor \/ Close \/ Crash \/ UNCHANGED vars
    BY <1>1, <1>6 DEF NewInstance, Constructor, RecoverLoad, RecoverSave, Booted, Close, Crash, vars
  <1>7. CASE Request
    BY <1>1, <1>7 DEF Request, Submit, Inspect, CancelControlled, CancelUnknown
  <1> QED
    BY <1>2, <1>3, <1>4, <1>5, <1>6, <1>7 DEF Next

LEMMA ToldKept ==
  ASSUME WorldKept
  PROVE  /\ \A i \in Ids, c \in Codes : Published(i, c) => PublishedNext(i, c)
         /\ \A i \in Ids, r \in Row : Told(i, r) => ToldNext(i, r)
  <1>1. \A i \in Ids, c \in Codes : Published(i, c) => PublishedNext(i, c)
    BY DEF WorldKept, Published, PublishedNext, Codes
  <1>2. \A r \in Row : r.code \in Codes
    BY DEF Row
  <1> QED
    BY <1>1, <1>2 DEF WorldKept, Told, ToldNext

\* A status that claims nothing about the end may be put beside any code.
LEMMA ToldRestated ==
  ASSUME NEW i \in Ids, NEW r \in Row, ToldNext(i, r), NEW s \in Statuses \ {"completed", "failed"}
  PROVE  ToldNext(i, [r EXCEPT !.status = s])
  <1>1. [r EXCEPT !.status = s].status = s /\ [r EXCEPT !.status = s].code = r.code
    BY RowFacts
  <1> QED
    BY <1>1 DEF ToldNext

\* What a status call reports of a job is true of it.
LEMMA ReportIsTrue ==
  ASSUME RemoteTypeOK, RemoteInv, NEW j \in ShellJobs, NEW report \in Reports(j)
  PROVE  /\ CodeOf(report) # "null" => exit[j] = CodeOf(report)
         /\ StatusOf(report) = "completed" => CodeOf(report) = "zero"
         /\ StatusOf(report) = "failed" => CodeOf(report) # "zero"
         /\ StatusOf(report) \in {"completed", "failed"} => phase[j] = "completed"
         /\ StatusOf(report) = "cancelled" => Stopped(j)
  <1>1. \/ report = Report("starting", "none")
        \/ report = Report("running", "none")
        \/ report = Report("unknown", "none")
        \/ report = Report("running", exit[j])
        \/ report = Report("unknown", exit[j])
        \/ report = Report("completed", exit[j]) /\ phase[j] = "completed"
        \/ report = Report("cancelled", "none") /\ phase[j] \in {"completed", "dead"}
    BY DEF Reports, RemoteTypeOK, Phases
  <1>2. exit[j] \in Exits
    BY DEF RemoteTypeOK
  <1>3. report.state # "completed" =>
          /\ StatusOf(report) = report.state
          /\ report.code \in {"none", exit[j]}
          /\ StatusOf(report) \notin {"completed", "failed"}
          /\ StatusOf(report) = "cancelled" => Stopped(j)
    BY <1>1 DEF Report, StatusOf, Stopped
  <1>4. report.state = "completed" => report.code = exit[j] /\ phase[j] = "completed" /\ exit[j] # "none"
    BY <1>1 DEF Report, RemoteInv
  <1>5. CASE report.state # "completed"
    BY <1>2, <1>3, <1>5 DEF CodeOf, Exits
  <1>6. CASE report.state = "completed"
    <2>1. report.code \in {"zero", "other"} /\ exit[j] = report.code
      BY <1>2, <1>4, <1>6 DEF Exits
    <2>2. CASE report.code = "zero"
      BY <1>4, <1>6, <2>1, <2>2 DEF StatusOf, CodeOf
    <2>3. CASE report.code = "other"
      BY <1>4, <1>6, <2>1, <2>3 DEF StatusOf, CodeOf
    <2> QED
      BY <2>1, <2>2, <2>3
  <1> QED
    BY <1>5, <1>6

LEMMA TaskFacts ==
  ASSUME TypeOK, NEW g \in Gens, NEW k \in DOMAIN queue[g]
  PROVE  queue[g][k].id \in Ids /\ queue[g][k].code \in Codes /\ queue[g][k].create \in BOOLEAN
  <1>1. queue[g] \in Seq(Task)
    BY DEF TypeOK
  <1>2. queue[g][k] \in Task
    BY <1>1
  <1> QED
    BY <1>2 DEF Task

\* Tasks, rows and the loaded row, seen from the next state.
LEMMA TruthNext ==
  ASSUME TypeOK, WorkerInv, TruthInv, WorldKept
  PROVE  /\ \A i \in Ids : ToldNext(i, disk[i])
         /\ loaded # Nothing => ToldNext(loaded.id, loaded.row)
         /\ \A g \in Gens : pc[g] # "idle" => ToldNext(job[g], row[g])
         /\ \A g \in Gens : \A k \in DOMAIN queue[g] :
              /\ PublishedNext(queue[g][k].id, queue[g][k].code)
              /\ queue[g][k].create => queue[g][k].code = "null"
         /\ \A g \in Gens :
              rpc[g] = "done" /\ pc[g] = "install" => job[g] \in installed'
  <1>1. \A i \in Ids : ToldNext(i, disk[i])
    BY ToldKept DEF TruthInv, TypeOK
  <1>2. loaded # Nothing => ToldNext(loaded.id, loaded.row)
    <2>1. loaded # Nothing => loaded.id \in Ids /\ loaded.row \in Row
      BY DEF TypeOK
    <2> QED
      BY <2>1, ToldKept DEF TruthInv
  <1>3. \A g \in Gens : row[g] \in Row /\ ToldAt(g)
    BY DEF TruthInv, TypeOK
  <1>4. \A g \in Gens : pc[g] # "idle" => ToldNext(job[g], row[g])
    BY <1>3, ToldKept DEF WorkerInv, WorkerAt, ToldAt
  <1>5. \A g \in Gens : \A k \in DOMAIN queue[g] :
          /\ PublishedNext(queue[g][k].id, queue[g][k].code)
          /\ queue[g][k].create => queue[g][k].code = "null"
    BY <1>3, TaskFacts, ToldKept DEF ToldAt
  <1>6. \A g \in Gens : rpc[g] = "done" /\ pc[g] = "install" => job[g] \in installed'
    BY <1>3 DEF ToldAt, WorldKept
  <1> QED
    BY <1>1, <1>2, <1>4, <1>5, <1>6

\* A step that keeps the world, rewrites rows truthfully and leaves threads alone.
LEMMA QuietTruth ==
  ASSUME TypeOK, WorkerInv, TruthInv, RemoteInv', WorldKept, UNCHANGED threadVars,
         \A i \in Ids : ToldNext(i, disk'[i]) /\ (disk'[i].status = "none" => disk'[i].code = "null"),
         loaded' # Nothing => ToldNext(loaded'.id, loaded'.row),
         \A g \in Gens : \A k \in DOMAIN queue'[g] :
           /\ PublishedNext(queue'[g][k].id, queue'[g][k].code)
           /\ queue'[g][k].create => queue'[g][k].code = "null"
  PROVE  TruthInv'
  <1>1. ASSUME NEW g \in Gens PROVE ToldAt(g)'
    <2>1. ToldAt(g)
      BY DEF TruthInv
    <2> QED
      BY <2>1, TruthNext DEF ToldAt, Told, ToldNext, Published, PublishedNext, threadVars
  <1> QED
    BY <1>1 DEF TruthInv, Told, ToldNext, Published, PublishedNext

\* A worker's step that writes at most the row of its job, and truthfully.
LEMMA WorkerTruth ==
  ASSUME TypeOK, WorkerInv, TruthInv, RemoteInv', WorldKept, NEW g \in Gens,
         WorkerStep(g) \/ Deliver(g), loaded' = loaded, ToldAt(g)',
         \A i \in Ids : \/ disk'[i] = disk[i]
                        \/ ToldNext(i, disk'[i]) /\ disk'[i].status # "none"
  PROVE  TruthInv'
  <1>1. \A i \in Ids : ToldNext(i, disk'[i]) /\ (disk'[i].status = "none" => disk'[i].code = "null")
    BY TruthNext DEF TruthInv
  <1>2. ASSUME NEW h \in Gens, h # g PROVE ToldAt(h)'
    <2>1. /\ pc'[h] = pc[h] /\ job'[h] = job[h] /\ row'[h] = row[h]
          /\ submitted'[h] = submitted[h] /\ rpc'[h] = rpc[h] /\ queue'[h] = queue[h]
      BY <1>2, OtherWorkers
    <2>2. ToldAt(h)
      BY DEF TruthInv
    <2> QED
      BY <2>1, <2>2, TruthNext DEF ToldAt, Told, ToldNext, Published, PublishedNext
  <1>3. loaded' # Nothing => ToldNext(loaded'.id, loaded'.row)
    BY TruthNext
  <1> QED
    BY <1>1, <1>2, <1>3 DEF TruthInv, Told, ToldNext, Published, PublishedNext

\* run() queues the code of the stored row.
LEMMA RunTruth ==
  ASSUME TypeOK, WorkerInv, TruthInv, WorldKept, NEW g \in Gens, NEW i \in Ids,
         NEW new \in BOOLEAN, Run(g, i, new), new => disk[i].code = "null"
  PROVE  \A h \in Gens : \A k \in DOMAIN queue'[h] :
           /\ PublishedNext(queue'[h][k].id, queue'[h][k].code)
           /\ queue'[h][k].create => queue'[h][k].code = "null"
  <1> SUFFICES ASSUME NEW h \in Gens, NEW k \in DOMAIN queue'[h]
               PROVE /\ PublishedNext(queue'[h][k].id, queue'[h][k].code)
                     /\ queue'[h][k].create => queue'[h][k].code = "null"
    OBVIOUS
  <1> DEFINE task == [id |-> i, create |-> new, code |-> disk[i].code]
  <1>1. task \in Task /\ task.create = new /\ task.id = i /\ task.code = disk[i].code
    BY DEF TypeOK, Task, Row
  <1>2. queue' = [queue EXCEPT ![g] = Append(queue[g], task)]
    BY DEF Run
  <1> HIDE DEF task
  <1>3. PublishedNext(i, disk[i].code)
    BY TruthNext DEF ToldNext
  <1>4. CASE h # g
    BY <1>2, <1>4, TruthNext DEF TypeOK
  <1>5. CASE h = g
    <2>1. queue'[h] = Append(queue[h], task) /\ queue[h] \in Seq(Task)
      BY <1>2, <1>5 DEF TypeOK
    <2>2. (k \in DOMAIN queue[h] /\ queue'[h][k] = queue[h][k]) \/ queue'[h][k] = task
      BY <1>1, <2>1, AppendFacts
    <2> QED
      BY <1>1, <1>3, <2>2, TruthNext
  <1> QED
    BY <1>4, <1>5

\* The worker's part of TruthInv, given that it took no task.
LEMMA WorkerTold ==
  ASSUME TypeOK, WorkerInv, TruthInv, WorldKept, NEW g \in Gens, queue'[g] = queue[g],
         pc'[g] # "idle" => ToldNext(job'[g], row'[g]),
         ~submitted'[g] /\ pc'[g] \notin {"idle", "finish"} => row'[g].code = "null",
         rpc'[g] = "done" /\ pc'[g] = "install" => job'[g] \in installed'
  PROVE  ToldAt(g)'
  BY TruthNext DEF ToldAt, Told, ToldNext, Published, PublishedNext

LEMMA TruthStep == TypeOK /\ WorkerInv /\ HandedInv /\ TruthInv /\ [Next]_vars => TruthInv'
  <1> SUFFICES ASSUME TypeOK, WorkerInv, HandedInv, TruthInv, [Next]_vars PROVE TruthInv'
    OBVIOUS
  <1>0. RemoteInv' /\ WorldKept
    BY WorldStep DEF TruthInv
  <1> USE <1>0
  <1> USE DEF diskVars, bootVars, queueVars, threadVars, Goto, Save, SetRow
  <1>a. /\ \A i \in Ids : ToldNext(i, disk[i]) /\ (disk[i].status = "none" => disk[i].code = "null")
        /\ loaded # Nothing => ToldNext(loaded.id, loaded.row)
        /\ \A h \in Gens : \A k \in DOMAIN queue[h] :
             /\ PublishedNext(queue[h][k].id, queue[h][k].code)
             /\ queue[h][k].create => queue[h][k].code = "null"
    BY TruthNext DEF TruthInv
  <1>1. CASE NewInstance \/ Booted \/ Close \/ DeliverGhost \/ UNCHANGED vars
    <2>1. UNCHANGED <<disk, loaded, queue, threadVars>>
      BY <1>1 DEF NewInstance, Booted, Close, DeliverGhost, vars
    <2> QED
      BY <1>a, <2>1, QuietTruth
  <1>2. ASSUME NEW j \in ShellJobs, Remote(j) PROVE TruthInv'
    <2>1. UNCHANGED <<disk, loaded, queue, threadVars>>
      BY <1>2 DEF Remote
    <2> QED
      BY <1>a, <2>1, QuietTruth
  <1>3. ASSUME NEW i \in Ids, RecoverLoad(i) PROVE TruthInv'
    <2>1. UNCHANGED <<disk, queue, threadVars>>
      BY <1>3 DEF RecoverLoad
    <2>2. loaded' # Nothing => ToldNext(loaded'.id, loaded'.row)
      <3>1. CASE LeftBehind(disk[i].status)
        <4>1. PICK s \in {"cancelled", "unknown"} :
                loaded' = [id |-> i, row |-> [disk[i] EXCEPT !.status = s]]
          BY <1>3, <3>1, Zenon DEF RecoverLoad
        <4>2. ToldNext(i, [disk[i] EXCEPT !.status = s])
          BY <1>a, ToldRestated, StatusNames DEF TypeOK
        <4> QED
          BY <4>1, <4>2
      <3>2. CASE ~LeftBehind(disk[i].status)
        BY <1>3, <1>a, <3>2 DEF RecoverLoad
      <3> QED
        BY <3>1, <3>2
    <2> QED
      BY <1>a, <2>1, <2>2, QuietTruth
  <1>4. CASE RecoverSave
    <2>1. /\ loaded # Nothing /\ loaded.id \in Ids
          /\ disk' = [disk EXCEPT ![loaded.id] = loaded.row]
      BY <1>4 DEF RecoverSave, TypeOK
    <2>2. loaded.row.status # "none"
      BY <2>1 DEF HandedInv
    <2>3. UNCHANGED <<queue, threadVars>> /\ loaded' = Nothing
      BY <1>4 DEF RecoverSave
    <2>4. \A i \in Ids : ToldNext(i, disk'[i]) /\ (disk'[i].status = "none" => disk'[i].code = "null")
      BY <1>a, <2>1, <2>2 DEF TypeOK
    <2> QED
      BY <1>a, <2>3, <2>4, QuietTruth
  <1>5. ASSUME NEW i \in Ids, Submit(i) PROVE TruthInv'
    <2>0. gen > 0 /\ disk[i].status = "none" /\ Run(gen, i, TRUE)
      BY <1>5, Zenon DEF Submit
    <2>1. gen \in Gens
      BY <2>0, JobsAssumption DEF TypeOK, Gens
    <2>2. disk' = [disk EXCEPT ![i] = Stored("queued")] /\ UNCHANGED <<loaded, threadVars>>
      BY <1>5 DEF Submit
    <2>3. ToldNext(i, Stored("queued"))
      BY DEF ToldNext, PublishedNext, Stored
    <2>4. \A n \in Ids : ToldNext(n, disk'[n]) /\ (disk'[n].status = "none" => disk'[n].code = "null")
      BY <1>a, <2>2, <2>3 DEF TypeOK, Stored
    <2>5. \A h \in Gens : \A k \in DOMAIN queue'[h] :
            /\ PublishedNext(queue'[h][k].id, queue'[h][k].code)
            /\ queue'[h][k].create => queue'[h][k].code = "null"
      BY <1>a, <2>0, <2>1, RunTruth
    <2> QED
      BY <1>a, <2>2, <2>4, <2>5, QuietTruth
  <1>6. ASSUME NEW i \in Ids, Inspect(i) \/ CancelUnknown(i) PROVE TruthInv'
    <2>0. gen > 0 /\ Run(gen, i, FALSE)
      BY <1>6, Zenon DEF Inspect, CancelUnknown, Serving
    <2>1. gen \in Gens
      BY <2>0, JobsAssumption DEF TypeOK, Gens
    <2>2. /\ disk' = [disk EXCEPT ![i] = [disk[i] EXCEPT !.status = "checking"]]
          /\ UNCHANGED <<loaded, threadVars>>
      BY <1>6 DEF Inspect, CancelUnknown
    <2>3. ToldNext(i, [disk[i] EXCEPT !.status = "checking"])
      BY <1>a, ToldRestated, StatusNames DEF TypeOK, Transient
    <2>4. [disk[i] EXCEPT !.status = "checking"].status # "none"
      BY RowFacts, StatusNames DEF TypeOK, Transient
    <2>5. \A n \in Ids : ToldNext(n, disk'[n]) /\ (disk'[n].status = "none" => disk'[n].code = "null")
      BY <1>a, <2>2, <2>3, <2>4 DEF TypeOK
    <2>6. \A h \in Gens : \A k \in DOMAIN queue'[h] :
            /\ PublishedNext(queue'[h][k].id, queue'[h][k].code)
            /\ queue'[h][k].create => queue'[h][k].code = "null"
      BY <2>0, <2>1, RunTruth
    <2> QED
      BY <1>a, <2>2, <2>5, <2>6, QuietTruth
  <1>7. ASSUME NEW i \in Ids, CancelControlled(i) PROVE TruthInv'
    <2>1. PICK s \in {"cancel_requested", "cancelled"} :
            disk' = [disk EXCEPT ![i] = [disk[i] EXCEPT !.status = s]]
      BY <1>7, Zenon DEF CancelControlled
    <2>2. UNCHANGED <<loaded, queue, threadVars>>
      BY <1>7 DEF CancelControlled
    <2>3. s \in Statuses \ {"completed", "failed"}
      BY StatusNames DEF Transient
    <2>4. ToldNext(i, [disk[i] EXCEPT !.status = s]) /\ [disk[i] EXCEPT !.status = s].status # "none"
      BY <1>a, <2>3, ToldRestated, RowFacts DEF TypeOK
    <2>5. \A n \in Ids : ToldNext(n, disk'[n]) /\ (disk'[n].status = "none" => disk'[n].code = "null")
      BY <1>a, <2>1, <2>4 DEF TypeOK
    <2> QED
      BY <1>a, <2>2, <2>5, QuietTruth
  <1>8. CASE Crash
    <2>1. \A g \in Gens : ToldAt(g)'
      BY <1>8 DEF Crash, ToldAt
    <2>2. disk' = disk /\ loaded' = Nothing
      BY <1>8 DEF Crash
    <2> QED
      BY <1>a, <2>1, <2>2 DEF TruthInv, Told, ToldNext, Published, PublishedNext
  <1>9. ASSUME NEW g \in Gens, WorkerStep(g) \/ Deliver(g) PROVE TruthInv'
    <2>a. /\ WorkerAt(g) /\ ToldAt(g) /\ row[g] \in Row
          /\ pc[g] # "idle" => job[g] \in Ids /\ ToldNext(job[g], row[g])
          /\ rpc[g] = "done" /\ pc[g] = "install" => job[g] \in installed'
      BY TruthNext DEF WorkerInv, WorkerAt, TruthInv, TypeOK
    <2>b. \A s \in Statuses : [row[g] EXCEPT !.status = s].status = s
                              /\ [row[g] EXCEPT !.status = s].code = row[g].code
      BY <2>a, RowFacts
    <2>c. \A s \in Statuses \ {"completed", "failed"} :
            pc[g] # "idle" => ToldNext(job[g], [row[g] EXCEPT !.status = s])
      BY <2>a, ToldRestated
    <2> USE DEF TypeOK
    <2>1. CASE Take(g)
      <3>1. PICK task : task = Head(queue[g])
        OBVIOUS
      <3>2. queue[g] \in Seq(Task) /\ queue[g] # <<>>
        BY <2>1 DEF Take
      <3>3. /\ task \in Task /\ task = queue[g][1] /\ 1 \in DOMAIN queue[g]
            /\ \A k \in DOMAIN Tail(queue[g]) :
                 k + 1 \in DOMAIN queue[g] /\ Tail(queue[g])[k] = queue[g][k + 1]
        BY <3>1, <3>2, TailFacts
      <3>4. /\ pc'[g] = "begin" /\ job'[g] = task.id /\ submitted'[g] = ~task.create
            /\ row'[g] = [status |-> IF task.create THEN "queued" ELSE "checking", code |-> task.code]
            /\ queue'[g] = Tail(queue[g])
        BY <2>1, <3>1 DEF Take
      <3>5. PublishedNext(task.id, task.code) /\ (task.create => task.code = "null")
        BY <1>a, <3>3
      <3>6. row'[g].status \in {"queued", "checking"} /\ row'[g].code = task.code
        BY <3>4
      <3>7. ToldNext(job'[g], row'[g])
        BY <3>4, <3>5, <3>6 DEF ToldNext
      <3>8. task.create \in BOOLEAN
        BY <3>3 DEF Task
      <3>9. ~submitted'[g] => row'[g].code = "null"
        BY <3>4, <3>5, <3>6, <3>8
      <3>10. \A k \in DOMAIN queue'[g] :
               /\ PublishedNext(queue'[g][k].id, queue'[g][k].code)
               /\ queue'[g][k].create => queue'[g][k].code = "null"
        BY <1>a, <3>3, <3>4
      <3>11. ToldAt(g)'
        BY <3>4, <3>7, <3>9, <3>10 DEF ToldAt, Told, ToldNext, Published, PublishedNext
      <3>12. loaded' = loaded /\ disk' = disk
        BY <2>1 DEF Take
      <3> QED
        BY <1>9, <3>11, <3>12, WorkerTruth
    <2>2. CASE Begin(g) \/ Verify(g) \/ Send(g) \/ Poll(g)
      <3>1. /\ loaded' = loaded /\ disk' = disk /\ queue' = queue
            /\ job' = job /\ row' = row /\ submitted' = submitted
        BY <2>2 DEF Begin, Verify, Send, Poll
      <3>2. /\ pc[g] \notin {"idle", "finish"}
            /\ rpc'[g] = "done" /\ pc'[g] = "install" => rpc[g] = "done" /\ pc[g] = "install"
        BY <2>2 DEF Begin, Verify, Send, Poll, WorkerInv, WorkerAt
      <3>3. ToldAt(g)'
        BY <2>a, <3>1, <3>2, WorkerTold DEF ToldAt
      <3> QED
        BY <1>9, <3>1, <3>3, WorkerTruth
    <2>3. CASE Check1(g) \/ Check2(g)
      <3>1. /\ loaded' = loaded /\ disk' = disk /\ queue' = queue /\ job' = job /\ rpc' = rpc
            /\ pc[g] \in {"check1", "check2"} /\ pc'[g] # "install"
        BY <2>3 DEF Check1, Check2
      <3>2. row'[g] = row[g] \/ row'[g] = [row[g] EXCEPT !.status = "cancelled"]
        BY <2>3 DEF Check1, Check2
      <3>3. ToldNext(job'[g], row'[g])
        <4>1. "cancelled" \in Statuses \ {"completed", "failed"}
          BY StatusNames
        <4>2. ToldNext(job[g], row[g]) /\ ToldNext(job[g], [row[g] EXCEPT !.status = "cancelled"])
          BY <2>a, <2>c, <3>1, <4>1
        <4> QED
          BY <3>1, <3>2, <4>2
      <3>4. submitted'[g] = submitted[g] \/ submitted'[g]
        BY <2>3 DEF Check1, Check2
      <3>5. row'[g].code = row[g].code
        BY <2>b, <3>2, StatusNames
      <3>6. ToldAt(g)'
        BY <2>a, <3>1, <3>3, <3>4, <3>5, WorkerTold DEF ToldAt
      <3> QED
        BY <1>9, <3>1, <3>6, WorkerTruth
    <2>4. CASE Announce(g) \/ Stage(g)
      <3>1. PICK s \in {"starting", "checking", "running"} : row' = [row EXCEPT ![g].status = s]
        BY <2>4, Zenon DEF Announce, Stage
      <3>2. s \in Statuses \ {"completed", "failed"}
        BY StatusNames DEF Transient
      <3>3. row'[g] = [row[g] EXCEPT !.status = s]
        BY <3>1
      <3>4. /\ loaded' = loaded /\ queue' = queue /\ job' = job /\ submitted' = submitted /\ rpc' = rpc
            /\ pc[g] \in {"announce", "stage"} /\ disk' = [disk EXCEPT ![job[g]] = row'[g]]
        BY <2>4 DEF Announce, Stage
      <3>5. ToldNext(job[g], row'[g]) /\ row'[g].status = s /\ row'[g].code = row[g].code
        BY <2>b, <2>c, <3>2, <3>3, <3>4
      <3>6. rpc[g] = "none"
        BY <2>a, <3>4 DEF WorkerAt
      <3>7. ToldAt(g)'
        BY <2>a, <3>4, <3>5, <3>6, WorkerTold DEF ToldAt
      <3>8. \A i \in Ids : disk'[i] = disk[i] \/ (ToldNext(i, disk'[i]) /\ disk'[i].status # "none")
        BY <3>1, <3>4, <3>5
      <3> QED
        BY <1>9, <3>4, <3>7, <3>8, WorkerTruth
    <2>5. CASE Prove(g) \/ Record(g)
      <3>1. /\ loaded' = loaded /\ queue' = queue /\ job' = job /\ submitted' = submitted /\ rpc' = rpc
            /\ pc[g] \in {"prove", "record"} /\ disk' = [disk EXCEPT ![job[g]] = row[g]] /\ row' = row
        BY <2>5 DEF Prove, Record
      <3>2. rpc[g] = "none" /\ row[g].status # "none"
        BY <2>a, <3>1 DEF WorkerAt
      <3>3. ToldAt(g)'
        BY <2>a, <3>1, <3>2, WorkerTold DEF ToldAt
      <3>4. \A i \in Ids : disk'[i] = disk[i] \/ (ToldNext(i, disk'[i]) /\ disk'[i].status # "none")
        BY <2>a, <3>1, <3>2
      <3> QED
        BY <1>9, <3>1, <3>3, <3>4, WorkerTruth
    <2>6. CASE Answered(g)
      <3>1. /\ loaded' = loaded /\ disk' = disk /\ queue' = queue /\ job' = job /\ submitted' = submitted
            /\ rpc'[g] = "none" /\ rpc[g] = "done"
        BY <2>6 DEF Answered
      <3>2. pc[g] \in {"install", "start", "sendCancel"} /\ pc'[g] # "idle"
        BY <2>a, <2>6, <3>1 DEF Answered, WorkerAt
      <3>3. CASE pc[g] = "install"
        <4>1. row'[g] = [status |-> "completed", code |-> "zero"]
          BY <2>6, <3>3 DEF Answered
        <4>2. job[g] \in InstallJobs /\ job[g] \in installed'
          BY <2>a, <3>1, <3>3 DEF WorkerAt
        <4>3. ToldNext(job'[g], row'[g])
          BY <3>1, <4>1, <4>2, JobsAssumption DEF ToldNext, PublishedNext
        <4>4. pc'[g] = "finish"
          BY <2>6, <3>3 DEF Answered
        <4>5. ToldAt(g)'
          BY <3>1, <4>3, <4>4, WorkerTold
        <4> QED
          BY <1>9, <3>1, <4>5, WorkerTruth
      <3>4. CASE pc[g] # "install"
        <4>1. row' = row
          BY <2>6, <3>4 DEF Answered
        <4>2. ToldAt(g)'
          BY <2>a, <3>1, <3>2, <4>1, WorkerTold DEF ToldAt
        <4> QED
          BY <1>9, <3>1, <4>2, WorkerTruth
      <3> QED
        BY <3>3, <3>4
    <2>7. CASE Query(g)
      <3>1. PICK report \in Reports(job[g]) :
              row' = [row EXCEPT ![g] = [status |-> StatusOf(report), code |-> CodeOf(report)]]
        BY <2>7 DEF Query
      <3>2. job[g] \in ShellJobs /\ pc[g] = "query" /\ submitted[g]
        BY <2>7, <2>a DEF Query, WorkerAt
      <3>3. row'[g].status = StatusOf(report) /\ row'[g].code = CodeOf(report)
        BY <3>1
      <3>4. /\ loaded' = loaded /\ disk' = disk /\ queue' = queue /\ job' = job
            /\ submitted' = submitted /\ UNCHANGED remoteVars /\ pc'[g] = "record"
        BY <2>7 DEF Query
      <3>5. ToldNext(job'[g], row'[g])
        BY <3>2, <3>3, <3>4, ReportIsTrue DEF TruthInv, ToldNext, PublishedNext, remoteVars
      <3>6. ToldAt(g)'
        BY <3>2, <3>4, <3>5, WorkerTold
      <3> QED
        BY <1>9, <3>4, <3>6, WorkerTruth
    <2>8. CASE Fail(g)
      <3>1. /\ row' = [row EXCEPT ![g].status = Failure(g)] /\ pc'[g] = "finish" /\ job' = job
            /\ loaded' = loaded /\ disk' = disk /\ queue' = queue /\ pc[g] \notin {"idle", "finish"}
        BY <2>8 DEF Fail
      <3>2. row'[g] = [row[g] EXCEPT !.status = Failure(g)]
        BY <3>1
      <3>3. ToldNext(job'[g], row'[g])
        <4>1. CASE submitted[g]
          BY <2>c, <3>1, <3>2, <4>1, StatusNames DEF Failure
        <4>2. CASE ~submitted[g]
          <5>1. row'[g].status = "failed" /\ row'[g].code = "null"
            BY <2>a, <2>b, <3>1, <3>2, <4>2, StatusNames DEF Failure, ToldAt
          <5> QED
            BY <5>1 DEF ToldNext, PublishedNext
        <4> QED
          BY <4>1, <4>2
      <3>4. ToldAt(g)'
        BY <3>1, <3>3, WorkerTold
      <3> QED
        BY <1>9, <3>1, <3>4, WorkerTruth
    <2>9. CASE Finally(g)
      <3>1. /\ loaded' = loaded /\ queue' = queue /\ pc'[g] = "idle" /\ pc[g] = "finish"
            /\ disk' = [disk EXCEPT ![job[g]] = row[g]]
        BY <2>9 DEF Finally
      <3>2. ToldAt(g)'
        BY <3>1, WorkerTold
      <3>3. \A i \in Ids : disk'[i] = disk[i] \/ (ToldNext(i, disk'[i]) /\ disk'[i].status # "none")
        BY <2>a, <3>1 DEF WorkerAt
      <3> QED
        BY <1>9, <3>1, <3>2, <3>3, WorkerTruth
    <2>10. CASE Deliver(g)
      <3>1. PICK request \in Abandoned(g), answer \in {"done", "refused"} :
              Execute(request.op, request.id, answer) /\ rpc' = [rpc EXCEPT ![g] = answer]
        BY <2>10 DEF Deliver
      <3>2. /\ loaded' = loaded /\ disk' = disk /\ queue' = queue /\ job' = job /\ row' = row
            /\ submitted' = submitted /\ pc' = pc
        BY <2>10 DEF Deliver
      <3>3. pc[g] \notin {"idle", "finish"}
        BY <2>10, <2>a DEF Deliver, WorkerAt
      <3>4. request \in Ghosts /\ (pc[g] = "install" => request.op = "install" /\ request.id = job[g])
        BY <3>1, AbandonedFacts DEF Abandoned
      <3>5. rpc'[g] = "done" /\ pc'[g] = "install" => job'[g] \in installed'
        BY <3>1, <3>2, <3>4, ExecuteKeeps DEF TruthInv
      <3>6. ToldAt(g)'
        BY <2>a, <3>2, <3>3, <3>5, WorkerTold DEF ToldAt
      <3> QED
        BY <1>9, <3>2, <3>6, WorkerTruth
    <2> QED
      BY <1>9, <2>1, <2>2, <2>3, <2>4, <2>5, <2>6, <2>7, <2>8, <2>9, <2>10 DEF WorkerStep
  <1> QED
    BY <1>1, <1>2, <1>3, <1>4, <1>5, <1>6, <1>7, <1>8, <1>9 DEF Next, Constructor, Request

LEMMA TruthInit == Init => TruthInv
  BY DEF Init, RemoteInit, TruthInv, RemoteInv, Told, Published, ToldAt, Stored

\* An exit code in a row, and what "completed" and "failed" say with it, is what the
\* job itself published, whoever rewrote the row since.
THEOREM CodesTrue == Spec => []CodesAreTrue
  <1>1. Init => TruthInv
    BY TruthInit
  <1>2. TypeOK /\ ClaimsAreUnique /\ TruthInv /\ [Next]_vars => TruthInv'
    BY TruthStep DEF ClaimsAreUnique
  <1>3. TruthInv => CodesAreTrue
    BY DEF TruthInv, CodesAreTrue, Told, Published
  <1> QED
    BY <1>1, <1>2, <1>3, Typed, Claims, PTL DEF Spec

-----------------------------------------------------------------------------
(***************************************************************************)
(* Owners: who holds a job, and what becomes of its row.                   *)
(***************************************************************************)
\* The six ways a row is written.
LEMMA RowWrites ==
  ASSUME TypeOK, WorkerInv, [Next]_vars, NEW i \in Ids
  PROVE  \/ disk'[i] = disk[i]
         \/ Submit(i) /\ disk'[i] = Stored("queued")
         \/ (Inspect(i) \/ CancelUnknown(i)) /\ disk'[i].status = "checking"
         \/ /\ CancelControlled(i)
            /\ disk'[i].status = IF current[gen] = i THEN "cancel_requested" ELSE "cancelled"
         \/ RecoverSave /\ loaded # Nothing /\ loaded.id = i /\ disk'[i] = loaded.row
         \/ \E g \in Gens :
              /\ job[g] = i /\ pc[g] # "idle"
              /\ \/ Announce(g) /\ disk'[i].status \in {"starting", "checking"}
                 \/ Stage(g) /\ disk'[i].status = "running"
                 \/ (Prove(g) \/ Record(g) \/ Finally(g)) /\ disk'[i] = row[g]
  <1> USE DEF diskVars, Save, SetRow
  <1> DEFINE Same == disk'[i] = disk[i]
  <1>1. CASE NewInstance \/ Booted \/ Close \/ Crash \/ DeliverGhost \/ UNCHANGED vars
    BY <1>1 DEF NewInstance, Booted, Close, Crash, DeliverGhost, vars
  <1>2. ASSUME NEW j \in ShellJobs, Remote(j) PROVE Same
    BY <1>2 DEF Remote
  <1>3. ASSUME NEW n \in Ids, RecoverLoad(n) PROVE Same
    BY <1>3 DEF RecoverLoad
  <1>4. CASE RecoverSave
    BY <1>4 DEF RecoverSave, TypeOK
  <1>5. ASSUME NEW n \in Ids, Submit(n) PROVE Same \/ (Submit(i) /\ disk'[i] = Stored("queued"))
    BY <1>5 DEF Submit, TypeOK
  <1>6. ASSUME NEW n \in Ids, Inspect(n) \/ CancelUnknown(n)
        PROVE Same \/ ((Inspect(i) \/ CancelUnknown(i)) /\ disk'[i].status = "checking")
    <2>1. disk' = [disk EXCEPT ![n] = [disk[n] EXCEPT !.status = "checking"]]
      BY <1>6 DEF Inspect, CancelUnknown
    <2> QED
      BY <1>6, <2>1, RowFacts, StatusNames DEF TypeOK, Transient
  <1>7. ASSUME NEW n \in Ids, CancelControlled(n)
        PROVE \/ Same
              \/ /\ CancelControlled(i)
                 /\ disk'[i].status = IF current[gen] = i THEN "cancel_requested" ELSE "cancelled"
    <2>1. PICK s \in {"cancel_requested", "cancelled"} :
            /\ s = (IF current[gen] = n THEN "cancel_requested" ELSE "cancelled")
            /\ disk' = [disk EXCEPT ![n] = [disk[n] EXCEPT !.status = s]]
      BY <1>7, Zenon DEF CancelControlled
    <2>2. s \in Statuses
      BY <2>1, StatusNames DEF Transient
    <2>3. [disk[n] EXCEPT !.status = s].status = s
      BY <2>2, RowFacts DEF TypeOK
    <2> QED
      BY <1>7, <2>1, <2>3 DEF TypeOK
  <1>8. ASSUME NEW g \in Gens, WorkerStep(g) \/ Deliver(g)
        PROVE \/ Same
              \/ /\ job[g] = i /\ pc[g] # "idle"
                 /\ \/ Announce(g) /\ disk'[i].status \in {"starting", "checking"}
                    \/ Stage(g) /\ disk'[i].status = "running"
                    \/ (Prove(g) \/ Record(g) \/ Finally(g)) /\ disk'[i] = row[g]
    <2>1. CASE Announce(g) \/ Stage(g)
      <3>1. PICK s \in {"starting", "checking", "running"} :
              /\ row' = [row EXCEPT ![g].status = s]
              /\ (Announce(g) /\ s \in {"starting", "checking"}) \/ (Stage(g) /\ s = "running")
        BY <2>1, Zenon DEF Announce, Stage
      <3>2. s \in Statuses
        BY <3>1, StatusNames DEF Transient
      <3>3. row'[g].status = s
        BY <3>1, <3>2, RowPoint DEF TypeOK
      <3>4. disk' = [disk EXCEPT ![job[g]] = row'[g]] /\ pc[g] # "idle"
        BY <2>1 DEF Announce, Stage
      <3> QED
        BY <3>1, <3>3, <3>4 DEF TypeOK
    <2>2. CASE Prove(g) \/ Record(g) \/ Finally(g)
      <3>1. disk' = [disk EXCEPT ![job[g]] = row[g]] /\ pc[g] # "idle"
        BY <2>2 DEF Prove, Record, Finally
      <3> QED
        BY <2>2, <3>1 DEF TypeOK
    <2>3. CASE Take(g) \/ Begin(g) \/ Check1(g) \/ Check2(g) \/ Verify(g) \/ Send(g) \/ Answered(g) \/ Poll(g)
                 \/ Query(g) \/ Fail(g) \/ Deliver(g)
      BY <2>3 DEF Take, Begin, Check1, Check2, Verify, Send, Answered, Poll, Query, Fail, Deliver
    <2> QED
      BY <1>8, <2>1, <2>2, <2>3 DEF WorkerStep
  <1> QED
    BY <1>1, <1>2, <1>3, <1>4, <1>5, <1>6, <1>7, <1>8 DEF Next, Constructor, Request

\* No row is ever erased.
LEMMA RowsStay ==
  ASSUME TypeOK, WorkerInv, HandedInv, [Next]_vars, NEW i \in Ids, disk[i].status # "none"
  PROVE  disk'[i].status # "none"
  BY RowWrites DEF WorkerInv, WorkerAt, HandedInv, Stored

\* What a generation has queued and holds are different jobs, each with its control.
OwnerAt(g) ==
  /\ pc[g] # "idle" => job[g] \in controls[g]
  /\ \A k \in DOMAIN queue[g] :
       queue[g][k].id \in controls[g] /\ (pc[g] # "idle" => queue[g][k].id # job[g])
  /\ \A k, l \in DOMAIN queue[g] : queue[g][k].id = queue[g][l].id => k = l
  /\ \A i \in controls[g] : disk[i].status # "none"
  /\ flagged[g] \subseteq controls[g]

\* Only the newest instance is open, a closed one has flagged all it holds, and one
\* that is not yet built holds nothing.
LifeAt(g) ==
  /\ life[g] = "none" <=> g > gen
  /\ life[g] \in {"none", "booting"} => controls[g] = {}
  /\ life[g] = "open" => g = gen
  /\ life[g] = "closed" => controls[g] \subseteq flagged[g]

OwnerInv ==
  /\ \A g \in Gens : OwnerAt(g) /\ LifeAt(g)
  /\ todo # {} => gen > 0 /\ life[gen] = "booting"
  /\ loaded # Nothing => disk[loaded.id].status # "none"

\* run() of a job without a control gives it one, and a place in the queue.
LEMMA RunOwner ==
  ASSUME TypeOK, NEW g \in Gens, NEW i \in Ids, NEW new \in BOOLEAN, Run(g, i, new),
         i \notin controls[g], OwnerAt(g)
  PROVE  /\ controls' = [controls EXCEPT ![g] = controls[g] \cup {i}]
         /\ controls'[g] = controls[g] \cup {i}
         /\ \A h \in Gens : h # g => controls'[h] = controls[h] /\ queue'[h] = queue[h]
         /\ \A k \in DOMAIN queue'[g] :
              queue'[g][k].id \in controls'[g] /\ (pc[g] # "idle" => queue'[g][k].id # job[g])
         /\ \A k, l \in DOMAIN queue'[g] : queue'[g][k].id = queue'[g][l].id => k = l
  <1> DEFINE task == [id |-> i, create |-> new, code |-> disk[i].code]
  <1>1. task \in Task /\ task.create = new /\ task.id = i
    BY DEF TypeOK, Task, Row
  <1>2. /\ queue' = [queue EXCEPT ![g] = Append(queue[g], task)]
        /\ controls' = [controls EXCEPT ![g] = controls[g] \cup {i}]
    BY DEF Run
  <1> HIDE DEF task
  <1>3. \A h \in Gens : h # g => controls'[h] = controls[h] /\ queue'[h] = queue[h]
    BY <1>2 DEF TypeOK
  <1>4. queue'[g] = Append(queue[g], task) /\ queue[g] \in Seq(Task) /\ controls'[g] = controls[g] \cup {i}
    BY <1>2 DEF TypeOK
  <1>5. /\ DOMAIN queue'[g] = DOMAIN queue[g] \cup {Len(queue[g]) + 1}
        /\ Len(queue[g]) + 1 \notin DOMAIN queue[g]
        /\ \A k \in DOMAIN queue[g] : queue'[g][k] = queue[g][k]
        /\ queue'[g][Len(queue[g]) + 1] = task
    BY <1>1, <1>4, AppendFacts
  <1>6. \A k \in DOMAIN queue'[g] :
          queue'[g][k].id \in controls'[g] /\ (pc[g] # "idle" => queue'[g][k].id # job[g])
    BY <1>1, <1>4, <1>5 DEF OwnerAt
  <1>7. \A k, l \in DOMAIN queue'[g] : queue'[g][k].id = queue'[g][l].id => k = l
    BY <1>1, <1>5 DEF OwnerAt
  <1> QED
    BY <1>2, <1>3, <1>4, <1>6, <1>7

LEMMA OwnerStep ==
  TypeOK /\ WorkerInv /\ HandedInv /\ OwnerInv /\ [Next]_vars => OwnerInv'
  <1> SUFFICES ASSUME TypeOK, WorkerInv, HandedInv, OwnerInv, [Next]_vars PROVE OwnerInv'
    OBVIOUS
  <1> USE JobsAssumption
  <1> USE DEF diskVars, bootVars, queueVars, threadVars, Goto, Save, SetRow, Gens
  <1>a. \A g \in Gens : OwnerAt(g) /\ LifeAt(g) /\ controls[g] \subseteq Ids
    BY DEF OwnerInv, TypeOK
  <1>b. \A i \in Ids : disk[i].status # "none" => disk'[i].status # "none"
    BY RowsStay
  \* loaded and todo.
  <1>c. loaded' # Nothing => disk'[loaded'.id].status # "none"
    <2>1. loaded # Nothing => loaded.id \in Ids
      BY DEF TypeOK
    <2>2. CASE loaded' = loaded \/ loaded' = Nothing
      BY <1>b, <2>1, <2>2 DEF OwnerInv
    <2>3. ASSUME NEW i \in Ids, RecoverLoad(i) PROVE loaded' = loaded \/ disk'[loaded'.id].status # "none"
      BY <1>b, <2>3 DEF RecoverLoad, LeftBehind, Transient
    <2>4. loaded' = loaded \/ loaded' = Nothing \/ \E i \in Ids : RecoverLoad(i)
      <3>1. CASE NewInstance \/ RecoverSave \/ Booted \/ Close \/ Crash \/ DeliverGhost \/ UNCHANGED vars
        BY <3>1 DEF NewInstance, RecoverSave, Booted, Close, Crash, DeliverGhost, vars
      <3>2. CASE Request
        BY <3>2 DEF Request, Submit, Inspect, CancelControlled, CancelUnknown
      <3>3. ASSUME NEW g \in Gens, WorkerStep(g) \/ Deliver(g) PROVE loaded' = loaded
        BY <3>3 DEF WorkerStep, Deliver, Take, Begin, Check1, Announce, Prove, Check2, Stage, Verify, Send,
           Answered, Poll, Query, Record, Fail, Finally
      <3>4. ASSUME NEW j \in ShellJobs, Remote(j) PROVE loaded' = loaded
        BY <3>4 DEF Remote
      <3> QED
        BY <3>1, <3>2, <3>3, <3>4 DEF Next, Constructor
    <2> QED
      BY <2>2, <2>3, <2>4
  \* Steps that leave controls, queues and the jobs at hand alone.
  <1>1. ASSUME UNCHANGED <<pc, job, queue, controls>>, NEW h \in Gens, flagged'[h] \subseteq controls[h]
        PROVE OwnerAt(h)'
    BY <1>a, <1>b, <1>1 DEF OwnerAt
  <1>2. ASSUME UNCHANGED <<gen, life, todo, controls>>, \A g \in Gens : flagged[g] \subseteq flagged'[g]
        PROVE (\A g \in Gens : LifeAt(g)') /\ (todo' # {} => gen' > 0 /\ life'[gen'] = "booting")
    BY <1>a, <1>2 DEF LifeAt, OwnerInv
  <1>3. CASE NewInstance
    <2>1. UNCHANGED <<pc, job, queue, controls, flagged>>
      BY <1>3 DEF NewInstance
    <2>2. /\ gen \in Nat /\ gen' = gen + 1 /\ gen' \in Gens
          /\ gen > 0 => gen \in Gens /\ life[gen] \in {"closed", "dead"}
          /\ life'[gen'] = "booting" /\ \A g \in Gens : g # gen' => life'[g] = life[g]
      BY <1>3 DEF NewInstance, TypeOK
    <2>3. \A g \in Gens : life[g] # "open"
      BY <1>a, <2>2 DEF LifeAt
    <2>4. controls[gen'] = {}
      BY <1>a, <2>2 DEF LifeAt
    <2>5. \A g \in Gens : LifeAt(g)'
      BY <1>a, <2>1, <2>2, <2>3, <2>4 DEF LifeAt
    <2> QED
      BY <1>a, <1>c, <1>1, <2>1, <2>2, <2>5 DEF OwnerInv, OwnerAt
  <1>4. CASE Constructor
    <2>1. UNCHANGED <<pc, job, queue, controls, flagged, gen>>
      BY <1>4 DEF Constructor, RecoverLoad, RecoverSave, Booted
    <2>2. CASE Booted
      <3>1. /\ gen \in Gens /\ life[gen] = "booting" /\ todo' = {}
            /\ life'[gen] = "open" /\ \A g \in Gens : g # gen => life'[g] = life[g]
        BY <2>2 DEF Booted, TypeOK
      <3>2. \A g \in Gens : LifeAt(g)'
        BY <1>a, <2>1, <3>1 DEF LifeAt
      <3> QED
        BY <1>a, <1>c, <1>1, <2>1, <3>1, <3>2 DEF OwnerInv, OwnerAt
    <2>3. CASE ~Booted
      <3>1. life' = life /\ todo' \subseteq todo
        BY <1>4, <2>3 DEF Constructor, RecoverLoad, RecoverSave
      <3>2. \A g \in Gens : LifeAt(g)'
        BY <1>a, <2>1, <3>1 DEF LifeAt
      <3> QED
        BY <1>a, <1>c, <1>1, <2>1, <3>1, <3>2 DEF OwnerInv, OwnerAt
    <2> QED
      BY <2>2, <2>3
  <1>5. CASE DeliverGhost \/ UNCHANGED vars
    <2>1. UNCHANGED <<pc, job, queue, controls, flagged, gen, life, todo>>
      BY <1>5 DEF DeliverGhost, vars
    <2> QED
      BY <1>a, <1>c, <1>1, <1>2, <2>1 DEF OwnerInv, OwnerAt
  <1>6. ASSUME NEW j \in ShellJobs, Remote(j) PROVE OwnerInv'
    <2>1. UNCHANGED <<pc, job, queue, controls, flagged, gen, life, todo>>
      BY <1>6 DEF Remote
    <2> QED
      BY <1>a, <1>c, <1>1, <1>2, <2>1 DEF OwnerInv, OwnerAt
  <1>7. ASSUME NEW i \in Ids, CancelControlled(i) PROVE OwnerInv'
    <2>1. /\ UNCHANGED <<pc, job, queue, controls, gen, life, todo>>
          /\ gen \in Gens /\ i \in controls[gen]
          /\ flagged' = [flagged EXCEPT ![gen] = flagged[gen] \cup {i}]
      BY <1>7 DEF CancelControlled, Serving, TypeOK
    <2>2. \A g \in Gens : flagged[g] \subseteq flagged'[g] /\ flagged'[g] \subseteq controls[g]
      BY <1>a, <2>1 DEF OwnerAt, TypeOK
    <2> QED
      BY <1>c, <1>1, <1>2, <2>1, <2>2 DEF OwnerInv
  <1>8. CASE Close
    <2>1. /\ UNCHANGED <<pc, job, queue, controls, gen, todo>>
          /\ gen \in Gens /\ life[gen] = "open"
          /\ flagged' = [flagged EXCEPT ![gen] = controls[gen]]
          /\ life' = [life EXCEPT ![gen] = "closed"]
      BY <1>8 DEF Close, TypeOK
    <2>2. \A g \in Gens : flagged'[g] \subseteq controls[g]
      BY <1>a, <2>1 DEF OwnerAt, TypeOK
    <2>3. \A g \in Gens : LifeAt(g)'
      BY <1>a, <2>1 DEF LifeAt, TypeOK
    <2>4. todo' = {}
      BY <2>1 DEF OwnerInv
    <2> QED
      BY <1>c, <1>1, <2>1, <2>2, <2>3, <2>4 DEF OwnerInv
  <1>9. CASE Crash
    BY <1>a, <1>9 DEF Crash, OwnerInv, OwnerAt, LifeAt, TypeOK
  <1>10. ASSUME NEW i \in Ids, Submit(i) \/ Inspect(i) \/ CancelUnknown(i) PROVE OwnerInv'
    <2>1. PICK new \in BOOLEAN : Run(gen, i, new)
      BY <1>10, Zenon DEF Submit, Inspect, CancelUnknown
    <2>2. gen > 0 /\ life[gen] = "open"
      BY <1>10, Zenon DEF Submit, Inspect, CancelUnknown, Serving, Reopenable
    <2>3. gen \in Gens
      BY <2>2 DEF TypeOK
    <2>4. i \notin controls[gen]
      BY <1>a, <1>10, <2>3, Zenon DEF Submit, Inspect, CancelUnknown, Reopenable, OwnerAt
    <2>5. disk'[i].status # "none"
      <3>1. disk' = [disk EXCEPT ![i] = Stored("queued")]
              \/ disk' = [disk EXCEPT ![i] = [disk[i] EXCEPT !.status = "checking"]]
        BY <1>10 DEF Submit, Inspect, CancelUnknown
      <3>2. [disk[i] EXCEPT !.status = "checking"].status # "none" /\ Stored("queued").status # "none"
        BY RowFacts, StatusNames DEF TypeOK, Transient, Stored
      <3> QED
        BY <3>1, <3>2 DEF TypeOK
    <2>6. /\ UNCHANGED <<pc, job, gen, life, todo>>
          /\ \A h \in Gens : flagged'[h] = flagged[h] \/ (h = gen /\ flagged'[h] = flagged[h] \cup {i})
      <3>1. flagged' = flagged \/ flagged' = [flagged EXCEPT ![gen] = flagged[gen] \cup {i}]
        BY <1>10, Zenon DEF Submit, Inspect, CancelUnknown
      <3>2. \A h \in Gens : flagged'[h] = flagged[h] \/ (h = gen /\ flagged'[h] = flagged[h] \cup {i})
        BY <3>1 DEF TypeOK
      <3>3. UNCHANGED <<pc, job, gen, life, todo>>
        BY <1>10 DEF Submit, Inspect, CancelUnknown
      <3> QED
        BY <3>2, <3>3
    <2>7. /\ controls'[gen] = controls[gen] \cup {i}
          /\ \A h \in Gens : h # gen => controls'[h] = controls[h] /\ queue'[h] = queue[h]
          /\ \A k \in DOMAIN queue'[gen] :
               queue'[gen][k].id \in controls'[gen] /\ (pc[gen] # "idle" => queue'[gen][k].id # job[gen])
          /\ \A k, l \in DOMAIN queue'[gen] : queue'[gen][k].id = queue'[gen][l].id => k = l
      BY <1>a, <2>1, <2>3, <2>4, RunOwner
    <2>8. ASSUME NEW h \in Gens PROVE OwnerAt(h)' /\ LifeAt(h)'
      <3>1. CASE h # gen
        BY <1>a, <1>b, <2>6, <2>7, <3>1 DEF OwnerAt, LifeAt
      <3>2. CASE h = gen
        BY <1>a, <1>b, <2>2, <2>5, <2>6, <2>7, <3>2 DEF OwnerAt, LifeAt
      <3> QED
        BY <3>1, <3>2
    <2> QED
      BY <1>c, <2>6, <2>8 DEF OwnerInv
  <1>11. ASSUME NEW g \in Gens, WorkerStep(g) \/ Deliver(g) PROVE OwnerInv'
    <2>1. UNCHANGED <<gen, life, todo>>
      BY <1>11 DEF WorkerStep, Deliver, Take, Begin, Check1, Announce, Prove, Check2, Stage, Verify, Send,
         Answered, Poll, Query, Record, Fail, Finally
    <2>2. \A h \in Gens : h # g => pc'[h] = pc[h] /\ job'[h] = job[h] /\ queue'[h] = queue[h]
      BY <1>11, OtherWorkers
    <2>3. CASE Take(g)
      <3>1. PICK task : task = Head(queue[g])
        OBVIOUS
      <3>2. queue[g] \in Seq(Task) /\ queue[g] # <<>>
        BY <2>3 DEF Take, TypeOK
      <3>3. /\ task = queue[g][1] /\ 1 \in DOMAIN queue[g]
            /\ \A k \in DOMAIN Tail(queue[g]) :
                 k \in Nat \ {0} /\ k + 1 \in DOMAIN queue[g] /\ Tail(queue[g])[k] = queue[g][k + 1]
        BY <3>1, <3>2, TailFacts
      <3>4. job'[g] = task.id /\ queue'[g] = Tail(queue[g]) /\ UNCHANGED <<controls, flagged>>
        BY <2>3, <3>1 DEF Take, TypeOK
      <3>5. job'[g] \in controls'[g]
        BY <1>a, <3>3, <3>4 DEF OwnerAt
      <3>6. ASSUME NEW k \in DOMAIN queue'[g]
            PROVE queue'[g][k].id \in controls'[g] /\ queue'[g][k].id # job'[g]
        <4>1. k + 1 \in DOMAIN queue[g] /\ k + 1 # 1 /\ queue'[g][k] = queue[g][k + 1]
          BY <3>3, <3>4
        <4> QED
          BY <1>a, <3>3, <3>4, <4>1 DEF OwnerAt
      <3>7. ASSUME NEW k \in DOMAIN queue'[g], NEW l \in DOMAIN queue'[g], queue'[g][k].id = queue'[g][l].id
            PROVE k = l
        <4>1. /\ k \in Nat /\ l \in Nat /\ k + 1 \in DOMAIN queue[g] /\ l + 1 \in DOMAIN queue[g]
              /\ queue'[g][k] = queue[g][k + 1] /\ queue'[g][l] = queue[g][l + 1]
          BY <3>3, <3>4
        <4>2. k + 1 = l + 1
          BY <1>a, <3>7, <4>1 DEF OwnerAt
        <4> QED
          BY <4>1, <4>2
      <3>8. OwnerAt(g)'
        <4>1. /\ \A i \in controls'[g] : disk'[i].status # "none"
              /\ flagged'[g] \subseteq controls'[g]
          BY <1>a, <1>b, <3>4 DEF OwnerAt
        <4> QED
          BY <3>5, <3>6, <3>7, <4>1 DEF OwnerAt
      <3>9. \A h \in Gens : OwnerAt(h)'
        <4>1. ASSUME NEW h \in Gens, h # g PROVE OwnerAt(h)'
          <5>1. /\ pc'[h] = pc[h] /\ job'[h] = job[h] /\ queue'[h] = queue[h]
                /\ controls'[h] = controls[h] /\ flagged'[h] = flagged[h]
            BY <2>2, <3>4, <4>1
          <5> QED
            BY <1>a, <1>b, <5>1 DEF OwnerAt
        <4> QED
          BY <3>8, <4>1
      <3> QED
        BY <1>c, <1>2, <2>1, <3>4, <3>9 DEF OwnerInv
    <2>4. CASE Finally(g)
      <3>1. /\ pc'[g] = "idle" /\ queue' = queue /\ pc[g] # "idle"
            /\ controls'[g] = controls[g] \ {job[g]} /\ flagged'[g] = flagged[g] \ {job[g]}
            /\ \A h \in Gens : h # g => controls'[h] = controls[h] /\ flagged'[h] = flagged[h]
        BY <2>4 DEF Finally, Release, TypeOK
      <3>2. OwnerAt(g)' /\ LifeAt(g)'
        BY <1>a, <1>b, <2>1, <3>1 DEF OwnerAt, LifeAt
      <3>3. \A h \in Gens : OwnerAt(h)' /\ LifeAt(h)'
        BY <1>a, <1>b, <2>1, <2>2, <3>1, <3>2 DEF OwnerAt, LifeAt
      <3> QED
        BY <1>c, <2>1, <3>3 DEF OwnerInv
    <2>5. CASE ~Take(g) /\ ~Finally(g)
      <3>1. UNCHANGED <<queue, controls, flagged, job>>
        BY <1>11, <2>5 DEF WorkerStep, Deliver, Begin, Check1, Announce, Prove, Check2, Stage, Verify, Send,
           Answered, Poll, Query, Record, Fail
      <3>2. pc[g] # "idle"
        BY <1>11, <2>5 DEF WorkerStep, Deliver, Begin, Check1, Announce, Prove, Check2, Stage, Verify, Send,
           Answered, Poll, Query, Record, Fail, WorkerInv, WorkerAt
      <3>3. \A h \in Gens : OwnerAt(h)'
        BY <1>a, <1>b, <2>2, <3>1, <3>2 DEF OwnerAt
      <3> QED
        BY <1>c, <1>2, <2>1, <3>1, <3>3 DEF OwnerInv
    <2> QED
      BY <2>3, <2>4, <2>5
  <1> QED
    BY <1>3, <1>4, <1>5, <1>6, <1>7, <1>8, <1>9, <1>10, <1>11 DEF Next, Request

LEMMA OwnerInit == Init => OwnerInv
  BY JobsAssumption DEF Init, OwnerInv, OwnerAt, LifeAt, Gens, Stored

\* The rows a worker is about to write last, and those it polls on.
PollAt(g) ==
  /\ pc[g] = "finish" => row[g].status \notin Transient
  /\ pc[g] = "record" => row[g].status \notin {"queued", "checking", "cancel_requested"}

Owned(i) ==
  \/ gen > 0 /\ life[gen] = "dead"
  \/ \E g \in Gens : i \in controls[g]
  \/ gen > 0 /\ life[gen] = "booting" /\ i \in todo

PollInv == \A g \in Gens : PollAt(g)

LEMMA PollStep == TypeOK /\ WorkerInv /\ PollInv /\ [Next]_vars => PollInv'
  <1> SUFFICES ASSUME TypeOK, WorkerInv, PollInv, [Next]_vars, NEW h \in Gens PROVE PollAt(h)'
    BY DEF PollInv
  <1>a. PollAt(h) /\ WorkerAt(h)
    BY DEF PollInv, WorkerInv
  <1> USE DEF threadVars, Goto, SetRow
  <1>1. ASSUME pc'[h] = pc[h], row'[h] = row[h] PROVE PollAt(h)'
    BY <1>a, <1>1 DEF PollAt
  <1>2. CASE NewInstance \/ Constructor \/ Close \/ DeliverGhost \/ UNCHANGED vars
    BY <1>1, <1>2 DEF NewInstance, Constructor, RecoverLoad, RecoverSave, Booted, Close, DeliverGhost, vars
  <1>3. CASE Request
    BY <1>1, <1>3 DEF Request, Submit, Inspect, CancelControlled, CancelUnknown
  <1>4. ASSUME NEW j \in ShellJobs, Remote(j) PROVE PollAt(h)'
    BY <1>1, <1>4 DEF Remote
  <1>5. CASE Crash
    BY <1>5 DEF Crash, PollAt
  <1>6. ASSUME NEW g \in Gens, g # h, WorkerStep(g) \/ Deliver(g) PROVE PollAt(h)'
    BY <1>1, <1>6, OtherWorkers
  <1> USE DEF TypeOK
  <1>7. CASE Take(h) \/ Begin(h) \/ Announce(h) \/ Prove(h) \/ Stage(h) \/ Poll(h) \/ Finally(h)
    <2>1. pc'[h] \notin {"finish", "record"}
      BY <1>7 DEF Take, Begin, Announce, Prove, Stage, Poll, Finally
    <2> QED
      BY <2>1 DEF PollAt
  <1>8. CASE Verify(h) \/ Send(h) \/ Deliver(h)
    BY <1>1, <1>8 DEF Verify, Send, Deliver
  <1>9. CASE Check1(h) \/ Check2(h)
    <2>1. CASE Cancelled(h)
      <3>1. row' = [row EXCEPT ![h].status = "cancelled"] /\ pc'[h] = "finish"
        BY <1>9, <2>1 DEF Check1, Check2
      <3>2. row'[h].status = "cancelled"
        BY <3>1, RowPoint, StatusNames
      <3> QED
        BY <3>1, <3>2 DEF PollAt, Transient
    <2>2. CASE ~Cancelled(h)
      <3>1. pc'[h] \notin {"finish", "record"}
        BY <1>9, <2>2 DEF Check1, Check2
      <3> QED
        BY <3>1 DEF PollAt
    <2> QED
      BY <2>1, <2>2
  <1>10. CASE Answered(h)
    <2>1. pc'[h] = "finish" => row'[h].status = "completed"
      BY <1>10, <1>a DEF Answered, WorkerAt
    <2>2. pc'[h] # "record"
      BY <1>10 DEF Answered
    <2> QED
      BY <2>1, <2>2 DEF PollAt, Transient
  <1>11. CASE Query(h)
    <2>1. PICK report \in Reports(job[h]) :
            row' = [row EXCEPT ![h] = [status |-> StatusOf(report), code |-> CodeOf(report)]]
      BY <1>11 DEF Query
    <2>2. job[h] \in ShellJobs /\ pc'[h] = "record"
      BY <1>11, <1>a DEF Query, WorkerAt
    <2>3. row'[h].status \in {"starting", "running", "completed", "failed", "cancelled", "unknown"}
      BY <2>1, <2>2, ReportFacts
    <2> QED
      BY <2>2, <2>3 DEF PollAt
  <1>12. CASE Record(h)
    BY <1>12, <1>a DEF Record, PollAt, Transient
  <1>13. CASE Fail(h)
    <2>1. row' = [row EXCEPT ![h].status = Failure(h)] /\ Failure(h) \in {"failed", "unknown"} /\ pc'[h] = "finish"
      BY <1>13 DEF Fail, Failure
    <2>2. row'[h].status = Failure(h)
      BY <2>1, RowPoint, StatusNames
    <2> QED
      BY <2>1, <2>2 DEF PollAt, Transient
  <1> QED
    BY <1>2, <1>3, <1>4, <1>5, <1>6, <1>7, <1>8, <1>9, <1>10, <1>11, <1>12, <1>13
       DEF Next, WorkerStep

\* Who gains a control: the job of the call that runs it, in the newest instance.
LEMMA RunControls ==
  ASSUME TypeOK, NEW i \in Ids, Submit(i) \/ Inspect(i) \/ CancelUnknown(i)
  PROVE  gen \in Gens /\ i \in controls'[gen] /\ \A g \in Gens : controls[g] \subseteq controls'[g]
  <1>1. controls' = [controls EXCEPT ![gen] = controls[gen] \cup {i}] /\ gen > 0
    BY Zenon DEF Submit, Inspect, CancelUnknown, Run, Serving
  <1> QED
    BY <1>1, JobsAssumption DEF TypeOK, Gens

LEMMA OwnedStep ==
  TypeOK /\ WorkerInv /\ HandedInv /\ OwnerInv /\ PollInv /\ PolledRowsAreOwned /\ [Next]_vars
    => PolledRowsAreOwned'
  <1> SUFFICES ASSUME TypeOK, WorkerInv, HandedInv, OwnerInv, PollInv, PolledRowsAreOwned, [Next]_vars,
                      NEW i \in Ids, disk'[i].status \in Transient
               PROVE  Owned(i)'
    BY DEF PolledRowsAreOwned, Owned
  <1> USE JobsAssumption
  <1> USE DEF diskVars, bootVars, queueVars, threadVars, Goto, Save, SetRow, Gens
  <1>1. ASSUME NEW g \in Gens, i \in controls'[g] PROVE Owned(i)'
    BY <1>1 DEF Owned
  \* Rows written by this step.
  <1>2. CASE disk'[i] # disk[i]
    <2>1. CASE Submit(i) \/ Inspect(i) \/ CancelUnknown(i)
      BY <1>1, <2>1, RunControls
    <2>2. CASE CancelControlled(i)
      <3>1. gen \in Gens /\ i \in controls'[gen]
        BY <2>2 DEF CancelControlled, Serving, TypeOK
      <3> QED
        BY <1>1, <3>1
    <2>3. ~(RecoverSave /\ loaded # Nothing /\ loaded.id = i /\ disk'[i] = loaded.row)
      BY DEF HandedInv, Transient
    <2>4. ASSUME NEW g \in Gens, job[g] = i, pc[g] # "idle",
                 Announce(g) \/ Stage(g) \/ Prove(g) \/ Record(g)
          PROVE  Owned(i)'
      <3>1. controls' = controls
        BY <2>4 DEF Announce, Stage, Prove, Record
      <3> QED
        BY <1>1, <2>4, <3>1 DEF OwnerInv, OwnerAt
    <2>5. ASSUME NEW g \in Gens, Finally(g), disk'[i] = row[g] PROVE FALSE
      BY <2>5 DEF PollInv, PollAt, Finally
    <2> QED
      BY <1>2, <2>1, <2>2, <2>3, <2>4, <2>5, RowWrites
  \* Rows left as they are.
  <1>3. CASE disk'[i] = disk[i]
    <2>1. Owned(i)
      BY <1>3 DEF PolledRowsAreOwned, Owned
    <2>2. ASSUME UNCHANGED <<gen, life, todo, controls>> PROVE Owned(i)'
      BY <2>1, <2>2 DEF Owned
    <2>3. CASE NewInstance
      <3>1. disk[i].status # "none"
        BY <1>3 DEF Transient
      <3>2. i \in todo'
        BY <2>3, <3>1 DEF NewInstance
      <3>3. gen' = gen + 1 /\ gen' \in Gens /\ life' = [life EXCEPT ![gen'] = "booting"]
        BY <2>3, JobsAssumption DEF NewInstance, TypeOK, Gens
      <3>4. life'[gen'] = "booting" /\ gen' > 0
        BY <3>3 DEF TypeOK, Gens
      <3> QED
        BY <3>2, <3>4 DEF Owned
    <2>4. ASSUME NEW n \in Ids, RecoverLoad(n) PROVE Owned(i)'
      <3>1. UNCHANGED <<gen, life, controls>> /\ (i \in todo => i \in todo')
        BY <1>3, <2>4 DEF RecoverLoad, LeftBehind
      <3> QED
        BY <2>1, <3>1 DEF Owned
    <2>5. CASE RecoverSave
      <3>1. loaded.id # i
        BY <2>5 DEF RecoverSave, HandedInv, Transient, TypeOK
      <3>2. UNCHANGED <<gen, life, controls>> /\ (i \in todo => i \in todo')
        BY <2>5, <3>1 DEF RecoverSave
      <3> QED
        BY <2>1, <3>2 DEF Owned
    <2>6. CASE Booted
      BY <2>1, <2>6 DEF Booted, Owned, TypeOK
    <2>7. CASE Close
      <3>1. gen \in Gens /\ life[gen] = "open" /\ controls' = controls
        BY <2>7 DEF Close, TypeOK
      <3> QED
        BY <2>1, <3>1 DEF Owned
    <2>8. CASE Crash
      <3>1. gen' = gen /\ gen > 0 /\ gen \in Gens /\ life' = [g \in Gens |-> IF life[g] = "none" THEN "none" ELSE "dead"]
        BY <2>8 DEF Crash, TypeOK
      <3>2. life[gen] # "none"
        BY <3>1 DEF OwnerInv, LifeAt
      <3> QED
        BY <3>1, <3>2 DEF Owned
    <2>9. CASE DeliverGhost \/ UNCHANGED vars
      BY <2>2, <2>9 DEF DeliverGhost, vars
    <2>10. ASSUME NEW j \in ShellJobs, Remote(j) PROVE Owned(i)'
      BY <2>2, <2>10 DEF Remote
    <2>11. ASSUME NEW n \in Ids, Submit(n) \/ Inspect(n) \/ CancelUnknown(n) PROVE Owned(i)'
      <3>1. UNCHANGED <<gen, life, todo>>
        BY <2>11 DEF Submit, Inspect, CancelUnknown
      <3> QED
        BY <2>1, <2>11, <3>1, RunControls DEF Owned
    <2>12. ASSUME NEW n \in Ids, CancelControlled(n) PROVE Owned(i)'
      BY <2>2, <2>12 DEF CancelControlled
    <2>13. ASSUME NEW g \in Gens, WorkerStep(g) \/ Deliver(g) PROVE Owned(i)'
      <3>1. UNCHANGED <<gen, life, todo>>
        BY <2>13 DEF WorkerStep, Deliver, Take, Begin, Check1, Announce, Prove, Check2, Stage, Verify, Send,
           Answered, Poll, Query, Record, Fail, Finally
      <3>2. CASE Finally(g)
        <4>1. i # job[g]
          BY <3>2 DEF Finally, PollInv, PollAt, TypeOK
        <4>2. \A h \in Gens : i \in controls[h] => i \in controls'[h]
          BY <3>2, <4>1 DEF Finally, Release, TypeOK
        <4> QED
          BY <2>1, <3>1, <4>2 DEF Owned
      <3>3. CASE ~Finally(g)
        <4>1. controls' = controls
          BY <2>13, <3>3 DEF WorkerStep, Deliver, Take, Begin, Check1, Announce, Prove, Check2, Stage,
             Verify, Send, Answered, Poll, Query, Record, Fail
        <4> QED
          BY <2>2, <3>1, <4>1
      <3> QED
        BY <3>2, <3>3
    <2> QED
      BY <2>3, <2>4, <2>5, <2>6, <2>7, <2>8, <2>9, <2>10, <2>11, <2>12, <2>13
         DEF Next, Constructor, Request
  <1> QED
    BY <1>2, <1>3

LEMMA PollInit == Init => PollInv /\ PolledRowsAreOwned
  BY DEF Init, PollInv, PollAt, PolledRowsAreOwned, Stored, Transient

\* Controls, queues and flags of every instance agree, and only the newest is open.
THEOREM Owners == Spec => []OwnerInv
  <1>1. Init => OwnerInv
    BY OwnerInit
  <1>2. TypeOK /\ ClaimsAreUnique /\ OwnerInv /\ [Next]_vars => OwnerInv'
    BY OwnerStep DEF ClaimsAreUnique
  <1> QED
    BY <1>1, <1>2, Typed, Claims, PTL DEF Spec

\* A row a client still polls on has a live owner, or a constructor has still to look
\* at it, unless the app is dead.
THEOREM PolledOwned == Spec => []PolledRowsAreOwned
  <1>1. Init => PollInv /\ PolledRowsAreOwned
    BY PollInit
  <1>2. TypeOK /\ ClaimsAreUnique /\ OwnerInv /\ PollInv /\ PolledRowsAreOwned /\ [Next]_vars
          => PollInv' /\ PolledRowsAreOwned'
    BY PollStep, OwnedStep DEF ClaimsAreUnique
  <1> QED
    BY <1>1, <1>2, Typed, Claims, Owners, PTL DEF Spec

-----------------------------------------------------------------------------
(***************************************************************************)
(* Cancellation.  A claim that a flag has caught ends at the next look at  *)
(* the flag; what is over stays over.                                      *)
(***************************************************************************)
\* A worker comes to hold a claim only by taking it from its queue.
LEMMA HeldGrowth ==
  ASSUME TypeOK, WorkerInv, [Next]_vars, NEW g \in Gens, NEW i \in Ids, HeldNew(g, i)'
  PROVE  HeldNew(g, i) \/ (Take(g) /\ QueuedNew(g, i))
  <1> USE DEF threadVars, Goto, SetRow
  <1>1. ASSUME pc'[g] = pc[g], job'[g] = job[g], create'[g] = create[g], rpc'[g] = rpc[g]
        PROVE HeldNew(g, i)
    BY <1>1 DEF HeldNew
  <1>2. CASE NewInstance \/ Constructor \/ Close \/ DeliverGhost \/ UNCHANGED vars
    BY <1>1, <1>2 DEF NewInstance, Constructor, RecoverLoad, RecoverSave, Booted, Close, DeliverGhost, vars
  <1>3. CASE Request
    BY <1>1, <1>3 DEF Request, Submit, Inspect, CancelControlled, CancelUnknown
  <1>4. ASSUME NEW j \in ShellJobs, Remote(j) PROVE HeldNew(g, i)
    BY <1>1, <1>4 DEF Remote
  <1>5. CASE Crash
    BY <1>5 DEF Crash, HeldNew, BeforeSend
  <1>6. ASSUME NEW h \in Gens, g # h, WorkerStep(h) \/ Deliver(h) PROVE HeldNew(g, i)
    BY <1>1, <1>6, OtherWorkers
  <1> USE DEF TypeOK
  <1>7. CASE Take(g)
    <2>1. PICK task : task = Head(queue[g])
      OBVIOUS
    <2>2. task = queue[g][1] /\ 1 \in DOMAIN queue[g]
      <3>1. queue[g] \in Seq(Task) /\ queue[g] # <<>>
        BY <1>7 DEF Take
      <3> QED
        BY <2>1, <3>1, TailFacts
    <2>3. create'[g] = task.create /\ job'[g] = task.id
      BY <1>7, <2>1 DEF Take
    <2> QED
      BY <1>7, <2>2, <2>3 DEF HeldNew, QueuedNew
  <1>8. CASE Begin(g) \/ Announce(g) \/ Prove(g) \/ Stage(g) \/ Poll(g) \/ Query(g) \/ Record(g)
    <2>1. /\ UNCHANGED <<job, create, rpc>>
          /\ pc'[g] \in BeforeSend => pc[g] \in BeforeSend
      BY <1>8 DEF Begin, Announce, Prove, Stage, Poll, Query, Record, BeforeSend
    <2> QED
      BY <2>1 DEF HeldNew
  <1>9. CASE Check1(g)
    BY <1>9 DEF Check1, HeldNew, BeforeSend
  <1>10. CASE Check2(g)
    BY <1>10 DEF Check2, HeldNew, BeforeSend
  <1>11. CASE Answered(g) \/ Fail(g) \/ Finally(g)
    <2>1. pc'[g] \notin BeforeSend
      BY <1>11 DEF Answered, Fail, Finally, BeforeSend
    <2> QED
      BY <2>1 DEF HeldNew
  <1>12. CASE Send(g) \/ Deliver(g)
    <2>1. rpc'[g] \in {"sent", "done", "refused"}
      BY <1>12 DEF Send, Deliver
    <2> QED
      BY <2>1 DEF HeldNew
  <1>13. CASE Verify(g)
    BY <1>13 DEF Verify, HeldNew, BeforeSend
  <1> QED
    BY <1>2, <1>3, <1>4, <1>5, <1>6, <1>7, <1>8, <1>9, <1>10, <1>11, <1>12, <1>13 DEF Next, WorkerStep

\* Only submit() of an unseen id makes a claim.
LEMMA ClaimGrowth ==
  ASSUME TypeOK, WorkerInv, [Next]_vars, NEW g \in Gens, NEW i \in Ids, Claim(g, i)'
  PROVE  Claim(g, i) \/ (Submit(i) /\ g = gen)
  <1>1. ASSUME HeldNew(g, i)' PROVE Claim(g, i)
    BY <1>1, HeldGrowth DEF Claim
  <1>2. ASSUME QueuedNew(g, i)' PROVE QueuedNew(g, i) \/ (Submit(i) /\ g = gen)
    <2> USE DEF queueVars
    <2>1. ASSUME queue'[g] = queue[g] PROVE QueuedNew(g, i)
      BY <1>2, <2>1 DEF QueuedNew
    <2>2. CASE NewInstance \/ Constructor \/ Close \/ DeliverGhost \/ UNCHANGED vars
      BY <2>1, <2>2 DEF NewInstance, Constructor, RecoverLoad, RecoverSave, Booted, Close, DeliverGhost, vars
    <2>3. CASE Crash
      BY <1>2, <2>3 DEF Crash, QueuedNew
    <2>4. ASSUME NEW j \in ShellJobs, Remote(j) PROVE QueuedNew(g, i)
      BY <2>1, <2>4 DEF Remote
    <2>5. ASSUME NEW n \in Ids, CancelControlled(n) PROVE QueuedNew(g, i)
      BY <2>1, <2>5 DEF CancelControlled
    <2>6. ASSUME NEW n \in Ids, Inspect(n) \/ CancelUnknown(n) PROVE QueuedNew(g, i)
      <3>1. gen > 0 /\ Run(gen, n, FALSE)
        BY <2>6, Zenon DEF Inspect, CancelUnknown, Serving
      <3>2. gen \in Gens
        BY <3>1, JobsAssumption DEF TypeOK, Gens
      <3> QED
        BY <1>2, <3>1, <3>2, RunClaims
    <2>7. ASSUME NEW n \in Ids, Submit(n) PROVE QueuedNew(g, i) \/ (Submit(i) /\ g = gen)
      <3>1. gen > 0 /\ Run(gen, n, TRUE)
        BY <2>7, Zenon DEF Submit
      <3>2. gen \in Gens
        BY <3>1, JobsAssumption DEF TypeOK, Gens
      <3>3. QueuedNew(g, i) \/ (g = gen /\ i = n)
        BY <1>2, <3>1, <3>2, RunClaims
      <3> QED
        BY <2>7, <3>3
    <2>8. ASSUME NEW h \in Gens, WorkerStep(h) \/ Deliver(h) PROVE QueuedNew(g, i)
      <3>1. CASE h # g
        BY <2>1, <2>8, <3>1, OtherWorkers
      <3>2. CASE Take(g)
        <4>1. queue[g] \in Seq(Task) /\ queue[g] # <<>> /\ queue'[g] = Tail(queue[g])
          BY <3>2 DEF Take, TypeOK
        <4>2. \A k \in DOMAIN queue'[g] : k + 1 \in DOMAIN queue[g] /\ queue'[g][k] = queue[g][k + 1]
          BY <4>1, TailFacts
        <4> QED
          BY <1>2, <4>2 DEF QueuedNew
      <3>3. CASE h = g /\ ~Take(g)
        <4>1. queue' = queue
          BY <2>8, <3>3 DEF WorkerStep, Deliver, Begin, Check1, Announce, Prove, Check2, Stage,
             Verify, Send, Answered, Poll, Query, Record, Fail, Finally
        <4> QED
          BY <2>1, <4>1
      <3> QED
        BY <3>1, <3>2, <3>3
    <2> QED
      BY <2>2, <2>3, <2>4, <2>5, <2>6, <2>7, <2>8 DEF Next, Request
  <1> QED
    BY <1>1, <1>2 DEF Claim

\* Who gains a control and who is flagged.
LEMMA ControlGrowth ==
  ASSUME TypeOK, WorkerInv, [Next]_vars, NEW g \in Gens, NEW i \in Ids, i \in controls'[g]
  PROVE  i \in controls[g] \/ (g = gen /\ (Submit(i) \/ Inspect(i) \/ CancelUnknown(i)))
  <1> USE DEF queueVars
  <1>1. CASE NewInstance \/ Constructor \/ Close \/ DeliverGhost \/ UNCHANGED vars
    BY <1>1 DEF NewInstance, Constructor, RecoverLoad, RecoverSave, Booted, Close, DeliverGhost, vars
  <1>2. CASE Crash
    BY <1>2 DEF Crash
  <1>3. ASSUME NEW j \in ShellJobs, Remote(j) PROVE i \in controls[g]
    BY <1>3 DEF Remote
  <1>4. ASSUME NEW n \in Ids, CancelControlled(n) PROVE i \in controls[g]
    BY <1>4 DEF CancelControlled
  <1>5. ASSUME NEW n \in Ids, Submit(n) \/ Inspect(n) \/ CancelUnknown(n)
        PROVE i \in controls[g] \/ (g = gen /\ i = n)
    <2>1. controls' = [controls EXCEPT ![gen] = controls[gen] \cup {n}]
      BY <1>5, Zenon DEF Submit, Inspect, CancelUnknown, Run
    <2> QED
      BY <2>1 DEF TypeOK
  <1>6. ASSUME NEW h \in Gens, WorkerStep(h) \/ Deliver(h) PROVE i \in controls[g]
    <2>1. CASE Finally(h)
      BY <2>1 DEF Finally, Release, TypeOK
    <2>2. CASE ~Finally(h)
      BY <1>6, <2>2 DEF WorkerStep, Deliver, Take, Begin, Check1, Announce, Prove, Check2, Stage,
         Verify, Send, Answered, Poll, Query, Record, Fail
    <2> QED
      BY <2>1, <2>2
  <1> QED
    BY <1>1, <1>2, <1>3, <1>4, <1>5, <1>6 DEF Next, Request

\* Nothing is handed over without a claim that no flag has caught.
LEMMA HandedStep ==
  ASSUME TypeOK, WorkerInv, [Next]_vars, NEW i \in Ids, handed'[i] # handed[i]
  PROVE  \E g \in Gens : Send(g) /\ HeldNew(g, i) /\ pc[g] \in {"start", "install"}
  <1>1. CASE NewInstance \/ Constructor \/ Close \/ Crash \/ DeliverGhost \/ UNCHANGED vars
    BY <1>1 DEF NewInstance, Constructor, RecoverLoad, RecoverSave, Booted, Close, Crash, DeliverGhost, vars
  <1>2. CASE Request
    BY <1>2 DEF Request, Submit, Inspect, CancelControlled, CancelUnknown
  <1>3. ASSUME NEW j \in ShellJobs, Remote(j) PROVE FALSE
    BY <1>3 DEF Remote
  <1>4. ASSUME NEW g \in Gens, WorkerStep(g) \/ Deliver(g), ~Send(g) PROVE FALSE
    BY <1>4 DEF WorkerStep, Deliver, Take, Begin, Check1, Announce, Prove, Check2, Stage,
       Verify, Answered, Poll, Query, Record, Fail, Finally
  <1>5. ASSUME NEW g \in Gens, Send(g) PROVE HeldNew(g, i) /\ pc[g] \in {"start", "install"}
    <2>1. pc[g] \in {"start", "install"} /\ rpc[g] = "verified"
      BY <1>5 DEF Send, WorkerInv, WorkerAt
    <2>2. handed' = [handed EXCEPT ![job[g]] = handed[job[g]] + 1]
      BY <1>5, <2>1 DEF Send
    <2>3. job[g] = i
      BY <2>2 DEF TypeOK
    <2>4. create[g]
      BY <2>1, JobsAssumption DEF WorkerInv, WorkerAt
    <2> QED
      BY <2>1, <2>3, <2>4 DEF HeldNew, BeforeSend
  <1> QED
    BY <1>1, <1>2, <1>3, <1>4, <1>5 DEF Next, WorkerStep

\* A worker gets past its client's last look only by looking.
LEMMA LookGrowth ==
  ASSUME TypeOK, WorkerInv, [Next]_vars, NEW g \in Gens, rpc'[g] # "none"
  PROVE  Verify(g) \/ (rpc[g] # "none" /\ job'[g] = job[g])
  <1> USE DEF threadVars
  <1>1. CASE NewInstance \/ Constructor \/ Close \/ DeliverGhost \/ UNCHANGED vars
    BY <1>1 DEF NewInstance, Constructor, RecoverLoad, RecoverSave, Booted, Close, DeliverGhost, vars
  <1>2. CASE Request
    BY <1>2 DEF Request, Submit, Inspect, CancelControlled, CancelUnknown
  <1>3. ASSUME NEW j \in ShellJobs, Remote(j) PROVE rpc[g] # "none" /\ job'[g] = job[g]
    BY <1>3 DEF Remote
  <1>4. CASE Crash
    BY <1>4 DEF Crash
  <1>5. ASSUME NEW h \in Gens, g # h, WorkerStep(h) \/ Deliver(h)
        PROVE  rpc[g] # "none" /\ job'[g] = job[g]
    BY <1>5, OtherWorkers
  <1>6. CASE (WorkerStep(g) \/ Deliver(g)) /\ ~Verify(g)
    <2>1. CASE Take(g) \/ Finally(g)
      BY <2>1 DEF Take, Finally, WorkerInv, WorkerAt
    <2>2. CASE Fail(g) \/ Answered(g)
      BY <2>2 DEF Fail, Answered, TypeOK
    <2>3. CASE Send(g) \/ Deliver(g)
      BY <2>3 DEF Send, Deliver, Abandoned
    <2> QED
      BY <1>6, <2>1, <2>2, <2>3
         DEF WorkerStep, Begin, Check1, Announce, Prove, Check2, Stage, Poll, Query, Record
  <1> QED
    BY <1>1, <1>2, <1>3, <1>4, <1>5, <1>6 DEF Next, WorkerStep

\* Only an answer that arrives on an open connection confirms an install.
LEMMA ConfirmGrowth ==
  ASSUME TypeOK, WorkerInv, [Next]_vars, NEW g \in Gens,
         job'[g] \in InstallJobs, row'[g].status = "completed"
  PROVE  /\ job'[g] = job[g]
         /\ row[g].status = "completed" \/ (Answered(g) /\ pc[g] = "install")
  <1> USE DEF threadVars, Goto, SetRow
  <1>1. ASSUME UNCHANGED <<job, row>> PROVE job'[g] = job[g] /\ row[g].status = "completed"
    BY <1>1
  <1>2. CASE NewInstance \/ Constructor \/ Close \/ DeliverGhost \/ UNCHANGED vars
    BY <1>1, <1>2 DEF NewInstance, Constructor, RecoverLoad, RecoverSave, Booted, Close, DeliverGhost, vars
  <1>3. CASE Request
    BY <1>1, <1>3 DEF Request, Submit, Inspect, CancelControlled, CancelUnknown
  <1>4. ASSUME NEW j \in ShellJobs, Remote(j) PROVE job'[g] = job[g] /\ row[g].status = "completed"
    BY <1>1, <1>4 DEF Remote
  <1>5. CASE Crash
    BY <1>5 DEF Crash, Stored
  <1>6. ASSUME NEW h \in Gens, g # h, WorkerStep(h) \/ Deliver(h)
        PROVE  job'[g] = job[g] /\ row[g].status = "completed"
    BY <1>6, OtherWorkers
  <1>7. CASE Begin(g) \/ Prove(g) \/ Verify(g) \/ Send(g) \/ Poll(g) \/ Record(g) \/ Deliver(g)
    BY <1>1, <1>7 DEF Begin, Prove, Verify, Send, Poll, Record, Deliver
  <1>8. CASE Take(g) \/ Finally(g)
    <2>1. row'[g].status \in {"queued", "checking", "none"}
      BY <1>8 DEF Take, Finally, Stored, TypeOK
    <2> QED
      BY <2>1
  <1>9. CASE Check1(g) \/ Check2(g)
    <2>1. UNCHANGED <<job, row>> \/ row' = [row EXCEPT ![g].status = "cancelled"]
      BY <1>9 DEF Check1, Check2
    <2>2. row' = [row EXCEPT ![g].status = "cancelled"] => row'[g].status = "cancelled"
      BY RowPoint, StatusNames DEF TypeOK
    <2> QED
      BY <1>1, <2>1, <2>2
  <1>10. CASE Announce(g) \/ Stage(g) \/ Fail(g)
    <2>1. row' \in {[row EXCEPT ![g].status = s] : s \in {"starting", "checking", "running", "failed", "unknown"}}
      BY <1>10, Zenon DEF Announce, Stage, Fail, Failure
    <2>2. PICK s \in {"starting", "checking", "running", "failed", "unknown"} :
            row' = [row EXCEPT ![g].status = s]
      BY <2>1
    <2>3. row'[g].status = s
      BY <2>2, RowPoint, StatusNames DEF Transient, TypeOK
    <2> QED
      BY <2>2, <2>3
  <1>11. CASE Query(g)
    <2>1. job[g] \in ShellJobs /\ job' = job
      BY <1>11 DEF Query, WorkerInv, WorkerAt
    <2> QED
      BY <2>1, JobsAssumption
  <1>12. CASE Answered(g)
    BY <1>12 DEF Answered
  <1> QED
    BY <1>2, <1>3, <1>4, <1>5, <1>6, <1>7, <1>8, <1>9, <1>10, <1>11, <1>12 DEF Next, WorkerStep

\* One generation answers for an install; the worker past its last look at the flag
\* can be interrupted, and has been if the flag was raised since.
FlagAt(g) ==
  /\ pc[g] \in {"check1", "announce", "prove", "check2", "stage", "install"} => current[g] = job[g]
  /\ pc[g] \in {"prove", "check2", "stage", "install"} => active[g]
  /\ pc[g] \in {"stage", "install"} /\ job[g] \in flagged[g] => ~open[g]

FlagInv ==
  /\ \A g, h \in Gens, i \in InstallJobs : i \in controls[g] /\ i \in controls[h] => g = h
  /\ \A g \in Gens : FlagAt(g)

LEMMA FlagStep ==
  TypeOK /\ WorkerInv /\ OwnerInv /\ FlagInv /\ [Next]_vars => FlagInv'
  <1> SUFFICES ASSUME TypeOK, WorkerInv, OwnerInv, FlagInv, [Next]_vars PROVE FlagInv'
    OBVIOUS
  <1>1. ASSUME NEW g \in Gens, NEW h \in Gens, NEW i \in InstallJobs,
               i \in controls'[g], i \in controls'[h]
        PROVE  g = h
    <2>1. i \in Ids /\ ~Inspect(i) /\ ~CancelUnknown(i)
      BY JobsAssumption DEF Ids, Inspect, CancelUnknown, Reopenable
    <2>2. i \in controls[g] \/ (Submit(i) /\ g = gen)
      BY <1>1, <2>1, ControlGrowth
    <2>3. i \in controls[h] \/ (Submit(i) /\ h = gen)
      BY <1>1, <2>1, ControlGrowth
    <2>4. Submit(i) => i \notin controls[g] /\ i \notin controls[h]
      BY DEF Submit, OwnerInv, OwnerAt
    <2> QED
      BY <2>2, <2>3, <2>4 DEF FlagInv
  <1>2. ASSUME NEW h \in Gens PROVE FlagAt(h)'
    <2>a. FlagAt(h) /\ WorkerAt(h) /\ flagged[h] \subseteq Ids
      BY DEF FlagInv, WorkerInv, TypeOK
    <2> USE DEF queueVars, threadVars, Goto, SetRow
    <2>1. ASSUME UNCHANGED <<pc, job, current, active>>, open'[h] => open[h],
                 pc[h] \in {"stage", "install"} /\ job[h] \in flagged'[h] /\ open'[h] => job[h] \in flagged[h]
          PROVE  FlagAt(h)'
      BY <2>a, <2>1 DEF FlagAt
    <2>2. CASE NewInstance \/ Constructor \/ DeliverGhost \/ UNCHANGED vars
      BY <2>1, <2>2 DEF NewInstance, Constructor, RecoverLoad, RecoverSave, Booted, DeliverGhost, vars
    <2>3. ASSUME NEW j \in ShellJobs, Remote(j) PROVE FlagAt(h)'
      BY <2>1, <2>3 DEF Remote
    <2>4. CASE Crash
      BY <2>4 DEF Crash, FlagAt
    <2>5. ASSUME NEW i \in Ids, Submit(i) \/ Inspect(i) PROVE FlagAt(h)'
      BY <2>1, <2>5 DEF Submit, Inspect
    <2>6. ASSUME NEW i \in Ids, CancelUnknown(i) PROVE FlagAt(h)'
      <3>1. i \in ShellJobs /\ flagged' = [flagged EXCEPT ![gen] = flagged[gen] \cup {i}]
        BY <2>6 DEF CancelUnknown, Reopenable
      <3>2. UNCHANGED <<pc, job, current, active, open>>
        BY <2>6 DEF CancelUnknown
      <3>3. flagged'[h] \subseteq flagged[h] \cup {i}
        BY <3>1 DEF TypeOK
      <3>4. pc[h] \in {"stage", "install"} => job[h] # i
        BY <2>a, <3>1, JobsAssumption DEF WorkerAt
      <3> QED
        BY <2>1, <3>2, <3>3, <3>4
    <2>7. ASSUME NEW i \in Ids, CancelControlled(i) PROVE FlagAt(h)'
      <3>1. /\ flagged' = [flagged EXCEPT ![gen] = flagged[gen] \cup {i}]
            /\ open' = [open EXCEPT ![gen] = open[gen] /\ ~Interrupts(i)]
            /\ UNCHANGED <<pc, job, current, active>>
        BY <2>7 DEF CancelControlled
      <3>2. open'[h] => open[h] /\ (h = gen => ~Interrupts(i))
        BY <3>1 DEF TypeOK
      <3>3. flagged'[h] = flagged[h] \/ (h = gen /\ flagged'[h] = flagged[h] \cup {i})
        BY <3>1 DEF TypeOK
      <3>4. pc[h] \in {"stage", "install"} /\ job[h] = i /\ h = gen => Interrupts(i)
        BY <2>a DEF FlagAt, WorkerAt, Interrupts
      <3> QED
        BY <2>1, <3>1, <3>2, <3>3, <3>4
    <2>8. CASE Close
      <3>1. /\ flagged' = [flagged EXCEPT ![gen] = controls[gen]]
            /\ open' = [open EXCEPT ![gen] = open[gen] /\ ~(current[gen] \in InstallJobs /\ active[gen])]
            /\ UNCHANGED <<pc, job, current, active>>
        BY <2>8 DEF Close
      <3>2. open'[h] => open[h] /\ (h = gen => ~(current[h] \in InstallJobs /\ active[h]))
        BY <3>1 DEF TypeOK
      <3>3. h # gen => flagged'[h] = flagged[h]
        BY <3>1 DEF TypeOK
      <3>4. pc[h] \in {"stage", "install"} => current[h] \in InstallJobs /\ active[h]
        BY <2>a DEF FlagAt, WorkerAt
      <3> QED
        BY <2>1, <3>1, <3>2, <3>3, <3>4
    <2>9. ASSUME NEW g \in Gens, g # h, WorkerStep(g) \/ Deliver(g) PROVE FlagAt(h)'
      <3>1. pc'[h] = pc[h] /\ job'[h] = job[h]
        BY <2>9, OtherWorkers
      <3>2. current'[h] = current[h] /\ active'[h] = active[h] /\ open'[h] = open[h] /\ flagged'[h] = flagged[h]
        BY <2>9 DEF WorkerStep, Deliver, Take, Begin, Check1, Announce, Prove, Check2, Stage,
           Verify, Send, Answered, Poll, Query, Record, Fail, Finally, Release, TypeOK
      <3> QED
        BY <2>a, <3>1, <3>2 DEF FlagAt
    <2> USE DEF TypeOK
    <2>10. CASE Take(h) \/ Poll(h) \/ Query(h) \/ Record(h) \/ Answered(h) \/ Fail(h) \/ Finally(h)
      <3>1. pc'[h] \notin {"check1", "announce", "prove", "check2", "stage", "install"}
        BY <2>10 DEF Take, Poll, Query, Record, Answered, Fail, Finally
      <3> QED
        BY <3>1 DEF FlagAt
    <2>11. CASE Begin(h)
      BY <2>11 DEF Begin, FlagAt
    <2>12. CASE Check1(h)
      <3>1. pc'[h] \in {"announce", "finish"} /\ current' = current /\ job' = job /\ pc[h] = "check1"
        BY <2>12 DEF Check1
      <3> QED
        BY <2>a, <3>1 DEF FlagAt
    <2>13. CASE Announce(h) \/ Prove(h)
      BY <2>a, <2>13 DEF Announce, Prove, FlagAt
    <2>14. CASE Check2(h)
      <3>1. UNCHANGED <<current, active, job, open, flagged>> /\ pc[h] = "check2" /\ pc'[h] # "install"
        BY <2>14 DEF Check2
      <3>2. pc'[h] = "stage" => ~Cancelled(h) /\ job[h] \in InstallJobs
        BY <2>14 DEF Check2
      <3>3. pc'[h] = "stage" => job[h] \notin flagged[h]
        BY <2>a, <3>1, <3>2, JobsAssumption DEF Cancelled, WorkerAt
      <3>4. current'[h] = job'[h] /\ active'[h]
        BY <2>a, <3>1 DEF FlagAt
      <3> QED
        BY <3>1, <3>3, <3>4 DEF FlagAt
    <2>15. CASE Stage(h)
      BY <2>a, <2>15 DEF Stage, FlagAt
    <2>16. CASE Verify(h) \/ Send(h) \/ Deliver(h)
      BY <2>1, <2>16 DEF Verify, Send, Deliver
    <2> QED
      BY <2>2, <2>3, <2>4, <2>5, <2>6, <2>7, <2>8, <2>9, <2>10, <2>11, <2>12, <2>13, <2>14, <2>15, <2>16
         DEF Next, Request, WorkerStep
  <1> QED
    BY <1>1, <1>2 DEF FlagInv

LEMMA FlagInit == Init => FlagInv
  BY DEF Init, FlagInv, FlagAt

LEMMA Flags == Spec => []FlagInv
  <1>1. TypeOK /\ ClaimsAreUnique /\ OwnerInv /\ FlagInv /\ [Next]_vars => FlagInv'
    BY FlagStep DEF ClaimsAreUnique
  <1> QED
    BY <1>1, FlagInit, Typed, Claims, Owners, PTL DEF Spec

\* An install whose cancellation was accepted is not handed over unless the client had
\* looked at its connection for the last time before, and is not confirmed even then.
THEOREM FlaggedInstallStops == Spec => CancelledInstallGoesNoFurther
  <1> DEFINE Inv == TypeOK /\ ClaimsAreUnique /\ OwnerInv /\ FlagInv
             Halted(i) == /\ ~PastLastLook(i) => ~PastLastLook(i)' /\ handed'[i] = handed[i]
                          /\ ~Confirmed(i) => ~Confirmed(i)'
  <1>1. ASSUME Inv, [Next]_vars, NEW i \in InstallJobs, NEW h \in Gens, i \in flagged[h]
        PROVE  Halted(i)
    <2>1. i \in Ids /\ i \notin ShellJobs /\ i \in controls[h] /\ WorkerInv
      BY <1>1, JobsAssumption DEF Ids, OwnerInv, OwnerAt, ClaimsAreUnique
    \* The worker that holds the install answers for it, so its client has been closed.
    <2>2. ASSUME NEW g \in Gens, job[g] = i, pc[g] = "install" PROVE ~open[g]
      <3>1. i \in controls[g]
        BY <1>1, <2>2 DEF OwnerInv, OwnerAt
      <3>2. g = h
        BY <1>1, <2>1, <3>1 DEF FlagInv
      <3> QED
        BY <1>1, <2>2, <3>2 DEF FlagInv, FlagAt
    <2>3. ~PastLastLook(i) => ~PastLastLook(i)'
      <3> SUFFICES ASSUME NEW g \in Gens, job'[g] = i, rpc'[g] # "none", ~PastLastLook(i) PROVE FALSE
        BY DEF PastLastLook
      <3>1. Verify(g)
        BY <1>1, <2>1, LookGrowth DEF PastLastLook
      <3>2. pc[g] \in {"start", "sendCancel", "install"} /\ open[g] /\ job[g] = i
        BY <3>1 DEF Verify
      <3>3. pc[g] = "install"
        BY <2>1, <3>2 DEF WorkerInv, WorkerAt
      <3> QED
        BY <2>2, <3>2, <3>3
    <2>4. ~PastLastLook(i) => handed'[i] = handed[i]
      <3> SUFFICES ASSUME handed'[i] # handed[i] PROVE PastLastLook(i)
        OBVIOUS
      <3>1. PICK g \in Gens : Send(g) /\ HeldNew(g, i)
        BY <1>1, <2>1, HandedStep
      <3> QED
        BY <3>1 DEF Send, HeldNew, PastLastLook
    <2>5. ~Confirmed(i) => ~Confirmed(i)'
      <3> SUFFICES ASSUME NEW g \in Gens, job'[g] = i, row'[g].status = "completed", ~Confirmed(i)
                   PROVE  FALSE
        BY DEF Confirmed
      <3>1. job[g] = i /\ Answered(g) /\ pc[g] = "install"
        BY <1>1, <2>1, ConfirmGrowth DEF Confirmed
      <3> QED
        BY <2>2, <3>1 DEF Answered
    <2> QED
      BY <2>3, <2>4, <2>5
  <1>2. Spec => []Inv
    BY Typed, Claims, Owners, Flags, PTL
  <1>3. [Next]_vars /\ Inv =>
          [\A i \in InstallJobs : (\E g \in Gens : i \in flagged[g]) => Halted(i)]_vars
    BY <1>1
  <1> QED
    BY <1>2, <1>3, PTL DEF Spec, CancelledInstallGoesNoFurther

-----------------------------------------------------------------------------
(***************************************************************************)
(* What is asked of Android: a start or an install is pending in one place *)
(* at most, and only before the remote directory exists.                   *)
(***************************************************************************)
Asked(i) == \E g \in Gens : rpc[g] = "sent" /\ pc[g] \in {"start", "install"} /\ job[g] = i
Left(i) == \E request \in ghosts : request.op # "cancel" /\ request.id = i

RequestInv ==
  /\ \A i \in Ids : handed[i] = 0 => ~Asked(i) /\ ~Left(i) /\ (i \in ShellJobs => phase[i] = "absent")
  /\ \A i \in Ids : Left(i) => ~Asked(i)
  /\ \A j \in ShellJobs : phase[j] # "absent" => ~Asked(j) /\ ~Left(j)
  /\ \A g, h \in Gens :
       /\ rpc[g] = "sent" /\ pc[g] \in {"start", "install"}
       /\ rpc[h] = "sent" /\ pc[h] \in {"start", "install"}
       /\ job[g] = job[h]
       => g = h

\* A job whose command has ended, or that can no longer be handed over.
Over(i) ==
  \/ i \in ShellJobs /\ Stopped(i)
  \/ handed[i] = 0 /\ \A g \in Gens : ~Claim(g, i)

\* A job that will be over once every instance has let go of it.
Doomed(i) ==
  /\ handed[i] = 0
  /\ \A g \in Gens : Claim(g, i) => i \in flagged[g]
  /\ \A g \in Gens : HeldNew(g, i) => pc[g] \notin {"stage", "install", "start"}

Unkilled == \A g \in Gens : life[g] # "dead"

\* Phases move away from "absent" only by executing a start, and never back.
LEMMA RemotePhases ==
  ASSUME RemoteTypeOK, NEW j \in ShellJobs,
         Publish(j) \/ Finish(j) \/ Settle(j) \/ Lose(j) \/ CancelCall(j), NEW n \in ShellJobs
  PROVE  /\ phase'[n] = "absent" <=> phase[n] = "absent"
         /\ Stopped(n) => phase'[n] \in {"completed", "dead"}
  <1> USE DEF RemoteTypeOK, MoveTo, Stopped
  <1>1. CASE Publish(j)
    BY <1>1 DEF Publish
  <1>2. CASE Finish(j)
    BY <1>2 DEF Finish
  <1>3. CASE Settle(j)
    BY <1>3 DEF Settle
  <1>4. CASE Lose(j)
    BY <1>4 DEF Lose
  <1>5. CASE CancelCall(j)
    BY <1>5 DEF CancelCall
  <1> QED
    BY <1>1, <1>2, <1>3, <1>4, <1>5

LEMMA ExecutePhases ==
  ASSUME RemoteTypeOK, NEW request \in Ghosts, NEW answer,
         Execute(request.op, request.id, answer), NEW n \in ShellJobs
  PROVE  /\ phase[n] # "absent" => phase'[n] # "absent"
         /\ phase[n] = "absent" /\ phase'[n] # "absent" => request.op = "start" /\ request.id = n
         /\ Stopped(n) => phase'[n] \in {"completed", "dead"}
  <1>1. CASE request.op = "start"
    <2>1. request.id \in ShellJobs
      BY <1>1 DEF Ghosts
    <2>2. Launch(request.id) \/ UNCHANGED remoteVars
      BY <1>1 DEF Execute
    <2> QED
      BY <1>1, <2>1, <2>2 DEF Launch, MoveTo, RemoteTypeOK, remoteVars, Stopped
  <1>2. CASE request.op = "cancel"
    <2>1. request.id \in ShellJobs
      BY <1>2 DEF Ghosts
    <2>2. CancelCall(request.id) \/ UNCHANGED remoteVars
      BY <1>2 DEF Execute
    <2> QED
      BY <1>2, <2>1, <2>2, RemotePhases DEF remoteVars, Stopped
  <1>3. CASE request.op = "install"
    BY <1>3 DEF Execute, remoteVars, Stopped
  <1> QED
    BY <1>1, <1>2, <1>3 DEF Ghosts

\* A request given up by its worker is the one that was sent.
LEMMA AbandonedAsked ==
  ASSUME WorkerInv, NEW g \in Gens, NEW request \in Abandoned(g)
  PROVE  /\ rpc[g] = "sent" /\ request.id = job[g] /\ request \in Ghosts
         /\ request.op # "cancel" <=> pc[g] \in {"start", "install"}
         /\ request.op # "cancel" => Asked(request.id)
         /\ request.op = "start" => pc[g] = "start"
  <1>1. /\ rpc[g] = "sent" /\ request.id = job[g] /\ request \in Ghosts
        /\ request.op = IF pc[g] = "sendCancel" THEN "cancel" ELSE pc[g]
    BY AbandonedFacts DEF Abandoned
  <1>2. pc[g] \in {"install", "start", "sendCancel"}
    BY <1>1 DEF WorkerInv, WorkerAt
  <1> QED
    BY <1>1, <1>2 DEF Asked

LEMMA RequestStep ==
  TypeOK /\ WorkerInv /\ ClaimInv /\ HandedInv /\ RequestInv /\ [Next]_vars => RequestInv'
  <1> SUFFICES ASSUME TypeOK, WorkerInv, ClaimInv, HandedInv, RequestInv, [Next]_vars PROVE RequestInv'
    OBVIOUS
  <1> USE DEF threadVars, Goto, SetRow
  \* What asks nothing new: no request is sent, left or executed.
  <1>1. ASSUME handed' = handed, ghosts' = ghosts,
               \A j \in ShellJobs : phase'[j] = "absent" <=> phase[j] = "absent",
               \A g \in Gens : rpc'[g] = "sent" /\ pc'[g] \in {"start", "install"} =>
                 rpc[g] = "sent" /\ pc[g] = pc'[g] /\ job'[g] = job[g]
        PROVE  RequestInv'
    <2>1. \A i \in Ids : (Asked(i)' => Asked(i)) /\ (Left(i)' <=> Left(i))
      BY <1>1 DEF Asked, Left
    <2> QED
      BY <1>1, <2>1 DEF RequestInv, Ids
  <1>2. CASE NewInstance \/ Constructor \/ Close \/ UNCHANGED vars
    BY <1>1, <1>2 DEF NewInstance, Constructor, RecoverLoad, RecoverSave, Booted, Close, vars, remoteVars
  <1>3. CASE Request
    BY <1>1, <1>3 DEF Request, Submit, Inspect, CancelControlled, CancelUnknown, remoteVars
  <1>4. ASSUME NEW j \in ShellJobs, Remote(j) PROVE RequestInv'
    <2>1. /\ UNCHANGED <<handed, ghosts, rpc, pc, job>>
          /\ \A n \in ShellJobs : phase'[n] = "absent" <=> phase[n] = "absent"
      BY <1>4, RemotePhases DEF Remote, RemoteStep, TypeOK
    <2> QED
      BY <1>1, <2>1
  <1>5. CASE Crash
    <2>1. /\ handed' = handed /\ phase' = phase /\ rpc' = [g \in Gens |-> "none"]
          /\ ghosts' = ghosts \cup UNION {Abandoned(g) : g \in Gens}
      BY <1>5 DEF Crash, remoteVars
    <2>2. \A i \in Ids : ~Asked(i)' /\ (Left(i)' => Left(i) \/ Asked(i))
      BY <2>1, AbandonedAsked DEF Asked, Left
    <2>3. \A g \in Gens : rpc'[g] # "sent"
      BY <2>1
    <2> QED
      BY <2>1, <2>2, <2>3 DEF RequestInv, Ids
  <1>6. CASE DeliverGhost
    <2>1. PICK request \in ghosts, answer \in {"done", "refused"} :
            Execute(request.op, request.id, answer) /\ ghosts' = ghosts \ {request}
      BY <1>6 DEF DeliverGhost
    <2>2. request \in Ghosts /\ ghosts \subseteq Ghosts /\ RemoteTypeOK
      BY <2>1 DEF TypeOK
    <2>3. UNCHANGED <<handed, rpc, pc, job>>
      BY <1>6 DEF DeliverGhost
    <2>4. \A i \in Ids : (Asked(i)' <=> Asked(i)) /\ (Left(i)' => Left(i))
      BY <2>1, <2>3 DEF Asked, Left
    <2>5. request.op = "start" => Left(request.id) /\ ~Left(request.id)'
      BY <2>1, <2>2, JobsAssumption DEF Left, Ghosts
    <2>6. \A j \in ShellJobs : phase[j] = "absent" /\ phase'[j] # "absent" => Left(j) /\ ~Left(j)'
      BY <2>1, <2>2, <2>5, ExecutePhases
    <2> QED
      BY <2>3, <2>4, <2>6 DEF RequestInv, Ids
  <1>7. ASSUME NEW g \in Gens, Deliver(g) PROVE RequestInv'
    <2>1. PICK request \in Abandoned(g), answer \in {"done", "refused"} :
            Execute(request.op, request.id, answer) /\ rpc' = [rpc EXCEPT ![g] = answer]
      BY <1>7 DEF Deliver
    <2>2. UNCHANGED <<handed, ghosts, pc, job>>
      BY <1>7 DEF Deliver
    <2>3. rpc'[g] # "sent" /\ \A h \in Gens : h # g => rpc'[h] = rpc[h]
      BY <2>1 DEF TypeOK
    <2>4. \A i \in Ids : (Asked(i)' => Asked(i)) /\ (Left(i)' <=> Left(i))
      BY <2>2, <2>3 DEF Asked, Left
    <2>5. ASSUME NEW i \in Ids, request.op = "start", request.id = i
          PROVE  Asked(i) /\ ~Asked(i)'
      <3>1. rpc[g] = "sent" /\ pc[g] = "start" /\ job[g] = i
        BY <2>1, <2>5, AbandonedAsked
      <3>2. ~Asked(i)'
        BY <2>2, <2>3, <3>1 DEF RequestInv, Asked
      <3> QED
        BY <3>1, <3>2 DEF Asked
    <2>6. \A j \in ShellJobs :
            /\ phase[j] # "absent" => phase'[j] # "absent"
            /\ phase[j] = "absent" /\ phase'[j] # "absent" => Asked(j) /\ ~Asked(j)'
      <3>1. request \in Ghosts /\ RemoteTypeOK
        BY <2>1, AbandonedAsked DEF TypeOK
      <3> QED
        BY <2>1, <2>5, <3>1, ExecutePhases DEF Ids
    <2>7. \A h, k \in Gens :
            /\ rpc'[h] = "sent" /\ pc'[h] \in {"start", "install"}
            /\ rpc'[k] = "sent" /\ pc'[k] \in {"start", "install"}
            /\ job'[h] = job'[k]
            => h = k
      BY <2>2, <2>3 DEF RequestInv
    <2> QED
      BY <2>2, <2>4, <2>6, <2>7 DEF RequestInv, Ids
  <1>8. ASSUME NEW g \in Gens, Send(g) PROVE RequestInv'
    <2>1. UNCHANGED <<ghosts, pc, job, phase>> /\ rpc[g] = "verified" /\ rpc' = [rpc EXCEPT ![g] = "sent"]
      BY <1>8 DEF Send, remoteVars
    <2>2. CASE pc[g] = "sendCancel"
      BY <1>1, <1>8, <2>1, <2>2 DEF Send, TypeOK
    <2>3. CASE pc[g] # "sendCancel"
      <3>1. pc[g] \in {"start", "install"} /\ handed' = [handed EXCEPT ![job[g]] = handed[job[g]] + 1]
        BY <1>8, <2>3 DEF Send, WorkerInv, WorkerAt
      <3>2. job[g] \in Ids /\ create[g]
        BY <3>1, JobsAssumption DEF WorkerInv, WorkerAt
      <3>3. Claim(g, job[g])
        BY <2>1, <3>1, <3>2 DEF Claim, HeldNew, BeforeSend
      <3>4. handed[job[g]] = 0
        BY <3>2, <3>3 DEF HandedInv
      <3>5. handed'[job[g]] = 1 /\ \A i \in Ids : i # job[g] => handed'[i] = handed[i]
        BY <3>1, <3>2, <3>4 DEF TypeOK
      <3>6. ~Asked(job[g]) /\ ~Left(job[g]) /\ (job[g] \in ShellJobs => phase[job[g]] = "absent")
        BY <3>2, <3>4 DEF RequestInv
      <3>7. rpc'[g] = "sent" /\ \A h \in Gens : h # g => rpc'[h] = rpc[h]
        BY <2>1 DEF TypeOK
      <3>8. \A i \in Ids : (Asked(i)' => Asked(i) \/ i = job[g]) /\ (Left(i)' <=> Left(i))
        BY <2>1, <3>7 DEF Asked, Left
      <3>9. \A h, k \in Gens :
              /\ rpc'[h] = "sent" /\ pc'[h] \in {"start", "install"}
              /\ rpc'[k] = "sent" /\ pc'[k] \in {"start", "install"}
              /\ job'[h] = job'[k]
              => h = k
        BY <2>1, <3>6, <3>7 DEF RequestInv, Asked
      <3> QED
        BY <2>1, <3>5, <3>6, <3>8, <3>9 DEF RequestInv, Ids
    <2> QED
      BY <2>2, <2>3
  <1>9. ASSUME NEW g \in Gens, Fail(g) PROVE RequestInv'
    <2>1. /\ UNCHANGED <<handed, phase, job>> /\ ghosts' = ghosts \cup Abandoned(g)
          /\ rpc'[g] = "none" /\ \A h \in Gens : h # g => rpc'[h] = rpc[h] /\ pc'[h] = pc[h]
      BY <1>9 DEF Fail, remoteVars, TypeOK
    <2>2. \A i \in Ids : Asked(i)' => Asked(i) /\ ~(i = job[g] /\ rpc[g] = "sent" /\ pc[g] \in {"start", "install"})
      BY <2>1 DEF Asked, RequestInv
    <2>3. \A i \in Ids : Left(i)' => Left(i) \/ (Asked(i) /\ ~Asked(i)')
      <3> SUFFICES ASSUME NEW i \in Ids, NEW request \in ghosts', request.op # "cancel", request.id = i, ~Left(i)
                   PROVE  Asked(i) /\ ~Asked(i)'
        BY DEF Left
      <3>1. request \in Abandoned(g)
        BY <2>1 DEF Left
      <3> QED
        BY <2>2, <3>1, AbandonedAsked
    <2>4. \A h, k \in Gens :
            /\ rpc'[h] = "sent" /\ pc'[h] \in {"start", "install"}
            /\ rpc'[k] = "sent" /\ pc'[k] \in {"start", "install"}
            /\ job'[h] = job'[k]
            => h = k
      BY <2>1 DEF RequestInv
    <2> QED
      BY <2>1, <2>2, <2>3, <2>4 DEF RequestInv, Ids
  <1>10. ASSUME NEW g \in Gens, WorkerStep(g), ~Send(g), ~Fail(g) PROVE RequestInv'
    <2>1. handed' = handed /\ ghosts' = ghosts /\ phase' = phase
      BY <1>10 DEF WorkerStep, Take, Begin, Check1, Announce, Prove, Check2, Stage, Verify, Answered, Poll,
         Query, Record, Finally, remoteVars
    <2>2. rpc'[g] # "sent"
      BY <1>10 DEF WorkerStep, Take, Begin, Check1, Announce, Prove, Check2, Stage, Verify, Answered, Poll,
         Query, Record, Finally, WorkerInv, WorkerAt, TypeOK
    <2>3. \A h \in Gens : h # g => rpc'[h] = rpc[h] /\ pc'[h] = pc[h] /\ job'[h] = job[h]
      BY <1>10, OtherWorkers
    <2> QED
      BY <1>1, <2>1, <2>2, <2>3
  <1> QED
    BY <1>2, <1>3, <1>4, <1>5, <1>6, <1>7, <1>8, <1>9, <1>10 DEF Next

LEMMA RequestInit == Init => RequestInv
  BY DEF Init, RemoteInit, RequestInv, Asked, Left

LEMMA Requests == Spec => []RequestInv
  <1>1. TypeOK /\ ClaimsAreUnique /\ RequestInv /\ [Next]_vars => RequestInv'
    BY RequestStep DEF ClaimsAreUnique
  <1> QED
    BY <1>1, RequestInit, Typed, Claims, PTL DEF Spec

\* A group that has stopped has stopped for good.
LEMMA StoppedStep ==
  ASSUME TypeOK, WorkerInv, [Next]_vars, NEW j \in ShellJobs, Stopped(j)
  PROVE  Stopped(j)'
  <1>1. ASSUME phase' = phase PROVE Stopped(j)'
    BY <1>1 DEF Stopped
  <1>2. CASE NewInstance \/ Constructor \/ Close \/ Crash \/ UNCHANGED vars
    BY <1>1, <1>2 DEF NewInstance, Constructor, RecoverLoad, RecoverSave, Booted, Close, Crash, vars, remoteVars
  <1>3. CASE Request
    BY <1>1, <1>3 DEF Request, Submit, Inspect, CancelControlled, CancelUnknown, remoteVars
  <1>4. ASSUME NEW n \in ShellJobs, Remote(n) PROVE Stopped(j)'
    BY <1>4, RemotePhases DEF Remote, RemoteStep, TypeOK, Stopped
  <1>5. ASSUME NEW g \in Gens, WorkerStep(g) PROVE Stopped(j)'
    BY <1>1, <1>5 DEF WorkerStep, Take, Begin, Check1, Announce, Prove, Check2, Stage, Verify, Send,
       Answered, Poll, Query, Record, Fail, Finally, remoteVars
  <1>6. CASE DeliverGhost
    <2>1. PICK request \in ghosts, answer \in {"done", "refused"} :
            Execute(request.op, request.id, answer)
      BY <1>6 DEF DeliverGhost
    <2>2. request \in Ghosts /\ RemoteTypeOK
      BY <2>1 DEF TypeOK
    <2> QED
      BY <2>1, <2>2, ExecutePhases DEF Stopped
  <1>7. ASSUME NEW g \in Gens, Deliver(g) PROVE Stopped(j)'
    <2>1. PICK request \in Abandoned(g), answer \in {"done", "refused"} :
            Execute(request.op, request.id, answer)
      BY <1>7 DEF Deliver
    <2>2. request \in Ghosts /\ RemoteTypeOK
      BY <2>1, AbandonedAsked DEF TypeOK
    <2> QED
      BY <2>1, <2>2, ExecutePhases DEF Stopped
  <1> QED
    BY <1>2, <1>3, <1>4, <1>5, <1>6, <1>7 DEF Next

\* What is over stays over.
LEMMA OverStep ==
  ASSUME TypeOK, WorkerInv, HandedInv, [Next]_vars, NEW i \in Ids, Over(i), disk[i].status # "none"
  PROVE  Over(i)'
  <1>1. CASE i \in ShellJobs /\ Stopped(i)
    BY <1>1, StoppedStep DEF Over
  <1>2. CASE handed[i] = 0 /\ \A g \in Gens : ~Claim(g, i)
    <2>1. \A g \in Gens : ~Claim(g, i)'
      BY <1>2, ClaimGrowth DEF Submit
    <2>2. handed'[i] = handed[i]
      BY <1>2, HandedStep DEF Claim
    <2> QED
      BY <1>2, <2>1, <2>2 DEF Over
  <1> QED
    BY <1>1, <1>2 DEF Over

\* Nothing of what is over runs, or can ever run.
LEMMA OverNeverRuns ==
  ASSUME RequestInv, NEW i \in Ids, Over(i)
  PROVE  NeverRuns(i)
  <1>1. ~Left(i)
    BY DEF Over, RequestInv, Stopped
  <1>2. i \notin {request.id : request \in {r \in ghosts : r.op # "cancel"}}
    BY <1>1 DEF Left
  <1>3. IF i \in ShellJobs THEN Stopped(i) \/ (phase[i] = "absent" /\ handed[i] = 0) ELSE handed[i] = 0
    BY DEF Over, RequestInv
  <1> QED
    BY <1>2, <1>3 DEF NeverRuns

\* Only a killed app ends an instance whose jobs are not done.
LEMMA UnkilledStep ==
  ASSUME TypeOK, OwnerInv, [Next]_vars, Unkilled'
  PROVE  Unkilled /\ ~Crash
  <1> USE DEF bootVars
  <1>0. \A g \in Gens : life'[g] # "dead"
    BY DEF Unkilled
  <1>1. CASE Crash
    <2>1. gen \in Gens /\ life' = [g \in Gens |-> IF life[g] = "none" THEN "none" ELSE "dead"]
      BY <1>1, JobsAssumption DEF Crash, TypeOK, Gens
    <2>2. life[gen] # "none"
      BY <2>1, JobsAssumption DEF OwnerInv, LifeAt, TypeOK, Gens
    <2>3. life'[gen] = "dead"
      BY <2>1, <2>2
    <2> QED
      BY <1>0, <2>1, <2>3
  <1>2. ASSUME life' = life PROVE \A g \in Gens : life[g] # "dead"
    BY <1>0, <1>2
  <1>3. ASSUME NewInstance PROVE \A g \in Gens : life[g] # "dead"
    <2>1. gen + 1 \in Gens /\ life' = [life EXCEPT ![gen + 1] = "booting"] /\ gen + 1 > gen
      BY <1>3, JobsAssumption DEF NewInstance, TypeOK, Gens
    <2>2. life[gen + 1] = "none"
      BY <2>1 DEF OwnerInv, LifeAt
    <2>3. \A g \in Gens : g # gen + 1 => life'[g] = life[g]
      BY <2>1 DEF TypeOK
    <2> QED
      BY <1>0, <2>2, <2>3
  <1>4. ASSUME Booted \/ Close PROVE \A g \in Gens : life[g] # "dead"
    <2>1. gen \in Gens /\ life[gen] \in {"booting", "open"} /\ \A g \in Gens : g # gen => life'[g] = life[g]
      BY <1>4, JobsAssumption DEF Booted, Close, TypeOK, Gens
    <2> QED
      BY <1>0, <2>1
  <1>5. ASSUME (\E i \in Ids : RecoverLoad(i)) \/ RecoverSave \/ DeliverGhost \/ UNCHANGED vars
        PROVE  life' = life
    BY <1>5 DEF RecoverLoad, RecoverSave, DeliverGhost, vars
  <1>6. ASSUME Request PROVE life' = life
    BY <1>6 DEF Request, Submit, Inspect, CancelControlled, CancelUnknown
  <1>7. ASSUME NEW j \in ShellJobs, Remote(j) PROVE life' = life
    BY <1>7 DEF Remote
  <1>8. ASSUME NEW g \in Gens, WorkerStep(g) \/ Deliver(g) PROVE life' = life
    BY <1>8 DEF WorkerStep, Deliver, Take, Begin, Check1, Announce, Prove, Check2, Stage, Verify, Send,
       Answered, Poll, Query, Record, Fail, Finally
  <1>9. ~Crash
    BY <1>1
  <1>10. \A g \in Gens : life[g] # "dead"
    BY <1>2, <1>3, <1>4, <1>5, <1>6, <1>7, <1>8, <1>9 DEF Next, Constructor
  <1> QED
    BY <1>9, <1>10 DEF Unkilled

\* Who loses a flag: the job a worker has just finished.
LEMMA FlagLoss ==
  ASSUME TypeOK, OwnerInv, [Next]_vars, ~Crash, NEW g \in Gens, NEW i \in Ids, i \in flagged[g]
  PROVE  i \in flagged'[g] \/ (Finally(g) /\ job[g] = i)
  <1> USE DEF queueVars
  <1>1. ASSUME flagged' = flagged PROVE i \in flagged'[g]
    BY <1>1
  <1>2. CASE NewInstance \/ Constructor \/ DeliverGhost \/ UNCHANGED vars
    BY <1>1, <1>2 DEF NewInstance, Constructor, RecoverLoad, RecoverSave, Booted, DeliverGhost, vars
  <1>3. ASSUME NEW j \in ShellJobs, Remote(j) PROVE i \in flagged'[g]
    BY <1>1, <1>3 DEF Remote
  <1>4. ASSUME NEW n \in Ids, Submit(n) \/ Inspect(n) PROVE i \in flagged'[g]
    BY <1>1, <1>4 DEF Submit, Inspect
  <1>5. ASSUME NEW n \in Ids, CancelControlled(n) \/ CancelUnknown(n) PROVE i \in flagged'[g]
    <2>1. flagged' = [flagged EXCEPT ![gen] = flagged[gen] \cup {n}]
      BY <1>5, Zenon DEF CancelControlled, CancelUnknown
    <2> QED
      BY <2>1 DEF TypeOK
  <1>6. CASE Close
    <2>1. flagged' = [flagged EXCEPT ![gen] = controls[gen]]
      BY <1>6 DEF Close
    <2> QED
      BY <2>1 DEF TypeOK, OwnerInv, OwnerAt
  <1>7. ASSUME NEW h \in Gens, WorkerStep(h) \/ Deliver(h) PROVE i \in flagged'[g] \/ (Finally(g) /\ job[g] = i)
    <2>1. CASE Finally(h)
      BY <2>1 DEF Finally, Release, TypeOK
    <2>2. CASE ~Finally(h)
      BY <1>1, <1>7, <2>2 DEF WorkerStep, Deliver, Take, Begin, Check1, Announce, Prove, Check2, Stage,
         Verify, Send, Answered, Poll, Query, Record, Fail
    <2> QED
      BY <2>1, <2>2
  <1> QED
    BY <1>2, <1>3, <1>4, <1>5, <1>6, <1>7 DEF Next, Request

\* A worker that still holds its claim at the last steps was there already, or has
\* just looked at the flag and found it down.
LEMMA LateHeld ==
  ASSUME TypeOK, WorkerInv, [Next]_vars, NEW g \in Gens, NEW i \in Ids, HeldNew(g, i)',
         pc'[g] \in {"stage", "install", "start"}
  PROVE  HeldNew(g, i) /\ (pc[g] \in {"stage", "install", "start"} \/ i \notin flagged[g])
  <1> USE DEF threadVars, Goto, SetRow
  <1>1. ASSUME pc'[g] = pc[g] PROVE pc[g] \in {"stage", "install", "start"}
    BY <1>1
  <1>2. CASE NewInstance \/ Constructor \/ Close \/ DeliverGhost \/ UNCHANGED vars
    BY <1>1, <1>2, HeldGrowth DEF NewInstance, Constructor, RecoverLoad, RecoverSave, Booted, Close, DeliverGhost, vars, Take
  <1>3. CASE Request
    BY <1>1, <1>3, HeldGrowth DEF Request, Submit, Inspect, CancelControlled, CancelUnknown, Take
  <1>4. ASSUME NEW j \in ShellJobs, Remote(j) PROVE pc' = pc
    BY <1>4 DEF Remote
  <1>5. CASE Crash
    BY <1>5 DEF Crash
  <1>6. ASSUME NEW h \in Gens, h # g, WorkerStep(h) \/ Deliver(h) PROVE pc'[g] = pc[g]
    BY <1>6, OtherWorkers
  <1>7. ASSUME Take(g) PROVE FALSE
    BY <1>7 DEF Take, TypeOK
  <1>8. HeldNew(g, i)
    BY <1>7, HeldGrowth
  <1>9. ASSUME WorkerStep(g) \/ Deliver(g), ~Check2(g)
        PROVE  pc[g] \in {"stage", "install", "start"}
    BY <1>9 DEF WorkerStep, Deliver, Take, Begin, Check1, Announce, Prove, Stage, Verify, Send,
       Answered, Poll, Query, Record, Fail, Finally, TypeOK
  <1>10. ASSUME Check2(g) PROVE i \notin flagged[g]
    <2>1. ~Cancelled(g)
      BY <1>10 DEF Check2, TypeOK
    <2> QED
      BY <1>8, <2>1 DEF Cancelled, HeldNew
  <1> QED
    BY <1>1, <1>2, <1>3, <1>4, <1>5, <1>6, <1>8, <1>9, <1>10 DEF Next

\* A doomed job stays doomed as long as the app lives.
LEMMA DoomedStep ==
  ASSUME TypeOK, WorkerInv, HandedInv, OwnerInv, [Next]_vars, ~Crash,
         NEW i \in Ids, Doomed(i), disk[i].status # "none"
  PROVE  Doomed(i)'
  <1>1. handed'[i] = 0
    BY HandedStep DEF Doomed
  <1>2. ASSUME NEW g \in Gens, Claim(g, i)' PROVE i \in flagged'[g]
    <2>1. Claim(g, i)
      BY <1>2, ClaimGrowth DEF Submit
    <2>2. i \in flagged[g]
      BY <2>1 DEF Doomed
    <2>3. ~(Finally(g) /\ job[g] = i)
      <3> SUFFICES ASSUME Finally(g), job[g] = i PROVE FALSE
        OBVIOUS
      <3>1. pc[g] = "finish"
        BY DEF Finally
      <3>2. QueuedNew(g, i)
        BY <2>1, <3>1 DEF Claim, HeldNew, BeforeSend
      <3> QED
        BY <3>1, <3>2 DEF QueuedNew, OwnerInv, OwnerAt
    <2> QED
      BY <2>2, <2>3, FlagLoss
  <1>3. ASSUME NEW g \in Gens, HeldNew(g, i)' PROVE pc'[g] \notin {"stage", "install", "start"}
    <2> SUFFICES ASSUME pc'[g] \in {"stage", "install", "start"} PROVE FALSE
      OBVIOUS
    <2>1. HeldNew(g, i) /\ (pc[g] \in {"stage", "install", "start"} \/ i \notin flagged[g])
      BY <1>3, LateHeld
    <2> QED
      BY <2>1 DEF Doomed, Claim
  <1> QED
    BY <1>1, <1>2, <1>3 DEF Doomed

\* Who loses a control: the job a worker has just finished.
LEMMA ControlLoss ==
  ASSUME TypeOK, [Next]_vars, ~Crash, NEW g \in Gens, NEW i \in Ids, i \in controls[g]
  PROVE  i \in controls'[g] \/ (Finally(g) /\ job[g] = i)
  <1> USE DEF queueVars
  <1>1. ASSUME controls' = controls PROVE i \in controls'[g]
    BY <1>1
  <1>2. CASE NewInstance \/ Constructor \/ Close \/ DeliverGhost \/ UNCHANGED vars
    BY <1>1, <1>2 DEF NewInstance, Constructor, RecoverLoad, RecoverSave, Booted, Close, DeliverGhost, vars
  <1>3. ASSUME NEW j \in ShellJobs, Remote(j) PROVE i \in controls'[g]
    BY <1>1, <1>3 DEF Remote
  <1>4. ASSUME NEW n \in Ids, CancelControlled(n) PROVE i \in controls'[g]
    BY <1>1, <1>4 DEF CancelControlled
  <1>5. ASSUME NEW n \in Ids, Submit(n) \/ Inspect(n) \/ CancelUnknown(n) PROVE i \in controls'[g]
    BY <1>5, RunControls
  <1>6. ASSUME NEW h \in Gens, WorkerStep(h) \/ Deliver(h) PROVE i \in controls'[g] \/ (Finally(g) /\ job[g] = i)
    <2>1. CASE Finally(h)
      BY <2>1 DEF Finally, Release, TypeOK
    <2>2. CASE ~Finally(h)
      BY <1>1, <1>6, <2>2 DEF WorkerStep, Deliver, Take, Begin, Check1, Announce, Prove, Check2, Stage,
         Verify, Send, Answered, Poll, Query, Record, Fail
    <2> QED
      BY <2>1, <2>2
  <1> QED
    BY <1>2, <1>3, <1>4, <1>5, <1>6 DEF Next, Request

\* A row that says "queued" is of a job no worker has carried past its announcement.
WaitingInv ==
  /\ \A i \in Ids : disk[i].status = "queued" => handed[i] = 0
  /\ \A g \in Gens, i \in Ids :
       HeldNew(g, i) /\ pc[g] \notin {"begin", "check1", "announce"} => disk[i].status # "queued"
  /\ \A g \in Gens : row[g].status = "queued" => pc[g] \in {"begin", "check1", "announce"}

\* A worker leaves the first three steps with its claim only by announcing the job.
LEMMA EarlyLeaves ==
  ASSUME TypeOK, [Next]_vars, NEW g \in Gens, pc[g] \in {"begin", "check1", "announce"},
         pc'[g] \in BeforeSend \ {"begin", "check1", "announce"}
  PROVE  Announce(g)
  <1> USE DEF threadVars, Goto, BeforeSend
  <1>1. ASSUME pc'[g] = pc[g] PROVE FALSE
    BY <1>1
  <1>2. CASE NewInstance \/ Constructor \/ Close \/ DeliverGhost \/ UNCHANGED vars
    BY <1>1, <1>2 DEF NewInstance, Constructor, RecoverLoad, RecoverSave, Booted, Close, DeliverGhost, vars
  <1>3. CASE Request
    BY <1>1, <1>3 DEF Request, Submit, Inspect, CancelControlled, CancelUnknown
  <1>4. ASSUME NEW j \in ShellJobs, Remote(j) PROVE FALSE
    BY <1>1, <1>4 DEF Remote
  <1>5. CASE Crash
    BY <1>5 DEF Crash
  <1>6. ASSUME NEW h \in Gens, h # g, WorkerStep(h) \/ Deliver(h) PROVE FALSE
    BY <1>1, <1>6, OtherWorkers
  <1>7. ASSUME WorkerStep(g) \/ Deliver(g) PROVE Announce(g)
    BY <1>7 DEF WorkerStep, Deliver, Take, Begin, Check1, Prove, Check2, Stage, Verify, Send,
       Answered, Poll, Query, Record, Fail, Finally, TypeOK
  <1> QED
    BY <1>2, <1>3, <1>4, <1>5, <1>6, <1>7 DEF Next

\* What a step makes of a worker's row: its own, unless the worker steps itself.
LEMMA RowSteps ==
  ASSUME TypeOK, [Next]_vars, NEW g \in Gens
  PROVE  \/ row'[g] = row[g] /\ pc'[g] = pc[g] /\ job'[g] = job[g]
         \/ WorkerStep(g)
         \/ row'[g] = Stored("none")
  <1> USE DEF threadVars
  <1>1. CASE NewInstance \/ Constructor \/ Close \/ DeliverGhost \/ UNCHANGED vars
    BY <1>1 DEF NewInstance, Constructor, RecoverLoad, RecoverSave, Booted, Close, DeliverGhost, vars
  <1>2. CASE Request
    BY <1>2 DEF Request, Submit, Inspect, CancelControlled, CancelUnknown
  <1>3. ASSUME NEW j \in ShellJobs, Remote(j) PROVE row'[g] = row[g] /\ pc'[g] = pc[g] /\ job'[g] = job[g]
    BY <1>3 DEF Remote
  <1>4. CASE Crash
    BY <1>4 DEF Crash
  <1>5. ASSUME NEW h \in Gens, WorkerStep(h), h # g PROVE row'[g] = row[g] /\ pc'[g] = pc[g] /\ job'[g] = job[g]
    BY <1>5, OtherWorkers
  <1>6. ASSUME NEW h \in Gens, Deliver(h) PROVE row'[g] = row[g] /\ pc'[g] = pc[g] /\ job'[g] = job[g]
    BY <1>6 DEF Deliver
  <1> QED
    BY <1>1, <1>2, <1>3, <1>4, <1>5, <1>6 DEF Next

LEMMA WaitingStep ==
  TypeOK /\ WorkerInv /\ HandedInv /\ WaitingInv /\ [Next]_vars => WaitingInv'
  <1> SUFFICES ASSUME TypeOK, WorkerInv, HandedInv, WaitingInv, [Next]_vars PROVE WaitingInv'
    OBVIOUS
  <1> USE DEF threadVars, Goto, SetRow
  <1>1. ASSUME NEW g \in Gens, row'[g].status = "queued" PROVE pc'[g] \in {"begin", "check1", "announce"}
    <2>1. CASE row'[g] = row[g] /\ pc'[g] = pc[g]
      BY <1>1, <2>1 DEF WaitingInv
    <2>2. row'[g] # Stored("none")
      BY <1>1 DEF Stored
    <2>3. CASE Take(g) \/ Begin(g)
      BY <2>3 DEF Take, Begin, TypeOK
    <2>4. CASE Check1(g) \/ Announce(g) \/ Check2(g) \/ Stage(g) \/ Fail(g)
      <3>1. PICK s \in {"cancelled", "starting", "checking", "running", "unknown", "failed"} :
              \/ row' = [row EXCEPT ![g].status = s]
              \/ row' = row /\ (pc'[g] = "announce" \/ pc[g] = "check2")
        BY <2>4 DEF Check1, Announce, Check2, Stage, Fail, Failure, TypeOK
      <3>2. CASE row' = [row EXCEPT ![g].status = s]
        BY <1>1, <3>1, <3>2, RowPoint, StatusNames DEF TypeOK, Transient
      <3>3. CASE row' = row /\ (pc'[g] = "announce" \/ pc[g] = "check2")
        BY <1>1, <3>3 DEF WaitingInv
      <3> QED
        BY <3>1, <3>2, <3>3
    <2>5. CASE Prove(g) \/ Verify(g) \/ Send(g) \/ Poll(g) \/ Record(g)
      BY <1>1, <2>5 DEF Prove, Verify, Send, Poll, Record, WaitingInv, TypeOK
    <2>6. CASE Answered(g)
      <3>1. CASE pc[g] = "install"
        BY <1>1, <2>6, <3>1 DEF Answered, TypeOK
      <3>2. CASE pc[g] # "install"
        BY <1>1, <2>6, <3>2 DEF Answered, WaitingInv, WorkerInv, WorkerAt
      <3> QED
        BY <3>1, <3>2
    <2>7. CASE Query(g)
      <3>1. job[g] \in ShellJobs
        BY <2>7 DEF Query, WorkerInv, WorkerAt
      <3>2. PICK report \in Reports(job[g]) : row'[g].status = StatusOf(report)
        BY <2>7 DEF Query, TypeOK
      <3> QED
        BY <1>1, <3>1, <3>2, ReportFacts DEF TypeOK
    <2>8. CASE Finally(g)
      BY <2>2, <2>8 DEF Finally, TypeOK
    <2> QED
      BY <2>1, <2>2, <2>3, <2>4, <2>5, <2>6, <2>7, <2>8, RowSteps DEF WorkerStep
  <1>2. ASSUME NEW i \in Ids, disk'[i].status = "queued" PROVE disk[i].status = "queued" \/ Submit(i)
    <2>1. ASSUME NEW g \in Gens, Prove(g) \/ Record(g) \/ Finally(g) PROVE row[g].status # "queued"
      BY <2>1 DEF Prove, Record, Finally, WaitingInv
    <2>2. loaded # Nothing => loaded.row.status # "queued"
      BY DEF HandedInv
    <2> QED
      BY <1>2, <2>1, <2>2, RowWrites
  <1>3. ASSUME NEW i \in Ids, disk'[i].status = "queued" PROVE handed'[i] = 0
    <2>1. CASE Submit(i)
      BY <2>1 DEF Submit, HandedInv
    <2>2. CASE disk[i].status = "queued"
      <3>1. handed[i] = 0
        BY <2>2 DEF WaitingInv
      <3>2. handed'[i] = handed[i]
        BY <2>2, HandedStep DEF WaitingInv
      <3> QED
        BY <3>1, <3>2
    <2> QED
      BY <1>2, <1>3, <2>1, <2>2
  <1>4. ASSUME NEW g \in Gens, NEW i \in Ids, HeldNew(g, i)', pc'[g] \notin {"begin", "check1", "announce"},
               disk'[i].status = "queued"
        PROVE  FALSE
    <2>1. HeldNew(g, i)
      BY <1>4, HeldGrowth DEF Take, TypeOK
    <2>2. disk[i].status = "queued"
      BY <1>2, <1>4, <2>1 DEF Submit, HandedInv, Claim
    <2>3. pc[g] \in {"begin", "check1", "announce"}
      BY <2>1, <2>2 DEF WaitingInv
    <2>4. pc'[g] \in BeforeSend
      BY <1>4 DEF HeldNew
    <2>5. Announce(g)
      BY <1>4, <2>3, <2>4, EarlyLeaves
    <2>6. job[g] = i /\ disk' = [disk EXCEPT ![i] = row'[g]] /\ row'[g].status \in {"starting", "checking"}
      BY <2>1, <2>5, RowPoint, StatusNames DEF HeldNew, Announce, Save, TypeOK, Transient
    <2> QED
      BY <1>4, <2>6 DEF TypeOK
  <1> QED
    BY <1>1, <1>3, <1>4 DEF WaitingInv

LEMMA WaitingInit == Init => WaitingInv
  BY DEF Init, WaitingInv, Stored

\* The rows that say "cancelled", or are about to: in a worker's hands, in the
\* constructor's, and on disk when nobody holds the job.
CancelInv ==
  /\ WaitingInv
  /\ \A g \in Gens : row[g].status = "cancelled" => pc[g] \in {"record", "finish"} /\ Over(job[g])
  /\ loaded # Nothing /\ loaded.row.status = "cancelled" /\ Unkilled => Doomed(loaded.id)
  /\ Unkilled => \A i \in Ids :
       disk[i].status = "cancelled" /\ (\A g \in Gens : i \notin controls[g]) => Over(i)

\* Whose row has just become "cancelled": one whose claim a look at the flag ended,
\* or one whose group a status call found stopped.
LEMMA NewlyCancelled ==
  ASSUME TypeOK, WorkerInv, TruthInv, CancelInv, [Next]_vars, NEW g \in Gens,
         row'[g].status = "cancelled"
  PROVE  /\ pc'[g] \in {"record", "finish"} /\ job'[g] = job[g] /\ pc[g] # "idle"
         /\ \/ row[g].status = "cancelled"
            \/ (Check1(g) \/ Check2(g)) /\ Cancelled(g) /\ pc'[g] = "finish"
            \/ Query(g) /\ job[g] \in ShellJobs /\ Stopped(job[g])
  <1> USE DEF threadVars, Goto, SetRow
  <1>0. row'[g] # Stored("none")
    BY DEF Stored
  <1>1. row[g].status = "cancelled" => pc[g] \in {"record", "finish"}
    BY DEF CancelInv
  <1>2. CASE row'[g] = row[g] /\ pc'[g] = pc[g] /\ job'[g] = job[g]
    BY <1>1, <1>2
  <1>3. CASE Take(g)
    BY <1>3 DEF Take, TypeOK
  <1>4. CASE Check1(g) \/ Check2(g)
    <2>1. CASE ~Cancelled(g)
      BY <1>1, <1>4, <2>1 DEF Check1, Check2
    <2> QED
      BY <1>4, <2>1 DEF Check1, Check2, TypeOK
  <1>5. CASE Announce(g) \/ Stage(g) \/ Fail(g)
    <2>1. PICK s \in {"starting", "checking", "running", "unknown", "failed"} :
            row' = [row EXCEPT ![g].status = s]
      BY <1>5 DEF Announce, Stage, Fail, Failure
    <2> QED
      BY <2>1, RowPoint, StatusNames DEF TypeOK, Transient
  <1>6. CASE Begin(g) \/ Prove(g) \/ Verify(g) \/ Send(g) \/ Poll(g)
    BY <1>1, <1>6 DEF Begin, Prove, Verify, Send, Poll
  <1>7. CASE Answered(g)
    <2>1. CASE pc[g] = "install"
      BY <1>7, <2>1 DEF Answered, TypeOK
    <2>2. CASE pc[g] # "install"
      BY <1>1, <1>7, <2>2 DEF Answered, WorkerInv, WorkerAt
    <2> QED
      BY <2>1, <2>2
  <1>8. CASE Query(g)
    <2>1. job[g] \in ShellJobs
      BY <1>8 DEF Query, WorkerInv, WorkerAt
    <2>2. PICK report \in Reports(job[g]) : row'[g].status = StatusOf(report)
      BY <1>8 DEF Query, TypeOK
    <2>3. Stopped(job[g])
      BY <2>1, <2>2, ReportIsTrue DEF TypeOK, TruthInv
    <2> QED
      BY <1>8, <2>1, <2>3 DEF Query, TypeOK
  <1>9. CASE Record(g)
    BY <1>9 DEF Record, TypeOK
  <1>10. CASE Finally(g)
    BY <1>0, <1>10 DEF Finally, TypeOK
  <1> QED
    BY <1>0, <1>2, <1>3, <1>4, <1>5, <1>6, <1>7, <1>8, <1>9, <1>10, RowSteps DEF WorkerStep

\* A claim that a look at the flag has ended was the only one.
LEMMA CaughtIsOver ==
  ASSUME TypeOK, WorkerInv, ClaimInv, HandedInv, [Next]_vars, NEW g \in Gens,
         Check1(g) \/ Check2(g), Cancelled(g), pc'[g] = "finish"
  PROVE  Over(job[g])'
  <1>1. job[g] \in Ids /\ job'[g] = job[g] /\ HeldNew(g, job[g])
    BY DEF Check1, Check2, Cancelled, WorkerInv, WorkerAt, HeldNew, BeforeSend
  <1> DEFINE i == job[g]
  <1>2. handed'[i] = 0 /\ disk[i].status # "none"
    BY <1>1 DEF HandedInv, Claim, Check1, Check2
  <1>3. ASSUME NEW n \in Ids, n = i, NEW h \in Gens, Claim(h, n)' PROVE FALSE
    <2>1. Claim(h, n)
      BY <1>2, <1>3, ClaimGrowth DEF Submit
    <2>2. h = g
      BY <1>1, <1>3, <2>1 DEF ClaimInv, Claim
    <2>3. ~QueuedNew(g, n)
      BY <1>1, <1>3 DEF ClaimInv
    <2>4. queue' = queue
      BY DEF Check1, Check2, queueVars
    <2> QED
      BY <1>3, <2>2, <2>3, <2>4 DEF Claim, QueuedNew, HeldNew, BeforeSend
  <1>4. PICK n \in Ids : n = i
    BY <1>1
  <1>5. Over(n)'
    BY <1>2, <1>3, <1>4 DEF Over
  <1> QED
    BY <1>1, <1>4, <1>5 DEF Over, Claim, QueuedNew, HeldNew, Stopped

\* While no instance is killed, a job a constructor finds queued is doomed: the closed
\* predecessor has flagged it, and its worker has not passed the first look.
LEMMA FoundQueued ==
  ASSUME TypeOK, WorkerInv, OwnerInv, WaitingInv, Unkilled, NEW i \in Ids,
         i \in todo, disk[i].status = "queued"
  PROVE  Doomed(i)
  <1>1. handed[i] = 0
    BY DEF WaitingInv
  <1>2. life[gen] = "booting"
    BY DEF OwnerInv
  <1>3. ASSUME NEW g \in Gens, Claim(g, i) PROVE i \in flagged[g]
    <2>1. i \in controls[g]
      BY <1>3 DEF Claim, QueuedNew, HeldNew, BeforeSend, OwnerInv, OwnerAt
    <2>2. life[g] \notin {"none", "booting", "open", "dead"}
      BY <1>2, <2>1 DEF OwnerInv, LifeAt, Unkilled
    <2>3. life[g] = "closed"
      BY <2>2 DEF TypeOK, Lives
    <2> QED
      BY <2>1, <2>3 DEF OwnerInv, LifeAt
  <1>4. ASSUME NEW g \in Gens, HeldNew(g, i) PROVE pc[g] \notin {"stage", "install", "start"}
    BY <1>4 DEF WaitingInv
  <1> QED
    BY <1>1, <1>3, <1>4 DEF Doomed

\* Who puts a row into the constructor's hands.
LEMMA LoadedStep ==
  ASSUME [Next]_vars, ~Crash, loaded' # loaded, loaded' # Nothing
  PROVE  \E i \in Ids : RecoverLoad(i)
  <1> USE DEF bootVars
  <1>1. CASE NewInstance \/ Close \/ DeliverGhost \/ UNCHANGED vars
    BY <1>1 DEF NewInstance, Close, DeliverGhost, vars
  <1>2. CASE Constructor
    BY <1>2 DEF Constructor, RecoverSave, Booted
  <1>3. CASE Request
    BY <1>3 DEF Request, Submit, Inspect, CancelControlled, CancelUnknown
  <1>4. ASSUME NEW j \in ShellJobs, Remote(j) PROVE FALSE
    BY <1>4 DEF Remote
  <1>5. ASSUME NEW g \in Gens, WorkerStep(g) \/ Deliver(g) PROVE FALSE
    BY <1>5 DEF WorkerStep, Deliver, Take, Begin, Check1, Announce, Prove, Check2, Stage, Verify, Send,
       Answered, Poll, Query, Record, Fail, Finally
  <1> QED
    BY <1>1, <1>2, <1>3, <1>4, <1>5 DEF Next

LEMMA CancelStep ==
  TypeOK /\ WorkerInv /\ ClaimInv /\ HandedInv /\ TruthInv /\ OwnerInv /\ CancelInv /\ [Next]_vars
    => CancelInv'
  <1> SUFFICES ASSUME TypeOK, WorkerInv, ClaimInv, HandedInv, TruthInv, OwnerInv, CancelInv, [Next]_vars
               PROVE  CancelInv'
    OBVIOUS
  <1>0. WaitingInv
    BY DEF CancelInv
  <1>1. WaitingInv'
    BY <1>0, WaitingStep
  \* What a worker holds as cancelled is over, now and from now on.
  <1>2. ASSUME NEW g \in Gens, row[g].status = "cancelled"
        PROVE  job[g] \in Ids /\ Over(job[g]) /\ disk[job[g]].status # "none"
    <2>1. pc[g] # "idle" /\ Over(job[g])
      BY <1>2 DEF CancelInv
    <2>2. job[g] \in Ids
      BY <2>1 DEF WorkerInv, WorkerAt
    <2> QED
      BY <2>1, <2>2 DEF OwnerInv, OwnerAt
  <1>3. ASSUME NEW g \in Gens, row'[g].status = "cancelled"
        PROVE  pc'[g] \in {"record", "finish"} /\ Over(job[g])' /\ job'[g] = job[g]
    <2>1. /\ pc'[g] \in {"record", "finish"} /\ job'[g] = job[g]
          /\ \/ row[g].status = "cancelled"
             \/ (Check1(g) \/ Check2(g)) /\ Cancelled(g) /\ pc'[g] = "finish"
             \/ Query(g) /\ job[g] \in ShellJobs /\ Stopped(job[g])
      BY <1>3, NewlyCancelled
    <2>2. CASE row[g].status = "cancelled"
      <3>1. PICK n \in Ids : n = job[g] /\ Over(n) /\ disk[n].status # "none"
        BY <1>2, <2>2
      <3>2. Over(n)'
        BY <3>1, OverStep
      <3> QED
        BY <2>1, <3>1, <3>2 DEF Over, Claim, QueuedNew, HeldNew, Stopped
    <2>3. CASE (Check1(g) \/ Check2(g)) /\ Cancelled(g) /\ pc'[g] = "finish"
      BY <2>1, <2>3, CaughtIsOver
    <2>4. CASE Query(g) /\ job[g] \in ShellJobs /\ Stopped(job[g])
      <3>1. phase' = phase
        BY <2>4 DEF Query, remoteVars
      <3> QED
        BY <2>1, <2>4, <3>1 DEF Over, Stopped
    <2> QED
      BY <2>1, <2>2, <2>3, <2>4
  <1>4. ASSUME loaded' # Nothing, loaded'.row.status = "cancelled", Unkilled'
        PROVE  Doomed(loaded.id)'
    <2>1. Unkilled /\ ~Crash
      BY <1>4, UnkilledStep
    <2>2. CASE loaded' = loaded
      <3>1. PICK n \in Ids : n = loaded.id /\ Doomed(n) /\ disk[n].status # "none"
        BY <1>4, <2>1, <2>2 DEF CancelInv, OwnerInv, TypeOK
      <3>2. Doomed(n)'
        BY <2>1, <3>1, DoomedStep
      <3> QED
        BY <2>2, <3>1, <3>2 DEF Doomed, Claim, QueuedNew, HeldNew
    <2>3. CASE loaded' # loaded
      <3>1. PICK n \in Ids : RecoverLoad(n)
        BY <1>4, <2>1, <2>3, LoadedStep
      <3>2. n \in todo /\ loaded' = [id |-> n, row |-> [disk[n] EXCEPT !.status =
                           IF @ = "queued" THEN "cancelled" ELSE "unknown"]]
        BY <2>3, <3>1 DEF RecoverLoad
      <3>3. loaded'.id = n /\ disk[n].status = "queued"
        BY <1>4, <3>2 DEF TypeOK, Row
      <3>4. Doomed(n) /\ disk[n].status # "none"
        BY <1>0, <2>1, <3>2, <3>3, FoundQueued
      <3>5. Doomed(n)'
        BY <2>1, <3>4, DoomedStep
      <3> QED
        BY <3>3, <3>5 DEF Doomed, Claim, QueuedNew, HeldNew
    <2> QED
      BY <2>2, <2>3
  <1>5. ASSUME Unkilled', NEW i \in Ids, disk'[i].status = "cancelled", \A g \in Gens : i \notin controls'[g]
        PROVE  Over(i)'
    <2>1. Unkilled /\ ~Crash
      BY <1>5, UnkilledStep
    <2>2. SUFFICES Over(i) /\ disk[i].status # "none"
      BY OverStep
    <2>3. ASSUME NEW g \in Gens, job[g] = i, pc[g] # "idle", disk'[i] = row[g]
          PROVE  Over(i) /\ disk[i].status # "none"
      BY <1>2, <1>5, <2>3
    <2>4. CASE disk'[i] = disk[i]
      <3>1. CASE \A g \in Gens : i \notin controls[g]
        BY <1>5, <2>1, <2>4, <3>1 DEF CancelInv
      <3>2. ASSUME NEW g \in Gens, i \in controls[g] PROVE Over(i) /\ disk[i].status # "none"
        <4>1. Finally(g) /\ job[g] = i
          BY <1>5, <2>1, <3>2, ControlLoss
        <4> QED
          BY <2>3, <4>1 DEF Finally, Save, TypeOK
      <3> QED
        BY <3>1, <3>2
    <2>5. ASSUME CancelControlled(i) PROVE FALSE
      BY <1>5, <2>5, JobsAssumption DEF CancelControlled, Serving, TypeOK, Gens
    <2>6. CASE RecoverSave /\ loaded # Nothing /\ loaded.id = i /\ disk'[i] = loaded.row
      <3>1. Doomed(i) /\ disk[i].status # "none"
        BY <1>5, <2>1, <2>6 DEF CancelInv, OwnerInv
      <3>2. \A g \in Gens : i \notin controls[g]
        BY <1>5, <2>6 DEF RecoverSave, queueVars
      <3>3. \A g \in Gens : ~Claim(g, i)
        BY <3>2 DEF Claim, QueuedNew, HeldNew, BeforeSend, OwnerInv, OwnerAt
      <3> QED
        BY <3>1, <3>3 DEF Over, Doomed
    <2>7. disk'[i].status \notin {"queued", "checking", "starting", "running"} /\ disk'[i] # Stored("queued")
      BY <1>5 DEF Stored
    <2> QED
      BY <2>3, <2>4, <2>5, <2>6, <2>7, RowWrites
  <1> QED
    BY <1>1, <1>3, <1>4, <1>5 DEF CancelInv

LEMMA CancelInit == Init => CancelInv
  BY WaitingInit DEF Init, CancelInv, Stored

\* While the app has not been killed, a row that says "cancelled" and is in nobody's
\* hands is of a job whose command or install neither runs nor ever will, whoever
\* wrote the row: the worker, a client's cancel() or the next constructor.
THEOREM CancelledStopped == Spec => []CancelledMeansStopped
  <1>1. Init => TypeOK /\ WorkerInv /\ ClaimInv /\ HandedInv /\ TruthInv /\ OwnerInv /\ CancelInv
    BY TypeInit, WorkerInit, ClaimInit, TruthInit, OwnerInit, CancelInit
  <1>2. TypeOK /\ WorkerInv /\ ClaimInv /\ HandedInv /\ TruthInv /\ OwnerInv /\ CancelInv /\ [Next]_vars
          => (TypeOK /\ WorkerInv /\ ClaimInv /\ HandedInv /\ TruthInv /\ OwnerInv /\ CancelInv)'
    BY TypeStep, WorkerStepInv, ClaimStep, TruthStep, OwnerStep, CancelStep
  <1>3. RequestInv /\ CancelInv => CancelledMeansStopped
    BY OverNeverRuns DEF CancelInv, Unkilled, CancelledMeansStopped
  <1> QED
    BY <1>1, <1>2, <1>3, Requests, PTL DEF Spec
=============================================================================
