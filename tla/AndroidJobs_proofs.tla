-------------------------- MODULE AndroidJobs_proofs --------------------------
(***************************************************************************)
(* What holds of AndroidJobs for every set of jobs, every queue limit and  *)
(* every number of instances.                                              *)
(***************************************************************************)
EXTENDS AndroidJobs, TLAPS

LEMMA AppendFacts ==
  ASSUME NEW S, NEW s \in Seq(S), NEW e \in S
  PROVE  /\ Append(s, e) \in Seq(S)
         /\ DOMAIN Append(s, e) = DOMAIN s \cup {Len(s) + 1}
         /\ Len(s) + 1 \notin DOMAIN s
         /\ \A k \in DOMAIN s : Append(s, e)[k] = s[k]
         /\ Append(s, e)[Len(s) + 1] = e
  OBVIOUS

LEMMA TailFacts ==
  ASSUME NEW S, NEW s \in Seq(S), s # <<>>
  PROVE  /\ Head(s) \in S /\ Tail(s) \in Seq(S)
         /\ 1 \in DOMAIN s /\ Head(s) = s[1]
         /\ \A k \in DOMAIN Tail(s) : k \in Nat \ {0} /\ k + 1 \in DOMAIN s /\ Tail(s)[k] = s[k + 1]
  OBVIOUS

LEMMA TypeInit == Init => TypeOK
  BY JobsAssumption DEF Init, TypeOK, RemoteInit, RemoteTypeOK, Stored, Row, Statuses, Transient,
     Codes, Lives, PCs, Nothing, Gens, Phases, Exits

USE DEF Gens

LEMMA RowFacts ==
  ASSUME NEW r \in Row, NEW s \in Statuses
  PROVE  /\ [r EXCEPT !.status = s] \in Row
         /\ [r EXCEPT !.status = s].status = s
         /\ [r EXCEPT !.status = s].code = r.code
  BY DEF Row

LEMMA RowUpdate ==
  ASSUME NEW f \in [Gens -> Row], NEW s \in Statuses, NEW g \in Gens
  PROVE  [f EXCEPT ![g].status = s] \in [Gens -> Row]
  BY DEF Row

LEMMA RowPoint ==
  ASSUME NEW f \in [Gens -> Row], NEW s \in Statuses, NEW g \in Gens
  PROVE  /\ [f EXCEPT ![g].status = s][g].status = s
         /\ [f EXCEPT ![g].status = s][g].code = f[g].code
         /\ \A h \in Gens : h # g => [f EXCEPT ![g].status = s][h] = f[h]
  BY DEF Row

LEMMA StoredFacts ==
  ASSUME NEW s \in Statuses PROVE Stored(s) \in Row /\ Stored(s).status = s /\ Stored(s).code = "null"
  BY DEF Row, Stored, Codes

LEMMA StatusNames ==
  Transient \cup {"none", "completed", "failed", "cancelled", "unknown"} \subseteq Statuses
  BY DEF Statuses

LEMMA RemoteTypes ==
  ASSUME RemoteTypeOK, NEW j \in ShellJobs,
         Launch(j) \/ Publish(j) \/ Finish(j) \/ Settle(j) \/ Lose(j) \/ CancelCall(j)
  PROVE  RemoteTypeOK'
  <1> USE DEF RemoteTypeOK, MoveTo, Phases, Exits
  <1>1. CASE Launch(j)
    BY <1>1 DEF Launch
  <1>2. CASE Publish(j)
    BY <1>2 DEF Publish
  <1>3. CASE Finish(j)
    <2>1. PICK code \in Exits \ {"none"} : exit' = [exit EXCEPT ![j] = code]
      BY <1>3 DEF Finish
    <2> QED
      BY <1>3, <2>1 DEF Finish
  <1>4. CASE Settle(j)
    BY <1>4 DEF Settle
  <1>5. CASE Lose(j)
    <2>1. phase' \in [ShellJobs -> Phases]
      BY <1>5 DEF Lose
    <2> QED
      BY <1>5, <2>1 DEF Lose
  <1>6. CASE CancelCall(j)
    <2>1. phase' \in [ShellJobs -> Phases]
      BY <1>6 DEF CancelCall
    <2> QED
      BY <1>6, <2>1 DEF CancelCall
  <1> QED
    BY <1>1, <1>2, <1>3, <1>4, <1>5, <1>6

LEMMA ExecuteTypes ==
  ASSUME RemoteTypeOK, installed \in SUBSET InstallJobs, NEW request \in Ghosts,
         request.op \in {"start", "cancel"} => request.id \in ShellJobs,
         request.op = "install" => request.id \in InstallJobs,
         NEW answer, Execute(request.op, request.id, answer)
  PROVE  RemoteTypeOK' /\ installed' \in SUBSET InstallJobs
  <1>1. CASE request.op = "start"
    BY <1>1, RemoteTypes DEF Execute, remoteVars, RemoteTypeOK
  <1>2. CASE request.op = "cancel"
    BY <1>2, RemoteTypes DEF Execute, remoteVars, RemoteTypeOK
  <1>3. CASE request.op = "install"
    BY <1>3 DEF Execute, remoteVars, RemoteTypeOK
  <1> QED
    BY <1>1, <1>2, <1>3 DEF Ghosts

\* What a status call can put into a row: never "none", and "failed" only with a code.
LEMMA ReportFacts ==
  ASSUME RemoteTypeOK, NEW j \in ShellJobs, NEW report \in Reports(j)
  PROVE  /\ StatusOf(report) \in {"starting", "running", "completed", "failed", "cancelled", "unknown"}
         /\ CodeOf(report) \in Codes
         /\ StatusOf(report) = "failed" => CodeOf(report) # "null"
         /\ StatusOf(report) \in Statuses
  <1>1. report.state \in {"starting", "running", "completed", "cancelled", "unknown"}
    BY DEF Reports, Report, RemoteTypeOK, Phases
  <1>2. report.code \in Exits
    BY DEF Reports, Report, RemoteTypeOK, Phases, Exits
  <1> QED
    BY <1>1, <1>2, StatusNames DEF StatusOf, CodeOf, Exits, Codes, Transient

\* run() of an id adds one task and one control.
LEMMA RunTypes ==
  ASSUME TypeOK, NEW g \in Gens, NEW i \in Ids, NEW new \in BOOLEAN, Run(g, i, new)
  PROVE  controls' \in [Gens -> SUBSET Ids] /\ queue' \in [Gens -> Seq(Task)]
  <1> DEFINE task == [id |-> i, create |-> new, code |-> disk[i].code]
  <1>1. task \in Task
    BY DEF TypeOK, Task, Row
  <1>2. queue[g] \in Seq(Task) /\ Append(queue[g], task) \in Seq(Task)
    <2> HIDE DEF task
    <2>1. queue[g] \in Seq(Task)
      BY DEF TypeOK
    <2> QED
      BY <1>1, <2>1
  <1>3. queue' = [queue EXCEPT ![g] = Append(queue[g], task)]
    BY DEF Run
  <1>4. queue' \in [Gens -> Seq(Task)]
    <2> HIDE DEF task
    <2> QED
      BY <1>2, <1>3 DEF TypeOK
  <1>5. controls' \in [Gens -> SUBSET Ids]
    <2>1. controls[g] \cup {i} \in SUBSET Ids
      BY DEF TypeOK
    <2> QED
      BY <2>1 DEF TypeOK, Run
  <1> QED
    BY <1>4, <1>5

LEMMA TypeStep == TypeOK /\ WorkerInv /\ [Next]_vars => TypeOK'
  <1> SUFFICES ASSUME TypeOK, WorkerInv, [Next]_vars PROVE TypeOK'
    OBVIOUS
  <1> USE JobsAssumption, StoredFacts, StatusNames
  <1> USE DEF diskVars, bootVars, queueVars, threadVars, remoteVars, Goto, Save, SetRow, TypeOK, Transient
  <1>1. CASE NewInstance
    BY <1>1 DEF NewInstance, Lives, RemoteTypeOK
  <1>2. CASE RecoverSave
    BY <1>2 DEF RecoverSave, RemoteTypeOK
  <1>3. CASE Booted
    BY <1>3 DEF Booted, Lives, RemoteTypeOK
  <1>4. CASE Close
    <2>1. gen \in Gens
      BY <1>4 DEF Close
    <2>2. flagged' \in [Gens -> SUBSET Ids] /\ life' \in [Gens -> Lives]
      BY <1>4, <2>1 DEF Close, Lives
    <2>3. open' \in [Gens -> BOOLEAN]
      BY <1>4, <2>1 DEF Close
    <2> QED
      BY <1>4, <2>2, <2>3 DEF Close, RemoteTypeOK
  <1>5. CASE Crash
    <2>1. \A g \in Gens : Abandoned(g) \subseteq Ghosts
      BY DEF Abandoned, Ghosts, WorkerInv, WorkerAt
    <2>2. ghosts' \in SUBSET Ghosts
      BY <1>5, <2>1 DEF Crash
    <2>3. /\ life' \in [Gens -> Lives] /\ queue' \in [Gens -> Seq(Task)]
          /\ pc' \in [Gens -> PCs] /\ row' \in [Gens -> Row]
      BY <1>5 DEF Crash, Lives, PCs
    <2>4. todo' = {} /\ loaded' = Nothing
      BY <1>5 DEF Crash
    <2> QED
      BY <1>5, <2>2, <2>3, <2>4 DEF Crash, RemoteTypeOK
  <1>6. CASE DeliverGhost
    <2>1. PICK request \in ghosts, answer \in {"done", "refused"} :
            Execute(request.op, request.id, answer) /\ ghosts' = ghosts \ {request}
      BY <1>6 DEF DeliverGhost
    <2>2. RemoteTypeOK' /\ installed' \in SUBSET InstallJobs
      BY <2>1, ExecuteTypes DEF Ghosts
    <2> QED
      BY <1>6, <2>1, <2>2 DEF DeliverGhost
  <1>7. ASSUME NEW i \in Ids, RecoverLoad(i) PROVE TypeOK'
    <2>1. CASE LeftBehind(disk[i].status)
      <3>1. loaded' \in [id : Ids, row : Row]
        BY <1>7, <2>1, RowFacts DEF RecoverLoad
      <3> QED
        BY <1>7, <2>1, <3>1 DEF RecoverLoad, RemoteTypeOK
    <2>2. CASE ~LeftBehind(disk[i].status)
      BY <1>7, <2>2 DEF RecoverLoad, RemoteTypeOK
    <2> QED
      BY <2>1, <2>2
  <1>8. ASSUME NEW i \in Ids, Submit(i) PROVE TypeOK'
    <2>1. gen \in Gens /\ disk' = [disk EXCEPT ![i] = Stored("queued")]
      BY <1>8 DEF Submit
    <2>2. controls' \in [Gens -> SUBSET Ids] /\ queue' \in [Gens -> Seq(Task)]
      BY <1>8, <2>1, RunTypes, Zenon DEF Submit
    <2> QED
      BY <1>8, <2>1, <2>2 DEF Submit, RemoteTypeOK
  <1>9. ASSUME NEW i \in Ids, Inspect(i) PROVE TypeOK'
    <2>1. gen \in Gens /\ disk' = [disk EXCEPT ![i] = [disk[i] EXCEPT !.status = "checking"]]
      BY <1>9 DEF Inspect, Serving
    <2>2. controls' \in [Gens -> SUBSET Ids] /\ queue' \in [Gens -> Seq(Task)]
      BY <1>9, <2>1, RunTypes, Zenon DEF Inspect
    <2>3. disk' \in [Ids -> Row]
      BY <2>1, RowFacts
    <2> QED
      BY <1>9, <2>2, <2>3 DEF Inspect, RemoteTypeOK
  <1>10. ASSUME NEW i \in Ids, CancelControlled(i) PROVE TypeOK'
    <2>1. gen \in Gens
      BY <1>10 DEF CancelControlled, Serving
    <2>2. flagged[gen] \cup {i} \in SUBSET Ids
      BY <2>1
    <2>3. flagged' \in [Gens -> SUBSET Ids]
      BY <1>10, <2>2 DEF CancelControlled
    <2>4. disk' \in [Ids -> Row]
      BY <1>10, RowFacts DEF CancelControlled
    <2>5. open' \in [Gens -> BOOLEAN]
      BY <1>10, <2>1 DEF CancelControlled, Interrupts
    <2> QED
      BY <1>10, <2>3, <2>4, <2>5 DEF CancelControlled, RemoteTypeOK
  <1>11. ASSUME NEW i \in Ids, CancelUnknown(i) PROVE TypeOK'
    <2>1. /\ gen \in Gens /\ disk' = [disk EXCEPT ![i] = [disk[i] EXCEPT !.status = "checking"]]
          /\ flagged' = [flagged EXCEPT ![gen] = @ \cup {i}]
      BY <1>11 DEF CancelUnknown, Serving
    <2>2. controls' \in [Gens -> SUBSET Ids] /\ queue' \in [Gens -> Seq(Task)]
      BY <1>11, <2>1, RunTypes, Zenon DEF CancelUnknown
    <2>3. disk' \in [Ids -> Row]
      BY <2>1, RowFacts
    <2>4. flagged[gen] \cup {i} \in SUBSET Ids
      BY <2>1
    <2> QED
      BY <1>11, <2>1, <2>2, <2>3, <2>4 DEF CancelUnknown, RemoteTypeOK
  <1>12. ASSUME NEW g \in Gens, Take(g) PROVE TypeOK'
    <2>1. PICK task : task = Head(queue[g])
      OBVIOUS
    <2>2. task \in Task /\ Tail(queue[g]) \in Seq(Task)
      BY <1>12, <2>1, TailFacts DEF Take
    <2>3. task.id \in Ids /\ task.create \in BOOLEAN /\ task.code \in Codes
      BY <2>2 DEF Task
    <2>4. queue' \in [Gens -> Seq(Task)] /\ pc' \in [Gens -> PCs] /\ open' \in [Gens -> BOOLEAN]
      BY <1>12, <2>2 DEF Take, PCs
    <2>5. /\ job' = [job EXCEPT ![g] = task.id]
          /\ create' = [create EXCEPT ![g] = task.create]
          /\ submitted' = [submitted EXCEPT ![g] = ~task.create]
          /\ row' = [row EXCEPT ![g] = [status |-> IF task.create THEN "queued" ELSE "checking",
                                        code |-> task.code]]
      BY <1>12, <2>1 DEF Take
    <2>6. [status |-> IF task.create THEN "queued" ELSE "checking", code |-> task.code] \in Row
      BY <2>3 DEF Row
    <2>7. job' \in [Gens -> Ids \cup {NoJob}] /\ row' \in [Gens -> Row]
      BY <2>3, <2>5, <2>6
    <2>8. create' \in [Gens -> BOOLEAN] /\ submitted' \in [Gens -> BOOLEAN]
      BY <2>3, <2>5
    <2> QED
      BY <1>12, <2>4, <2>7, <2>8 DEF Take, RemoteTypeOK
  <1>13. ASSUME NEW g \in Gens, Begin(g) PROVE TypeOK'
    BY <1>13 DEF Begin, PCs, RemoteTypeOK
  <1>14. ASSUME NEW g \in Gens, Check1(g) PROVE TypeOK'
    <2>1. row' \in {row, [row EXCEPT ![g].status = "cancelled"]}
      BY <1>14 DEF Check1
    <2>2. row' \in [Gens -> Row]
      <3>1. "cancelled" \in Statuses
        OBVIOUS
      <3>2. [row EXCEPT ![g].status = "cancelled"] \in [Gens -> Row]
        BY <3>1, RowUpdate
      <3> QED
        BY <2>1, <3>2
    <2>3. pc' \in [Gens -> PCs]
      <3>1. \E p \in PCs : pc' = [pc EXCEPT ![g] = p]
        BY <1>14, Zenon DEF Check1, PCs
      <3> QED
        BY <3>1
    <2> QED
      BY <1>14, <2>2, <2>3 DEF Check1, RemoteTypeOK
  <1>15. ASSUME NEW g \in Gens, Announce(g) PROVE TypeOK'
    <2>1. row' \in [Gens -> Row]
      BY <1>15, RowUpdate DEF Announce
    <2>2. disk' \in [Ids -> Row]
      BY <1>15, <2>1 DEF Announce
    <2> QED
      BY <1>15, <2>1, <2>2 DEF Announce, PCs, RemoteTypeOK
  <1>16. ASSUME NEW g \in Gens, Prove(g) PROVE TypeOK'
    BY <1>16 DEF Prove, PCs, RemoteTypeOK
  <1>17. ASSUME NEW g \in Gens, Check2(g) PROVE TypeOK'
    <2>1. row' \in {row, [row EXCEPT ![g].status = "cancelled"]}
      BY <1>17 DEF Check2
    <2>2. row' \in [Gens -> Row]
      <3>1. "cancelled" \in Statuses
        OBVIOUS
      <3>2. [row EXCEPT ![g].status = "cancelled"] \in [Gens -> Row]
        BY <3>1, RowUpdate
      <3> QED
        BY <2>1, <3>2
    <2>3. pc' \in [Gens -> PCs]
      <3>1. \E p \in PCs : pc' = [pc EXCEPT ![g] = p]
        BY <1>17, Zenon DEF Check2, PCs
      <3> QED
        BY <3>1
    <2>4. submitted' \in {submitted, [submitted EXCEPT ![g] = TRUE]}
      BY <1>17 DEF Check2
    <2>5. submitted' \in [Gens -> BOOLEAN]
      BY <2>4
    <2> QED
      BY <1>17, <2>2, <2>3, <2>5 DEF Check2, RemoteTypeOK
  <1>18. ASSUME NEW g \in Gens, Stage(g) PROVE TypeOK'
    <2>1. row' \in [Gens -> Row]
      BY <1>18, RowUpdate DEF Stage
    <2>2. disk' \in [Ids -> Row]
      BY <1>18, <2>1 DEF Stage
    <2> QED
      BY <1>18, <2>1, <2>2 DEF Stage, PCs, RemoteTypeOK
  <1>18a. ASSUME NEW g \in Gens, Verify(g) PROVE TypeOK'
    BY <1>18a DEF Verify, RemoteTypeOK
  <1>19. ASSUME NEW g \in Gens, Send(g) PROVE TypeOK'
    <2>1. job[g] \in Ids
      BY <1>19 DEF Send, WorkerInv, WorkerAt
    <2>2. handed[job[g]] + 1 \in Nat
      BY <2>1
    <2>3. handed' \in [Ids -> Nat]
      BY <1>19, <2>2 DEF Send
    <2> QED
      BY <1>19, <2>3 DEF Send, RemoteTypeOK
  <1>20. ASSUME NEW g \in Gens, Answered(g) PROVE TypeOK'
    <2>1. [status |-> "completed", code |-> "zero"] \in Row
      BY DEF Row, Codes
    <2>2. row' \in [Gens -> Row]
      BY <1>20, <2>1 DEF Answered
    <2>3. rpc' \in [Gens -> {"none", "verified", "sent", "done", "refused"}] /\ pc' \in [Gens -> PCs]
      BY <1>20 DEF Answered, PCs
    <2> QED
      BY <1>20, <2>2, <2>3 DEF Answered, RemoteTypeOK
  <1>21. ASSUME NEW g \in Gens, Poll(g) PROVE TypeOK'
    BY <1>21 DEF Poll, PCs, RemoteTypeOK
  <1>22. ASSUME NEW g \in Gens, Query(g) PROVE TypeOK'
    <2>1. PICK report \in Reports(job[g]) :
            row' = [row EXCEPT ![g] = [status |-> StatusOf(report), code |-> CodeOf(report)]]
      BY <1>22 DEF Query
    <2>2. job[g] \in ShellJobs
      BY <1>22 DEF Query, WorkerInv, WorkerAt
    <2>3. StatusOf(report) \in Statuses /\ CodeOf(report) \in Codes
      BY <2>2, ReportFacts
    <2>4. [status |-> StatusOf(report), code |-> CodeOf(report)] \in Row
      BY <2>3 DEF Row
    <2> QED
      BY <1>22, <2>1, <2>4 DEF Query, PCs, RemoteTypeOK
  <1>23. ASSUME NEW g \in Gens, Record(g) PROVE TypeOK'
    BY <1>23 DEF Record, PCs, RemoteTypeOK
  <1>24. ASSUME NEW g \in Gens, Fail(g) PROVE TypeOK'
    <2>1. Failure(g) \in Statuses
      BY DEF Failure
    <2>2. row' \in [Gens -> Row]
      BY <1>24, <2>1, RowUpdate DEF Fail
    <2>3. Abandoned(g) \subseteq Ghosts
      BY DEF Abandoned, Ghosts, WorkerInv, WorkerAt
    <2> QED
      BY <1>24, <2>2, <2>3 DEF Fail, PCs, RemoteTypeOK
  <1>25. ASSUME NEW g \in Gens, Finally(g) PROVE TypeOK'
    BY <1>25 DEF Finally, Release, PCs, RemoteTypeOK
  <1>26. ASSUME NEW g \in Gens, Deliver(g) PROVE TypeOK'
    <2>1. PICK request \in Abandoned(g), answer \in {"done", "refused"} :
            Execute(request.op, request.id, answer) /\ rpc' = [rpc EXCEPT ![g] = answer]
      BY <1>26 DEF Deliver
    <2>2. request \in Ghosts
      BY <2>1 DEF Abandoned, Ghosts, WorkerInv, WorkerAt
    <2>3. RemoteTypeOK' /\ installed' \in SUBSET InstallJobs
      BY <2>1, <2>2, ExecuteTypes DEF Ghosts
    <2> QED
      BY <1>26, <2>1, <2>3 DEF Deliver
  <1>27. ASSUME NEW j \in ShellJobs, Remote(j) PROVE TypeOK'
    <2>1. RemoteTypeOK'
      BY <1>27, RemoteTypes DEF Remote, RemoteStep
    <2> QED
      BY <1>27, <2>1 DEF Remote
  <1>28. CASE UNCHANGED vars
    BY <1>28 DEF vars, RemoteTypeOK
  <1> QED
    BY <1>1, <1>2, <1>3, <1>4, <1>5, <1>6, <1>7, <1>8, <1>9, <1>10, <1>11, <1>12, <1>13,
       <1>14, <1>15, <1>16, <1>17, <1>18, <1>18a, <1>19, <1>20, <1>21, <1>22, <1>23, <1>24, <1>25,
       <1>26, <1>27, <1>28 DEF Next, Constructor, Request, WorkerStep

\* The task that run() appends is an inspection only of a shell job.
LEMMA RunInspects ==
  ASSUME TypeOK, WorkerInv, NEW g \in Gens, NEW i \in Ids, NEW new \in BOOLEAN, Run(g, i, new),
         ~new => i \in ShellJobs, NEW h \in Gens
  PROVE  InspectsShell(h)'
  <1> DEFINE task == [id |-> i, create |-> new, code |-> disk[i].code]
  <1>1. task \in Task /\ task.create = new /\ task.id = i
    BY DEF TypeOK, Task, Row
  <1>2. queue' = [queue EXCEPT ![g] = Append(queue[g], task)]
    BY DEF Run
  <1> HIDE DEF task
  <1>3. InspectsShell(h)
    BY DEF WorkerInv
  <1>4. CASE h # g
    BY <1>2, <1>3, <1>4 DEF InspectsShell, TypeOK
  <1>5. CASE h = g
    <2>1. queue'[h] = Append(queue[h], task) /\ queue[h] \in Seq(Task)
      BY <1>2, <1>5 DEF TypeOK
    <2>2. /\ DOMAIN queue'[h] = DOMAIN queue[h] \cup {Len(queue[h]) + 1}
          /\ \A k \in DOMAIN queue[h] : queue'[h][k] = queue[h][k]
          /\ queue'[h][Len(queue[h]) + 1] = task
      BY <1>1, <2>1, AppendFacts
    <2> QED
      BY <1>1, <1>3, <2>2 DEF InspectsShell
  <1> QED
    BY <1>4, <1>5

\* A worker's step leaves what every other worker holds alone.
LEMMA OtherWorkers ==
  ASSUME TypeOK, NEW g \in Gens, WorkerStep(g) \/ Deliver(g), NEW h \in Gens, h # g
  PROVE  /\ pc'[h] = pc[h] /\ job'[h] = job[h] /\ create'[h] = create[h] /\ row'[h] = row[h]
         /\ submitted'[h] = submitted[h] /\ rpc'[h] = rpc[h] /\ queue'[h] = queue[h]
  <1> USE DEF TypeOK, diskVars, bootVars, queueVars, threadVars, Goto, Save, SetRow
  <1>1. CASE Take(g)
    BY <1>1 DEF Take
  <1>6. CASE Begin(g) \/ Prove(g) \/ Verify(g) \/ Send(g)
    BY <1>6 DEF Begin, Prove, Verify, Send
  <1>7. CASE Announce(g) \/ Stage(g)
    <2>1. row' \in {[row EXCEPT ![g].status = s] : s \in {"starting", "checking", "running"}}
      BY <1>7, Zenon DEF Announce, Stage
    <2>2. PICK s \in {"starting", "checking", "running"} : row' = [row EXCEPT ![g].status = s]
      BY <2>1
    <2>3. s \in Statuses
      BY StatusNames DEF Transient
    <2>4. row'[h] = row[h]
      BY <2>2, <2>3, RowPoint
    <2> QED
      BY <1>7, <2>4 DEF Announce, Stage
  <1>2. CASE Check1(g)
    BY <1>2 DEF Check1
  <1>3. CASE Check2(g)
    BY <1>3 DEF Check2
  <1>4. CASE Answered(g)
    BY <1>4 DEF Answered
  <1>5. CASE Poll(g) \/ Query(g)
    BY <1>5 DEF Poll, Query
  <1>8. CASE Record(g)
    BY <1>8 DEF Record
  <1>9. CASE Fail(g)
    <2>1. row' = [row EXCEPT ![g].status = Failure(g)]
      BY <1>9 DEF Fail
    <2>2. Failure(g) \in Statuses
      BY StatusNames DEF Failure
    <2>3. row'[h] = row[h]
      BY <2>1, <2>2, RowPoint
    <2>4. pc'[h] = pc[h] /\ rpc'[h] = rpc[h]
      BY <1>9 DEF Fail
    <2> QED
      BY <1>9, <2>3, <2>4 DEF Fail
  <1>10. CASE Finally(g)
    <2>1. /\ pc'[h] = pc[h] /\ job'[h] = job[h] /\ create'[h] = create[h]
          /\ submitted'[h] = submitted[h]
      BY <1>10 DEF Finally
    <2>2. row' = [row EXCEPT ![g] = Stored("none")]
      BY <1>10 DEF Finally
    <2>3. row'[h] = row[h]
      BY <2>2
    <2> QED
      BY <1>10, <2>1, <2>3 DEF Finally
  <1>11. CASE Deliver(g)
    BY <1>11 DEF Deliver
  <1> HIDE DEF TypeOK, diskVars, bootVars, queueVars, threadVars, Goto, Save, SetRow
  <1> QED
    BY <1>1, <1>2, <1>3, <1>4, <1>5, <1>6, <1>7, <1>8, <1>9, <1>10,
       <1>11 DEF WorkerStep

LEMMA WorkerStepInv == TypeOK /\ WorkerInv /\ [Next]_vars => WorkerInv'
  <1> SUFFICES ASSUME TypeOK, WorkerInv, [Next]_vars, NEW h \in Gens PROVE (WorkerAt(h) /\ InspectsShell(h))'
    BY DEF WorkerInv
  <1>0. WorkerAt(h) /\ InspectsShell(h)
    BY DEF WorkerInv
  <1> USE <1>0
  <1> USE DEF diskVars, bootVars, queueVars, threadVars, Goto, Save, SetRow
  \* What leaves threads and queues alone.
  <1>1. ASSUME UNCHANGED <<threadVars, queue>> PROVE (WorkerAt(h) /\ InspectsShell(h))'
    BY <1>1 DEF WorkerAt, InspectsShell
  <1>2. ASSUME UNCHANGED <<pc, job, create, row, submitted, queue>>,
               rpc'[h] = "none" \/ rpc[h] # "none"
        PROVE (WorkerAt(h) /\ InspectsShell(h))'
    BY <1>2 DEF WorkerAt, InspectsShell
  <1>3. CASE NewInstance \/ RecoverSave \/ Booted \/ Close \/ DeliverGhost
    BY <1>1, <1>3 DEF NewInstance, RecoverSave, Booted, Close, DeliverGhost
  <1>4. ASSUME NEW i \in Ids, RecoverLoad(i) \/ CancelControlled(i) PROVE (WorkerAt(h) /\ InspectsShell(h))'
    BY <1>1, <1>4 DEF RecoverLoad, CancelControlled
  <1>5. ASSUME NEW j \in ShellJobs, Remote(j) PROVE (WorkerAt(h) /\ InspectsShell(h))'
    BY <1>1, <1>5 DEF Remote
  <1>6. CASE UNCHANGED vars
    BY <1>1, <1>6 DEF vars
  <1>7. CASE Crash
    BY <1>7 DEF Crash, WorkerAt, InspectsShell, Stored
  <1>8. ASSUME NEW i \in Ids, Submit(i) \/ Inspect(i) \/ CancelUnknown(i)
        PROVE (WorkerAt(h) /\ InspectsShell(h))'
    <2>1. WorkerAt(h)'
      BY <1>8 DEF Submit, Inspect, CancelUnknown, WorkerAt
    <2>2. gen \in Gens
      <3>1. gen > 0
        BY <1>8, Zenon DEF Submit, Inspect, CancelUnknown, Serving
      <3> QED
        BY <3>1 DEF TypeOK
    <2>3. CASE Submit(i)
      BY <2>1, <2>2, <2>3, RunInspects, Zenon DEF Submit
    <2>4. CASE Inspect(i)
      BY <2>1, <2>2, <2>4, RunInspects, Zenon DEF Inspect, Reopenable
    <2>5. CASE CancelUnknown(i)
      BY <2>1, <2>2, <2>5, RunInspects, Zenon DEF CancelUnknown, Reopenable
    <2> QED
      BY <1>8, <2>3, <2>4, <2>5
  \* The worker of another generation.
  <1>9. ASSUME NEW g \in Gens, g # h, WorkerStep(g) \/ Deliver(g) PROVE (WorkerAt(h) /\ InspectsShell(h))'
    <2>1. /\ pc'[h] = pc[h] /\ job'[h] = job[h] /\ create'[h] = create[h] /\ row'[h] = row[h]
          /\ submitted'[h] = submitted[h] /\ rpc'[h] = rpc[h] /\ queue'[h] = queue[h]
      BY <1>9, OtherWorkers
    <2> QED
      BY <2>1 DEF WorkerAt, InspectsShell
  <1>10. CASE Deliver(h)
    BY <1>10, <1>2 DEF Deliver
  <1>11. CASE Take(h)
    <2>1. PICK task : task = Head(queue[h])
      OBVIOUS
    <2>2. /\ task \in Task /\ task = queue[h][1] /\ 1 \in DOMAIN queue[h]
          /\ \A k \in DOMAIN Tail(queue[h]) : k + 1 \in DOMAIN queue[h] /\ Tail(queue[h])[k] = queue[h][k + 1]
      <3>1. queue[h] \in Seq(Task) /\ queue[h] # <<>>
        BY <1>11 DEF Take, TypeOK
      <3> QED
        BY <2>1, <3>1, TailFacts
    <2>3. InspectsShell(h)'
      BY <1>11, <2>2 DEF Take, InspectsShell, TypeOK
    <2>4. task.id \in Ids /\ task.create \in BOOLEAN /\ (~task.create => task.id \in ShellJobs)
      BY <2>2 DEF Task, InspectsShell
    <2>5. /\ pc'[h] = "begin" /\ job'[h] = task.id /\ create'[h] = task.create
          /\ submitted'[h] = ~task.create /\ rpc'[h] = rpc[h] /\ pc[h] = "idle"
          /\ row'[h].status = IF task.create THEN "queued" ELSE "checking"
      BY <1>11, <2>1 DEF Take, TypeOK
    <2>6. WorkerAt(h)'
      <3>1. row'[h].status \in {"queued", "checking"} /\ row'[h] # Stored("failed")
        BY <2>5 DEF Stored
      <3>2. CASE task.create = TRUE
        BY <2>4, <2>5, <3>1, <3>2 DEF WorkerAt
      <3>3. CASE task.create = FALSE
        BY <2>4, <2>5, <3>1, <3>3 DEF WorkerAt
      <3> QED
        BY <2>4, <3>2, <3>3
    <2> QED
      BY <2>3, <2>6
  <1>12. ASSUME WorkerStep(h), ~Take(h) PROVE InspectsShell(h)'
    BY <1>12 DEF WorkerStep, Begin, Check1, Announce, Prove, Check2, Stage, Verify, Send,
       Answered, Poll, Query, Record, Fail, Finally, InspectsShell
  <1> USE DEF TypeOK
  <1>13. CASE Begin(h)
    BY <1>12, <1>13 DEF WorkerStep, Begin, WorkerAt, Take
  <1>14. CASE Check1(h)
    <2>1. InspectsShell(h)'
      BY <1>12, <1>14 DEF WorkerStep, Check1, Take
    <2>2. CASE Cancelled(h)
      <3>1. /\ pc'[h] = "finish" /\ row'[h].status = "cancelled" /\ job'[h] = job[h]
            /\ create'[h] = create[h] /\ submitted'[h] = submitted[h] /\ rpc'[h] = rpc[h]
        <4>1. row' = [row EXCEPT ![h].status = "cancelled"]
          BY <1>14, <2>2 DEF Check1
        <4>2. row'[h].status = "cancelled"
          BY <4>1, RowPoint, StatusNames
        <4> QED
          BY <1>14, <2>2, <4>2 DEF Check1
      <3> QED
        BY <1>14, <2>1, <3>1 DEF Check1, WorkerAt
    <2>3. CASE ~Cancelled(h)
      BY <1>14, <2>1, <2>3 DEF Check1, WorkerAt
    <2> QED
      BY <2>2, <2>3
  <1>15. CASE Announce(h)
    BY <1>12, <1>15 DEF WorkerStep, Announce, WorkerAt, Take, Stored, Row
  <1>16. CASE Prove(h)
    BY <1>12, <1>16 DEF WorkerStep, Prove, WorkerAt, Take
  <1>17. CASE Check2(h)
    <2>1. InspectsShell(h)'
      BY <1>12, <1>17 DEF WorkerStep, Check2, Take
    <2>2. CASE Cancelled(h)
      <3>1. /\ pc'[h] = "finish" /\ row'[h].status = "cancelled" /\ job'[h] = job[h]
            /\ create'[h] = create[h] /\ submitted'[h] = submitted[h] /\ rpc'[h] = rpc[h]
        <4>1. row' = [row EXCEPT ![h].status = "cancelled"]
          BY <1>17, <2>2 DEF Check2
        <4>2. row'[h].status = "cancelled"
          BY <4>1, RowPoint, StatusNames
        <4> QED
          BY <1>17, <2>2, <4>2 DEF Check2
      <3> QED
        BY <1>17, <2>1, <3>1 DEF Check2, WorkerAt
    <2>3. CASE ~Cancelled(h)
      <3>1. /\ row'[h] = row[h] /\ job'[h] = job[h] /\ create'[h] = create[h]
            /\ submitted'[h] = TRUE /\ rpc'[h] = rpc[h] /\ pc[h] = "check2"
        BY <1>17, <2>3 DEF Check2
      <3>2. pc'[h] = IF job[h] \in InstallJobs THEN "stage" ELSE IF create[h] THEN "start" ELSE "poll"
        BY <1>17, <2>3 DEF Check2
      <3>3. job[h] \in Ids
        BY <3>1 DEF WorkerAt
      <3> QED
        BY <2>1, <3>1, <3>2, <3>3 DEF WorkerAt, Ids
    <2> QED
      BY <2>2, <2>3
  <1>18. CASE Stage(h)
    BY <1>12, <1>18 DEF WorkerStep, Stage, WorkerAt, Take, Stored, Row
  <1>18a. CASE Verify(h)
    BY <1>12, <1>18a DEF WorkerStep, Verify, WorkerAt, Take
  <1>19. CASE Send(h)
    BY <1>12, <1>19 DEF WorkerStep, Send, WorkerAt, Take
  <1>20. CASE Answered(h)
    BY <1>12, <1>20 DEF WorkerStep, Answered, WorkerAt, Take, Stored
  <1>21. CASE Poll(h)
    BY <1>12, <1>21 DEF WorkerStep, Poll, WorkerAt, Take
  <1>22. CASE Query(h)
    <2>1. PICK report \in Reports(job[h]) :
            row' = [row EXCEPT ![h] = [status |-> StatusOf(report), code |-> CodeOf(report)]]
      BY <1>22 DEF Query
    <2>2. job[h] \in ShellJobs
      BY <1>22 DEF Query, WorkerAt
    <2>3. /\ row'[h].status = StatusOf(report) /\ row'[h].code = CodeOf(report)
          /\ StatusOf(report) \in {"starting", "running", "completed", "failed", "cancelled", "unknown"}
          /\ StatusOf(report) = "failed" => CodeOf(report) # "null"
      BY <2>1, <2>2, ReportFacts
    <2>4. row'[h].status # "none" /\ row'[h] # Stored("failed")
      BY <2>3 DEF Stored
    <2> QED
      BY <1>12, <1>22, <2>4 DEF WorkerStep, Query, WorkerAt, Take
  <1>23. CASE Record(h)
    BY <1>12, <1>23 DEF WorkerStep, Record, WorkerAt, Take
  <1>24. CASE Fail(h)
    BY <1>12, <1>24 DEF WorkerStep, Fail, Failure, WorkerAt, Take, Row
  <1>25. CASE Finally(h)
    BY <1>12, <1>25 DEF WorkerStep, Finally, WorkerAt, Take, Stored
  <1> QED
    <2>1. CASE WorkerStep(h)
      BY <2>1, <1>11, <1>13, <1>14, <1>15, <1>16, <1>17, <1>18, <1>18a, <1>19, <1>20, <1>21,
         <1>22, <1>23, <1>24, <1>25 DEF WorkerStep
    <2> QED
      BY <2>1, <1>3, <1>4, <1>5, <1>6, <1>7, <1>8, <1>9, <1>10 DEF Next, Constructor, Request

LEMMA WorkerInit == Init => WorkerInv
  BY DEF Init, WorkerInv, WorkerAt, InspectsShell, Stored

-----------------------------------------------------------------------------
(***************************************************************************)
(* Claims.  The proof of a step asks three things of it: that no claim is  *)
(* new, that none is doubled, and that no row is erased.                   *)
(***************************************************************************)
NoNewClaim == \A g \in Gens, i \in Ids : Claim(g, i)' => Claim(g, i)

NoDoubling ==
  /\ \A g \in Gens : \A k, l \in DOMAIN queue'[g] :
       queue'[g][k].create /\ queue'[g][l].create /\ queue'[g][k].id = queue'[g][l].id => k = l
  /\ \A g \in Gens, i \in Ids : ~(QueuedNew(g, i)' /\ HeldNew(g, i)')

\* Rows are neither erased nor invented, and a pre-submission failure is one
\* already or that of a job nobody has handed over or claims.
RowsKept ==
  \A i \in Ids :
    /\ disk'[i].status = "none" => disk[i].status = "none"
    /\ FailedUnsent(i)' =>
         \/ FailedUnsent(i)
         \/ handed[i] = 0 /\ disk[i].status # "none" /\ \A g \in Gens : ~Claim(g, i)'

LoadedKept == loaded = Nothing \/ loaded.row.status \in {"cancelled", "unknown"}

LEMMA ClaimsKept ==
  ASSUME ClaimInv, HandedInv, NoNewClaim, NoDoubling, RowsKept, LoadedKept', handed' = handed
  PROVE  ClaimInv' /\ HandedInv'
  <1>1. ClaimInv'
    BY DEF ClaimInv, NoNewClaim, NoDoubling
  <1>2. ASSUME NEW i \in Ids
        PROVE /\ handed'[i] <= 1
              /\ disk'[i].status = "none" \/ FailedUnsent(i)' \/ (\E g \in Gens : Claim(g, i)') => handed'[i] = 0
              /\ FailedUnsent(i)' \/ (\E g \in Gens : Claim(g, i)') => disk'[i].status # "none"
              /\ FailedUnsent(i)' => \A g \in Gens : ~Claim(g, i)'
    BY DEF HandedInv, NoNewClaim, RowsKept
  <1> QED
    BY <1>1, <1>2 DEF HandedInv, LoadedKept

\* A step that leaves the queues alone and lets no worker take up a claim.
LEMMA QuietClaims ==
  ASSUME ClaimInv, queue' = queue, \A g \in Gens, i \in Ids : HeldNew(g, i)' => HeldNew(g, i)
  PROVE  NoNewClaim /\ NoDoubling
  BY DEF ClaimInv, NoNewClaim, NoDoubling, Claim, QueuedNew

\* A step that leaves the threads alone leaves what they hold alone.
LEMMA QuietThreads ==
  ASSUME UNCHANGED <<pc, job, create, row, rpc>>
  PROVE  /\ \A g \in Gens, i \in Ids : HeldNew(g, i)' <=> HeldNew(g, i)
         /\ \A i \in Ids : FailedUnsent(i)' => disk'[i] = Stored("failed") \/ FailedUnsent(i)
  BY DEF HeldNew, FailedUnsent

\* A worker that takes nothing from its queue, saves only the row of its job, and
\* gives up as "failed" only a job it still claims.
LEMMA WorkerClaims ==
  ASSUME TypeOK, ClaimInv, HandedInv, NEW g \in Gens, WorkerStep(g) \/ Deliver(g),
         UNCHANGED <<queue, handed, loaded>>,
         \A i \in Ids : HeldNew(g, i)' => HeldNew(g, i),
         \A i \in Ids : \/ disk'[i] = disk[i]
                        \/ disk'[i].status # "none" /\ (disk'[i] = Stored("failed") => FailedUnsent(i)),
         \A i \in Ids : pc'[g] = "finish" /\ job'[g] = i /\ row'[g] = Stored("failed") =>
                          HeldNew(g, i) \/ FailedUnsent(i)
  PROVE  ClaimInv' /\ HandedInv'
  <1>1. \A h \in Gens : h # g =>
          /\ pc'[h] = pc[h] /\ job'[h] = job[h] /\ create'[h] = create[h] /\ row'[h] = row[h]
          /\ rpc'[h] = rpc[h]
    BY OtherWorkers
  <1>2. \A h \in Gens, i \in Ids : HeldNew(h, i)' => HeldNew(h, i)
    BY <1>1 DEF HeldNew
  <1>3. NoNewClaim /\ NoDoubling
    BY <1>2, QuietClaims
  <1>4. RowsKept
    <2> SUFFICES ASSUME NEW i \in Ids
                 PROVE /\ disk'[i].status = "none" => disk[i].status = "none"
                       /\ FailedUnsent(i)' =>
                            \/ FailedUnsent(i)
                            \/ handed[i] = 0 /\ disk[i].status # "none" /\ \A h \in Gens : ~Claim(h, i)'
      BY DEF RowsKept
    <2>1. ASSUME FailedUnsent(i)', ~FailedUnsent(i)
          PROVE pc'[g] = "finish" /\ HeldNew(g, i)
      BY <1>1, <2>1 DEF FailedUnsent
    <2>2. ASSUME pc'[g] = "finish", HeldNew(g, i)
          PROVE handed[i] = 0 /\ disk[i].status # "none" /\ \A h \in Gens : ~Claim(h, i)'
      <3>1. handed[i] = 0 /\ disk[i].status # "none"
        BY <2>2 DEF HandedInv, Claim
      <3>2. ~HeldNew(g, i)'
        BY <2>2 DEF HeldNew, BeforeSend
      <3>3. \A h \in Gens : Claim(h, i)' => h = g /\ QueuedNew(g, i)'
        BY <1>3, <2>2, <3>2 DEF NoNewClaim, ClaimInv, Claim
      <3>4. ~QueuedNew(g, i)'
        BY <2>2 DEF ClaimInv, QueuedNew
      <3> QED
        BY <3>1, <3>3, <3>4
    <2> QED
      BY <2>1, <2>2
  <1> QED
    BY <1>3, <1>4, ClaimsKept DEF HandedInv, LoadedKept

\* A task appended by inspect() or cancel() claims nothing; one appended by submit()
\* claims an id no one has seen.
LEMMA RunClaims ==
  ASSUME TypeOK, NEW g \in Gens, NEW i \in Ids, NEW new \in BOOLEAN, Run(g, i, new)
  PROVE  /\ \A h \in Gens, n \in Ids :
              QueuedNew(h, n)' <=> QueuedNew(h, n) \/ (new /\ h = g /\ n = i)
         /\ ClaimInv /\ (new => ~QueuedNew(g, i)) =>
              \A h \in Gens : \A k, l \in DOMAIN queue'[h] :
                queue'[h][k].create /\ queue'[h][l].create /\ queue'[h][k].id = queue'[h][l].id => k = l
  <1> DEFINE task == [id |-> i, create |-> new, code |-> disk[i].code]
  <1>1. task \in Task /\ task.create = new /\ task.id = i
    BY DEF TypeOK, Task, Row
  <1>2. queue' = [queue EXCEPT ![g] = Append(queue[g], task)]
    BY DEF Run
  <1> HIDE DEF task
  <1>3. \A h \in Gens : h # g => queue'[h] = queue[h]
    BY <1>2 DEF TypeOK
  <1>4. queue'[g] = Append(queue[g], task) /\ queue[g] \in Seq(Task)
    BY <1>2 DEF TypeOK
  <1>5. /\ DOMAIN queue'[g] = DOMAIN queue[g] \cup {Len(queue[g]) + 1}
        /\ Len(queue[g]) + 1 \notin DOMAIN queue[g]
        /\ \A k \in DOMAIN queue[g] : queue'[g][k] = queue[g][k]
        /\ queue'[g][Len(queue[g]) + 1] = task
    BY <1>1, <1>4, AppendFacts
  <1>6. ASSUME NEW h \in Gens, NEW n \in Ids
        PROVE QueuedNew(h, n)' <=> QueuedNew(h, n) \/ (new /\ h = g /\ n = i)
    <2>1. CASE h # g
      BY <1>3, <2>1 DEF QueuedNew
    <2>2. CASE h = g
      BY <1>1, <1>5, <2>2 DEF QueuedNew
    <2> QED
      BY <2>1, <2>2
  <1>7. ASSUME ClaimInv, new => ~QueuedNew(g, i), NEW h \in Gens,
               NEW k \in DOMAIN queue'[h], NEW l \in DOMAIN queue'[h],
               queue'[h][k].create, queue'[h][l].create, queue'[h][k].id = queue'[h][l].id
        PROVE k = l
    <2>1. CASE h # g
      BY <1>3, <1>7, <2>1 DEF ClaimInv
    <2>2. CASE h = g
      BY <1>1, <1>5, <1>7, <2>2 DEF ClaimInv, QueuedNew
    <2> QED
      BY <2>1, <2>2
  <1> QED
    BY <1>6, <1>7

LEMMA ClaimStep ==
  TypeOK /\ WorkerInv /\ ClaimInv /\ HandedInv /\ [Next]_vars => ClaimInv' /\ HandedInv'
  <1> SUFFICES ASSUME TypeOK, WorkerInv, ClaimInv, HandedInv, [Next]_vars
               PROVE ClaimInv' /\ HandedInv'
    OBVIOUS
  <1> USE DEF diskVars, bootVars, queueVars, threadVars, Goto, Save, SetRow
  <1>0. LoadedKept
    BY DEF HandedInv, LoadedKept
  \* What leaves queues and threads alone and saves no failure.
  <1>1. ASSUME UNCHANGED <<threadVars, queue, handed>>, LoadedKept',
               \A i \in Ids : disk'[i] = disk[i] \/ disk'[i].status \notin {"none", "failed"}
        PROVE ClaimInv' /\ HandedInv'
    <2>1. NoNewClaim /\ NoDoubling
      BY <1>1, QuietThreads, QuietClaims
    <2>2. RowsKept
      BY <1>1, QuietThreads DEF RowsKept, FailedUnsent, Stored
    <2> QED
      BY <1>1, <2>1, <2>2, ClaimsKept
  <1>2. CASE NewInstance \/ Booted \/ Close
    BY <1>0, <1>1, <1>2 DEF NewInstance, Booted, Close, LoadedKept
  <1>3. CASE RecoverSave
    <2>1. \A i \in Ids : disk'[i] = disk[i] \/ disk'[i].status \notin {"none", "failed"}
      BY <1>0, <1>3 DEF RecoverSave, LoadedKept, TypeOK
    <2> QED
      BY <1>1, <1>3, <2>1 DEF RecoverSave, LoadedKept
  <1>4. CASE DeliverGhost
    BY <1>0, <1>1, <1>4 DEF DeliverGhost, LoadedKept
  <1>5. ASSUME NEW i \in Ids, RecoverLoad(i) PROVE ClaimInv' /\ HandedInv'
    <2>1. LoadedKept'
      BY <1>0, <1>5, RowFacts DEF RecoverLoad, LoadedKept, TypeOK, Row
    <2> QED
      BY <1>1, <1>5, <2>1 DEF RecoverLoad
  <1>6. ASSUME NEW i \in Ids, CancelControlled(i) PROVE ClaimInv' /\ HandedInv'
    <2>1. \A n \in Ids : disk'[n] = disk[n] \/ disk'[n].status \notin {"none", "failed"}
      BY <1>6 DEF CancelControlled, TypeOK, Row
    <2> QED
      BY <1>0, <1>1, <1>6, <2>1 DEF CancelControlled, LoadedKept
  <1>7. ASSUME NEW j \in ShellJobs, Remote(j) PROVE ClaimInv' /\ HandedInv'
    BY <1>0, <1>1, <1>7 DEF Remote, LoadedKept
  <1>8. CASE UNCHANGED vars
    BY <1>0, <1>1, <1>8 DEF vars, LoadedKept
  <1>9. CASE Crash
    <2>1. \A g \in Gens, i \in Ids : ~QueuedNew(g, i)' /\ ~HeldNew(g, i)'
      BY <1>9 DEF Crash, QueuedNew, HeldNew, BeforeSend
    <2>2. NoNewClaim /\ NoDoubling
      BY <1>9, <2>1 DEF NoNewClaim, NoDoubling, Claim, Crash
    <2>3. \A i \in Ids : FailedUnsent(i)' => FailedUnsent(i)
      BY <1>9 DEF Crash, FailedUnsent
    <2>4. RowsKept /\ LoadedKept' /\ handed' = handed
      BY <1>9, <2>3 DEF Crash, RowsKept, LoadedKept
    <2> QED
      BY <2>2, <2>4, ClaimsKept
  <1>10. ASSUME NEW i \in Ids, Inspect(i) \/ CancelUnknown(i) PROVE ClaimInv' /\ HandedInv'
    <2>1. gen > 0 /\ Run(gen, i, FALSE)
      BY <1>10, Zenon DEF Inspect, CancelUnknown, Serving
    <2>2. gen \in Gens
      BY <2>1 DEF TypeOK
    <2>3. /\ \A h \in Gens, n \in Ids : QueuedNew(h, n)' <=> QueuedNew(h, n)
          /\ \A h \in Gens : \A k, l \in DOMAIN queue'[h] :
               queue'[h][k].create /\ queue'[h][l].create /\ queue'[h][k].id = queue'[h][l].id => k = l
      BY <2>1, <2>2, RunClaims
    <2>4. UNCHANGED <<pc, job, create, row, rpc, handed, loaded>>
      BY <1>10 DEF Inspect, CancelUnknown
    <2>5. NoNewClaim /\ NoDoubling
      BY <2>3, <2>4, QuietThreads DEF NoNewClaim, NoDoubling, Claim, ClaimInv
    <2>6. disk' = [disk EXCEPT ![i] = [disk[i] EXCEPT !.status = "checking"]]
      BY <1>10 DEF Inspect, CancelUnknown
    <2>7. \A n \in Ids : disk'[n] = disk[n] \/ disk'[n].status = "checking"
      BY <2>6 DEF TypeOK, Row
    <2>8. RowsKept
      BY <2>4, <2>7, QuietThreads DEF RowsKept, FailedUnsent, Stored
    <2> QED
      BY <1>0, <2>4, <2>5, <2>8, ClaimsKept DEF LoadedKept
  <1>11. ASSUME NEW i \in Ids, Submit(i) PROVE ClaimInv' /\ HandedInv'
    <2>1. gen > 0 /\ disk[i].status = "none" /\ Run(gen, i, TRUE)
      BY <1>11, Zenon DEF Submit
    <2>2. gen \in Gens
      BY <2>1 DEF TypeOK
    <2>3. ~FailedUnsent(i) /\ handed[i] = 0 /\ \A g \in Gens : ~Claim(g, i)
      BY <2>1 DEF HandedInv
    <2>4. /\ \A h \in Gens, n \in Ids : QueuedNew(h, n)' <=> QueuedNew(h, n) \/ (h = gen /\ n = i)
          /\ \A h \in Gens : \A k, l \in DOMAIN queue'[h] :
               queue'[h][k].create /\ queue'[h][l].create /\ queue'[h][k].id = queue'[h][l].id => k = l
      <3>1. ~QueuedNew(gen, i)
        BY <2>2, <2>3 DEF Claim
      <3>2. PICK g \in Gens, new \in BOOLEAN : g = gen /\ new = TRUE /\ Run(g, i, new)
        BY <2>1, <2>2, Zenon
      <3>3. /\ \A h \in Gens, n \in Ids : QueuedNew(h, n)' <=> QueuedNew(h, n) \/ (new /\ h = g /\ n = i)
            /\ ClaimInv /\ (new => ~QueuedNew(g, i)) =>
                 \A h \in Gens : \A k, l \in DOMAIN queue'[h] :
                   queue'[h][k].create /\ queue'[h][l].create /\ queue'[h][k].id = queue'[h][l].id => k = l
        BY <3>2, RunClaims
      <3> QED
        BY <3>1, <3>2, <3>3
    <2>5. UNCHANGED <<pc, job, create, row, rpc, handed, loaded>>
      BY <1>11 DEF Submit
    <2>6. /\ \A h \in Gens, n \in Ids : HeldNew(h, n)' <=> HeldNew(h, n)
          /\ \A h \in Gens, n \in Ids : Claim(h, n)' <=> Claim(h, n) \/ (h = gen /\ n = i)
      BY <2>4, <2>5, QuietThreads DEF Claim
    <2>7. ClaimInv'
      BY <2>3, <2>4, <2>6 DEF ClaimInv, Claim
    <2>8. disk' = [disk EXCEPT ![i] = Stored("queued")]
      BY <1>11 DEF Submit
    <2>9. disk'[i].status = "queued" /\ \A n \in Ids : n # i => disk'[n] = disk[n]
      BY <2>8 DEF TypeOK, Stored
    <2>10. \A n \in Ids : FailedUnsent(n)' => FailedUnsent(n) /\ n # i
      BY <2>3, <2>5, <2>9 DEF FailedUnsent, Stored
    <2>11. ASSUME NEW n \in Ids
           PROVE /\ handed'[n] <= 1
                 /\ disk'[n].status = "none" \/ FailedUnsent(n)' \/ (\E g \in Gens : Claim(g, n)') => handed'[n] = 0
                 /\ FailedUnsent(n)' \/ (\E g \in Gens : Claim(g, n)') => disk'[n].status # "none"
                 /\ FailedUnsent(n)' => \A g \in Gens : ~Claim(g, n)'
      BY <2>3, <2>5, <2>6, <2>9, <2>10 DEF HandedInv
    <2> QED
      BY <1>0, <2>5, <2>7, <2>11 DEF HandedInv, LoadedKept
  <1>12. ASSUME NEW g \in Gens, Take(g) PROVE ClaimInv' /\ HandedInv'
    <2>1. PICK task : task = Head(queue[g])
      OBVIOUS
    <2>2. queue[g] \in Seq(Task) /\ queue[g] # <<>>
      BY <1>12 DEF Take, TypeOK
    <2>3. /\ task \in Task /\ task = queue[g][1] /\ 1 \in DOMAIN queue[g]
          /\ \A k \in DOMAIN Tail(queue[g]) :
               k \in Nat \ {0} /\ k + 1 \in DOMAIN queue[g] /\ Tail(queue[g])[k] = queue[g][k + 1]
      BY <2>1, <2>2, TailFacts
    <2>4. queue'[g] = Tail(queue[g]) /\ \A h \in Gens : h # g => queue'[h] = queue[h]
      BY <1>12 DEF Take, TypeOK
    <2>5. /\ create'[g] = task.create /\ job'[g] = task.id /\ pc'[g] = "begin"
          /\ UNCHANGED <<handed, disk, loaded>>
      BY <1>12, <2>1 DEF Take, TypeOK
    <2>6. \A h \in Gens, i \in Ids : QueuedNew(h, i)' => QueuedNew(h, i)
      <3> SUFFICES ASSUME NEW h \in Gens, NEW i \in Ids, NEW k \in DOMAIN queue'[h],
                          queue'[h][k].create, queue'[h][k].id = i
                   PROVE QueuedNew(h, i)
        BY DEF QueuedNew
      <3>1. CASE h # g
        BY <2>4, <3>1 DEF QueuedNew
      <3>2. CASE h = g
        <4>1. k + 1 \in DOMAIN queue[h] /\ queue'[h][k] = queue[h][k + 1]
          BY <2>3, <2>4, <3>2
        <4> QED
          BY <4>1 DEF QueuedNew
      <3> QED
        BY <3>1, <3>2
    <2>7. \A i \in Ids : HeldNew(g, i)' => QueuedNew(g, i) /\ ~QueuedNew(g, i)'
      <3> SUFFICES ASSUME NEW i \in Ids, HeldNew(g, i)' PROVE QueuedNew(g, i) /\ ~QueuedNew(g, i)'
        OBVIOUS
      <3>1. task.create /\ task.id = i
        BY <2>5 DEF HeldNew
      <3>2. QueuedNew(g, i)
        BY <2>3, <3>1 DEF QueuedNew
      <3>3. ASSUME NEW k \in DOMAIN Tail(queue[g]), Tail(queue[g])[k].create, Tail(queue[g])[k].id = i
            PROVE FALSE
        <4>1. k + 1 \in DOMAIN queue[g] /\ k + 1 # 1 /\ Tail(queue[g])[k] = queue[g][k + 1]
          BY <2>3
        <4> QED
          BY <2>3, <3>1, <3>3, <4>1 DEF ClaimInv
      <3> QED
        BY <2>4, <3>2, <3>3 DEF QueuedNew
    <2>8. \A h \in Gens : h # g =>
            pc'[h] = pc[h] /\ job'[h] = job[h] /\ create'[h] = create[h] /\ row'[h] = row[h] /\ rpc'[h] = rpc[h]
      BY <1>12 DEF Take, TypeOK
    <2>9. \A h \in Gens, i \in Ids : h # g => (HeldNew(h, i)' <=> HeldNew(h, i))
      BY <2>8 DEF HeldNew
    <2>10. NoNewClaim
      BY <2>6, <2>7, <2>9 DEF NoNewClaim, Claim
    <2>11. \A h \in Gens : \A k, l \in DOMAIN queue'[h] :
             queue'[h][k].create /\ queue'[h][l].create /\ queue'[h][k].id = queue'[h][l].id => k = l
      <3> SUFFICES ASSUME NEW h \in Gens, NEW k \in DOMAIN queue'[h], NEW l \in DOMAIN queue'[h],
                          queue'[h][k].create, queue'[h][l].create, queue'[h][k].id = queue'[h][l].id
                   PROVE k = l
        OBVIOUS
      <3>1. CASE h # g
        BY <2>4, <3>1 DEF ClaimInv
      <3>2. CASE h = g
        <4>1. /\ k \in Nat /\ l \in Nat /\ k + 1 \in DOMAIN queue[g] /\ l + 1 \in DOMAIN queue[g]
              /\ queue'[g][k] = queue[g][k + 1] /\ queue'[g][l] = queue[g][l + 1]
          BY <2>3, <2>4, <3>2
        <4>2. k + 1 = l + 1
          BY <3>2, <4>1 DEF ClaimInv
        <4> QED
          BY <4>1, <4>2
      <3> QED
        BY <3>1, <3>2
    <2>12. NoDoubling
      BY <2>6, <2>7, <2>9, <2>11 DEF NoDoubling, ClaimInv
    <2>13. RowsKept
      BY <2>5, <2>8 DEF RowsKept, FailedUnsent
    <2> QED
      BY <1>0, <2>5, <2>10, <2>12, <2>13, ClaimsKept DEF LoadedKept
  <1>13. ASSUME NEW g \in Gens, Send(g) PROVE ClaimInv' /\ HandedInv'
    <2>1. /\ UNCHANGED <<pc, job, create, row, queue, disk, loaded>>
          /\ rpc[g] = "verified" /\ pc[g] \in {"start", "sendCancel", "install"}
          /\ rpc'[g] = "sent" /\ \A h \in Gens : h # g => rpc'[h] = rpc[h]
      BY <1>13 DEF Send, TypeOK, WorkerInv, WorkerAt
    <2>2. \A h \in Gens, i \in Ids : HeldNew(h, i)' => HeldNew(h, i) /\ h # g
      BY <2>1 DEF HeldNew
    <2>3. NoNewClaim /\ NoDoubling
      BY <2>1, <2>2, QuietClaims
    <2>4. RowsKept
      BY <2>1 DEF RowsKept, FailedUnsent
    <2>5. CASE pc[g] = "sendCancel"
      BY <1>0, <1>13, <2>1, <2>3, <2>4, <2>5, ClaimsKept DEF Send, LoadedKept
    <2>6. CASE pc[g] # "sendCancel"
      <3>1. PICK i \in Ids : i = job[g]
        BY <2>1 DEF WorkerInv, WorkerAt
      <3>2. HeldNew(g, i)
        <4>1. create[g]
          BY <2>1, <2>6, JobsAssumption DEF WorkerInv, WorkerAt
        <4> QED
          BY <2>1, <2>6, <3>1, <4>1 DEF HeldNew, BeforeSend
      <3>3. handed[i] = 0 /\ disk[i].status # "none" /\ ~FailedUnsent(i)
        BY <3>2 DEF HandedInv, Claim
      <3>4. \A h \in Gens : ~Claim(h, i)'
        BY <2>1, <2>2, <3>2 DEF ClaimInv, Claim, QueuedNew
      <3>5. handed'[i] = 1 /\ \A n \in Ids : n # i => handed'[n] = handed[n]
        BY <1>13, <2>6, <3>1, <3>3 DEF Send, TypeOK
      <3>6. \A n \in Ids : FailedUnsent(n)' <=> FailedUnsent(n)
        BY <2>1 DEF FailedUnsent
      <3>7. ClaimInv'
        BY <2>3 DEF ClaimInv, NoNewClaim, NoDoubling
      <3>8. ASSUME NEW n \in Ids
            PROVE /\ handed'[n] <= 1
                  /\ disk'[n].status = "none" \/ FailedUnsent(n)' \/ (\E h \in Gens : Claim(h, n)') => handed'[n] = 0
                  /\ FailedUnsent(n)' \/ (\E h \in Gens : Claim(h, n)') => disk'[n].status # "none"
                  /\ FailedUnsent(n)' => \A h \in Gens : ~Claim(h, n)'
        BY <2>1, <2>3, <3>3, <3>4, <3>5, <3>6 DEF HandedInv, NoNewClaim
      <3> QED
        BY <1>0, <2>1, <3>7, <3>8 DEF HandedInv, LoadedKept
    <2> QED
      BY <2>5, <2>6
  <1>14. ASSUME NEW g \in Gens, WorkerStep(g) \/ Deliver(g), ~Take(g), ~Send(g) PROVE ClaimInv' /\ HandedInv'
    <2> USE DEF TypeOK
    <2>1. WorkerAt(g)
      BY DEF WorkerInv
    <2>2. UNCHANGED <<queue, handed, loaded>>
      BY <1>14 DEF WorkerStep, Deliver, Begin, Check1, Announce, Prove, Check2, Stage, Verify, Answered, Poll,
         Query, Record, Fail, Finally
    <2>3. \A i \in Ids : HeldNew(g, i)' => HeldNew(g, i)
      <3>1. CASE Begin(g) \/ Announce(g) \/ Prove(g) \/ Stage(g) \/ Poll(g) \/ Query(g) \/ Record(g)
        <4>1. /\ UNCHANGED <<job, create, rpc>>
              /\ pc'[g] \in BeforeSend => pc[g] \in BeforeSend
          BY <3>1 DEF Begin, Announce, Prove, Stage, Poll, Query, Record, BeforeSend
        <4> QED
          BY <4>1 DEF HeldNew
      <3>2. CASE Check1(g)
        BY <3>2 DEF Check1, HeldNew, BeforeSend
      <3>3. CASE Check2(g)
        BY <3>3 DEF Check2, HeldNew, BeforeSend
      <3>4. CASE Answered(g) \/ Fail(g) \/ Finally(g) \/ Deliver(g)
        <4>1. CASE Answered(g) \/ Fail(g) \/ Finally(g)
          <5>1. pc'[g] \notin BeforeSend
            BY <4>1 DEF Answered, Fail, Finally, BeforeSend
          <5> QED
            BY <5>1 DEF HeldNew
        <4>2. CASE Deliver(g)
          <5>1. rpc'[g] \in {"done", "refused"}
            BY <4>2 DEF Deliver
          <5> QED
            BY <5>1 DEF HeldNew
        <4> QED
          BY <3>4, <4>1, <4>2
      <3>5. CASE Verify(g)
        BY <3>5 DEF Verify, HeldNew, BeforeSend
      <3> QED
        BY <1>14, <3>1, <3>2, <3>3, <3>4, <3>5 DEF WorkerStep
    <2>4. \A i \in Ids : \/ disk'[i] = disk[i]
                         \/ disk'[i].status # "none" /\ (disk'[i] = Stored("failed") => FailedUnsent(i))
      <3>1. CASE Announce(g) \/ Stage(g)
        <4>1. PICK s \in {"starting", "checking", "running"} : row' = [row EXCEPT ![g].status = s]
          BY <3>1, Zenon DEF Announce, Stage
        <4>2. s \in Statuses
          BY StatusNames DEF Transient
        <4>3. row'[g].status = s
          BY <4>1, <4>2, RowPoint
        <4>4. disk' = [disk EXCEPT ![job[g]] = row'[g]]
          BY <3>1 DEF Announce, Stage
        <4> QED
          BY <4>3, <4>4 DEF Stored
      <3>2. CASE Prove(g) \/ Record(g)
        BY <2>1, <3>2 DEF Prove, Record, WorkerAt
      <3>3. CASE Finally(g)
        BY <2>1, <3>3 DEF Finally, WorkerAt, FailedUnsent
      <3>4. CASE \/ Begin(g) \/ Check1(g) \/ Check2(g) \/ Verify(g) \/ Answered(g)
                 \/ Poll(g) \/ Query(g) \/ Fail(g) \/ Deliver(g)
        BY <3>4 DEF Begin, Check1, Check2, Verify, Answered, Poll, Query, Fail, Deliver
      <3> QED
        BY <1>14, <3>1, <3>2, <3>3, <3>4 DEF WorkerStep
    <2>5. ASSUME NEW i \in Ids, pc'[g] = "finish", job'[g] = i, row'[g] = Stored("failed")
          PROVE HeldNew(g, i) \/ FailedUnsent(i)
      <3>1. CASE Check1(g) \/ Check2(g)
        <4>1. CASE Cancelled(g)
          <5>1. row' = [row EXCEPT ![g].status = "cancelled"]
            BY <3>1, <4>1 DEF Check1, Check2
          <5>2. row'[g].status = "cancelled"
            BY <5>1, RowPoint, StatusNames
          <5> QED
            BY <2>5, <5>2 DEF Stored
        <4>2. CASE ~Cancelled(g)
          <5>1. pc'[g] # "finish"
            BY <3>1, <4>2 DEF Check1, Check2
          <5> QED
            BY <2>5, <5>1
        <4> QED
          BY <4>1, <4>2
      <3>2. CASE Answered(g)
        BY <2>1, <2>5, <3>2 DEF Answered, Stored, WorkerAt
      <3>3. CASE Record(g)
        BY <2>1, <2>5, <3>3 DEF Record, WorkerAt
      <3>4. CASE Fail(g)
        <4>1. row'[g].status = Failure(g)
          BY <3>4, RowPoint, StatusNames DEF Fail, Failure
        <4>2. ~submitted[g]
          BY <2>5, <4>1 DEF Failure, Stored
        <4> QED
          BY <2>1, <2>5, <3>4, <4>2 DEF Fail, WorkerAt, HeldNew, BeforeSend
      <3>5. CASE Deliver(g)
        BY <2>5, <3>5 DEF Deliver, FailedUnsent
      <3>6. CASE \/ Begin(g) \/ Announce(g) \/ Prove(g) \/ Stage(g) \/ Verify(g)
                 \/ Poll(g) \/ Query(g) \/ Finally(g)
        BY <2>5, <3>6 DEF Begin, Announce, Prove, Stage, Verify, Poll, Query, Finally
      <3> QED
        BY <1>14, <3>1, <3>2, <3>3, <3>4, <3>5, <3>6 DEF WorkerStep
    <2> QED
      BY <1>14, <2>2, <2>3, <2>4, <2>5, WorkerClaims
  <1> QED
    BY <1>2, <1>3, <1>4, <1>5, <1>6, <1>7, <1>8, <1>9, <1>10, <1>11, <1>12, <1>13, <1>14
       DEF Next, Constructor, Request

LEMMA ClaimInit == Init => ClaimInv /\ HandedInv
  BY DEF Init, ClaimInv, HandedInv, Claim, QueuedNew, HeldNew, BeforeSend, FailedUnsent, Stored

-----------------------------------------------------------------------------
\* Every variable keeps its type: rows, queues and flags of every instance, the
\* requests in adbd and the remote directories.
THEOREM Typed == Spec => []TypeOK
  <1>1. Init => TypeOK /\ WorkerInv
    BY TypeInit, WorkerInit
  <1>2. TypeOK /\ WorkerInv /\ [Next]_vars => TypeOK' /\ WorkerInv'
    BY TypeStep, WorkerStepInv
  <1> QED
    BY <1>1, <1>2, PTL DEF Spec

\* The inductive invariant: every right to hand a job over is held once, and only
\* while nothing has been handed over and no row calls the job failed.
THEOREM Claims == Spec => []ClaimsAreUnique
  <1>1. Init => TypeOK /\ ClaimsAreUnique
    BY TypeInit, WorkerInit, ClaimInit DEF ClaimsAreUnique
  <1>2. TypeOK /\ ClaimsAreUnique /\ [Next]_vars => TypeOK' /\ ClaimsAreUnique'
    BY TypeStep, WorkerStepInv, ClaimStep DEF ClaimsAreUnique
  <1> QED
    BY <1>1, <1>2, PTL DEF Spec

\* Whatever is resubmitted, inspected, cancelled, lost or restarted, an accepted id
\* starts at most one command or install.
THEOREM HandedOnce == Spec => []HandedAtMostOnce
  <1>1. ClaimsAreUnique => HandedAtMostOnce
    BY DEF ClaimsAreUnique, HandedInv, HandedAtMostOnce
  <1> QED
    BY <1>1, Claims, PTL

\* A row "failed" without an exit code is of a job that never reached Android.
THEOREM FailedNeverSubmitted == Spec => []FailedMeansNotSubmitted
  <1>1. ClaimsAreUnique => FailedMeansNotSubmitted
    BY DEF ClaimsAreUnique, HandedInv, FailedUnsent, FailedMeansNotSubmitted
  <1> QED
    BY <1>1, Claims, PTL
=============================================================================
