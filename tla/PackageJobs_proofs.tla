-------------------------- MODULE PackageJobs_proofs --------------------------
(***************************************************************************)
(* What holds of PackageJobs for every set of jobs and every number of     *)
(* instances, with crashes, failing writes and waits that run out.         *)
(***************************************************************************)
EXTENDS MCPackageJobs, TLAPS

USE DEF Gens

LEMMA StoredFacts ==
  ASSUME NEW s \in Statuses PROVE Stored(s) \in Row /\ Stored(s).status = s
  BY DEF Row, Stored, Codes

LEMMA RowFacts ==
  ASSUME NEW r \in Row, NEW s \in Statuses
  PROVE  /\ [r EXCEPT !.status = s] \in Row
         /\ [r EXCEPT !.status = s].status = s
  BY DEF Row

LEMMA StatusNames ==
  Final \cup Transient \cup {"none", "interrupted"} \subseteq Statuses
  BY DEF Statuses

LEMMA StepsFacts ==
  ASSUME NEW i PROVE Steps(i) \in Seq(Commands) /\ Steps(i) # <<>>
<1>1. /\ "install" \in Commands /\ Operation(i) \in Commands
      /\ "check" \in Commands /\ "migrate" \in Commands /\ "verify" \in Commands
      /\ "refresh" \in Commands
      BY DEF Commands, Operation
<1>2. Preflight \in Seq(Commands)
      BY <1>1 DEF Preflight
<1>3. Append(Preflight, "install") \in Seq(Commands) /\ Append(Preflight, "install") # <<>>
      BY <1>1, <1>2
<1>4. <<Operation(i)>> \in Seq(Commands) /\ <<Operation(i)>> # <<>>
      BY <1>1
<1>.  QED
      BY <1>3, <1>4 DEF Steps

LEMMA TailFacts ==
  ASSUME NEW S, NEW s \in Seq(S), s # <<>>
  PROVE  /\ Head(s) \in S /\ Tail(s) \in Seq(S)
         /\ Len(s) # 1 => Tail(s) # <<>>
<1>1. Len(s) \in Nat \ {0} /\ Len(Tail(s)) = Len(s) - 1
      OBVIOUS
<1>2. Len(<<>>) = 0
      OBVIOUS
<1>3. Len(s) # 1 => Len(Tail(s)) # 0
      BY <1>1
<1>4. Len(s) # 1 => Tail(s) # <<>>
      BY <1>2, <1>3
<1>5. Head(s) \in S /\ Tail(s) \in Seq(S)
      OBVIOUS
<1>.  QED
      BY <1>4, <1>5

LEMMA AppendFacts ==
  ASSUME NEW S, NEW s \in Seq(S), NEW e \in S PROVE Append(s, e) \in Seq(S)
  OBVIOUS

LEMMA ProcessTypes ==
  ASSUME ProcessTypeOK,
         (\E i \in Jobs : Fork(i) \/ ProcessStep(i)) \/ (\E S \in SUBSET Jobs : Quit(S))
  PROVE  ProcessTypeOK'
<1> USE DEF ProcessTypeOK, Procs
<1>1. ASSUME NEW i \in Jobs, Fork(i) PROVE ProcessTypeOK'
      BY <1>1 DEF Fork
<1>2. ASSUME NEW i \in Jobs, WriteRecord(i) PROVE ProcessTypeOK'
      BY <1>2 DEF WriteRecord
<1>3. ASSUME NEW i \in Jobs, NEW c \in {"zero", "other"}, Ended(i, c) PROVE ProcessTypeOK'
      BY <1>3 DEF Ended
<1>4. ASSUME NEW i \in Jobs, LockRoot(i) PROVE ProcessTypeOK'
      BY <1>3, <1>4 DEF LockRoot
<1>5. ASSUME NEW i \in Jobs, Dies(i) PROVE ProcessTypeOK'
      BY <1>3, <1>5 DEF Dies
<1>6. ASSUME NEW S \in SUBSET Jobs, Quit(S) PROVE ProcessTypeOK'
      BY <1>6 DEF Quit
<1>.  QED
      BY <1>1, <1>2, <1>4, <1>5, <1>6 DEF ProcessStep

LEMMA TypeInit == Init => TypeOK
<1>1. Stored("none") \in Row
      BY StoredFacts, StatusNames
<1>2. Init => <<>> \in Seq(Commands)
      OBVIOUS
<1>.  QED
      BY <1>1, <1>2, PackageAssumption
      DEF Init, TypeOK, ProcessInit, ProcessTypeOK, Procs, Lives, Nothing, PCs, Codes

LEMMA TypeStep ==
  ASSUME TypeOK, CancelsReachWorker, Next
  PROVE  TypeOK'
<1> USE DEF TypeOK, Goto
<1>1. CASE NewInstance
  <2>1. ProcessTypeOK'
        BY <1>1, ProcessTypes DEF NewInstance
  <2>2. gen' \in 0..MaxGen /\ life' \in [Gens -> Lives]
        BY <1>1, PackageAssumption DEF NewInstance, Lives
  <2>.  QED
        BY <1>1, <2>1, <2>2 DEF NewInstance, apiVars, workerVars
<1>2. CASE Prepared
      BY <1>2 DEF Prepared, apiVars, workerVars, processVars, ProcessTypeOK, Lives
<1>3. ASSUME NEW i \in Jobs, RecoverLoad(i)
      PROVE  TypeOK'
  <2>1. [disk[i] EXCEPT !.status = "interrupted"] \in Row
        BY RowFacts, StatusNames
  <2>2. [id |-> i, row |-> [disk[i] EXCEPT !.status = "interrupted"]] \in [id : Jobs, row : Row]
        BY <2>1
  <2>3. \/ /\ loaded' = [id |-> i, row |-> [disk[i] EXCEPT !.status = "interrupted"]]
           /\ UNCHANGED todo
        \/ todo' = todo \ {i} /\ UNCHANGED loaded
        BY <1>3 DEF RecoverLoad
  <2>4. loaded' \in {Nothing} \cup [id : Jobs, row : Row]
        BY <2>2, <2>3
  <2>5. todo' \in SUBSET Jobs
        BY <2>3
  <2>.  QED
        BY <1>3, <2>4, <2>5 DEF RecoverLoad, apiVars, workerVars, processVars, ProcessTypeOK
<1>4. CASE RecoverSave
  <2>1. loaded.id \in Jobs /\ loaded.row \in Row
        BY <1>4 DEF RecoverSave
  <2>2. disk' \in [Jobs -> Row]
        BY <1>4, <2>1 DEF RecoverSave, Saved, SaveFails
  <2>3. todo' \in SUBSET Jobs /\ life' \in [Gens -> Lives]
        BY <1>4 DEF RecoverSave, Lives
  <2>.  QED
        BY <1>4, <2>2, <2>3 DEF RecoverSave, apiVars, workerVars, processVars, ProcessTypeOK
<1>5. CASE Booted
      BY <1>5 DEF Booted, apiVars, workerVars, processVars, ProcessTypeOK, Lives
<1>6. ASSUME NEW i \in Jobs, Submit(i)
      PROVE  TypeOK'
  <2>1. Stored("running") \in Row
        BY StoredFacts, StatusNames DEF Transient
  <2>2. disk' \in [Jobs -> Row] /\ row' \in [Gens -> Row]
        BY <1>6, <2>1 DEF Submit, Saved
  <2>.  QED
        BY <1>6, <2>2 DEF Submit, bootVars, processVars, ProcessTypeOK, Codes, PCs
<1>7. ASSUME NEW g \in Gens, RequestCancel(g)
      PROVE  /\ disk' \in [Jobs -> Row] /\ row' \in [Gens -> Row]
             /\ cancelRequested' \in [Gens -> BOOLEAN] /\ cancelling' \in [Gens -> BOOLEAN]
  <2>1. [row[g] EXCEPT !.status = "cancel_requested"] \in Row
        BY RowFacts, StatusNames DEF Transient
  <2>2. row' \in [Gens -> Row]
        BY <1>7, <2>1 DEF RequestCancel, Put
  <2>3. disk' \in [Jobs -> Row]
        BY <1>7, <2>2 DEF RequestCancel, Saved, SaveFails
  <2>.  QED
        BY <1>7, <2>2, <2>3 DEF RequestCancel
<1>8. CASE Cancel
  <2>1. gen \in Gens
        BY <1>8 DEF Cancel
  <2>.  QED
        BY <1>8, <2>1, <1>7 DEF Cancel, bootVars, workerVars, processVars, ProcessTypeOK
<1>9. CASE Close
  <2>1. gen \in Gens /\ life' \in [Gens -> Lives]
        BY <1>9 DEF Close, Lives
  <2>2. /\ disk' \in [Jobs -> Row] /\ row' \in [Gens -> Row]
        /\ cancelRequested' \in [Gens -> BOOLEAN] /\ cancelling' \in [Gens -> BOOLEAN]
        BY <1>9, <2>1, <1>7 DEF Close
  <2>.  QED
        BY <1>9, <2>1, <2>2 DEF Close, workerVars, processVars, ProcessTypeOK
<1>10. ASSUME NEW g \in Gens, RuntimeCancel(g)
       PROVE  TypeOK'
  <2>1. current[g] \in Jobs
        BY <1>10 DEF RuntimeCancel, CancelsReachWorker, CancelAt
  <2>2. Owned(g) \in SUBSET Jobs
        BY <2>1 DEF Owned
  <2>3. ProcessTypeOK'
        BY <1>10, <2>2, ProcessTypes DEF RuntimeCancel
  <2>.  QED
        BY <1>10, <2>3 DEF RuntimeCancel, bootVars, workerVars
<1>11. ASSUME NEW g \in Gens, Enter(g)
       PROVE  TypeOK'
      BY <1>11 DEF Enter, bootVars, apiVars, processVars, ProcessTypeOK, PCs
<1>12. ASSUME NEW g \in Gens, Plan(g)
       PROVE  TypeOK'
  <2>1. left' \in [Gens -> Seq(Commands)]
        BY <1>12, StepsFacts DEF Plan
  <2>2. disk' \in [Jobs -> Row] /\ pc' \in [Gens -> PCs]
        BY <1>12 DEF Plan, Saved, SaveFails, PCs
  <2>.  QED
        BY <1>12, <2>1, <2>2 DEF Plan, bootVars, apiVars, processVars, ProcessTypeOK
<1>13. ASSUME NEW g \in Gens, Launch(g)
       PROVE  TypeOK'
  <2>1. current[g] \in Jobs
        BY <1>13 DEF Launch, CancelsReachWorker, WorkerAt
  <2>2. ProcessTypeOK'
        BY <1>13, <2>1, ProcessTypes DEF Launch, processVars, ProcessTypeOK
  <2>3. pc' \in [Gens -> PCs]
    <3>1. pc' \in {[pc EXCEPT ![g] = "caught"], [pc EXCEPT ![g] = "starting"]}
          BY <1>13, Zenon DEF Launch, Goto
    <3>2. {"caught", "starting"} \subseteq PCs /\ pc \in [Gens -> PCs]
          BY DEF PCs
    <3>.  QED
          BY <3>1, <3>2
  <2>4. lastExit' \in [Gens -> Codes]
        BY <1>13 DEF Launch, Codes
  <2>.  QED
        BY <1>13, <2>2, <2>3, <2>4 DEF Launch, bootVars, apiVars
<1>14. ASSUME NEW g \in Gens, Started(g)
       PROVE  TypeOK'
      BY <1>14 DEF Started, bootVars, apiVars, processVars, ProcessTypeOK, PCs
<1>15. ASSUME NEW g \in Gens, Output(g)
       PROVE  TypeOK'
  <2>1. current[g] \in Jobs
        BY <1>15 DEF Output, CancelsReachWorker, WorkerAt
  <2>2. {current[g]} \in SUBSET Jobs
        BY <2>1
  <2>3. ProcessTypeOK'
        BY <1>15, <2>2, ProcessTypes DEF Output, processVars, ProcessTypeOK
  <2>4. disk' \in [Jobs -> Row] /\ pc' \in [Gens -> PCs]
        BY <1>15 DEF Output, Saved, SaveFails, PCs
  <2>.  QED
        BY <1>15, <2>3, <2>4 DEF Output, bootVars, apiVars
<1>16. ASSUME NEW g \in Gens, Exited(g)
       PROVE  TypeOK'
  <2>1. current[g] \in Jobs /\ left[g] # <<>>
        BY <1>16 DEF Exited, CancelsReachWorker, WorkerAt
  <2>2. Head(left[g]) \in Commands /\ Tail(left[g]) \in Seq(Commands)
        BY <2>1, TailFacts
  <2>3. Append(ran[current[g]], Head(left[g])) \in Seq(Commands)
        BY <2>1, <2>2, AppendFacts
  <2>4. /\ ran' \in {ran, [ran EXCEPT ![current[g]] = Append(ran[current[g]], Head(left[g]))]}
        /\ left' \in {left, [left EXCEPT ![g] = Tail(left[g])]}
    <3>1. /\ [ran EXCEPT ![current[g]] = Append(@, Head(left[g]))]
               = [ran EXCEPT ![current[g]] = Append(ran[current[g]], Head(left[g]))]
          /\ [left EXCEPT ![g] = Tail(@)] = [left EXCEPT ![g] = Tail(left[g])]
          OBVIOUS
    <3>.  QED
          BY <1>16, <3>1, Zenon DEF Exited
  <2>8. ran' \in [Jobs -> Seq(Commands)]
    <3>1. [ran EXCEPT ![current[g]] = Append(ran[current[g]], Head(left[g]))]
            \in [Jobs -> Seq(Commands)]
          BY <2>1, <2>3
    <3>.  QED
          BY <2>4, <3>1
  <2>9. left' \in [Gens -> Seq(Commands)]
    <3>1. [left EXCEPT ![g] = Tail(left[g])] \in [Gens -> Seq(Commands)]
          BY <2>2
    <3>.  QED
          BY <2>4, <3>1
  <2>5. pc' \in [Gens -> PCs]
        BY <1>16 DEF Exited, PCs
  <2>6. lastExit' \in [Gens -> Codes]
        BY <1>16, <2>1 DEF Exited, Codes, ProcessTypeOK
  <2>7. planned' \in BOOLEAN
        BY <1>16 DEF Exited
  <2>.  QED
        BY <1>16, <2>5, <2>6, <2>7, <2>8, <2>9 DEF Exited, bootVars, apiVars, processVars, ProcessTypeOK
<1>17. ASSUME NEW g \in Gens, AwaitStop(g)
       PROVE  TypeOK'
  <2>1. current[g] \in Jobs
        BY <1>17 DEF AwaitStop, CancelsReachWorker, WorkerAt
  <2>2. lastExit' \in [Gens -> Codes]
        BY <1>17, <2>1 DEF AwaitStop, Codes, ProcessTypeOK
  <2>.  QED
        BY <1>17, <2>2 DEF AwaitStop, bootVars, apiVars, processVars, ProcessTypeOK, PCs
<1>18. ASSUME NEW g \in Gens, SetStatus(g)
       PROVE  TypeOK'
  <2>1. Outcome(g) \in Statuses
        BY DEF Outcome, Statuses, Final
  <2>2. row' \in [Gens -> Row]
        BY <1>18, <2>1, RowFacts DEF SetStatus, Put
  <2>.  QED
        BY <1>18, <2>2 DEF SetStatus, bootVars, apiVars, processVars, ProcessTypeOK, PCs
<1>19. ASSUME NEW g \in Gens, Finish(g)
       PROVE  TypeOK'
  <2>1. [row[g] EXCEPT !.exit = lastExit[g]] \in Row
    <3>1. row[g] \in Row /\ lastExit[g] \in Codes
          OBVIOUS
    <3>.  QED
          BY <3>1 DEF Row
  <2>2. disk' \in [Jobs -> Row]
        BY <1>19, <2>1 DEF Finish, Saved, SaveFails
  <2>3. Stored("none") \in Row
        BY StoredFacts, StatusNames
  <2>4. row' \in [Gens -> Row] /\ current' \in [Gens -> Jobs \cup {NoJob}]
        BY <1>19, <2>3 DEF Finish, Forget
  <2>5. left' \in [Gens -> Seq(Commands)]
        BY <1>19 DEF Finish
  <2>.  QED
        BY <1>19, <2>2, <2>4, <2>5
        DEF Finish, bootVars, processVars, ProcessTypeOK, PCs, Codes
<1>20. ASSUME NEW i \in Jobs, Process(i)
       PROVE  TypeOK'
  <2>1. ProcessTypeOK'
        BY <1>20, ProcessTypes DEF Process
  <2>.  QED
        BY <1>20, <2>1 DEF Process, bootVars, apiVars, workerVars
<1>21. CASE Crash
  <2>1. Stored("none") \in Row
        BY StoredFacts, StatusNames
  <2>2. row' \in [Gens -> Row] /\ left' \in [Gens -> Seq(Commands)]
        BY <1>21, <2>1 DEF Crash
  <2>3. life' \in [Gens -> Lives] /\ pc' \in [Gens -> PCs] /\ lastExit' \in [Gens -> Codes]
        BY <1>21 DEF Crash, Lives, PCs, Codes
  <2>.  QED
        BY <1>21, <2>2, <2>3 DEF Crash, processVars, ProcessTypeOK
<1>.  QED
      BY <1>1, <1>2, <1>3, <1>4, <1>5, <1>6, <1>8, <1>9, <1>10, <1>11, <1>12, <1>13, <1>14,
         <1>15, <1>16, <1>17, <1>18, <1>19, <1>20, <1>21 DEF Next, Constructor, WorkerStep
-----------------------------------------------------------------------------
(***************************************************************************)
(* CancelsReachWorker, part by part.                                       *)
(***************************************************************************)
LEMMA BootStep ==
  ASSUME TypeOK, CancelsReachWorker, Next
  PROVE  BootInv'
<1> USE DEF CancelsReachWorker, TypeOK
<1>1. CASE UNCHANGED bootVars
      BY <1>1 DEF BootInv, bootVars
<1>2. CASE NewInstance
  <2>1. todo = {} /\ loaded = Nothing
        BY <1>2 DEF NewInstance, BootInv
  <2>2. life' = [life EXCEPT ![gen + 1] = "recovering"] /\ gen' = gen + 1
        BY <1>2 DEF NewInstance
  <2>3. ASSUME NEW g \in Gens, g < gen' PROVE life'[g] \in {"closed", "dead"}
        BY <1>2, <2>2, <2>3 DEF NewInstance, BootInv
  <2>4. ASSUME NEW g \in Gens, g > gen' PROVE life'[g] = "none"
        BY <2>2, <2>4 DEF BootInv
  <2>.  QED
        BY <1>2, <2>1, <2>3, <2>4 DEF NewInstance, BootInv, Nothing
<1>3. CASE Prepared
      BY <1>3 DEF Prepared, BootInv
<1>4. ASSUME NEW i \in Jobs, RecoverLoad(i)
      PROVE  BootInv'
  <2>1. PICK fresh : fresh = [disk[i] EXCEPT !.status = "interrupted"]
        OBVIOUS
  <2>2. fresh.status = "interrupted"
        BY <2>1, RowFacts, StatusNames
  <2>3. i \in todo /\ loaded = Nothing /\ UNCHANGED <<gen, life>>
        BY <1>4 DEF RecoverLoad
  <2>4. \/ loaded' = [id |-> i, row |-> fresh] /\ UNCHANGED todo
        \/ todo' = todo \ {i} /\ UNCHANGED loaded
        BY <1>4, <2>1 DEF RecoverLoad
  <2>5. loaded' # Nothing => loaded'.id \in todo' /\ loaded'.row.status = "interrupted"
        BY <2>2, <2>3, <2>4
  <2>6. todo' \subseteq todo
        BY <2>4
  <2>.  QED
        BY <2>3, <2>5, <2>6 DEF BootInv, Nothing
<1>5. CASE RecoverSave
      BY <1>5 DEF RecoverSave, BootInv, Nothing
<1>6. CASE Booted
      BY <1>6 DEF Booted, BootInv, Nothing
<1>7. CASE Close
      BY <1>7 DEF Close, BootInv, Nothing
<1>8. CASE Crash
      BY <1>8 DEF Crash, BootInv, Nothing
<1>9. ASSUME NEW i \in Jobs, Submit(i) \/ Process(i)
      PROVE  UNCHANGED bootVars
      BY <1>9 DEF Submit, Process
<1>10. ASSUME NEW g \in Gens, RuntimeCancel(g) \/ WorkerStep(g) \/ Output(g)
       PROVE  UNCHANGED bootVars
      BY <1>10 DEF RuntimeCancel, Output, WorkerStep, Enter, Plan, Launch, Started, Exited,
                   AwaitStop, SetStatus, Finish
<1>11. CASE Cancel
      BY <1>1, <1>11 DEF Cancel
<1>.  QED
      BY <1>1, <1>2, <1>3, <1>4, <1>5, <1>6, <1>7, <1>8, <1>9, <1>10, <1>11
      DEF Next, Constructor

LEMMA OneWorkerStep ==
  ASSUME TypeOK, CancelsReachWorker, Next
  PROVE  OneWorker'
<1> USE DEF CancelsReachWorker, TypeOK
<1>1. CASE UNCHANGED current
      BY <1>1 DEF OneWorker
<1>2. ASSUME NEW i \in Jobs, Submit(i)
      PROVE  OneWorker'
  <2>1. current' = [current EXCEPT ![gen] = i] /\ disk[i].status = "none"
        BY <1>2 DEF Submit
  <2>2. \A h \in Gens : current[h] # i
        BY <2>1, PackageAssumption DEF WorkerAt
  <2>.  QED
        BY <2>1, <2>2 DEF OneWorker
<1>3. ASSUME NEW g \in Gens, Finish(g)
      PROVE  OneWorker'
      BY <1>3 DEF Finish, Forget, OneWorker
<1>4. CASE Crash
      BY <1>4 DEF Crash, OneWorker
<1>5. CASE NewInstance \/ Constructor \/ Cancel \/ Close
      BY <1>1, <1>5 DEF NewInstance, Constructor, Prepared, RecoverLoad, RecoverSave, Booted,
                        Cancel, Close, apiVars
<1>6. ASSUME NEW g \in Gens, RuntimeCancel(g) \/ Output(g)
      PROVE  UNCHANGED current
      BY <1>6 DEF RuntimeCancel, Output, apiVars
<1>7. ASSUME NEW g \in Gens, WorkerStep(g)
      PROVE  UNCHANGED current \/ Finish(g)
      BY <1>7 DEF WorkerStep, Enter, Plan, Launch, Started, Exited, AwaitStop, SetStatus,
                  apiVars
<1>8. ASSUME NEW i \in Jobs, Process(i)
      PROVE  UNCHANGED current
      BY <1>8 DEF Process, apiVars
<1>.  QED
      BY <1>1, <1>2, <1>3, <1>4, <1>5, <1>6, <1>7, <1>8 DEF Next

\* A step that touches neither the worker of h nor the status in its job's file.
LEMMA WorkerFrame ==
  ASSUME NEW h \in Gens, WorkerAt(h), CancelAt(h),
         pc'[h] = pc[h], current'[h] = current[h], left'[h] = left[h], row'[h] = row[h],
         cancelRequested'[h] = cancelRequested[h], cancelling'[h] = cancelling[h],
         stopped'[h] = stopped[h], life'[h] = life[h],
         current[h] # NoJob => disk'[current[h]].status = disk[current[h]].status
  PROVE  (WorkerAt(h) /\ CancelAt(h))'
BY DEF WorkerAt, CancelAt

LEMMA WorkersStep ==
  ASSUME TypeOK, CancelsReachWorker, Next, NEW h \in Gens
  PROVE  (WorkerAt(h) /\ CancelAt(h))'
<1> USE DEF TypeOK, Goto
<1>h. /\ WorkerAt(h) /\ CancelAt(h) /\ OneWorker /\ BootInv
      /\ \A g \in Gens : WorkerAt(g) /\ CancelAt(g)
      BY DEF CancelsReachWorker
\* The job of another worker, and so its file, is another one.
<1>o. \A g \in Gens : g # h /\ current[g] # NoJob => current[g] # current[h]
      BY <1>h DEF OneWorker
\* The files of held jobs when the worker of g writes its row.
<1>s. ASSUME NEW g \in Gens, NEW r, current[g] # NoJob, h # g,
             Saved(current[g], r) \/ SaveFails, current[h] # NoJob
      PROVE  disk'[current[h]] = disk[current[h]]
      BY <1>o, <1>s DEF Saved, SaveFails
<1>1. CASE NewInstance
  <2>1. life'[h] = life[h] \/ current[h] = NoJob
        BY <1>1, <1>h DEF NewInstance, BootInv, WorkerAt
  <2>.  QED
        BY <1>1, <1>h, <2>1 DEF NewInstance, apiVars, workerVars, WorkerAt, CancelAt
<1>2. CASE Prepared
  <2>1. life'[h] = life[h] \/ current[h] = NoJob
        BY <1>2, <1>h DEF Prepared, WorkerAt
  <2>.  QED
        BY <1>2, <1>h, <2>1 DEF Prepared, apiVars, workerVars, WorkerAt, CancelAt
<1>3. ASSUME NEW i \in Jobs, RecoverLoad(i)
      PROVE  (WorkerAt(h) /\ CancelAt(h))'
      BY <1>3, <1>h, WorkerFrame DEF RecoverLoad, apiVars, workerVars
<1>4. CASE RecoverSave
  <2>1. gen \in Gens /\ life[gen] = "booting"
        BY <1>4, <1>h DEF RecoverSave, BootInv
  <2>2. current[gen] = NoJob
        BY <2>1, <1>h DEF WorkerAt
  <2>3. h # gen => life'[h] = life[h]
        BY <1>4 DEF RecoverSave
  <2>4. current[h] # NoJob => life[h] = "closed"
        BY <2>1, <2>2, <1>h DEF BootInv, WorkerAt
  <2>5. loaded.id \in Jobs /\ loaded.row \in Row /\ loaded.row.status = "interrupted"
        BY <1>4, <1>h DEF RecoverSave, BootInv
  <2>6. current[h] # NoJob =>
          disk'[current[h]].status \in {disk[current[h]].status, "interrupted"}
        BY <1>4, <2>5 DEF RecoverSave, Saved, SaveFails
  <2>7. /\ pc' = pc /\ current' = current /\ left' = left /\ row' = row
        /\ cancelRequested' = cancelRequested /\ cancelling' = cancelling /\ stopped' = stopped
        BY <1>4 DEF RecoverSave, apiVars, workerVars
  <2>8. CASE current[h] = NoJob
        BY <1>h, <2>7, <2>8 DEF WorkerAt, CancelAt
  <2>9. CASE current[h] # NoJob
        BY <1>h, <2>2, <2>3, <2>4, <2>6, <2>7, <2>9 DEF WorkerAt, CancelAt, Final
  <2>.  QED
        BY <2>8, <2>9
<1>5. CASE Booted
  <2>1. life'[h] = life[h] \/ current[h] = NoJob
        BY <1>5, <1>h DEF Booted, WorkerAt
  <2>.  QED
        BY <1>5, <1>h, <2>1 DEF Booted, apiVars, workerVars, WorkerAt, CancelAt
<1>6. ASSUME NEW i \in Jobs, Submit(i)
      PROVE  (WorkerAt(h) /\ CancelAt(h))'
  <2>1. disk' = [disk EXCEPT ![i] = Stored("running")] /\ current[h] # i
        BY <1>6, <1>h, PackageAssumption DEF Submit, Saved, WorkerAt
  <2>2. CASE h # gen
        BY <1>6, <1>h, <2>1, <2>2, WorkerFrame DEF Submit, bootVars
  <2>3. CASE h = gen
    <3>1. current'[h] = i /\ disk'[i].status = "running" /\ row'[h].status = "running"
          BY <1>6, <2>1, <2>3 DEF Submit, Stored
    <3>2. /\ ~cancelRequested'[h] /\ ~stopped'[h] /\ pc'[h] = "entry" /\ life'[h] = "open"
          /\ ~cancelling'[h]
          BY <1>6, <2>3 DEF Submit, bootVars, Free
    <3>.  QED
          BY <3>1, <3>2, PackageAssumption DEF WorkerAt, CancelAt, Final, Transient
  <2>.  QED
        BY <2>2, <2>3
\* RequestCancel in either of its places.
<1>7. ASSUME NEW g \in Gens, RequestCancel(g), current' = current, pc' = pc, left' = left,
             stopped' = stopped, life'[h] = life[h] \/ (h = g /\ life'[h] = "closed")
      PROVE  (WorkerAt(h) /\ CancelAt(h))'
  <2>1. /\ current[g] \in Jobs /\ row' = [row EXCEPT ![g].status = "cancel_requested"]
        /\ Saved(current[g], row'[g]) \/ SaveFails
        /\ cancelRequested' = [cancelRequested EXCEPT ![g] = TRUE]
        /\ cancelling' = [cancelling EXCEPT ![g] = TRUE]
        BY <1>7 DEF RequestCancel, Put
  <2>2. CASE h # g
    <3>1. current[h] # NoJob => disk'[current[h]] = disk[current[h]]
          BY <1>s, <2>1, <2>2, PackageAssumption
    <3>.  QED
          BY <1>7, <1>h, <2>1, <2>2, <3>1, WorkerFrame
  <2>3. CASE h = g
    <3>1. row'[h].status = "cancel_requested"
          BY <2>1, <2>3 DEF Row
    <3>2. disk'[current[h]].status \in {disk[current[h]].status, "cancel_requested"}
          BY <2>1, <2>3, <3>1 DEF Saved, SaveFails
    <3>3. cancelRequested'[h] /\ cancelling'[h]
          BY <2>1, <2>3
    <3>.  QED
          BY <1>7, <1>h, <2>1, <2>3, <3>1, <3>2, <3>3, PackageAssumption
          DEF WorkerAt, CancelAt, Transient, Final
  <2>.  QED
        BY <2>2, <2>3
<1>8. CASE Cancel
      BY <1>7, <1>8 DEF Cancel, bootVars, workerVars
<1>9. CASE Close
  <2>1. gen \in Gens /\ life' = [life EXCEPT ![gen] = "closed"]
        BY <1>9 DEF Close
  <2>2. CASE RequestCancel(gen)
        BY <1>9, <1>7, <2>1, <2>2 DEF Close, workerVars
  <2>3. CASE ~RequestCancel(gen)
    <3>1. /\ current[gen] = NoJob /\ UNCHANGED <<disk, row, cancelRequested, cancelling>>
          /\ UNCHANGED <<current, stopped, pc, left>>
          BY <1>9, <2>3 DEF Close, workerVars
    <3>.  QED
          BY <1>h, <2>1, <3>1 DEF WorkerAt, CancelAt
  <2>.  QED
        BY <2>2, <2>3
<1>10. ASSUME NEW g \in Gens, RuntimeCancel(g)
       PROVE  (WorkerAt(h) /\ CancelAt(h))'
      BY <1>10, <1>h DEF RuntimeCancel, bootVars, workerVars, WorkerAt, CancelAt
\* A step of the worker of g that leaves its row, its flag and every status alone.
<1>w. ASSUME NEW g \in Gens, NEW p \in PCs, current[g] # NoJob, p # "idle",
             pc' = [pc EXCEPT ![g] = p], pc[g] # "finish" \/ p = "finish",
             p \in {"launch", "starting", "reading", "stopping"} => left'[g] # <<>>,
             \A f \in Gens : f # g => left'[f] = left[f],
             UNCHANGED <<bootVars, apiVars, row, stopped, disk>>
       PROVE  (WorkerAt(h) /\ CancelAt(h))'
      BY <1>w, <1>h DEF bootVars, apiVars, WorkerAt, CancelAt
\* A worker that is not at its end saves its row: the status is "running" or, if
\* the job has been cancelled, "cancel_requested".
<1>v. ASSUME NEW g \in Gens, current[g] # NoJob, pc[g] # "finish",
             Saved(current[g], row[g]) \/ SaveFails,
             UNCHANGED <<bootVars, apiVars, row, stopped>>, NEW p \in PCs,
             p \notin {"idle", "finish"}, pc' = [pc EXCEPT ![g] = p],
             p \in {"launch", "starting", "reading", "stopping"} => left'[g] # <<>>,
             \A f \in Gens : f # g => left'[f] = left[f]
      PROVE  (WorkerAt(h) /\ CancelAt(h))'
  <2>1. CASE h # g
    <3>1. current[h] # NoJob => disk'[current[h]] = disk[current[h]]
          BY <1>s, <1>v, <2>1
    <3>.  QED
          BY <1>v, <1>h, <2>1, <3>1, WorkerFrame DEF bootVars, apiVars
  <2>2. CASE h = g
    <3>1. current[h] \in Jobs
          BY <1>v, <2>2
    <3>2. disk'[current[h]].status \in {disk[current[h]].status, row[h].status}
          BY <1>v, <2>2, <3>1 DEF Saved, SaveFails
    <3>.  QED
          BY <1>v, <1>h, <2>2, <3>2 DEF bootVars, apiVars, WorkerAt, CancelAt, Transient, Final
  <2>.  QED
        BY <2>1, <2>2
<1>11. ASSUME NEW g \in Gens, Enter(g)
       PROVE  (WorkerAt(h) /\ CancelAt(h))'
  <2>1. current[g] # NoJob
        BY <1>11, <1>h DEF Enter, WorkerAt
  <2>.  QED
        BY <1>11, <2>1, <1>w DEF Enter, PCs
<1>12. ASSUME NEW g \in Gens, Plan(g)
       PROVE  (WorkerAt(h) /\ CancelAt(h))'
  <2>1. current[g] # NoJob
        BY <1>12, <1>h DEF Plan, WorkerAt
  <2>2. /\ left'[g] # <<>> /\ \A f \in Gens : f # g => left'[f] = left[f]
        /\ pc[g] = "plan" /\ UNCHANGED <<bootVars, apiVars, row, stopped>>
        BY <1>12, StepsFacts DEF Plan
  <2>3. \/ UNCHANGED disk /\ pc' = [pc EXCEPT ![g] = "launch"]
        \/ /\ Saved(current[g], row[g]) \/ SaveFails
           /\ \E p \in {"launch", "caught"} : pc' = [pc EXCEPT ![g] = p]
        BY <1>12 DEF Plan
  <2>4. CASE UNCHANGED disk /\ pc' = [pc EXCEPT ![g] = "launch"]
        BY <2>1, <2>2, <2>4, <1>w DEF PCs
  <2>5. ASSUME Saved(current[g], row[g]) \/ SaveFails,
               NEW p \in {"launch", "caught"}, pc' = [pc EXCEPT ![g] = p]
        PROVE  (WorkerAt(h) /\ CancelAt(h))'
        BY <2>1, <2>2, <2>5, <1>v DEF PCs
  <2>.  QED
        BY <2>3, <2>4, <2>5
<1>13. ASSUME NEW g \in Gens, Launch(g)
       PROVE  (WorkerAt(h) /\ CancelAt(h))'
  <2>1. current[g] # NoJob /\ left[g] # <<>>
        BY <1>13, <1>h DEF Launch, WorkerAt
  <2>2. \E p \in {"caught", "starting"} : pc' = [pc EXCEPT ![g] = p]
        BY <1>13 DEF Launch
  <2>.  QED
        BY <1>13, <2>1, <2>2, <1>w DEF Launch, PCs
<1>14. ASSUME NEW g \in Gens, Started(g)
       PROVE  (WorkerAt(h) /\ CancelAt(h))'
  <2>1. current[g] # NoJob /\ left[g] # <<>>
        BY <1>14, <1>h DEF Started, WorkerAt
  <2>.  QED
        BY <1>14, <2>1, <1>w DEF Started, PCs
<1>15. ASSUME NEW g \in Gens, Output(g)
       PROVE  (WorkerAt(h) /\ CancelAt(h))'
  <2>1. current[g] # NoJob /\ left[g] # <<>> /\ pc[g] = "reading"
        BY <1>15, <1>h DEF Output, WorkerAt
  <2>2. /\ Saved(current[g], row[g]) \/ SaveFails
        /\ UNCHANGED <<bootVars, apiVars, row, stopped, left>>
        BY <1>15 DEF Output
  <2>3. \E p \in {"reading", "stopping"} : pc' = [pc EXCEPT ![g] = p]
    <3>1. pc = [pc EXCEPT ![g] = "reading"]
          BY <2>1
    <3>.  QED
          BY <1>15, <3>1 DEF Output
  <2>.  QED
        BY <2>1, <2>2, <2>3, <1>v DEF PCs
<1>16. ASSUME NEW g \in Gens, Exited(g)
       PROVE  (WorkerAt(h) /\ CancelAt(h))'
  <2>1. current[g] # NoJob /\ left[g] # <<>> /\ pc[g] = "reading"
        BY <1>16, <1>h DEF Exited, WorkerAt
  <2>2. UNCHANGED <<bootVars, apiVars, row, stopped, disk>>
        BY <1>16 DEF Exited
  <2>3. Len(left[g]) # 1 => Tail(left[g]) # <<>>
        BY <2>1, TailFacts
  <2>4. \/ /\ left' = [left EXCEPT ![g] = Tail(left[g])]
           /\ \/ Len(left[g]) = 1 /\ pc' = [pc EXCEPT ![g] = "returned"]
              \/ Len(left[g]) # 1 /\ pc' = [pc EXCEPT ![g] = "launch"]
        \/ left' = left /\ pc' = [pc EXCEPT ![g] = "caught"]
        BY <1>16 DEF Exited
  <2>5. /\ \A f \in Gens : f # g => left'[f] = left[f]
        /\ \/ pc' = [pc EXCEPT ![g] = "returned"]
           \/ pc' = [pc EXCEPT ![g] = "caught"]
           \/ pc' = [pc EXCEPT ![g] = "launch"] /\ left'[g] # <<>>
        BY <2>3, <2>4
  <2>.  QED
        BY <2>1, <2>2, <2>5, <1>w DEF PCs
<1>17. ASSUME NEW g \in Gens, AwaitStop(g)
       PROVE  (WorkerAt(h) /\ CancelAt(h))'
  <2>1. current[g] # NoJob
        BY <1>17, <1>h DEF AwaitStop, WorkerAt
  <2>.  QED
        BY <1>17, <2>1, <1>w DEF AwaitStop, PCs
<1>18. ASSUME NEW g \in Gens, SetStatus(g)
       PROVE  (WorkerAt(h) /\ CancelAt(h))'
  <2>1. CASE h # g
        BY <1>18, <1>h, <2>1, WorkerFrame DEF SetStatus, Put, bootVars, apiVars
  <2>2. CASE h = g
    <3>1. row'[h].status = Outcome(h)
          BY <1>18, <2>2 DEF SetStatus, Put, Row
    <3>2. pc'[h] = "finish" /\ UNCHANGED <<disk, life, current, cancelRequested, cancelling, stopped>>
          BY <1>18, <2>2 DEF SetStatus, bootVars, apiVars
    <3>3. current[h] # NoJob
          BY <1>18, <1>h, <2>2 DEF SetStatus, WorkerAt
    <3>.  QED
          BY <1>h, <3>1, <3>2, <3>3 DEF Outcome, WorkerAt, CancelAt
  <2>.  QED
        BY <2>1, <2>2
<1>19. ASSUME NEW g \in Gens, Finish(g)
       PROVE  (WorkerAt(h) /\ CancelAt(h))'
  <2>1. current[g] # NoJob /\ ~cancelling[g]
        BY <1>19, <1>h DEF Finish, Free, WorkerAt
  <2>2. CASE h # g
    <3>1. current[h] # NoJob => disk'[current[h]] = disk[current[h]]
          BY <1>19, <1>s, <2>1, <2>2 DEF Finish
    <3>.  QED
          BY <1>19, <1>h, <2>2, <3>1, WorkerFrame DEF Finish, Forget, bootVars
  <2>3. CASE h = g
        BY <1>19, <2>1, <2>3 DEF Finish, Forget, WorkerAt, CancelAt
  <2>.  QED
        BY <2>2, <2>3
<1>20. ASSUME NEW i \in Jobs, Process(i)
       PROVE  (WorkerAt(h) /\ CancelAt(h))'
      BY <1>20, <1>h, WorkerFrame DEF Process, bootVars, apiVars, workerVars
<1>21. CASE Crash
      BY <1>21 DEF Crash, WorkerAt, CancelAt
<1>.  QED
      BY <1>1, <1>2, <1>3, <1>4, <1>5, <1>6, <1>8, <1>9, <1>10, <1>11, <1>12, <1>13, <1>14,
         <1>15, <1>16, <1>17, <1>18, <1>19, <1>20, <1>21 DEF Next, Constructor, WorkerStep
-----------------------------------------------------------------------------
(***************************************************************************)
(* The theorems.                                                           *)
(***************************************************************************)
Inv == TypeOK /\ CancelsReachWorker

LEMMA InvInit == Init => Inv
<1>1. Init => CancelsReachWorker
      BY DEF Init, CancelsReachWorker, BootInv, OneWorker, WorkerAt, CancelAt, Nothing
<1>.  QED
      BY <1>1, TypeInit DEF Inv

LEMMA InvStep == Inv /\ [Next]_vars => Inv'
<1>1. ASSUME Inv, Next
      PROVE  Inv'
      BY <1>1, TypeStep, BootStep, OneWorkerStep, WorkersStep DEF Inv, CancelsReachWorker
<1>2. ASSUME Inv, UNCHANGED vars
      PROVE  Inv'
  <2>1. TypeOK'
        BY <1>2 DEF Inv, TypeOK, ProcessTypeOK, vars, processVars, bootVars, apiVars, workerVars
  <2>2. BootInv' /\ OneWorker'
        BY <1>2 DEF Inv, CancelsReachWorker, BootInv, OneWorker, vars, bootVars, apiVars
  <2>3. \A g \in Gens : (WorkerAt(g) /\ CancelAt(g))'
        BY <1>2 DEF Inv, CancelsReachWorker, WorkerAt, CancelAt, vars, bootVars, apiVars, workerVars
  <2>.  QED
        BY <2>1, <2>2, <2>3 DEF Inv, CancelsReachWorker
<1>.  QED
      BY <1>1, <1>2

LEMMA Invariant == Spec => []Inv
  BY InvInit, InvStep, PTL DEF Spec

\* The package job queue keeps its types.
THEOREM Typed == Spec => []TypeOK
<1>1. Inv => TypeOK
      BY DEF Inv
<1>.  QED
      BY <1>1, Invariant, PTL

\* A job has one worker, and a cancellation reaches it before it can be read from
\* the job's row (PackageJobs.java, cancel and close).
THEOREM Reached == Spec => []CancelsReachWorker
<1>1. Inv => CancelsReachWorker
      BY DEF Inv
<1>.  QED
      BY <1>1, Invariant, PTL

\* What a step may do to a row that says "cancel_requested".
Sticks(i) ==
  disk[i].status = "cancel_requested" =>
    disk'[i].status \in {"cancel_requested", "cancelled", "interrupted"}

LEMMA SticksStep ==
  ASSUME Inv, [Next]_vars, NEW i \in Jobs
  PROVE  Sticks(i)
<1> USE DEF Inv, TypeOK, CancelsReachWorker
<1>1. CASE UNCHANGED disk
      BY <1>1 DEF Sticks
<1>2. CASE RecoverSave
      BY <1>2 DEF RecoverSave, Saved, SaveFails, BootInv, Sticks
<1>3. ASSUME NEW k \in Jobs, Submit(k)
      PROVE  Sticks(i)
      BY <1>3 DEF Submit, Saved, Sticks
<1>4. ASSUME NEW g \in Gens, RequestCancel(g)
      PROVE  Sticks(i)
  <2>1. row'[g].status = "cancel_requested"
        BY <1>4 DEF RequestCancel, Put, Row
  <2>.  QED
        BY <1>4, <2>1 DEF RequestCancel, Saved, SaveFails, Sticks
<1>5. ASSUME NEW g \in Gens, NEW r, current[g] # NoJob, r.status = row[g].status,
             Saved(current[g], r) \/ SaveFails
      PROVE  Sticks(i)
      BY <1>5 DEF Saved, SaveFails, WorkerAt, CancelAt, Sticks
<1>6. ASSUME NEW g \in Gens, Plan(g) \/ Output(g) \/ Finish(g)
      PROVE  Sticks(i)
  <2>1. current[g] # NoJob
        BY <1>6 DEF Plan, Output, Finish, WorkerAt
  <2>2. [row[g] EXCEPT !.exit = lastExit[g]].status = row[g].status
        BY DEF Row
  <2>.  QED
        BY <1>1, <1>5, <1>6, <2>1, <2>2 DEF Plan, Output, Finish
<1>7. ASSUME NEW g \in Gens, RuntimeCancel(g) \/ WorkerStep(g), ~Plan(g), ~Finish(g)
      PROVE  UNCHANGED disk
      BY <1>7 DEF RuntimeCancel, WorkerStep, Enter, Launch, Started, Exited, AwaitStop,
                  SetStatus
<1>8. CASE Cancel \/ Close
      BY <1>1, <1>4, <1>8 DEF Cancel, Close
<1>9. CASE NewInstance \/ Prepared \/ (\E k \in Jobs : RecoverLoad(k)) \/ Booted \/ Crash
      BY <1>1, <1>9 DEF NewInstance, Prepared, RecoverLoad, Booted, Crash
<1>10. CASE \E k \in Jobs : Process(k)
       BY <1>1, <1>10 DEF Process
<1>11. CASE UNCHANGED vars
       BY <1>1, <1>11 DEF vars
<1>.  QED
      BY <1>1, <1>2, <1>3, <1>6, <1>7, <1>8, <1>9, <1>10, <1>11 DEF Next, Constructor, WorkerStep

\* An accepted cancellation is never overwritten by late output or by a successful
\* exit (PackageJobs.java, the output callback and the worker's two last blocks).
THEOREM CancelSticks == Spec => CancellationSticks
<1>1. Inv /\ [Next]_vars =>
        [\A i \in Jobs :
           disk[i].status = "cancel_requested" =>
             disk'[i].status \in {"cancel_requested", "cancelled", "interrupted"}]_vars
      BY SticksStep DEF Sticks
<1>.  QED
      BY <1>1, Invariant, PTL DEF Spec, CancellationSticks

\* What a step may not do to a job that has been given up.
GivenUp(i) ==
  /\ disk[i].status \in Final \cup {"cancel_requested", "interrupted"}
  /\ \A g \in Gens : current[g] = i => ~cancelling[g]

LEMMA StopsStep ==
  ASSUME Inv, [Next]_vars, NEW i \in Jobs, GivenUp(i)
  PROVE  ~(proc[i] # "shell" /\ proc'[i] = "shell")
<1> USE DEF Inv, TypeOK, CancelsReachWorker
<1>1. CASE UNCHANGED proc
      BY <1>1
<1>2. ASSUME NEW g \in Gens, Launch(g)
      PROVE  ~(proc[i] # "shell" /\ proc'[i] = "shell")
  <2>1. current[g] \in Jobs
        BY <1>2 DEF Launch, WorkerAt
  <2>2. CASE current[g] # i
        BY <1>1, <1>2, <2>1, <2>2 DEF Launch, Fork, ProcessTypeOK, processVars
  <2>3. CASE current[g] = i
    <3>1. cancelRequested[g] /\ ~cancelling[g]
          BY <2>1, <2>3, PackageAssumption DEF GivenUp, WorkerAt, CancelAt
    <3>2. stopped[g]
          BY <2>1, <3>1, PackageAssumption DEF CancelAt
    <3>.  QED
          BY <1>1, <1>2, <3>2 DEF Launch, Refuses, processVars
  <2>.  QED
        BY <2>2, <2>3
<1>3. ASSUME NEW k \in Jobs, Process(k)
      PROVE  ~(proc[i] # "shell" /\ proc'[i] = "shell")
      BY <1>3 DEF Process, ProcessStep, WriteRecord, LockRoot, Dies, Ended, ProcessTypeOK
<1>4. ASSUME NEW g \in Gens, RuntimeCancel(g) \/ Output(g) \/ WorkerStep(g), ~Launch(g)
      PROVE  UNCHANGED proc
      BY <1>4 DEF RuntimeCancel, Output, Quit, WorkerStep, Enter, Plan, Started, Exited,
                  AwaitStop, SetStatus, Finish, processVars
<1>5. CASE NewInstance \/ Constructor
      BY <1>1, <1>5 DEF NewInstance, Quit, Constructor, Prepared, RecoverLoad, RecoverSave,
                        Booted, processVars
<1>6. CASE Cancel \/ Close \/ Crash \/ (\E k \in Jobs : Submit(k))
      BY <1>1, <1>6 DEF Cancel, Close, Crash, Submit, processVars
<1>7. CASE UNCHANGED vars
      BY <1>1, <1>7 DEF vars, processVars
<1>.  QED
      BY <1>1, <1>2, <1>3, <1>4, <1>5, <1>6, <1>7 DEF Next

\* Once cancel() has returned, or a restart has given the job up, no further command
\* of it is started (PackageJobs.java, cancel; LocalLinuxRuntime.java, start).
THEOREM CancelStopsStarting == Spec => StopsStarting
<1>1. Inv /\ [Next]_vars =>
        [\A i \in Jobs :
           disk[i].status \in Final \cup {"cancel_requested", "interrupted"}
             /\ (\A g \in Gens : current[g] = i => ~cancelling[g])
             => ~(proc[i] # "shell" /\ proc'[i] = "shell")]_vars
      BY StopsStep DEF GivenUp
<1>.  QED
      BY <1>1, Invariant, PTL DEF Spec, StopsStarting

-----------------------------------------------------------------------------
(***************************************************************************)
(* What the rows tell their readers: "completed" is true of the commands   *)
(* that ran and of what is left of them, "running" has a worker, and a job *)
(* that is called over has no process.                                     *)
(***************************************************************************)
\* The commands a job may have run when it is through.
Wanted(i) ==
  {<<Operation(i)>>} \cup {s \in {Append(Preflight, "install")} : i \in InstallJobs}

Done(i) == ~Alive(i) /\ ran[i] \in Wanted(i)

\* A worker has at most one process, and goes on only when it has ended. One that waits
\* for a process to stop may give up waiting.
GoneAt(g) ==
  current[g] # NoJob =>
    /\ pc[g] \in {"entry", "plan", "launch", "returned"} => ~Alive(current[g])
    /\ pc[g] \in {"caught", "finish"} => ~Alive(current[g]) \/ MayLag

\* What has run and what is left of a job add up to what its rows may call completed.
RanAt(g) ==
  current[g] # NoJob =>
    /\ pc[g] \in {"entry", "plan"} => ran[current[g]] = <<>>
    /\ pc[g] \in {"launch", "starting", "reading", "stopping"} =>
         ran[current[g]] \o left[g] \in Wanted(current[g])
    /\ pc[g] = "returned" => Done(current[g]) /\ lastExit[g] = "zero"
    /\ pc[g] = "finish" => row[g].status \in Final \cup {"cancel_requested"}
    /\ pc[g] = "finish" /\ row[g].status = "completed" =>
         Done(current[g]) /\ lastExit[g] = "zero"

\* The inductive invariant behind CompletedIsTrue, FinalMeansGone and RowsAreTrue.
RowsInv ==
  /\ \A i \in Jobs : disk[i].status = "none" => ran[i] = <<>> /\ proc[i] = "none"
  /\ \A g \in Gens : GoneAt(g) /\ RanAt(g)
  /\ CompletedIsTrue
  /\ ~MayLag => FinalMeansGone
  /\ ~MayFail => RunningRowsAreOwned
  /\ gen > 0 => life[gen] # "none"

-----------------------------------------------------------------------------
LEMMA LagAndFail == MayLag \in BOOLEAN /\ MayFail \in BOOLEAN
  BY PackageAssumption

\* Moving the first command left to those that ran changes nothing in their sum.
LEMMA MoveHead ==
  ASSUME NEW S, NEW s \in Seq(S), NEW t \in Seq(S), t # <<>>
  PROVE  /\ Append(s, Head(t)) \o Tail(t) = s \o t
         /\ Len(t) = 1 => Append(s, Head(t)) = s \o t
<1>1. Head(t) \in S /\ Tail(t) \in Seq(S) /\ Len(t) \in Nat \ {0}
      OBVIOUS
<1>2. Append(s, Head(t)) = s \o <<Head(t)>>
      BY <1>1
<1>3. t = <<Head(t)>> \o Tail(t)
      BY <1>1
<1>4. (s \o <<Head(t)>>) \o Tail(t) = s \o (<<Head(t)>> \o Tail(t))
      BY <1>1
<1>5. ASSUME Len(t) = 1 PROVE t = <<Head(t)>>
      BY <1>1, <1>5
<1>.  QED
      BY <1>2, <1>3, <1>4, <1>5

LEMMA StepsWanted ==
  ASSUME NEW i PROVE <<>> \o Steps(i) \in Wanted(i)
<1>1. Steps(i) \in Seq(Commands) /\ Steps(i) \in Wanted(i)
      BY StepsFacts DEF Steps, Wanted
<1>.  QED
      BY <1>1

\* Only a launch gives a process to a job that has no living one.
LEMMA ProcStep ==
  ASSUME Inv, [Next]_vars, NEW i \in Jobs, proc'[i] # proc[i]
  PROVE  Alive(i) \/ \E g \in Gens : Launch(g) /\ current[g] = i
<1> USE DEF Inv, TypeOK, CancelsReachWorker, Alive
<1>1. CASE UNCHANGED proc
      BY <1>1
<1>2. ASSUME NEW g \in Gens, Launch(g)
      PROVE  Alive(i) \/ current[g] = i
  <2>1. current[g] \in Jobs
        BY <1>2 DEF Launch, WorkerAt
  <2>.  QED
        BY <1>1, <1>2, <2>1 DEF Launch, Fork, ProcessTypeOK, processVars
<1>3. ASSUME NEW k \in Jobs, Process(k)
      PROVE  Alive(i)
      BY <1>3 DEF Process, ProcessStep, WriteRecord, LockRoot, Dies, Ended, ProcessTypeOK
<1>4. ASSUME NEW g \in Gens, RuntimeCancel(g) \/ Output(g) \/ WorkerStep(g), ~Launch(g)
      PROVE  UNCHANGED proc
      BY <1>4 DEF RuntimeCancel, Output, Quit, WorkerStep, Enter, Plan, Started, Exited,
                  AwaitStop, SetStatus, Finish, processVars
<1>5. CASE NewInstance \/ Constructor
      BY <1>1, <1>5 DEF NewInstance, Quit, Constructor, Prepared, RecoverLoad, RecoverSave,
                        Booted, processVars
<1>6. CASE Cancel \/ Close \/ Crash \/ (\E k \in Jobs : Submit(k))
      BY <1>1, <1>6 DEF Cancel, Close, Crash, Submit, processVars
<1>7. CASE UNCHANGED vars
      BY <1>1, <1>7 DEF vars, processVars
<1>.  QED
      BY <1>1, <1>2, <1>3, <1>4, <1>5, <1>6, <1>7 DEF Next

\* Only an accepted exit adds to what a job has run.
LEMMA RanStep ==
  ASSUME Inv, [Next]_vars, NEW i \in Jobs, ran'[i] # ran[i]
  PROVE  \E g \in Gens : Exited(g) /\ current[g] = i
<1>1. ASSUME NEW g \in Gens, RuntimeCancel(g) \/ Output(g) \/ WorkerStep(g), ~Exited(g)
      PROVE  UNCHANGED ran
      BY <1>1 DEF RuntimeCancel, Output, WorkerStep, Enter, Plan, Launch, Started,
                  AwaitStop, SetStatus, Finish
<1>2. ASSUME NewInstance \/ Constructor PROVE UNCHANGED ran
      BY <1>2 DEF NewInstance, Constructor, Prepared, RecoverLoad, RecoverSave, Booted
<1>3. ASSUME Cancel \/ Close \/ Crash \/ (\E k \in Jobs : Submit(k) \/ Process(k)) PROVE UNCHANGED ran
      BY <1>3 DEF Cancel, Close, Crash, Submit, Process
<1>4. ASSUME UNCHANGED vars PROVE UNCHANGED ran
      BY <1>4 DEF vars
<1>5. ASSUME NEW g \in Gens, Exited(g)
      PROVE  current[g] = i
      BY <1>5 DEF Exited, Inv, TypeOK
<1>.  QED
      BY <1>1, <1>2, <1>3, <1>4, <1>5 DEF Next

\* The ways a row is written.
LEMMA RowWrites ==
  ASSUME Inv, [Next]_vars, NEW i \in Jobs
  PROVE  \/ disk'[i] = disk[i]
         \/ Submit(i) /\ disk'[i] = Stored("running")
         \/ disk'[i].status = "interrupted"
         \/ \E g \in Gens :
              /\ current[g] = i
              /\ \/ disk'[i].status = "cancel_requested"
                 \/ pc[g] # "finish" /\ disk'[i] = row[g]
                 \/ Finish(g) /\ disk'[i] = [row[g] EXCEPT !.exit = lastExit[g]]
<1> USE DEF Inv, TypeOK, CancelsReachWorker, Saved, SaveFails
<1>1. CASE UNCHANGED disk
      BY <1>1
<1>2. CASE RecoverSave
      BY <1>2 DEF RecoverSave, BootInv
<1>3. ASSUME NEW k \in Jobs, Submit(k)
      PROVE  disk'[i] = disk[i] \/ (Submit(i) /\ disk'[i] = Stored("running"))
      BY <1>3 DEF Submit
<1>4. ASSUME NEW g \in Gens, RequestCancel(g)
      PROVE  disk'[i] = disk[i] \/ (current[g] = i /\ disk'[i].status = "cancel_requested")
  <2>1. row'[g].status = "cancel_requested"
        BY <1>4 DEF RequestCancel, Put, Row
  <2>.  QED
        BY <1>4, <2>1 DEF RequestCancel
<1>5. CASE Cancel
  <2>1. gen \in Gens /\ RequestCancel(gen)
        BY <1>5, PackageAssumption DEF Cancel, Gens
  <2>.  QED
        BY <1>4, <2>1
<1>6. CASE Close
  <2>1. gen \in Gens /\ (RequestCancel(gen) \/ UNCHANGED disk)
        BY <1>6, PackageAssumption DEF Close, Gens
  <2>.  QED
        BY <1>1, <1>4, <2>1
<1>7. ASSUME NEW g \in Gens, Plan(g) \/ Output(g)
      PROVE  disk'[i] = disk[i] \/ (current[g] = i /\ pc[g] # "finish" /\ disk'[i] = row[g])
      BY <1>7 DEF Plan, Output
<1>8. ASSUME NEW g \in Gens, Finish(g)
      PROVE  disk'[i] = disk[i] \/ (current[g] = i /\ disk'[i] = [row[g] EXCEPT !.exit = lastExit[g]])
      BY <1>8 DEF Finish
<1>9. ASSUME NEW g \in Gens, RuntimeCancel(g) \/ WorkerStep(g), ~Plan(g), ~Finish(g)
      PROVE  UNCHANGED disk
      BY <1>9 DEF RuntimeCancel, WorkerStep, Enter, Launch, Started, Exited, AwaitStop,
                  SetStatus
<1>10. CASE NewInstance \/ Prepared \/ (\E k \in Jobs : RecoverLoad(k)) \/ Booted \/ Crash
      BY <1>1, <1>10 DEF NewInstance, Prepared, RecoverLoad, Booted, Crash
<1>11. CASE \E k \in Jobs : Process(k)
      BY <1>1, <1>11 DEF Process
<1>12. CASE UNCHANGED vars
      BY <1>1, <1>12 DEF vars
<1>.  QED
      BY <1>1, <1>2, <1>3, <1>5, <1>6, <1>7, <1>8, <1>9, <1>10, <1>11, <1>12
      DEF Next, Constructor, WorkerStep

-----------------------------------------------------------------------------
(***************************************************************************)
(* RowsInv, part by part.                                                  *)
(***************************************************************************)
\* A job nobody holds is left alone by processes and workers, once its process has ended.
LEMMA Unheld ==
  ASSUME Inv, [Next]_vars, NEW i \in Jobs, ~Alive(i), \A g \in Gens : current[g] # i
  PROVE  proc'[i] = proc[i] /\ ran'[i] = ran[i]
  BY ProcStep, RanStep

\* A held job is not over, and its row has been written.
LEMMA Held ==
  ASSUME Inv, NEW i \in Jobs, disk[i].status \in Final \cup {"none"}, NEW g \in Gens
  PROVE  current[g] # i
  BY PackageAssumption DEF Inv, CancelsReachWorker, WorkerAt

\* What a worker saves says "none" never, and "running" or "cancel_requested" before its end.
LEMMA HeldRow ==
  ASSUME Inv, RowsInv, NEW g \in Gens, current[g] # NoJob
  PROVE  /\ pc[g] # "finish" => row[g].status \in Transient
         /\ pc[g] = "finish" => row[g].status \in Final \cup {"cancel_requested"}
         /\ [row[g] EXCEPT !.exit = lastExit[g]].status = row[g].status
         /\ [row[g] EXCEPT !.exit = lastExit[g]].exit = lastExit[g]
<1>1. row[g] \in Row
      BY DEF Inv, TypeOK
<1>.  QED
      BY <1>1 DEF Inv, CancelsReachWorker, WorkerAt, RowsInv, RanAt, Row

\* A row that says neither "running" nor that it has been given up is written by a worker
\* that has come to its end.
LEMMA LastWrites ==
  ASSUME Inv, RowsInv, [Next]_vars, NEW i \in Jobs,
         disk'[i].status \notin Transient \cup {"interrupted"}
  PROVE  \/ disk'[i] = disk[i]
         \/ \E g \in Gens : /\ Finish(g) /\ current[g] = i
                            /\ disk'[i].status = row[g].status /\ disk'[i].exit = lastExit[g]
<1>1. PICK written : written = disk'[i]
      OBVIOUS
<1>2. /\ written.status \notin {"running", "cancel_requested", "interrupted"}
      /\ written # Stored("running")
      BY <1>1 DEF Transient, Stored
<1>3. \/ written = disk[i]
      \/ \E g \in Gens :
           /\ current[g] = i
           /\ \/ pc[g] # "finish" /\ written = row[g]
              \/ Finish(g) /\ written = [row[g] EXCEPT !.exit = lastExit[g]]
  <2>1. \/ written = disk[i]
        \/ written = Stored("running")
        \/ written.status = "interrupted"
        \/ \E g \in Gens :
             /\ current[g] = i
             /\ \/ written.status = "cancel_requested"
                \/ pc[g] # "finish" /\ written = row[g]
                \/ Finish(g) /\ written = [row[g] EXCEPT !.exit = lastExit[g]]
        BY <1>1, RowWrites, Zenon
  <2>.  QED
        BY <1>2, <2>1
<1>4. ASSUME NEW g \in Gens, current[g] = i, pc[g] # "finish", written = row[g]
      PROVE  FALSE
  <2>1. current[g] # NoJob
        BY <1>4, PackageAssumption
  <2>2. row[g].status \in Transient
        BY <1>4, <2>1, HeldRow
  <2>.  QED
        BY <1>2, <1>4, <2>2 DEF Transient
<1>5. ASSUME NEW g \in Gens, current[g] = i, Finish(g),
             written = [row[g] EXCEPT !.exit = lastExit[g]]
      PROVE  written.status = row[g].status /\ written.exit = lastExit[g]
  <2>1. current[g] # NoJob
        BY <1>5, PackageAssumption
  <2>.  QED
        BY <1>5, <2>1, HeldRow
<1>.  QED
      BY <1>1, <1>3, <1>4, <1>5

\* A job that has not been submitted has neither run nor been started.
LEMMA UnseenStep ==
  ASSUME Inv, RowsInv, [Next]_vars, NEW i \in Jobs, disk'[i].status = "none"
  PROVE  ran'[i] = <<>> /\ proc'[i] = "none"
<1>1. disk[i].status = "none"
  <2>1. ASSUME NEW g \in Gens, Finish(g), current[g] = i
        PROVE  row[g].status # "none"
    <3>1. current[g] # NoJob /\ pc[g] = "finish"
          BY <2>1, PackageAssumption DEF Finish
    <3>.  QED
          BY <3>1, HeldRow DEF Final
  <2>.  QED
        BY <2>1, LastWrites DEF Transient
<1>2. ran[i] = <<>> /\ proc[i] = "none"
      BY <1>1 DEF RowsInv
<1>3. \A g \in Gens : current[g] # i
      BY <1>1, Held
<1>.  QED
      BY <1>2, <1>3, Unheld DEF Alive

LEMMA CompletedStep ==
  ASSUME Inv, RowsInv, [Next]_vars
  PROVE  CompletedIsTrue'
<1> SUFFICES ASSUME NEW i \in Jobs, disk'[i].status = "completed"
             PROVE  disk'[i].exit = "zero" /\ Done(i)'
    BY DEF CompletedIsTrue, Done, Wanted, Operation
<1>1. CASE disk'[i] = disk[i]
  <2>1. disk[i].exit = "zero" /\ Done(i)
        BY <1>1 DEF RowsInv, CompletedIsTrue, Done, Wanted
  <2>2. \A g \in Gens : current[g] # i
        BY <1>1, Held DEF Final
  <2>.  QED
        BY <1>1, <2>1, <2>2, Unheld DEF Done, Alive, Wanted
<1>2. ASSUME NEW g \in Gens, Finish(g), current[g] = i, row[g].status = "completed"
      PROVE  lastExit[g] = "zero" /\ Done(i)'
  <2>1. current[g] # NoJob /\ pc[g] = "finish"
        BY <1>2, PackageAssumption DEF Finish
  <2>2. Done(i) /\ lastExit[g] = "zero"
        BY <1>2, <2>1 DEF RowsInv, RanAt
  <2>3. proc' = proc /\ ran' = ran
        BY <1>2 DEF Finish, processVars
  <2>.  QED
        BY <2>2, <2>3 DEF Done, Alive, Wanted
<1>.  QED
      BY <1>1, <1>2, LastWrites DEF Transient

LEMMA GoneStep ==
  ASSUME Inv, RowsInv, [Next]_vars, ~MayLag
  PROVE  FinalMeansGone'
<1> SUFFICES ASSUME NEW i \in Jobs, disk'[i].status \in Final
             PROVE  ~Alive(i)'
    BY DEF FinalMeansGone
<1>1. CASE disk'[i] = disk[i]
  <2>1. ~Alive(i)
        BY <1>1 DEF RowsInv, FinalMeansGone
  <2>2. \A g \in Gens : current[g] # i
        BY <1>1, Held
  <2>.  QED
        BY <2>1, <2>2, Unheld DEF Alive
<1>2. ASSUME NEW g \in Gens, Finish(g), current[g] = i
      PROVE  ~Alive(i)'
  <2>1. current[g] # NoJob /\ pc[g] = "finish"
        BY <1>2, PackageAssumption DEF Finish
  <2>2. ~Alive(i)
        BY <1>2, <2>1 DEF RowsInv, GoneAt
  <2>.  QED
        BY <1>2, <2>2 DEF Finish, processVars, Alive
<1>3. disk'[i].status \notin Transient \cup {"interrupted"}
      BY DEF Final, Transient
<1>.  QED
      BY <1>1, <1>2, <1>3, LastWrites

-----------------------------------------------------------------------------
\* The worker of g has not moved; its row may have been marked by cancel().
Resting(g) ==
  /\ current'[g] = current[g] /\ pc'[g] = pc[g]
  /\ left'[g] = left[g] /\ lastExit'[g] = lastExit[g]
  /\ row'[g] = row[g] \/ row'[g].status = "cancel_requested"

LEMMA WhoSteps ==
  ASSUME Inv, [Next]_vars, NEW g \in Gens
  PROVE  \/ current'[g] = NoJob \/ Resting(g)
         \/ g = gen /\ \E i \in Jobs : Submit(i)
         \/ WorkerStep(g) \/ Output(g)
<1> USE DEF Inv, TypeOK, Goto
<1>1. CASE UNCHANGED <<current, row, workerVars>>
      BY <1>1 DEF Resting, workerVars
<1>2. ASSUME NEW i \in Jobs, Submit(i), g # gen
      PROVE  Resting(g)
      BY <1>2 DEF Submit, Resting
<1>3. ASSUME NEW h \in Gens, RequestCancel(h), UNCHANGED <<current, workerVars>>
      PROVE  Resting(g)
      BY <1>3 DEF RequestCancel, Put, Row, Resting, workerVars
<1>4. CASE Cancel
      BY <1>3, <1>4, PackageAssumption DEF Cancel, Gens
<1>5. CASE Close
      BY <1>1, <1>3, <1>5, PackageAssumption DEF Close, Gens
<1>6. ASSUME NEW h \in Gens, WorkerStep(h) \/ Output(h), h # g
      PROVE  Resting(g)
      BY <1>6 DEF WorkerStep, Enter, Plan, Launch, Started, Exited, AwaitStop, SetStatus,
                  Put, Finish, Forget, Output, Resting, apiVars
<1>7. CASE NewInstance \/ Constructor
      BY <1>1, <1>7 DEF NewInstance, Constructor, Prepared, RecoverLoad, RecoverSave,
                        Booted, apiVars
<1>8. CASE (\E i \in Jobs : Process(i)) \/ (\E h \in Gens : RuntimeCancel(h)) \/ UNCHANGED vars
      BY <1>1, <1>8 DEF Process, RuntimeCancel, vars, apiVars
<1>9. CASE Crash
      BY <1>9 DEF Crash
<1>.  QED
      BY <1>2, <1>4, <1>5, <1>6, <1>7, <1>8, <1>9 DEF Next

\* Nobody but its own worker starts a process for a job, or adds to what it has run.
LEMMA Untouched ==
  ASSUME Inv, [Next]_vars, NEW g \in Gens, current[g] # NoJob, ~Launch(g), ~Exited(g)
  PROVE  /\ ran'[current[g]] = ran[current[g]]
         /\ ~Alive(current[g]) => proc'[current[g]] \in {"none", "gone"}
<1>1. current[g] \in Jobs
      BY DEF Inv, TypeOK
<1>2. \A h \in Gens : current[h] = current[g] => h = g
      BY DEF Inv, CancelsReachWorker, OneWorker
<1>3. proc'[current[g]] # proc[current[g]] => Alive(current[g])
      BY <1>1, <1>2, ProcStep
<1>4. ran'[current[g]] = ran[current[g]]
      BY <1>1, <1>2, RanStep
<1>.  QED
      BY <1>3, <1>4 DEF Alive

LEMMA RestingRows ==
  ASSUME Inv, RowsInv, [Next]_vars, NEW g \in Gens, Resting(g)
  PROVE  GoneAt(g)' /\ RanAt(g)'
<1> SUFFICES ASSUME current[g] # NoJob
             PROVE  GoneAt(g)' /\ RanAt(g)'
    BY DEF GoneAt, RanAt, Resting
<1>1. ~Launch(g) /\ ~Exited(g)
      BY DEF Resting, Launch, Exited, Goto, Inv, TypeOK
<1>2. /\ ran'[current[g]] = ran[current[g]]
      /\ ~Alive(current[g]) => proc'[current[g]] \in {"none", "gone"}
      BY <1>1, Untouched
<1>3. GoneAt(g) /\ RanAt(g)
      BY DEF RowsInv
<1>4. GoneAt(g)'
      BY <1>2, <1>3 DEF GoneAt, Resting, Alive
<1>5. RanAt(g)'
      BY <1>2, <1>3 DEF RanAt, Resting, Done, Wanted, Alive
<1>.  QED
      BY <1>4, <1>5

\* A worker that starts has a job nobody has seen before.
LEMMA SubmitRows ==
  ASSUME Inv, RowsInv, [Next]_vars, NEW i \in Jobs, Submit(i)
  PROVE  GoneAt(gen)' /\ RanAt(gen)'
<1>1. ran[i] = <<>> /\ ~Alive(i)
      BY DEF Submit, RowsInv, Alive
<1>2. gen \in Gens /\ current'[gen] = i /\ pc'[gen] = "entry"
      BY PackageAssumption DEF Submit, Gens, Goto, Inv, TypeOK
<1>3. proc' = proc /\ ran' = ran /\ gen' = gen
      BY DEF Submit, bootVars, processVars
<1>.  QED
      BY <1>1, <1>2, <1>3 DEF GoneAt, RanAt, Alive

\* The steps between two commands and after the last.
LEMMA EasyRows ==
  ASSUME Inv, RowsInv, [Next]_vars, NEW g \in Gens, current[g] # NoJob,
         Enter(g) \/ Launch(g) \/ Started(g) \/ AwaitStop(g) \/ Output(g)
  PROVE  GoneAt(g)' /\ RanAt(g)'
<1> USE DEF Inv, TypeOK, Goto
<1>1. current'[g] = current[g] /\ left' = left /\ ran' = ran
      BY DEF Enter, Launch, Started, AwaitStop, Output, apiVars, workerVars
<1>2. GoneAt(g) /\ RanAt(g)
      BY DEF RowsInv
<1>3. CASE Enter(g)
      BY <1>1, <1>2, <1>3 DEF Enter, GoneAt, RanAt, Alive, processVars
<1>4. CASE Launch(g)
  <2>1. CASE pc'[g] = "caught" /\ proc' = proc
        BY <1>1, <1>2, <1>4, <2>1 DEF Launch, GoneAt, RanAt, Alive
  <2>2. CASE pc'[g] = "starting"
        BY <1>1, <1>2, <1>4, <2>2 DEF Launch, GoneAt, RanAt, Wanted
  <2>.  QED
        BY <1>4, <2>1, <2>2 DEF Launch, processVars
<1>5. CASE Started(g)
      BY <1>1, <1>2, <1>5 DEF Started, GoneAt, RanAt, Wanted
<1>6. CASE AwaitStop(g)
      BY <1>1, <1>2, <1>6, LagAndFail DEF AwaitStop, GiveUp, GoneAt, RanAt, Alive, processVars
<1>7. CASE Output(g)
      BY <1>1, <1>2, <1>7 DEF Output, GoneAt, RanAt, Wanted
<1>.  QED
      BY <1>3, <1>4, <1>5, <1>6, <1>7

LEMMA PlanRows ==
  ASSUME Inv, RowsInv, [Next]_vars, NEW g \in Gens, Plan(g), current[g] # NoJob
  PROVE  GoneAt(g)' /\ RanAt(g)'
<1>1. current'[g] = current[g] /\ proc' = proc /\ ran' = ran
      BY DEF Plan, apiVars, processVars
<1>2. ~Alive(current[g]) /\ ran[current[g]] = <<>>
      BY DEF Plan, RowsInv, GoneAt, RanAt
<1>3. left'[g] = Steps(current[g])
      BY DEF Plan, Inv, TypeOK
<1>4. pc'[g] \in {"launch", "caught"}
      BY DEF Plan, Goto, Inv, TypeOK
<1>5. ran'[current'[g]] \o left'[g] \in Wanted(current[g])
      BY <1>1, <1>2, <1>3, StepsWanted
<1>.  QED
      BY <1>1, <1>2, <1>4, <1>5 DEF GoneAt, RanAt, Alive, Wanted

\* An accepted exit moves the command from what is left to what has run.
LEMMA ExitedRows ==
  ASSUME Inv, RowsInv, [Next]_vars, NEW g \in Gens, Exited(g), current[g] # NoJob
  PROVE  GoneAt(g)' /\ RanAt(g)'
<1> DEFINE i == current[g]
<1>1. i \in Jobs /\ current'[g] = i /\ proc' = proc /\ ~Alive(i)
      BY DEF Exited, Inv, TypeOK, apiVars, processVars
<1>2. lastExit'[g] = code[i]
      BY DEF Exited, Inv, TypeOK
<1>3. CASE pc'[g] = "caught"
      BY <1>1, <1>3 DEF GoneAt, RanAt, Alive
<1>4. ASSUME Accepted(g), ran' = [ran EXCEPT ![i] = Append(@, Head(left[g]))],
             left' = [left EXCEPT ![g] = Tail(@)],
             Goto(g, IF Len(left[g]) = 1 THEN "returned" ELSE "launch")
      PROVE  GoneAt(g)' /\ RanAt(g)'
  <2>1. /\ ran[i] \in Seq(Commands) /\ left[g] \in Seq(Commands) /\ left[g] # <<>>
        BY <1>1 DEF Inv, TypeOK, CancelsReachWorker, WorkerAt, Exited
  <2>2. ran[i] \o left[g] \in Wanted(i)
        BY DEF Exited, RowsInv, RanAt
  <2>3. ran'[i] = Append(ran[i], Head(left[g])) /\ left'[g] = Tail(left[g])
        BY <1>1, <1>4 DEF Inv, TypeOK
  <2>4. /\ ran'[i] \o left'[g] \in Wanted(i)
        /\ Len(left[g]) = 1 => ran'[i] \in Wanted(i)
        BY <2>1, <2>2, <2>3, MoveHead
  <2>5. lastExit'[g] = "zero"
        BY <1>2, <1>4 DEF Accepted
  <2>6. pc'[g] = IF Len(left[g]) = 1 THEN "returned" ELSE "launch"
        BY <1>4 DEF Goto, Inv, TypeOK
  <2>7. Wanted(i)' = Wanted(i)
        BY <1>1 DEF Wanted, Operation
  <2>.  QED
        BY <1>1, <2>4, <2>5, <2>6, <2>7 DEF GoneAt, RanAt, Done, Alive, Wanted
<1>5. \/ pc'[g] = "caught"
      \/ /\ Accepted(g) /\ ran' = [ran EXCEPT ![i] = Append(@, Head(left[g]))]
         /\ left' = [left EXCEPT ![g] = Tail(@)]
         /\ Goto(g, IF Len(left[g]) = 1 THEN "returned" ELSE "launch")
      BY DEF Exited, Goto, Inv, TypeOK
<1>.  QED
      BY <1>3, <1>4, <1>5

\* "completed" is said of a job whose commands have returned, and of no other.
LEMMA SetStatusRows ==
  ASSUME Inv, RowsInv, [Next]_vars, NEW g \in Gens, SetStatus(g), current[g] # NoJob
  PROVE  GoneAt(g)' /\ RanAt(g)'
<1>1. /\ current'[g] = current[g] /\ proc' = proc /\ ran' = ran /\ lastExit' = lastExit
      /\ pc'[g] = "finish"
      BY DEF SetStatus, Goto, apiVars, processVars, Inv, TypeOK
<1>2. row'[g].status = Outcome(g)
      BY DEF SetStatus, Put, Inv, TypeOK, Row
<1>3. GoneAt(g) /\ RanAt(g)
      BY DEF RowsInv
<1>4. GoneAt(g)'
      BY <1>1, <1>3 DEF GoneAt, Alive, SetStatus
<1>5. row'[g].status \in Final
      BY <1>2 DEF Outcome, Final
<1>6. row'[g].status = "completed" => pc[g] = "returned"
      BY <1>2 DEF Outcome
<1>7. pc[g] = "returned" => Done(current[g]) /\ lastExit[g] = "zero"
      BY <1>3 DEF RanAt
<1>8. RanAt(g)'
      BY <1>1, <1>5, <1>6, <1>7 DEF RanAt, Done, Alive, Wanted
<1>.  QED
      BY <1>4, <1>8

LEMMA WorkersRows ==
  ASSUME Inv, RowsInv, [Next]_vars, NEW g \in Gens
  PROVE  GoneAt(g)' /\ RanAt(g)'
<1>1. CASE current'[g] = NoJob
      BY <1>1 DEF GoneAt, RanAt
<1>2. CASE Resting(g)
      BY <1>2, RestingRows
<1>3. CASE g = gen /\ \E i \in Jobs : Submit(i)
      BY <1>3, SubmitRows DEF Submit, bootVars
<1>4. CASE Finish(g)
      BY <1>1, <1>4 DEF Finish, Forget, Inv, TypeOK
<1>5. CASE (WorkerStep(g) /\ ~Finish(g)) \/ Output(g)
  <2>1. current[g] # NoJob
        BY <1>5 DEF WorkerStep, Enter, Plan, Launch, Started, Exited, AwaitStop, SetStatus,
                    Output, Inv, CancelsReachWorker, WorkerAt
  <2>.  QED
        BY <1>5, <2>1, EasyRows, PlanRows, ExitedRows, SetStatusRows DEF WorkerStep
<1>.  QED
      BY <1>1, <1>2, <1>3, <1>4, <1>5, WhoSteps

-----------------------------------------------------------------------------
\* A worker keeps its job until it has finished with it, unless the app is killed.
LEMMA OwnerStays ==
  ASSUME Inv, [Next]_vars, NEW g \in Gens, current[g] # NoJob
  PROVE  current'[g] = current[g] \/ Finish(g) \/ Crash
<1> USE DEF Inv, TypeOK
<1>1. ASSUME NEW i \in Jobs, Submit(i)
      PROVE  current'[g] = current[g]
      BY <1>1 DEF Submit
<1>2. ASSUME NEW h \in Gens, WorkerStep(h) \/ Output(h) \/ RuntimeCancel(h), ~Finish(g)
      PROVE  current'[g] = current[g]
  <2>1. CASE Finish(h)
        BY <1>2, <2>1 DEF Finish, Forget
  <2>.  QED
        BY <1>2, <2>1 DEF WorkerStep, Enter, Plan, Launch, Started, Exited, AwaitStop,
                          SetStatus, Output, RuntimeCancel, apiVars
<1>3. CASE NewInstance \/ Constructor \/ Cancel \/ Close
      BY <1>3 DEF NewInstance, Constructor, Prepared, RecoverLoad, RecoverSave, Booted,
                  Cancel, Close, apiVars
<1>4. CASE (\E i \in Jobs : Process(i)) \/ UNCHANGED vars
      BY <1>4 DEF Process, vars, apiVars
<1>.  QED
      BY <1>1, <1>2, <1>3, <1>4 DEF Next

\* What may happen to an instance that has not opened, or whose app is dead.
LEMMA InstanceSteps ==
  ASSUME Inv, [Next]_vars, gen > 0, life[gen] \in {"dead", "recovering", "booting"}
  PROVE  \/ gen' = gen /\ life' = life /\ todo' = todo
         \/ gen' > 0 /\ life'[gen'] \in {"dead", "recovering"}
         \/ gen' = gen /\ (Prepared \/ (\E i \in Jobs : RecoverLoad(i)) \/ RecoverSave \/ Booted)
<1> USE DEF Inv, TypeOK
<1>1. gen \in Gens
      BY PackageAssumption DEF Gens
<1>2. CASE NewInstance
  <2>1. gen' = gen + 1 /\ gen' \in Gens /\ life'[gen + 1] = "recovering"
        BY <1>1, <1>2, PackageAssumption DEF NewInstance, Gens
  <2>.  QED
        BY <1>1, <2>1 DEF Gens
<1>3. CASE Crash
      BY <1>1, <1>3 DEF Crash
<1>4. CASE Constructor
      BY <1>4 DEF Constructor, Prepared, RecoverLoad, RecoverSave, Booted
<1>5. CASE Cancel
      BY <1>5 DEF Cancel, bootVars
<1>6. ASSUME Close \/ (\E i \in Jobs : Submit(i)) PROVE FALSE
      BY <1>6 DEF Close, Submit
<1>7. CASE (\E i \in Jobs : Process(i)) \/ UNCHANGED vars
      BY <1>7 DEF Process, vars, bootVars
<1>8. ASSUME NEW h \in Gens, WorkerStep(h) \/ Output(h) \/ RuntimeCancel(h)
      PROVE  gen' = gen /\ life' = life /\ todo' = todo
      BY <1>8 DEF WorkerStep, Enter, Plan, Launch, Started, Exited, AwaitStop, SetStatus,
                  Finish, Output, RuntimeCancel, bootVars
<1>.  QED
      BY <1>2, <1>3, <1>4, <1>5, <1>6, <1>7, <1>8 DEF Next

\* An instance about to look at a running row keeps it in sight until it is rewritten.
LEMMA InSightStep ==
  ASSUME Inv, [Next]_vars, ~MayFail, NEW i \in Jobs,
         disk[i].status = "running", disk'[i] = disk[i],
         gen > 0, \/ life[gen] \in {"dead", "recovering"}
                  \/ life[gen] = "booting" /\ i \in todo
  PROVE  /\ gen' > 0
         /\ \/ life'[gen'] \in {"dead", "recovering"}
            \/ life'[gen'] = "booting" /\ i \in todo'
<1> USE DEF Inv, TypeOK
<1>1. gen \in Gens
      BY PackageAssumption DEF Gens
<1>2. CASE Prepared
      BY <1>1, <1>2 DEF Prepared
<1>3. ASSUME NEW k \in Jobs, RecoverLoad(k)
      PROVE  /\ gen' = gen /\ life' = life
             /\ i \in todo => i \in todo'
      BY <1>3 DEF RecoverLoad, LeftBehind, Transient
<1>4. ASSUME RecoverSave
      PROVE  /\ gen' = gen /\ life' = life
             /\ i \in todo => i \in todo'
  <2>1. loaded.id \in Jobs /\ loaded.row.status = "interrupted"
        BY <1>4 DEF RecoverSave, CancelsReachWorker, BootInv
  <2>2. Saved(loaded.id, loaded.row) /\ todo' = todo \ {loaded.id} /\ life' = life
        BY <1>4 DEF RecoverSave, SaveFails
  <2>3. loaded.id # i
        BY <2>1, <2>2 DEF Saved
  <2>.  QED
        BY <1>4, <2>2, <2>3 DEF RecoverSave
<1>5. CASE Booted
      BY <1>1, <1>5 DEF Booted
<1>.  QED
      BY <1>2, <1>3, <1>4, <1>5, InstanceSteps

\* The newest instance has been built.
LEMMA BuiltStep ==
  ASSUME Inv, RowsInv, [Next]_vars, gen' > 0
  PROVE  life'[gen'] # "none"
<1> USE DEF Inv, TypeOK
<1>1. /\ gen \in 0..MaxGen /\ MaxGen \in Nat
      /\ gen > 0 => life[gen] # "none"
      BY PackageAssumption DEF RowsInv
<1>2. CASE NewInstance
  <2>1. gen' = gen + 1 /\ gen' \in Gens /\ life'[gen + 1] = "recovering"
        BY <1>1, <1>2 DEF NewInstance, Gens
  <2>.  QED
        BY <2>1
<1>3. CASE Constructor \/ Cancel \/ Close \/ Crash
  <2>1. gen' = gen
        BY <1>3 DEF Constructor, Prepared, RecoverLoad, RecoverSave, Booted, Cancel, Close,
                    Crash, bootVars
  <2>2. gen \in Gens /\ life[gen] # "none"
        BY <1>1, <2>1 DEF Gens
  <2>3. CASE Constructor \/ Cancel \/ Close
        BY <2>1, <2>2, <2>3 DEF Constructor, Prepared, RecoverLoad, RecoverSave, Booted, Cancel,
                                Close, bootVars
  <2>4. CASE Crash
        BY <2>1, <2>2, <2>4 DEF Crash
  <2>.  QED
        BY <1>3, <2>3, <2>4
<1>4. CASE (\E i \in Jobs : Submit(i) \/ Process(i)) \/ UNCHANGED vars
      BY <1>1, <1>4 DEF Submit, Process, vars, bootVars
<1>5. ASSUME NEW h \in Gens, WorkerStep(h) \/ Output(h) \/ RuntimeCancel(h)
      PROVE  gen' = gen /\ life' = life
      BY <1>5 DEF WorkerStep, Enter, Plan, Launch, Started, Exited, AwaitStop, SetStatus,
                  Finish, Output, RuntimeCancel, bootVars
<1>.  QED
      BY <1>1, <1>2, <1>3, <1>4, <1>5 DEF Next

LEMMA OwnedStep ==
  ASSUME Inv, RowsInv, [Next]_vars, ~MayFail
  PROVE  RunningRowsAreOwned'
<1> SUFFICES ASSUME NEW i \in Jobs, disk'[i].status = "running"
             PROVE  \/ \E g \in Gens : current'[g] = i
                    \/ /\ gen' > 0
                       /\ \/ life'[gen'] \in {"dead", "recovering"}
                          \/ life'[gen'] = "booting" /\ i \in todo'
    BY DEF RunningRowsAreOwned
<1>1. ASSUME NEW g \in Gens, current[g] = i, Finish(g)
      PROVE  FALSE
  <2>1. current[g] # NoJob /\ pc[g] = "finish"
        BY <1>1, PackageAssumption DEF Finish
  <2>2. row[g].status # "running" /\ [row[g] EXCEPT !.exit = lastExit[g]].status = row[g].status
        BY <2>1, HeldRow DEF Final
  <2>3. disk'[i] = [row[g] EXCEPT !.exit = lastExit[g]]
        BY <1>1 DEF Finish, Saved, SaveFails, Inv, TypeOK
  <2>.  QED
        BY <2>2, <2>3
<1>2. ASSUME Crash
      PROVE  gen' > 0 /\ life'[gen'] = "dead"
  <2>1. gen \in Gens /\ life[gen] # "none" /\ gen' = gen /\ gen > 0
        BY <1>2, PackageAssumption
        DEF Crash, Gens, Inv, TypeOK, RowsInv
  <2>.  QED
        BY <1>2, <2>1 DEF Crash
<1>3. CASE \E g \in Gens : current[g] = i
  <2>1. PICK g \in Gens : current[g] = i
        BY <1>3
  <2>2. current[g] # NoJob
        BY <2>1, PackageAssumption
  <2>.  QED
        BY <1>1, <1>2, <2>1, <2>2, OwnerStays
<1>4. ASSUME Submit(i)
      PROVE  \E g \in Gens : current'[g] = i
  <2>1. gen \in Gens /\ current'[gen] = i
        BY <1>4, PackageAssumption DEF Submit, Gens, Inv, TypeOK
  <2>.  QED
        BY <2>1
<1>5. CASE disk'[i] = disk[i] /\ \A g \in Gens : current[g] # i
  <2>1. disk[i].status = "running"
        BY <1>5
  <2>2. /\ gen > 0
        /\ \/ life[gen] \in {"dead", "recovering"}
           \/ life[gen] = "booting" /\ i \in todo
        BY <1>5, <2>1 DEF RowsInv, RunningRowsAreOwned
  <2>.  QED
        BY <1>5, <2>1, <2>2, InSightStep
<1>6. disk'[i] = disk[i] \/ Submit(i) \/ \E g \in Gens : current[g] = i
      BY RowWrites
<1>.  QED
      BY <1>3, <1>4, <1>5, <1>6

-----------------------------------------------------------------------------
LEMMA RowsInit == Init => RowsInv
<1> SUFFICES ASSUME Init PROVE RowsInv
    OBVIOUS
<1>1. \A i \in Jobs : disk[i].status = "none" /\ ran[i] = <<>> /\ proc[i] = "none"
      BY DEF Init, ProcessInit, Stored
<1>2. \A g \in Gens : current[g] = NoJob
      BY DEF Init
<1>3. gen = 0
      BY DEF Init
<1>4. \A g \in Gens : GoneAt(g) /\ RanAt(g)
      BY <1>2 DEF GoneAt, RanAt
<1>5. CompletedIsTrue /\ FinalMeansGone /\ RunningRowsAreOwned
      BY <1>1 DEF CompletedIsTrue, FinalMeansGone, RunningRowsAreOwned, Final
<1>.  QED
      BY <1>1, <1>3, <1>4, <1>5 DEF RowsInv

LEMMA RowsStep ==
  ASSUME Inv, RowsInv, [Next]_vars
  PROVE  RowsInv'
<1>1. (\A i \in Jobs : disk[i].status = "none" => ran[i] = <<>> /\ proc[i] = "none")'
      BY UnseenStep
<1>2. (\A g \in Gens : GoneAt(g) /\ RanAt(g))'
      BY WorkersRows DEF Gens
<1>3. CompletedIsTrue' /\ (~MayLag => FinalMeansGone') /\ (~MayFail => RunningRowsAreOwned')
      BY CompletedStep, GoneStep, OwnedStep
<1>4. gen' > 0 => life'[gen'] # "none"
      BY BuiltStep
<1>.  QED
      BY <1>1, <1>2, <1>3, <1>4 DEF RowsInv

LEMMA RowsAlways == Spec => []RowsInv
<1>1. Init => RowsInv
      BY RowsInit
<1>2. Inv /\ RowsInv /\ [Next]_vars => RowsInv'
      BY RowsStep
<1>.  QED
      BY <1>1, <1>2, Invariant, PTL DEF Spec

\* A row says "completed" only of a job whose own command, and every planning step before
\* it, succeeded in order, with exit code zero and with no process left: through crashes,
\* rows that cannot be written and processes that are not waited for
\* (PackageJobs.java, 69-88, over LocalLinuxRuntime.java).
THEOREM CompletedTrue == Spec => []CompletedIsTrue
<1>1. RowsInv => CompletedIsTrue
      BY DEF RowsInv
<1>.  QED
      BY <1>1, RowsAlways, PTL

\* If rows can be written, one that says "running" has besides a worker, or an instance
\* that is about to look at it, however often the app is killed.
THEOREM RowsTrue == ASSUME ~MayFail PROVE Spec => []RowsAreTrue
<1>1. RowsInv => RowsAreTrue
      BY DEF RowsInv, RowsAreTrue
<1>.  QED
      BY <1>1, RowsAlways, PTL

\* Where every wait is long enough, a job that is called over has no living process,
\* whether or not its output could be stored and however often the app is killed.
THEOREM FinalGone == ASSUME ~MayLag PROVE Spec => []FinalMeansGone
<1>1. RowsInv => FinalMeansGone
      BY DEF RowsInv
<1>.  QED
      BY <1>1, RowsAlways, PTL
=============================================================================
