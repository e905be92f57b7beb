------------------------ MODULE RuntimeService_proofs ------------------------
(***************************************************************************)
(* What holds of the runtime service for any number of overlapping service *)
(* instances, of backend processes and of tool calls, and for any number   *)
(* of taps, kills and crashes.                                             *)
(***************************************************************************)
EXTENDS RuntimeService, TLAPS

\* One field of one instance, or of one process.
LEMMA IdleType == Idle \in ServiceType
  BY DEF Idle, ServiceType

LEMMA GoneType == Gone \in ProcessType
  BY ServiceAssumption DEF Gone, ProcessType

LEMMA TypeInit == Init => TypeOK
  <1> SUFFICES ASSUME Init PROVE TypeOK
    OBVIOUS
  <1>1. NoCall \in CallType
    BY DEF NoCall, CallType
  <1>2. /\ service \in [Instances -> ServiceType]
        /\ process \in [Processes -> ProcessType]
        /\ tool \in [Tools -> CallType]
    BY <1>1, IdleType, GoneType DEF Init
  <1>3. taps \in 0 .. MaxTaps /\ faults \in 0 .. MaxFaults
    BY ServiceAssumption DEF Init
  <1> QED
    BY <1>2, <1>3 DEF Init, TypeOK, Statuses

\* What a step leaves of the other instances, and of the fields of its own.
Elsewhere(i) ==
  /\ service' \in [Instances -> ServiceType]
  /\ \A j \in Instances \ {i} : service'[j] = service[j]
Kept(i) ==
  /\ service'[i].running = service[i].running
  /\ service'[i].queue = service[i].queue
  /\ service'[i].backend = service[i].backend

LEMMA Update ==
  ASSUME TypeOK, NEW i \in Instances, NEW r \in ServiceType, service' = [service EXCEPT ![i] = r]
  PROVE  Elsewhere(i) /\ service'[i] = r
  BY DEF TypeOK, Elsewhere

LEMMA GoFacts ==
  ASSUME TypeOK, NEW i \in Instances, NEW pc,
         pc \in {"prepare", "look", "spawn", "await", "ready", "rejected", "serving", "finish"},
         Go(i, pc)
  PROVE  Elsewhere(i) /\ Kept(i) /\ service'[i].pc = pc /\ service'[i].runtime = service[i].runtime
  <1> DEFINE r == [service[i] EXCEPT !.pc = pc]
  <1>1. r \in ServiceType
    BY Zenon DEF TypeOK, ServiceType
  <1>2. service' = [service EXCEPT ![i] = r]
    BY DEF Go
  <1>3. /\ r.pc = pc /\ r.running = service[i].running /\ r.queue = service[i].queue
        /\ r.runtime = service[i].runtime /\ r.backend = service[i].backend
    BY DEF TypeOK, ServiceType
  <1> HIDE DEF r
  <1> QED
    BY <1>1, <1>2, <1>3, Update DEF Kept

LEMMA QuitFacts ==
  ASSUME TypeOK, NEW ps, process' = Quit(ps)
  PROVE  /\ process' \in [Processes -> ProcessType]
         /\ \A p \in Processes :
              /\ process'[p].st = process[p].st /\ process'[p].by = process[p].by
              /\ process'[p].recover = process[p].recover
              /\ process'[p].late = process[p].late /\ process'[p].orphan = process[p].orphan
              /\ process[p].quit => process'[p].quit
              /\ p \in ps \cap Recorded => process'[p].quit
  <1>1. \A p \in Processes : [process[p] EXCEPT !.quit = TRUE] \in ProcessType
    BY DEF TypeOK, ProcessType
  <1> QED
    BY <1>1 DEF TypeOK, ProcessType, Quit

\* Only the instance that commands are delivered to has work to do or a runtime that is
\* open, and no instance is destroyed while its launcher writes the record.
InstanceAt(i) ==
  /\ i # bound => /\ service[i].queue = 0
                  /\ service[i].runtime # "open"
                  /\ service[i].pc # "recording"
  /\ service[i].queue # 0 => service[i].running /\ service[i].pc \in {"idle", "close"}
  /\ service[i].pc \notin {"idle", "close"} => service[i].running

InstanceInv ==
  /\ ~app => bound = 0 /\ \A i \in Instances : service[i] = Idle
  /\ \A i \in Instances : InstanceAt(i)

LEMMA Delivers ==
  ASSUME NEW i \in Instances, Delivered(i)
  PROVE  \/ bound = i
         \/ bound = 0 /\ service[i].pc = "idle"
  BY DEF Delivered, Unused

LEMMA StartFacts ==
  ASSUME TypeOK, InstanceInv, NEW i \in Instances, StartCommand(i)
  PROVE  /\ Elsewhere(i) /\ bound' = i
         /\ service'[i].running
         /\ service'[i].pc = service[i].pc
         /\ service'[i].queue # 0 => service'[i].pc \in {"idle", "close"}
         /\ service'[i].backend = service[i].backend \/ service[i].pc = "idle"
  <1>1. Fields(i) \in ServiceType
    BY IdleType DEF TypeOK, Fields
  <1>2. CASE Fields(i).running
    BY <1>2, <1>1 DEF StartCommand, Fields, Idle, TypeOK, InstanceInv, InstanceAt, Elsewhere
  <1>3. CASE ~Fields(i).running
    <2>1. Fields(i).queue + 1 \in 0 .. 1
      BY <1>1, <1>3 DEF Fields, InstanceInv, InstanceAt, Idle, ServiceType
    <2> DEFINE r == [Fields(i) EXCEPT !.running = TRUE, !.stopping = FALSE, !.queue = Fields(i).queue + 1]
    <2>2. r \in ServiceType
      BY <1>1, <2>1, Zenon DEF ServiceType
    <2>3. service' = [service EXCEPT ![i] = r] /\ bound' = i
      BY <1>3 DEF StartCommand
    <2>4. r.running /\ r.pc = Fields(i).pc /\ r.backend = Fields(i).backend
      BY <1>1 DEF ServiceType
    <2>5. Fields(i).pc = service[i].pc /\ (i = bound \/ service[i].pc = "idle")
      BY <1>3 DEF StartCommand, Delivered, Unused, Fields, Idle
    <2>6. Fields(i).pc \in {"idle", "close"}
      BY <1>3, <2>5 DEF Fields, InstanceInv, InstanceAt, Idle
    <2> HIDE DEF r
    <2> QED
      BY <2>2, <2>3, <2>4, <2>5, <2>6, Update DEF Fields
  <1> QED
    BY <1>2, <1>3

LEMMA StopFacts ==
  ASSUME TypeOK, NEW i \in Instances,
         StopCommand(i) \/ (i = bound /\ DestroyBegins)
  PROVE  /\ Elsewhere(i) /\ bound' = i
         /\ service'[i].pc = service[i].pc
         /\ bound = i => Kept(i)
         /\ bound # i => service[i].pc = "idle" /\ service'[i].queue = 0
  <1>1. Fields(i) \in ServiceType
    BY IdleType DEF TypeOK, Fields
  <1> DEFINE r == [Fields(i) EXCEPT !.stopping = TRUE]
  <1>2. r \in ServiceType
    BY <1>1, Zenon DEF ServiceType
  <1>3. service' = [service EXCEPT ![i] = r] /\ bound' = i
    BY DEF StopCommand, DestroyBegins, Fields
  <1>4. /\ r.pc = Fields(i).pc /\ r.running = Fields(i).running /\ r.queue = Fields(i).queue
        /\ r.backend = Fields(i).backend
    BY <1>1 DEF ServiceType
  <1>5. Fields(i).pc = service[i].pc /\ (i = bound \/ service[i].pc = "idle")
    BY DEF StopCommand, Delivered, Unused, Fields, Idle
  <1> HIDE DEF r
  <1> QED
    BY <1>2, <1>3, <1>4, <1>5, Update DEF Fields, Kept, Idle

LEMMA StopRuntimeFacts ==
  ASSUME TypeOK, StopRuntime
  PROVE  /\ bound \in Instances /\ Elsewhere(bound) /\ Kept(bound)
         /\ service'[bound].pc = service[bound].pc
  <1>1. bound \in Instances
    BY DEF StopRuntime, TypeOK
  <1> DEFINE destroy == service[bound].destroy \/ ~service[bound].running
             r == [service[bound] EXCEPT !.runtime = CancelRuntime(bound), !.destroy = destroy]
  <1>2. service' = [service EXCEPT ![bound] = r]
    BY <1>1 DEF StopRuntime, TypeOK
  <1>3. CancelRuntime(bound) \in {"none", "open", "cancelled"} /\ destroy \in BOOLEAN
    BY <1>1 DEF CancelRuntime, TypeOK, ServiceType
  <1> HIDE DEF destroy
  <1>4. r \in ServiceType
    BY <1>1, <1>3, Zenon DEF TypeOK, ServiceType
  <1>5. /\ r.pc = service[bound].pc /\ r.running = service[bound].running
        /\ r.queue = service[bound].queue /\ r.backend = service[bound].backend
    BY <1>1 DEF TypeOK, ServiceType
  <1> HIDE DEF r
  <1> QED
    BY <1>1, <1>2, <1>4, <1>5, Update DEF Kept

LEMMA DestroyEndsFacts ==
  ASSUME TypeOK, DestroyEnds
  PROVE  /\ bound \in Instances /\ Elsewhere(bound) /\ bound' = 0
         /\ service'[bound].pc = service[bound].pc /\ service'[bound].pc # "recording"
         /\ service'[bound].running = service[bound].running
         /\ service'[bound].queue = 0 /\ service'[bound].runtime # "open"
         /\ service'[bound].backend = service[bound].backend
  <1>1. bound \in Instances
    BY DEF DestroyEnds, TypeOK
  <1> DEFINE interrupted == service[bound].interrupted \/ service[bound].pc # "idle"
             r == [service[bound] EXCEPT !.runtime = CancelRuntime(bound), !.queue = 0, !.destroy = FALSE,
                                         !.interrupted = interrupted, !.monitor = FALSE]
  <1>2. service' = [service EXCEPT ![bound] = r]
    BY DEF DestroyEnds
  <1>3. /\ CancelRuntime(bound) \in {"none", "cancelled"}
        /\ CancelRuntime(bound) \in {"none", "open", "cancelled"}
    BY <1>1 DEF CancelRuntime, TypeOK, ServiceType
  <1>6. interrupted \in BOOLEAN /\ 0 \in 0 .. 1
    <2>1. interrupted \in BOOLEAN
      BY Zenon
    <2> QED
      BY <2>1
  <1> HIDE DEF interrupted
  <1>4. r \in ServiceType
    <2>1. service[bound] \in ServiceType
      BY <1>1 DEF TypeOK
    <2> QED
      BY <2>1, <1>3, <1>6, Zenon DEF ServiceType
  <1>5. /\ r.pc = service[bound].pc /\ r.running = service[bound].running
        /\ r.queue = 0 /\ r.runtime = CancelRuntime(bound) /\ r.backend = service[bound].backend
    BY <1>1 DEF TypeOK, ServiceType
  <1> HIDE DEF r
  <1> QED
    BY <1>1, <1>2, <1>3, <1>4, <1>5, Update DEF DestroyEnds, MonitorFree

LEMMA BeginFacts ==
  ASSUME TypeOK, NEW i \in Instances, Begin(i)
  PROVE  /\ Elsewhere(i)
         /\ service[i].pc = "idle" /\ service[i].queue = 1 /\ service'[i].queue = 0
         /\ service'[i].pc \in {"reap", "finish"}
         /\ service'[i].running = service[i].running
         /\ service'[i].backend = service[i].backend
  <1>1. service[i].queue = 1 /\ service[i].queue - 1 \in 0 .. 1
    BY DEF Begin, TypeOK, ServiceType
  <1> DEFINE q == service[i].queue - 1
             r == [service[i] EXCEPT !.queue = q, !.pc = "finish"]
             t == [service[i] EXCEPT !.queue = q, !.pc = "reap", !.runtime = "open"]
  <1>2. service' = [service EXCEPT ![i] = r] \/ service' = [service EXCEPT ![i] = t]
    BY DEF Begin
  <1>6. q = 0
    BY <1>1
  <1> HIDE DEF q
  <1>3. r \in ServiceType /\ t \in ServiceType
    <2>1. 0 \in 0 .. 1
      OBVIOUS
    <2> QED
      BY <1>6, <2>1, Zenon DEF TypeOK, ServiceType
  <1>4. /\ r.pc = "finish" /\ r.running = service[i].running
        /\ r.queue = q /\ r.backend = service[i].backend
        /\ t.pc = "reap" /\ t.running = service[i].running
        /\ t.queue = q /\ t.backend = service[i].backend
    BY DEF TypeOK, ServiceType
  <1> HIDE DEF r, t
  <1> QED
    BY <1>1, <1>2, <1>3, <1>4, <1>6, Update DEF Begin

LEMMA SpawnFacts ==
  ASSUME TypeOK, NEW i \in Instances, Spawn(i), service[i].runtime = "open"
  PROVE  /\ Elsewhere(i)
         /\ NewProcess \in Processes \ Live
         /\ service[i].pc = "spawn" /\ service'[i].pc = "recording"
         /\ service'[i].backend = NewProcess
         /\ service'[i].running = service[i].running
         /\ service'[i].queue = service[i].queue
         /\ service'[i].runtime = service[i].runtime
         /\ process' \in [Processes -> ProcessType]
         /\ process'[NewProcess] = [Gone EXCEPT !.st = "shell", !.by = i, !.recover = TRUE]
         /\ \A p \in Processes \ {NewProcess} : process'[p] = process[p]
  <1>1. NewProcess \in Processes \ Live
    BY DEF Spawn, NewProcess, Free
  <1> DEFINE r == [service[i] EXCEPT !.pc = "recording", !.backend = NewProcess]
             p == [Gone EXCEPT !.st = "shell", !.by = i, !.recover = TRUE]
  <1>2. service' = [service EXCEPT ![i] = r] /\ process' = [process EXCEPT ![NewProcess] = p]
    BY DEF Spawn
  <1>3. r \in ServiceType
    BY <1>1, Zenon DEF TypeOK, ServiceType
  <1>4. p \in ProcessType
    BY GoneType, Zenon DEF ProcessType
  <1>5. /\ r.pc = "recording" /\ r.running = service[i].running /\ r.queue = service[i].queue
        /\ r.backend = NewProcess /\ r.runtime = service[i].runtime
    BY DEF TypeOK, ServiceType
  <1> HIDE DEF r, p
  <1>6. Elsewhere(i) /\ service'[i] = r
    BY <1>2, <1>3, Update
  <1>7. /\ process' \in [Processes -> ProcessType] /\ process'[NewProcess] = p
        /\ \A q \in Processes \ {NewProcess} : process'[q] = process[q]
    BY <1>1, <1>2, <1>4 DEF TypeOK
  <1> QED
    BY <1>1, <1>5, <1>6, <1>7 DEF Spawn, At, p

LEMMA FinishFacts ==
  ASSUME TypeOK, NEW i \in Instances, Finish(i)
  PROVE  /\ Elsewhere(i)
         /\ service'[i].pc = "close"
         /\ service'[i].queue = service[i].queue
         /\ service'[i].runtime = service[i].runtime
  <1> DEFINE r == [service[i] EXCEPT !.backend = 0, !.running = FALSE, !.pc = "close"]
  <1>1. service' = [service EXCEPT ![i] = r]
    BY DEF Finish
  <1>2. r \in ServiceType
    BY Zenon DEF TypeOK, ServiceType
  <1>3. r.pc = "close" /\ r.queue = service[i].queue /\ r.runtime = service[i].runtime
    BY DEF TypeOK, ServiceType
  <1> HIDE DEF r
  <1> QED
    BY <1>1, <1>2, <1>3, Update

LEMMA CloseFacts ==
  ASSUME TypeOK, NEW i \in Instances, CloseTask(i)
  PROVE  /\ Elsewhere(i) /\ Kept(i)
         /\ service[i].pc = "close" /\ service'[i].pc = "idle"
         /\ service'[i].runtime = service[i].runtime
  <1> DEFINE mine == i = bound
             r == [service[i] EXCEPT !.monitor = FALSE, !.pc = "idle", !.interrupted = FALSE, !.destroy = mine]
  <1>1. service' = [service EXCEPT ![i] = r]
    BY DEF CloseTask
  <1>2. mine \in BOOLEAN
    OBVIOUS
  <1> HIDE DEF mine
  <1>3. r \in ServiceType
    BY <1>2, Zenon DEF TypeOK, ServiceType
  <1>4. /\ r.pc = "idle" /\ r.queue = service[i].queue /\ r.runtime = service[i].runtime
        /\ r.running = service[i].running /\ r.backend = service[i].backend
    BY DEF TypeOK, ServiceType
  <1> HIDE DEF r
  <1> QED
    BY <1>1, <1>3, <1>4, Update DEF CloseTask, At, Kept

LEMMA ReopenFacts ==
  ASSUME TypeOK, InstanceInv, Reopen
  PROVE  \/ UNCHANGED <<service, bound>>
         \/ /\ Elsewhere(1) /\ bound' = 1
            /\ service'[1].running /\ service'[1].pc = "idle"
  <1> DEFINE r == [service[1] EXCEPT !.running = TRUE, !.queue = 1]
  <1>1. 1 \in Instances /\ 1 \in 0 .. 1
    BY ServiceAssumption
  <1>2. r \in ServiceType
    <2>1. service[1] \in ServiceType
      BY <1>1 DEF TypeOK
    <2> QED
      BY <2>1, <1>1, Zenon DEF ServiceType
  <1>3. r.running /\ r.pc = "idle"
    BY <1>1 DEF TypeOK, ServiceType, InstanceInv, Reopen, Idle
  <1>4. CASE ~wanted
    BY <1>4 DEF Reopen
  <1>5. CASE wanted
    <2>1. service' = [service EXCEPT ![1] = r] /\ bound' = 1
      BY <1>5 DEF Reopen
    <2> HIDE DEF r
    <2> QED
      BY <1>1, <1>2, <1>3, <2>1, Update
  <1> QED
    BY <1>4, <1>5

\* What the processes do, one at a time.
ProcessMoves(p, st) ==
  /\ process' \in [Processes -> ProcessType]
  /\ process'[p].st = st
  /\ \A q \in Processes :
       /\ q # p => process'[q].st = process[q].st
       /\ process'[q].by = process[q].by /\ process'[q].quit = process[q].quit
       /\ process'[q].recover = process[q].recover
       /\ process'[q].late = process[q].late /\ process'[q].orphan = process[q].orphan

LEMMA ProcessFacts ==
  ASSUME TypeOK, NEW p \in Processes, NEW st \in {"proot", "recovered", "listening", "gone"},
         process' = [process EXCEPT ![p].st = st]
  PROVE  ProcessMoves(p, st)
  <1> DEFINE r == [process[p] EXCEPT !.st = st]
  <1>1. r \in ProcessType
    BY Zenon DEF TypeOK, ProcessType
  <1>2. process' = [process EXCEPT ![p] = r]
    OBVIOUS
  <1>3. /\ r.st = st /\ r.by = process[p].by /\ r.quit = process[p].quit
        /\ r.recover = process[p].recover /\ r.late = process[p].late /\ r.orphan = process[p].orphan
    BY DEF TypeOK, ProcessType
  <1> HIDE DEF r
  <1> QED
    BY <1>1, <1>2, <1>3 DEF TypeOK, ProcessMoves

LEMMA LateFacts ==
  ASSUME TypeOK, NEW p \in Processes, process' = [process EXCEPT ![p].late = TRUE]
  PROVE  /\ process' \in [Processes -> ProcessType]
         /\ process'[p].late
         /\ \A q \in Processes :
              /\ q # p => process'[q] = process[q]
              /\ process'[q].st = process[q].st /\ process'[q].by = process[q].by
              /\ process'[q].quit = process[q].quit /\ process'[q].recover = process[q].recover
              /\ process'[q].orphan = process[q].orphan
              /\ process[q].late => process'[q].late
  <1> DEFINE r == [process[p] EXCEPT !.late = TRUE]
  <1>1. r \in ProcessType
    BY Zenon DEF TypeOK, ProcessType
  <1>2. process' = [process EXCEPT ![p] = r]
    OBVIOUS
  <1>3. /\ r.late /\ r.st = process[p].st /\ r.by = process[p].by /\ r.quit = process[p].quit
        /\ r.recover = process[p].recover /\ r.orphan = process[p].orphan
    BY DEF TypeOK, ProcessType
  <1> HIDE DEF r
  <1> QED
    BY <1>1, <1>2, <1>3 DEF TypeOK

LEMMA KillFacts ==
  ASSUME TypeOK,
         process' = [p \in Processes |->
             [process[p] EXCEPT !.by = 0, !.orphan = process[p].orphan \/ process[p].st = "shell"]]
  PROVE  /\ process' \in [Processes -> ProcessType]
         /\ \A p \in Processes :
              /\ process'[p].by = 0 /\ process'[p].st = process[p].st
              /\ process'[p].quit = process[p].quit /\ process'[p].recover = process[p].recover
              /\ process'[p].late = process[p].late
              /\ process[p].orphan => process'[p].orphan
              /\ process[p].st = "shell" => process'[p].orphan
  <1> SUFFICES ASSUME NEW p \in Processes
               PROVE  /\ process'[p] \in ProcessType
                      /\ process'[p].by = 0 /\ process'[p].st = process[p].st
                      /\ process'[p].quit = process[p].quit /\ process'[p].recover = process[p].recover
                      /\ process'[p].late = process[p].late
                      /\ process[p].orphan => process'[p].orphan
                      /\ process[p].st = "shell" => process'[p].orphan
    OBVIOUS
  <1> DEFINE orphan == process[p].orphan \/ process[p].st = "shell"
             r == [process[p] EXCEPT !.by = 0, !.orphan = orphan]
  <1>1. process'[p] = r
    OBVIOUS
  <1>2. orphan \in BOOLEAN
    BY Zenon
  <1>3. process[p].orphan => orphan
    OBVIOUS
  <1>4. process[p].st = "shell" => orphan
    OBVIOUS
  <1> HIDE DEF orphan
  <1>5. r \in ProcessType
    BY <1>2, Zenon DEF TypeOK, ProcessType
  <1>6. /\ r.by = 0 /\ r.orphan = orphan /\ r.st = process[p].st /\ r.quit = process[p].quit
        /\ r.recover = process[p].recover /\ r.late = process[p].late
    BY <1>2 DEF TypeOK, ProcessType
  <1> HIDE DEF r
  <1> QED
    BY <1>1, <1>3, <1>4, <1>5, <1>6

LEMMA OrphanedFacts ==
  ASSUME TypeOK, NEW t \in Tools
  PROVE  /\ Orphaned(t) \in CallType /\ Orphaned(t).by = 0 /\ Orphaned(t).child = FALSE
         /\ Orphaned(t).st = tool[t].st
  <1> USE DEF Orphaned
  <1>1. Orphaned(t) \in CallType
    BY Zenon DEF TypeOK, CallType
  <1>2. /\ Orphaned(t).by = 0 /\ Orphaned(t).child = FALSE /\ Orphaned(t).st = tool[t].st
    BY DEF TypeOK, CallType
  <1> QED
    BY <1>1, <1>2

\* A process that ends takes the children of its calls with it.
LEMMA DieFacts ==
  ASSUME TypeOK, NEW p \in Processes, Die(p)
  PROVE  /\ ProcessMoves(p, "gone")
         /\ tool' \in [Tools -> CallType]
         /\ \A t \in Tools :
              /\ tool'[t].st = tool[t].st
              /\ tool[t].by # p => tool'[t] = tool[t]
              /\ tool[t].by = p => tool'[t].by = 0 /\ tool'[t].child = FALSE
         /\ \/ captured' = {} /\ abort' = "none"
            \/ process[p].st # "listening" /\ UNCHANGED <<captured, abort>>
  <1>1. ProcessMoves(p, "gone")
    BY ProcessFacts DEF Die
  <1> QED
    BY <1>1, OrphanedFacts DEF Die, TypeOK

\* What happens to the calls when no process ends.
LEMMA CallTypes ==
  ASSUME TypeOK, NEW t \in Tools
  PROVE  /\ \A st \in {"completed", "aborted", "recovered"} :
              /\ [tool[t] EXCEPT !.st = st] \in CallType
              /\ [tool[t] EXCEPT !.st = st].st = st
              /\ [tool[t] EXCEPT !.st = st].by = tool[t].by
              /\ [tool[t] EXCEPT !.st = st].child = tool[t].child
              /\ [tool[t] EXCEPT !.st = st, !.child = FALSE] \in CallType
              /\ [tool[t] EXCEPT !.st = st, !.child = FALSE].st = st
              /\ [tool[t] EXCEPT !.st = st, !.child = FALSE].by = tool[t].by
              /\ [tool[t] EXCEPT !.st = st, !.child = FALSE].child = FALSE
         /\ [tool[t] EXCEPT !.child = FALSE] \in CallType
         /\ [tool[t] EXCEPT !.child = FALSE].st = tool[t].st
         /\ [tool[t] EXCEPT !.child = FALSE].by = tool[t].by
         /\ [tool[t] EXCEPT !.child = FALSE].child = FALSE
  <1>1. tool[t] \in CallType
    BY DEF TypeOK
  <1>2. ASSUME NEW st \in {"completed", "aborted", "recovered"}
        PROVE  /\ [tool[t] EXCEPT !.st = st].st = st
               /\ [tool[t] EXCEPT !.st = st].by = tool[t].by
               /\ [tool[t] EXCEPT !.st = st].child = tool[t].child
               /\ [tool[t] EXCEPT !.st = st, !.child = FALSE].st = st
               /\ [tool[t] EXCEPT !.st = st, !.child = FALSE].by = tool[t].by
               /\ [tool[t] EXCEPT !.st = st, !.child = FALSE].child = FALSE
    BY <1>1 DEF CallType
  <1>3. ASSUME NEW st \in {"completed", "aborted", "recovered"}
        PROVE  /\ [tool[t] EXCEPT !.st = st] \in CallType
               /\ [tool[t] EXCEPT !.st = st, !.child = FALSE] \in CallType
    <2>1. st \in {"none", "running", "completed", "aborted", "recovered"}
      OBVIOUS
    <2> QED
      BY <1>1, <2>1, Zenon DEF CallType
  <1>4. [tool[t] EXCEPT !.child = FALSE] \in CallType
    BY <1>1, Zenon DEF CallType
  <1>5. /\ [tool[t] EXCEPT !.child = FALSE].st = tool[t].st
        /\ [tool[t] EXCEPT !.child = FALSE].by = tool[t].by
        /\ [tool[t] EXCEPT !.child = FALSE].child = FALSE
    BY <1>1 DEF CallType
  <1> QED
    BY <1>2, <1>3, <1>4, <1>5, Zenon

LEMMA BeginsFacts ==
  ASSUME TypeOK, NEW t \in Tools, CallBegins(t)
  PROVE  /\ tool' \in [Tools -> CallType]
         /\ tool[t].st = "none" /\ tool'[t].st = "running" /\ tool'[t].by \in Listening
         /\ \A u \in Tools \ {t} : tool'[u] = tool[u]
  <1>1. PICK p \in Listening : tool' = [tool EXCEPT ![t] = [st |-> "running", by |-> p, child |-> TRUE]]
    BY DEF CallBegins
  <1>2. [st |-> "running", by |-> p, child |-> TRUE] \in CallType
    BY DEF CallType, Listening, Live
  <1> QED
    BY <1>1, <1>2 DEF CallBegins, TypeOK

LEMMA EndsFacts ==
  ASSUME TypeOK, NEW t \in Tools, CallEnds(t)
  PROVE  /\ tool' \in [Tools -> CallType]
         /\ tool'[t].st \in {"completed", "aborted"} /\ tool'[t].by = tool[t].by
         /\ tool'[t].child = FALSE
         /\ \A u \in Tools \ {t} : tool'[u] = tool[u]
  <1> DEFINE st == IF tool[t].child THEN "completed" ELSE "aborted"
             r == [tool[t] EXCEPT !.st = st, !.child = FALSE]
  <1>1. tool' = [tool EXCEPT ![t] = r]
    BY DEF CallEnds
  <1>2. st \in {"completed", "aborted", "recovered"} /\ st \in {"completed", "aborted"}
    OBVIOUS
  <1> HIDE DEF st
  <1>3. r \in CallType /\ r.st = st /\ r.by = tool[t].by /\ r.child = FALSE
    BY <1>2, CallTypes, Zenon
  <1> HIDE DEF r
  <1> QED
    BY <1>1, <1>2, <1>3 DEF TypeOK

LEMMA CancelsFacts ==
  ASSUME TypeOK, AbortCancels
  PROVE  /\ tool' \in [Tools -> CallType]
         /\ \A t \in Tools :
              /\ tool'[t].st = tool[t].st /\ tool'[t].by = tool[t].by
              /\ tool[t].by \in Listening => tool'[t].child = FALSE
              /\ tool[t].by \notin Listening => tool'[t] = tool[t]
  <1> SUFFICES ASSUME NEW t \in Tools
               PROVE  /\ tool'[t] \in CallType
                      /\ tool'[t].st = tool[t].st /\ tool'[t].by = tool[t].by
                      /\ tool[t].by \in Listening => tool'[t].child = FALSE
                      /\ tool[t].by \notin Listening => tool'[t] = tool[t]
    BY DEF AbortCancels
  <1> DEFINE r == [tool[t] EXCEPT !.child = FALSE]
  <1>1. r \in CallType /\ r.st = tool[t].st /\ r.by = tool[t].by /\ r.child = FALSE
    BY CallTypes, Zenon
  <1>2. tool'[t] = IF tool[t].by \in Listening THEN r ELSE tool[t]
    BY DEF AbortCancels
  <1> HIDE DEF r
  <1> QED
    BY <1>1, <1>2 DEF TypeOK

LEMMA MarksFacts ==
  ASSUME TypeOK, AbortMarks
  PROVE  /\ tool' \in [Tools -> CallType]
         /\ \A t \in Tools :
              \/ tool'[t] = tool[t]
              \/ /\ t \in captured /\ tool'[t].st = "aborted"
                 /\ tool'[t].by = tool[t].by /\ tool'[t].child = tool[t].child
  <1> SUFFICES ASSUME NEW t \in Tools
               PROVE  /\ tool'[t] \in CallType
                      /\ \/ tool'[t] = tool[t]
                         \/ /\ t \in captured /\ tool'[t].st = "aborted"
                            /\ tool'[t].by = tool[t].by /\ tool'[t].child = tool[t].child
    BY DEF AbortMarks
  <1> DEFINE r == [tool[t] EXCEPT !.st = "aborted"]
  <1>1. r \in CallType /\ r.st = "aborted" /\ r.by = tool[t].by /\ r.child = tool[t].child
    BY CallTypes
  <1>2. tool'[t] = IF t \in captured /\ tool[t].st = "running" THEN r ELSE tool[t]
    BY DEF AbortMarks
  <1> HIDE DEF r
  <1> QED
    BY <1>1, <1>2 DEF TypeOK

LEMMA RecoverFacts ==
  ASSUME TypeOK, NEW p \in Processes, Recover(p)
  PROVE  /\ ProcessMoves(p, "recovered") /\ process[p].st = "proot"
         /\ tool' \in [Tools -> CallType]
         /\ \A t \in Tools :
              /\ tool'[t].by = tool[t].by /\ tool'[t].child = tool[t].child
              /\ ~(process[p].recover /\ tool[t].st = "running") => tool'[t].st = tool[t].st
              /\ process[p].recover /\ tool[t].st = "running" => tool'[t].st = "recovered"
  <1>1. ProcessMoves(p, "recovered")
    BY ProcessFacts DEF Recover
  <1>2. ASSUME NEW t \in Tools
        PROVE  /\ tool'[t] \in CallType
               /\ tool'[t].by = tool[t].by /\ tool'[t].child = tool[t].child
               /\ ~(process[p].recover /\ tool[t].st = "running") => tool'[t].st = tool[t].st
               /\ process[p].recover /\ tool[t].st = "running" => tool'[t].st = "recovered"
    <2> DEFINE r == [tool[t] EXCEPT !.st = "recovered"]
    <2>1. r \in CallType /\ r.st = "recovered" /\ r.by = tool[t].by /\ r.child = tool[t].child
      BY CallTypes
    <2>2. tool'[t] = IF process[p].recover /\ tool[t].st = "running" THEN r ELSE tool[t]
      BY DEF Recover
    <2> HIDE DEF r
    <2> QED
      BY <2>1, <2>2 DEF TypeOK
  <1> QED
    BY <1>1, <1>2 DEF Recover

\* The steps of a worker, and of the main thread, that only move on.
LEMMA WorkerSteps ==
  ASSUME TypeOK, NEW i \in Instances, Worker(i)
  PROVE  /\ app /\ UNCHANGED <<wanted, app, bound, main, Calls, taps>>
         /\ status' \in Statuses
         /\ \/ faults' = faults
            \/ faults < MaxFaults /\ faults' = faults + 1
         /\ \/ Begin(i) /\ UNCHANGED process
            \/ Reap(i)
            \/ Spawn(i) /\ service[i].runtime = "open"
            \/ Started(i)
            \/ Finish(i)
            \/ CloseTask(i) /\ UNCHANGED process
            \/ Elsewhere(i) /\ Kept(i) /\ service'[i].runtime = service[i].runtime
               /\ service[i].pc \notin {"idle", "recording", "close"} /\ UNCHANGED process
               /\ \/ service'[i].pc \in {"look", "spawn"} /\ service[i].pc \in {"prepare", "look"}
                  \/ service'[i].pc \in {"ready", "rejected", "serving", "finish"}
  <1> USE DEF WorkerOnly, Statuses, Caught, At, Fault
  <1>1. CASE Begin(i)
    BY <1>1 DEF Begin, TypeOK
  <1>2. CASE Reap(i)
    BY <1>2 DEF Reap, TypeOK
  <1>3. CASE Prepare(i)
    BY <1>3, GoFacts DEF Prepare, TypeOK
  <1>4. CASE Look(i)
    BY <1>4, GoFacts DEF Look, TypeOK
  <1>5. CASE Spawn(i)
    BY <1>5, GoFacts DEF Spawn, TypeOK
  <1>6. CASE Started(i)
    BY <1>6 DEF Started, TypeOK
  <1>7. CASE Await(i)
    BY <1>7, GoFacts DEF Await, TypeOK
  <1>8. CASE Ready(i)
    <2>1. Go(i, "serving") \/ Go(i, "rejected")
      BY <1>8 DEF Ready
    <2> QED
      BY <1>8, <2>1, GoFacts DEF Ready, TypeOK
  <1>9. CASE Rejected(i)
    BY <1>9, GoFacts DEF Rejected, TypeOK
  <1>10. CASE Serving(i)
    BY <1>10, GoFacts DEF Serving, TypeOK
  <1>11. CASE Finish(i)
    BY <1>11 DEF Finish, TypeOK
  <1>12. CASE CloseTask(i)
    BY <1>12 DEF CloseTask, TypeOK
  <1> QED
    BY <1>1, <1>2, <1>3, <1>4, <1>5, <1>6, <1>7, <1>8, <1>9, <1>10, <1>11, <1>12 DEF Worker

LEMMA WorkerTypes ==
  ASSUME TypeOK, NEW i \in Instances, Worker(i)
  PROVE  service' \in [Instances -> ServiceType] /\ process' \in [Processes -> ProcessType]
  <1> USE DEF TypeOK
  <1>1. CASE Begin(i) /\ UNCHANGED process
    BY <1>1, BeginFacts DEF Elsewhere
  <1>2. CASE Reap(i)
    <2>1. process' = process \/ process' = Quit(Processes)
      BY <1>2 DEF Reap
    <2>2. Go(i, "prepare") \/ UNCHANGED service \/ Go(i, "finish")
      BY <1>2 DEF Reap, Caught
    <2> QED
      BY <2>1, <2>2, GoFacts, QuitFacts DEF Elsewhere
  <1>3. CASE Spawn(i) /\ service[i].runtime = "open"
    BY <1>3, SpawnFacts DEF Elsewhere
  <1>4. CASE Started(i)
    <2>1. Go(i, "await")
      BY <1>4 DEF Started
    <2>2. process' = process \/ process' = [process EXCEPT ![service[i].backend].late = TRUE]
      BY <1>4 DEF Started
    <2>3. process' \in [Processes -> ProcessType]
      <3>1. CASE service[i].backend \in Processes
        BY <2>2, <3>1, LateFacts
      <3>2. CASE service[i].backend \notin Processes
        BY <2>2, <3>2
      <3> QED
        BY <3>1, <3>2
    <2> QED
      BY <2>1, <2>3, GoFacts DEF Elsewhere
  <1>5. CASE Finish(i)
    BY <1>5, FinishFacts, QuitFacts DEF Finish, Elsewhere
  <1>6. CASE CloseTask(i) /\ UNCHANGED process
    BY <1>6, CloseFacts DEF Elsewhere
  <1> QED
    BY <1>1, <1>2, <1>3, <1>4, <1>5, <1>6, WorkerSteps DEF Elsewhere

LEMMA BackendTypes ==
  ASSUME TypeOK, NEW p \in Processes, Backend(p) \/ Crashes(p)
  PROVE  TypeOK'
  <1> USE DEF TypeOK, Untouched, Prefs, Calls
  <1>1. CASE Record(p)
    BY <1>1, ProcessFacts DEF Record, ProcessMoves
  <1>2. CASE Recover(p)
    BY <1>2, RecoverFacts DEF Recover, ProcessMoves
  <1>3. CASE Die(p) /\ Untouched /\ faults' \in 0 .. MaxFaults
    BY <1>3, DieFacts DEF ProcessMoves
  <1>4. CASE Listen(p)
    <2>1. CASE Listening = {}
      BY <1>4, <2>1, ProcessFacts DEF Listen, ProcessMoves
    <2> QED
      BY <1>3, <1>4, <2>1 DEF Listen
  <1>5. CASE Dies(p)
    BY <1>3, <1>5 DEF Dies
  <1>6. CASE Crashes(p)
    <2>1. faults' \in 0 .. MaxFaults
      BY <1>6, ServiceAssumption DEF Crashes, Fault
    <2> QED
      BY <1>3, <1>6, <2>1 DEF Crashes
  <1> QED
    BY <1>1, <1>2, <1>4, <1>5, <1>6 DEF Backend

LEMMA SessionTypes == TypeOK /\ Session => TypeOK'
  <1> SUFFICES ASSUME TypeOK, Session PROVE TypeOK'
    OBVIOUS
  <1> USE DEF Untouched, Prefs
  <1>1. CASE AbortReads
    BY <1>1 DEF AbortReads, TypeOK
  <1>2. CASE AbortCancels
    BY <1>2, CancelsFacts DEF AbortCancels, TypeOK
  <1>3. CASE AbortMarks
    BY <1>3, MarksFacts DEF AbortMarks, TypeOK
  <1>4. ASSUME NEW t \in Tools, CallBegins(t) PROVE TypeOK'
    BY <1>4, BeginsFacts DEF CallBegins, TypeOK
  <1>5. ASSUME NEW t \in Tools, CallEnds(t) PROVE TypeOK'
    BY <1>5, EndsFacts DEF CallEnds, TypeOK
  <1> QED
    BY <1>1, <1>2, <1>3, <1>4, <1>5 DEF Session, Abort

\* The steps of Next, without the bounds on what the user and Android do.
Moves ==
  \/ System \/ Reopen
  \/ \E i \in Instances : StartCommand(i) \/ StopCommand(i)
  \/ \E all \in BOOLEAN : KillApp(all)
  \/ \E p \in Processes : Crashes(p)

LEMMA NextMoves == [Next]_serviceVars => [Moves]_serviceVars
  BY DEF Next, Moves, User, Killed

LEMMA CommandTypes ==
  ASSUME TypeOK, InstanceInv, NEW i \in Instances, StartCommand(i) \/ StopCommand(i),
         taps' \in 0 .. MaxTaps, faults' \in 0 .. MaxFaults
  PROVE  TypeOK'
  <1> USE DEF Prefs, Calls
  <1>1. CASE StartCommand(i)
    <2>1. wanted' \in BOOLEAN /\ status' \in Statuses
      BY <1>1 DEF StartCommand, TypeOK, Statuses
    <2> QED
      BY <1>1, <2>1, StartFacts DEF StartCommand, TypeOK, Elsewhere
  <1>2. CASE StopCommand(i)
    <2>1. wanted' \in BOOLEAN /\ status' \in Statuses /\ main' = "stop" /\ app' \in BOOLEAN
      BY <1>2 DEF StopCommand, TypeOK, Statuses
    <2> QED
      BY <1>2, <2>1, StopFacts, ServiceAssumption DEF StopCommand, TypeOK, Elsewhere
  <1> QED
    BY <1>1, <1>2

LEMMA KillTypes ==
  ASSUME TypeOK, NEW all \in BOOLEAN, KillApp(all), faults' \in 0 .. MaxFaults
  PROVE  TypeOK'
  <1> USE DEF Prefs, Calls
  <1>1. service' \in [Instances -> ServiceType]
    BY IdleType DEF KillApp
  <1>2. CASE all
    <2>1. process' \in [Processes -> ProcessType] /\ tool' \in [Tools -> CallType]
      BY <1>2, GoneType, OrphanedFacts DEF KillApp
    <2> QED
      BY <1>1, <1>2, <2>1 DEF KillApp, TypeOK
  <1>3. CASE ~all
    <2>1. process' \in [Processes -> ProcessType]
      BY <1>3, KillFacts DEF KillApp
    <2> QED
      BY <1>1, <1>3, <2>1 DEF KillApp, TypeOK
  <1> QED
    BY <1>2, <1>3

LEMMA TypeStep == TypeOK /\ InstanceInv /\ [Next]_serviceVars => TypeOK'
  <1> SUFFICES ASSUME TypeOK, InstanceInv, [Next]_serviceVars PROVE TypeOK'
    OBVIOUS
  <1> USE DEF Prefs, Calls
  <1>1. CASE StopRuntime
    BY <1>1, StopRuntimeFacts, QuitFacts DEF StopRuntime, TypeOK, Elsewhere
  <1>2. CASE DestroyBegins
    <2>1. bound \in Instances
      BY <1>2 DEF DestroyBegins, TypeOK
    <2> QED
      BY <1>2, <2>1, StopFacts DEF DestroyBegins, TypeOK, Elsewhere
  <1>3. CASE DestroyEnds
    BY <1>3, DestroyEndsFacts, QuitFacts DEF DestroyEnds, TypeOK, Elsewhere
  <1>4. ASSUME NEW i \in Instances, Worker(i) PROVE TypeOK'
    <2>1. faults' \in 0 .. MaxFaults
      BY <1>4, WorkerSteps, ServiceAssumption DEF TypeOK
    <2> QED
      BY <1>4, <2>1, WorkerSteps, WorkerTypes DEF TypeOK
  <1>5. ASSUME NEW p \in Processes, Backend(p) \/ Crashes(p) PROVE TypeOK'
    BY <1>5, BackendTypes
  <1>6. CASE Session
    BY <1>6, SessionTypes
  <1>7. ASSUME NEW i \in Instances, StartCommand(i) \/ StopCommand(i), Tap, UNCHANGED faults PROVE TypeOK'
    <2>1. taps' \in 0 .. MaxTaps /\ faults' \in 0 .. MaxFaults
      BY <1>7, ServiceAssumption DEF Tap, TypeOK
    <2> QED
      BY <1>7, <2>1, CommandTypes
  <1>8. ASSUME NEW all \in BOOLEAN, Fault, KillApp(all) PROVE TypeOK'
    <2>1. faults' \in 0 .. MaxFaults
      BY <1>8, ServiceAssumption DEF Fault, TypeOK
    <2> QED
      BY <1>8, <2>1, KillTypes
  <1>9. CASE Reopen
    BY <1>9, ReopenFacts, ServiceAssumption DEF Reopen, TypeOK, Statuses, Elsewhere
  <1>10. CASE UNCHANGED serviceVars
    BY <1>10 DEF serviceVars, TypeOK
  <1> QED
    BY <1>1, <1>2, <1>3, <1>4, <1>5, <1>6, <1>7, <1>8, <1>9, <1>10 DEF Next, System, MainThread, User, Killed

LEMMA InstanceInit == Init => InstanceInv
  BY DEF Init, InstanceInv, InstanceAt, Idle

\* It is enough to look at the instance that a step is about.
LEMMA OneInstance ==
  ASSUME InstanceInv, NEW i \in Instances, Elsewhere(i), app',
         bound' = bound \/ bound' = i \/ (bound' = 0 /\ bound = i), bound \in {i, 0} \/ bound' = bound,
         InstanceAt(i)'
  PROVE  InstanceInv'
  <1>1. ASSUME NEW j \in Instances PROVE InstanceAt(j)'
    BY ServiceAssumption DEF InstanceInv, InstanceAt, Elsewhere
  <1> QED
    BY <1>1 DEF InstanceInv

LEMMA CommandInstance ==
  ASSUME TypeOK, InstanceInv, NEW i \in Instances, StartCommand(i) \/ StopCommand(i)
  PROVE  InstanceInv'
  <1> USE DEF InstanceAt, Kept
  <1>1. app /\ app' /\ Delivered(i)
    BY DEF StartCommand, StopCommand
  <1>2. InstanceAt(i)'
    BY <1>1, StartFacts, StopFacts DEF InstanceInv
  <1> QED
    BY <1>1, <1>2, Delivers, StartFacts, StopFacts, OneInstance

LEMMA InstanceStep == TypeOK /\ InstanceInv /\ [Moves]_serviceVars => InstanceInv'
  <1> SUFFICES ASSUME TypeOK, InstanceInv, [Moves]_serviceVars PROVE InstanceInv'
    OBVIOUS
  <1> USE DEF InstanceAt, Kept
  <1>1. CASE StopRuntime
    <2>1. app /\ app' /\ UNCHANGED bound
      BY <1>1 DEF StopRuntime, TypeOK, InstanceInv
    <2>2. InstanceAt(bound)'
      BY <1>1, <2>1, StopRuntimeFacts DEF InstanceInv
    <2> QED
      BY <1>1, <2>1, <2>2, StopRuntimeFacts, OneInstance
  <1>2. CASE DestroyBegins
    <2>1. bound \in Instances /\ app /\ app' /\ UNCHANGED bound
      BY <1>2 DEF DestroyBegins, TypeOK
    <2>2. InstanceAt(bound)' /\ Elsewhere(bound)
      BY <1>2, <2>1, StopFacts DEF InstanceInv
    <2> QED
      BY <2>1, <2>2, OneInstance
  <1>3. CASE DestroyEnds
    <2>1. app /\ app'
      BY <1>3 DEF DestroyEnds, TypeOK, InstanceInv
    <2>2. PICK i \in Instances : i = bound
      BY <1>3, DestroyEndsFacts
    <2>3. Elsewhere(i) /\ bound' = 0 /\ InstanceAt(i)'
      BY <1>3, <2>2, DestroyEndsFacts DEF InstanceInv
    <2> QED
      BY <2>1, <2>2, <2>3, OneInstance
  <1>4. ASSUME NEW i \in Instances, Worker(i) PROVE InstanceInv'
    <2>1. app /\ app' /\ UNCHANGED bound
      BY <1>4, WorkerSteps
    <2>2. InstanceAt(i)
      BY DEF InstanceInv
    <2>3. CASE Elsewhere(i) /\ InstanceAt(i)'
      BY <2>1, <2>3, OneInstance
    <2>4. CASE Begin(i)
      <3>1. Elsewhere(i) /\ InstanceAt(i)'
        BY <2>1, <2>2, <2>4, BeginFacts
      <3> QED
        BY <2>3, <3>1
    <2>5. CASE Reap(i)
      <3>1. CASE UNCHANGED service
        BY <2>1, <3>1 DEF InstanceInv
      <3>2. Go(i, "prepare") \/ UNCHANGED service \/ Go(i, "finish")
        BY <2>5 DEF Reap, Caught
      <3>3. service[i].pc = "reap"
        BY <2>5 DEF Reap, At
      <3>4. CASE Go(i, "prepare") \/ Go(i, "finish")
        <4>1. Elsewhere(i) /\ InstanceAt(i)'
          BY <2>1, <2>2, <3>3, <3>4, GoFacts
        <4> QED
          BY <2>3, <4>1
      <3> QED
        BY <3>1, <3>2, <3>4
    <2>6. CASE Spawn(i) /\ service[i].runtime = "open"
      <3>1. Elsewhere(i) /\ InstanceAt(i)'
        BY <2>1, <2>2, <2>6, SpawnFacts
      <3> QED
        BY <2>3, <3>1
    <2>7. CASE Started(i)
      <3>1. Elsewhere(i) /\ InstanceAt(i)'
        BY <2>1, <2>2, <2>7, GoFacts DEF Started, At
      <3> QED
        BY <2>3, <3>1
    <2>8. CASE Finish(i)
      <3>1. service[i].pc = "finish"
        BY <2>8 DEF Finish, At
      <3>2. Elsewhere(i) /\ InstanceAt(i)'
        BY <2>1, <2>2, <2>8, <3>1, FinishFacts
      <3> QED
        BY <2>3, <3>2
    <2>9. CASE CloseTask(i)
      <3>1. Elsewhere(i) /\ InstanceAt(i)'
        BY <2>1, <2>2, <2>9, CloseFacts
      <3> QED
        BY <2>3, <3>1
    <2>10. CASE /\ Elsewhere(i) /\ Kept(i) /\ service'[i].runtime = service[i].runtime
                /\ service[i].pc \notin {"idle", "recording", "close"}
                /\ service'[i].pc \in {"look", "spawn", "ready", "rejected", "serving", "finish"}
      BY <2>1, <2>2, <2>3, <2>10
    <2> QED
      BY <1>4, <2>4, <2>5, <2>6, <2>7, <2>8, <2>9, <2>10, WorkerSteps
  <1>5. CASE UNCHANGED <<app, bound, service>>
    BY <1>5 DEF InstanceInv
  <1>6. ASSUME NEW i \in Instances, StartCommand(i) \/ StopCommand(i) PROVE InstanceInv'
    BY <1>6, CommandInstance
  <1>7. ASSUME NEW all \in BOOLEAN, KillApp(all) PROVE InstanceInv'
    BY <1>7 DEF KillApp, Idle, InstanceInv
  <1>8. CASE Reopen
    <2>1. app' /\ bound = 0
      BY <1>8 DEF Reopen, InstanceInv
    <2>2. CASE UNCHANGED <<service, bound>>
      BY <2>1, <2>2 DEF InstanceInv
    <2>3. CASE Elsewhere(1) /\ bound' = 1 /\ service'[1].running /\ service'[1].pc = "idle"
      <3>1. 1 \in Instances /\ InstanceAt(1)'
        BY <2>3, ServiceAssumption
      <3> QED
        BY <2>1, <2>3, <3>1, OneInstance
    <2> QED
      BY <1>8, <2>2, <2>3, ReopenFacts
  <1>9. ASSUME NEW p \in Processes, Backend(p) \/ Crashes(p) PROVE UNCHANGED <<app, bound, service>>
    BY <1>9 DEF Backend, Record, Recover, Listen, Dies, Crashes, Untouched
  <1>10. CASE Session
    <2>1. UNCHANGED <<app, bound, service>>
      BY <1>10 DEF Session, Abort, AbortReads, AbortCancels, AbortMarks, CallBegins, CallEnds, Untouched
    <2> QED
      BY <1>5, <2>1
  <1>11. CASE UNCHANGED serviceVars
    BY <1>5, <1>11 DEF serviceVars
  <1> QED
    BY <1>1, <1>2, <1>3, <1>4, <1>5, <1>6, <1>7, <1>8, <1>9, <1>10, <1>11
    DEF Moves, System, MainThread

(***************************************************************************)
(* At most one of the processes that are on record is alive.  Only the     *)
(* instance commands are delivered to can start one, because an instance   *)
(* that is destroyed has its runtime cancelled; and between the wait for   *)
(* the recorded processes and the start nothing else starts any.           *)
(***************************************************************************)
Busy == {"recording", "await", "ready", "rejected", "serving", "finish"}

Owned(p) ==
  LET i == process[p].by IN
  i # 0 => \/ process[p].quit
           \/ service[i].backend = p /\ service[i].pc \in Busy /\ service[i].running

Unrecorded(p) ==
  LET i == process[p].by IN
  process[p].st = "shell" => i # 0 /\ service[i].pc = "recording" /\ service[i].backend = p

BackendInv ==
  /\ bound # 0 /\ service[bound].pc \in {"prepare", "look", "spawn"} => Ours = {}
  /\ \A p, q \in Ours : p = q
  /\ \A p \in Ours : Owned(p) /\ Unrecorded(p)

LEMMA BackendImplies == TypeOK /\ BackendInv => OneBackend
  BY DEF BackendInv, OneBackend, Owned, TypeOK, ProcessType, Ours, Live

LEMMA BackendInit == Init => BackendInv
  BY DEF Init, BackendInv, Ours, Live, Gone

\* Fewer processes, with the same owners.
Fewer ==
  \A p \in Processes :
    /\ p \in Ours' => p \in Ours
    /\ process'[p].by = process[p].by
    /\ process[p].quit => process'[p].quit
    /\ process'[p].st = "shell" => process[p].st = "shell"

\* The processes stay with their instances when no worker lets go of its backend.
LEMMA Stays ==
  ASSUME TypeOK, BackendInv, Fewer, bound' \in {bound, 0},
         \A i \in Instances : /\ service'[i].pc = service[i].pc
                              /\ service'[i].running = service[i].running
                              /\ service'[i].backend = service[i].backend
  PROVE  BackendInv'
  <1>1. bound' # 0 /\ service'[bound'].pc \in {"prepare", "look", "spawn"} => Ours' = {}
    BY DEF BackendInv, Fewer, Ours, Live, TypeOK
  <1>2. \A p \in Ours' : p \in Ours /\ p \in Processes
    BY DEF Fewer, Ours, Live
  <1>3. ASSUME NEW p \in Ours' PROVE Owned(p)' /\ Unrecorded(p)'
    <2>1. p \in Processes /\ Owned(p) /\ Unrecorded(p)
      BY <1>2, <1>3 DEF BackendInv
    <2>2. process[p].by \in Instances \cup {0}
      BY <2>1 DEF TypeOK, ProcessType
    <2> QED
      BY <2>1, <2>2 DEF Fewer, Owned, Unrecorded
  <1> QED
    BY <1>1, <1>2, <1>3 DEF BackendInv

\* The same when instance i moves on, and takes its process with it.
LEMMA MovesOn ==
  ASSUME TypeOK, BackendInv, Fewer, NEW i \in Instances, Elsewhere(i),
         bound' \in {bound, i},
         bound' = i /\ service'[i].pc \in {"prepare", "look", "spawn"} => Ours' = {},
         service[i].pc \in Busy =>
           \A p \in Ours' : process[p].by = i /\ service[i].backend = p =>
             \/ process'[p].quit
             \/ service'[i].backend = p /\ service'[i].running /\ service'[i].pc \in Busy,
         service[i].pc = "recording" =>
           \/ service'[i].pc = "recording" /\ service'[i].backend = service[i].backend
           \/ \A p \in Ours' : process[p].by = i /\ service[i].backend = p => process'[p].st # "shell"
  PROVE  BackendInv'
  <1>1. ASSUME bound' # 0, service'[bound'].pc \in {"prepare", "look", "spawn"} PROVE Ours' = {}
    <2>1. CASE bound' = i
      BY <1>1, <2>1
    <2>2. CASE bound' # i
      <3>1. bound' = bound /\ bound \in Instances \ {i}
        BY <1>1, <2>2 DEF TypeOK
      <3>2. service'[bound] = service[bound]
        BY <3>1 DEF Elsewhere
      <3>3. Ours = {}
        BY <1>1, <3>1, <3>2 DEF BackendInv
      <3> QED
        BY <3>3 DEF Fewer, Ours, Live
    <2> QED
      BY <2>1, <2>2
  <1>2. \A p \in Ours' : p \in Ours /\ p \in Processes
    BY DEF Fewer, Ours, Live
  <1>3. ASSUME NEW p \in Ours' PROVE Owned(p)' /\ Unrecorded(p)'
    <2>1. p \in Processes /\ Owned(p) /\ Unrecorded(p)
      BY <1>2, <1>3 DEF BackendInv
    <2>2. process'[p].by = process[p].by /\ process[p].by \in Instances \cup {0}
      BY <2>1 DEF TypeOK, ProcessType, Fewer
    <2>3. (process[p].quit => process'[p].quit) /\ (process'[p].st = "shell" => process[p].st = "shell")
      BY <2>1 DEF Fewer
    <2>4. CASE process[p].by # i
      BY <2>1, <2>2, <2>3, <2>4 DEF Owned, Unrecorded, Elsewhere
    <2>5. CASE process[p].by = i
      <3>1. Owned(p)'
        BY <1>3, <2>1, <2>2, <2>3, <2>5 DEF Owned
      <3>2. Unrecorded(p)'
        BY <1>3, <2>1, <2>2, <2>3, <2>5 DEF Unrecorded, Busy
      <3> QED
        BY <3>1, <3>2
    <2> QED
      BY <2>4, <2>5
  <1> QED
    BY <1>1, <1>2, <1>3 DEF BackendInv

LEMMA QuitsFewer == ASSUME TypeOK, NEW ps, process' = Quit(ps) PROVE Fewer
  BY QuitFacts DEF Fewer, Ours, Live

LEMMA SameFewer == ASSUME TypeOK, UNCHANGED process PROVE Fewer
  BY DEF Fewer, Ours, Live

LEMMA MovesFewer ==
  ASSUME TypeOK, NEW p \in Processes, NEW st \in {"proot", "recovered", "listening", "gone"},
         process[p].st # "gone", ProcessMoves(p, st)
  PROVE  Fewer
  BY DEF Fewer, ProcessMoves, Ours, Live

LEMMA WorkerBackend ==
  ASSUME TypeOK, InstanceInv, BackendInv, NEW i \in Instances, Worker(i)
  PROVE  BackendInv'
  <1>1. bound' = bound
    BY WorkerSteps
  <1>2. CASE Begin(i) /\ UNCHANGED process
    BY <1>1, <1>2, BeginFacts, SameFewer, MovesOn DEF Busy
  <1>3. CASE Reap(i)
    <2>1. service[i].pc = "reap"
      BY <1>3 DEF Reap, At
    <2>2. CASE Recorded = {} /\ Go(i, "prepare") /\ UNCHANGED process
      <3>1. bound = i => Ours = {}
        <4> SUFFICES ASSUME bound = i, NEW p \in Ours PROVE FALSE
          OBVIOUS
        <4>1. p \in Processes /\ process[p].st = "shell"
          BY <2>2 DEF Recorded, Ours, Live
        <4>2. /\ process[p].by \in Instances
              /\ service[process[p].by].pc = "recording"
          BY <4>1 DEF BackendInv, Unrecorded, TypeOK, ProcessType
        <4>3. process[p].by = i
          BY <4>2 DEF InstanceInv, InstanceAt
        <4> QED
          BY <2>1, <4>2, <4>3
      <3>2. Ours' = Ours
        BY <2>2 DEF Ours, Live
      <3> QED
        BY <1>1, <2>1, <2>2, <3>1, <3>2, GoFacts, SameFewer, MovesOn DEF Busy
    <2>3. CASE Go(i, "finish") /\ UNCHANGED process
      BY <1>1, <2>1, <2>3, GoFacts, SameFewer, MovesOn DEF Busy
    <2>4. CASE UNCHANGED service /\ process' = Quit(Processes)
      BY <1>1, <2>4, QuitsFewer, Stays
    <2> QED
      BY <1>3, <2>2, <2>3, <2>4 DEF Reap, Caught
  <1>4. CASE Spawn(i) /\ service[i].runtime = "open"
    <2>1. i = bound
      BY <1>4 DEF InstanceInv, InstanceAt
    <2>2. Ours = {}
      BY <1>4, <2>1, SpawnFacts, ServiceAssumption DEF BackendInv
    <2>3. \A p \in Ours' : p = NewProcess
      BY <1>4, <2>2, SpawnFacts DEF Ours, Live
    <2>4. /\ process'[NewProcess].by = i
          /\ service'[i].pc = "recording" /\ service'[i].backend = NewProcess
      BY <1>4, SpawnFacts DEF Gone
    <2>5. service'[i].running
      <3>1. service[i].running
        BY <1>4, SpawnFacts DEF InstanceInv, InstanceAt
      <3> QED
        BY <1>4, <3>1, SpawnFacts
    <2>6. ASSUME NEW p \in Ours' PROVE Owned(p)' /\ Unrecorded(p)'
      <3>1. process'[p].by = i /\ service'[i].backend = p
        BY <2>3, <2>4, <2>6
      <3> QED
        BY <2>4, <2>5, <3>1, ServiceAssumption DEF Owned, Unrecorded, Busy
    <2> QED
      BY <1>1, <2>1, <2>3, <2>4, <2>6 DEF BackendInv
  <1>5. CASE Started(i)
    <2>1. service[i].pc = "recording" /\ Go(i, "await")
      BY <1>5 DEF Started, At
    <2>2. CASE process[service[i].backend].st # "shell" /\ UNCHANGED process
      BY <1>1, <2>1, <2>2, GoFacts, SameFewer, MovesOn DEF Busy, InstanceInv, InstanceAt, Kept
    <2>3. CASE process' = [process EXCEPT ![service[i].backend].late = TRUE]
      <3>1. CASE service[i].backend \in Processes
        <4>1. service[i].backend \notin Ours'
          BY <2>3, <3>1, LateFacts DEF Ours
        <4>2. Fewer
          BY <2>3, <3>1, LateFacts DEF Fewer, Ours, Live
        <4> QED
          BY <1>1, <2>1, <4>1, <4>2, GoFacts, MovesOn
      <3>2. CASE service[i].backend \notin Processes
        <4>1. UNCHANGED process
          BY <2>3, <3>2 DEF TypeOK
        <4>2. service[i].backend \notin Ours'
          BY <3>2 DEF Ours, Live
        <4> QED
          BY <1>1, <2>1, <4>1, <4>2, GoFacts, SameFewer, MovesOn
      <3> QED
        BY <3>1, <3>2
    <2> QED
      BY <1>5, <2>2, <2>3 DEF Started
  <1>6. CASE Finish(i)
    <2>1. service[i].pc = "finish" /\ process' = Quit({service[i].backend})
      BY <1>6 DEF Finish, At
    <2>2. ASSUME NEW p \in Ours', process[p].by = i, service[i].backend = p
          PROVE  process'[p].quit
      <3>1. p \in Ours /\ p \in Processes
        BY <2>1, <2>2, QuitsFewer DEF Fewer, Ours, Live
      <3>2. p \in Recorded
        BY <2>1, <2>2, <3>1 DEF BackendInv, Unrecorded, Recorded, Ours
      <3> QED
        BY <2>1, <2>2, <3>1, <3>2, QuitFacts
    <2> QED
      BY <1>1, <1>6, <2>1, <2>2, FinishFacts, QuitsFewer, MovesOn
  <1>7. CASE CloseTask(i) /\ UNCHANGED process
    BY <1>1, <1>7, CloseFacts, SameFewer, MovesOn DEF Busy
  <1>8. CASE /\ Elsewhere(i) /\ Kept(i) /\ UNCHANGED process
             /\ service[i].pc \notin {"idle", "recording", "close"}
             /\ \/ service'[i].pc \in {"look", "spawn"} /\ service[i].pc \in {"prepare", "look"}
                \/ service'[i].pc \in {"ready", "rejected", "serving", "finish"}
    <2>1. service[i].running
      BY <1>8 DEF InstanceInv, InstanceAt
    <2>2. CASE service'[i].pc \in {"look", "spawn"} /\ service[i].pc \in {"prepare", "look"}
      <3>1. bound = i => Ours' = {}
        BY <1>8, <2>2, ServiceAssumption DEF BackendInv, Ours, Live
      <3> QED
        BY <1>1, <1>8, <2>2, <3>1, SameFewer, MovesOn DEF Busy
    <2>3. CASE service'[i].pc \in {"ready", "rejected", "serving", "finish"}
      BY <1>1, <1>8, <2>1, <2>3, SameFewer, MovesOn DEF Busy, Kept
    <2> QED
      BY <1>8, <2>2, <2>3
  <1> QED
    BY <1>2, <1>3, <1>4, <1>5, <1>6, <1>7, <1>8, WorkerSteps

LEMMA BackendStep == TypeOK /\ InstanceInv /\ BackendInv /\ [Moves]_serviceVars => BackendInv'
  <1> SUFFICES ASSUME TypeOK, InstanceInv, BackendInv, [Moves]_serviceVars PROVE BackendInv'
    OBVIOUS
  <1>1. CASE StopRuntime
    BY <1>1, StopRuntimeFacts, QuitsFewer, Stays DEF StopRuntime, Elsewhere, Kept
  <1>2. CASE DestroyBegins
    <2>1. bound \in Instances /\ UNCHANGED <<process, bound>>
      BY <1>2 DEF DestroyBegins, TypeOK
    <2> QED
      BY <1>2, <2>1, StopFacts, SameFewer, Stays DEF Elsewhere, Kept
  <1>3. CASE DestroyEnds
    BY <1>3, DestroyEndsFacts, QuitsFewer, Stays DEF DestroyEnds, Elsewhere
  <1>4. ASSUME NEW i \in Instances, Worker(i) PROVE BackendInv'
    BY <1>4, WorkerBackend
  <1>5. CASE UNCHANGED <<bound, service, process>>
    BY <1>5, SameFewer, Stays
  <1>6. ASSUME NEW p \in Processes, Backend(p) \/ Crashes(p) PROVE BackendInv'
    <2>1. UNCHANGED <<bound, service>>
      BY <1>6 DEF Backend, Record, Recover, Listen, Dies, Crashes, Untouched
    <2>2. PICK st \in {"proot", "recovered", "listening", "gone"} :
            process[p].st # "gone" /\ ProcessMoves(p, st)
      <3>1. CASE Record(p)
        BY <3>1, ProcessFacts DEF Record
      <3>2. CASE Recover(p)
        BY <3>2, RecoverFacts
      <3>3. CASE Listen(p)
        BY <3>3, ProcessFacts, DieFacts DEF Listen
      <3>4. CASE Dies(p)
        BY <3>4, DieFacts DEF Dies, Live
      <3>5. CASE Crashes(p)
        BY <3>5, DieFacts DEF Crashes, Live
      <3> QED
        BY <1>6, <3>1, <3>2, <3>3, <3>4, <3>5 DEF Backend
    <2> QED
      BY <2>1, <2>2, MovesFewer, Stays
  <1>7. CASE Session
    <2>1. UNCHANGED <<bound, service, process>>
      BY <1>7 DEF Session, Abort, AbortReads, AbortCancels, AbortMarks, CallBegins, CallEnds, Untouched
    <2> QED
      BY <1>5, <2>1
  <1>8. ASSUME NEW i \in Instances, StartCommand(i) PROVE BackendInv'
    <2>1. Delivered(i) /\ UNCHANGED process
      BY <1>8 DEF StartCommand
    <2>2. bound' = i /\ service'[i].pc \in {"prepare", "look", "spawn"} => Ours' = {}
      <3>1. Ours' = Ours
        BY <2>1 DEF Ours, Live
      <3> QED
        BY <1>8, <2>1, <3>1, StartFacts, Delivers, ServiceAssumption DEF BackendInv
    <2> QED
      BY <1>8, <2>1, <2>2, StartFacts, SameFewer, MovesOn DEF Busy
  <1>9. ASSUME NEW i \in Instances, StopCommand(i) PROVE BackendInv'
    <2>1. Delivered(i) /\ UNCHANGED process
      BY <1>9 DEF StopCommand
    <2>2. bound' = i /\ service'[i].pc \in {"prepare", "look", "spawn"} => Ours' = {}
      <3>1. Ours' = Ours
        BY <2>1 DEF Ours, Live
      <3> QED
        BY <1>9, <2>1, <3>1, StopFacts, Delivers, ServiceAssumption DEF BackendInv
    <2>3. service[i].pc \in Busy => bound = i /\ Kept(i) /\ service[i].running
      BY <1>9, StopFacts DEF Busy, InstanceInv, InstanceAt
    <2> QED
      BY <1>9, <2>1, <2>2, <2>3, StopFacts, SameFewer, MovesOn DEF Kept
  <1>10. ASSUME NEW all \in BOOLEAN, KillApp(all) PROVE BackendInv'
    <2>1. bound' = 0
      BY <1>10 DEF KillApp
    <2>2. CASE all
      <3>1. Ours' = {}
        BY <1>10, <2>2 DEF KillApp, Ours, Live, Gone
      <3> QED
        BY <2>1, <3>1 DEF BackendInv
    <2>3. CASE ~all
      <3>1. \A p \in Ours' : p \in Ours /\ process'[p].by = 0 /\ process'[p].st # "shell"
        BY <1>10, <2>3, KillFacts DEF KillApp, Ours, Live
      <3> QED
        BY <2>1, <3>1 DEF BackendInv, Owned, Unrecorded
    <2> QED
      BY <2>2, <2>3
  <1>11. CASE Reopen
    <2>1. UNCHANGED process /\ 1 \in Instances /\ service[1].pc = "idle" /\ bound = 0
      BY <1>11, ServiceAssumption DEF Reopen, InstanceInv, Idle
    <2>2. CASE UNCHANGED <<service, bound>>
      BY <1>5, <2>1, <2>2
    <2>3. CASE Elsewhere(1) /\ bound' = 1 /\ service'[1].pc = "idle"
      BY <2>1, <2>3, SameFewer, MovesOn DEF Busy
    <2> QED
      BY <1>11, <2>2, <2>3, ReopenFacts
  <1>12. CASE UNCHANGED serviceVars
    BY <1>5, <1>12 DEF serviceVars
  <1> QED
    BY <1>1, <1>2, <1>3, <1>4, <1>6, <1>7, <1>8, <1>9, <1>10, <1>11, <1>12
    DEF Moves, System, MainThread

(***************************************************************************)
(* The children of the calls belong to the one backend that listens, and   *)
(* unless a process escaped its record, no other one is alive beside it    *)
(* whose recovery could call them interrupted.                             *)
(***************************************************************************)
CallAt(t) ==
  /\ tool[t].by # 0 => process[tool[t].by].st = "listening"
  /\ tool[t].child => tool[t].by # 0
  /\ t \in captured => tool[t].st # "none" /\ (abort = "mark" => ~tool[t].child)

TrueAt(t) ==
  /\ tool[t].st \in {"completed", "aborted", "recovered"} => ~tool[t].child
  /\ \A p \in Processes :
       process[p].st \in {"recovered", "listening"} /\ process[p].recover /\ tool[t].st = "running"
         => tool[t].by = p

CallInv ==
  /\ \A p, q \in Listening : p = q
  /\ abort = "none" => captured = {}
  /\ \A t \in Tools : CallAt(t)
  /\ Clean => \A t \in Tools : TrueAt(t)

LEMMA CallImplies == CallInv => ToolStateIsTrue
  BY DEF CallInv, ToolStateIsTrue, TrueAt, Listening, Live

LEMMA CallInit == Init => CallInv
  BY DEF Init, CallInv, CallAt, TrueAt, NoCall, Gone, Listening, Live

\* Steps that leave the calls alone, and the processes where they were.
LEMMA CallsStay ==
  ASSUME TypeOK, CallInv, UNCHANGED <<tool, captured, abort>>,
         \A p \in Processes : /\ process'[p].st = process[p].st
                              /\ process'[p].recover = process[p].recover
                              /\ process[p].late => process'[p].late
                              /\ process[p].orphan => process'[p].orphan
  PROVE  CallInv'
  <1>1. Listening' = Listening
    BY DEF Listening, Live
  <1>2. Clean' => Clean
    BY DEF Clean
  <1>3. \A t \in Tools : CallAt(t)'
    BY DEF CallInv, CallAt, TypeOK, CallType
  <1>4. \A t \in Tools : TrueAt(t) => TrueAt(t)'
    BY DEF TrueAt
  <1> QED
    BY <1>1, <1>2, <1>3, <1>4 DEF CallInv

\* Where no process escaped, the backend that lives is the only one.
LEMMA OnlyOne ==
  ASSUME BackendInv, Clean, NEW p \in Live, NEW q \in Live
  PROVE  p = q
  BY DEF BackendInv, Clean, Ours, Live

\* The end of a process.
LEMMA CallsDie ==
  ASSUME TypeOK, BackendInv, CallInv, NEW p \in Live, Die(p)
  PROVE  CallInv'
  <1>1. p \in Processes
    BY DEF Live
  <1>2. Clean' => Clean
    BY <1>1, DieFacts DEF Clean, ProcessMoves
  <1>3. \A q \in Listening' : q \in Listening /\ q # p
    BY <1>1, DieFacts DEF Listening, Live, ProcessMoves
  <1>4. ASSUME NEW t \in Tools PROVE CallAt(t)'
    <2>1. CallAt(t)
      BY DEF CallInv
    <2>2. CASE tool[t].by = p
      BY <1>1, <2>1, <2>2, DieFacts DEF CallAt
    <2>3. CASE tool[t].by # p
      <3>1. /\ tool'[t] = tool[t]
            /\ \A q \in Processes : q # p => process'[q].st = process[q].st
        BY <1>1, <2>3, DieFacts DEF ProcessMoves
      <3>2. captured' = {} \/ UNCHANGED <<captured, abort>>
        BY <1>1, DieFacts
      <3> QED
        BY <2>1, <2>3, <3>1, <3>2 DEF CallAt, TypeOK, CallType
    <2> QED
      BY <2>2, <2>3
  <1>5. ASSUME Clean', NEW t \in Tools PROVE TrueAt(t)'
    <2>1. TrueAt(t) /\ Clean
      BY <1>2, <1>5 DEF CallInv
    <2>2. \A q \in Processes : process'[q].st = "gone"
      <3> SUFFICES ASSUME NEW q \in Processes PROVE process'[q].st = "gone"
        OBVIOUS
      <3>1. q \in Live => q = p
        BY <2>1, OnlyOne
      <3>2. ProcessMoves(p, "gone")
        BY <1>1, DieFacts
      <3> QED
        BY <3>1, <3>2 DEF Live, ProcessMoves
    <2>3. tool'[t].st = tool[t].st /\ (tool'[t].child => tool[t].child)
      BY <1>1, DieFacts
    <2> QED
      BY <2>1, <2>2, <2>3 DEF TrueAt
  <1>6. abort' = "none" => captured' = {}
    BY <1>1, DieFacts DEF CallInv
  <1> QED
    BY <1>3, <1>4, <1>5, <1>6 DEF CallInv, Listening, Live

LEMMA CallStep == TypeOK /\ InstanceInv /\ BackendInv /\ CallInv /\ [Moves]_serviceVars => CallInv'
  <1> SUFFICES ASSUME TypeOK, InstanceInv, BackendInv, CallInv, [Moves]_serviceVars PROVE CallInv'
    OBVIOUS
  <1> USE DEF Calls
  <1>1. ASSUME NEW ps, process' = Quit(ps), UNCHANGED Calls PROVE CallInv'
    BY <1>1, QuitFacts, CallsStay
  <1>2. CASE UNCHANGED <<process, tool, captured, abort>>
    BY <1>2, CallsStay
  <1>3. CASE StopRuntime \/ DestroyEnds
    BY <1>1, <1>3 DEF StopRuntime, DestroyEnds
  <1>4. CASE DestroyBegins
    BY <1>2, <1>4 DEF DestroyBegins
  <1>5. ASSUME NEW i \in Instances, StartCommand(i) \/ StopCommand(i) PROVE CallInv'
    BY <1>2, <1>5 DEF StartCommand, StopCommand
  <1>6. CASE Reopen
    BY <1>2, <1>6 DEF Reopen
  <1>7. CASE UNCHANGED serviceVars
    BY <1>2, <1>7 DEF serviceVars
  <1>8. ASSUME NEW i \in Instances, Worker(i) PROVE CallInv'
    <2>1. UNCHANGED <<tool, captured, abort>>
      BY <1>8, WorkerSteps
    <2>2. CASE UNCHANGED process
      BY <1>2, <2>1, <2>2
    <2>3. CASE Reap(i) \/ Finish(i)
      BY <1>1, <2>1, <2>2, <2>3 DEF Reap, Finish
    <2>4. CASE Started(i)
      <3>1. CASE service[i].backend \in Processes
        BY <2>1, <2>2, <2>4, <3>1, LateFacts, CallsStay DEF Started
      <3>2. CASE service[i].backend \notin Processes
        BY <2>2, <2>4, <3>2 DEF Started, TypeOK
      <3> QED
        BY <3>1, <3>2
    <2>5. CASE Spawn(i) /\ service[i].runtime = "open"
      <3>1. Ours = {}
        <4>1. i = bound
          BY <2>5 DEF InstanceInv, InstanceAt
        <4> QED
          BY <2>5, <4>1, SpawnFacts, ServiceAssumption DEF BackendInv
      <3>2. PICK new \in Processes : /\ new \notin Live
                                    /\ process'[new].st = "shell"
                                    /\ \A p \in Processes \ {new} : process'[p] = process[p]
        BY <2>5, SpawnFacts DEF Gone
      <3>3. Listening' = Listening
        BY <3>2 DEF Listening, Live
      <3>4. ASSUME NEW t \in Tools PROVE CallAt(t)'
        <4>1. CallAt(t)
          BY DEF CallInv
        <4> QED
          BY <2>1, <3>2, <4>1 DEF CallAt, Live, TypeOK, CallType
      <3>5. ASSUME Clean', NEW t \in Tools PROVE TrueAt(t)'
        <4>1. Live = {}
          BY <3>1, <3>2, <3>5 DEF Ours, Live, Clean
        <4>2. ~tool[t].child
          <5>1. CallAt(t)
            BY DEF CallInv
          <5> QED
            BY <4>1, <5>1 DEF CallAt, Live, TypeOK, CallType
        <4>3. \A p \in Processes : process'[p].st \notin {"recovered", "listening"}
          BY <3>2, <4>1 DEF Live
        <4> QED
          BY <2>1, <4>2, <4>3 DEF TrueAt
      <3> QED
        BY <2>1, <3>3, <3>4, <3>5 DEF CallInv
    <2> QED
      BY <1>8, <2>2, <2>3, <2>4, <2>5, WorkerSteps
  <1>9. ASSUME NEW p \in Processes, Record(p) PROVE CallInv'
    <2>1. process[p].st = "shell" /\ ProcessMoves(p, "proot") /\ UNCHANGED <<tool, captured, abort>>
      BY <1>9, ProcessFacts DEF Record
    <2>2. Listening' = Listening
      BY <2>1 DEF Listening, Live, ProcessMoves
    <2>3. ASSUME NEW t \in Tools PROVE CallAt(t)' /\ (TrueAt(t) => TrueAt(t)')
      BY <2>1 DEF CallInv, CallAt, TrueAt, ProcessMoves, TypeOK, CallType
    <2>4. Clean' => Clean
      BY <2>1 DEF Clean, ProcessMoves
    <2> QED
      BY <2>1, <2>2, <2>3, <2>4 DEF CallInv
  <1>10. ASSUME NEW p \in Processes, Recover(p) PROVE CallInv'
    <2>1. UNCHANGED <<captured, abort>>
      BY <1>10 DEF Recover
    <2>2. Listening' = Listening
      BY <1>10, RecoverFacts DEF Listening, Live, ProcessMoves
    <2>3. ASSUME NEW t \in Tools PROVE CallAt(t)'
      <3>1. CallAt(t)
        BY DEF CallInv
      <3> QED
        BY <1>10, <2>1, <3>1, RecoverFacts DEF CallAt, ProcessMoves, TypeOK, CallType
    <2>4. ASSUME Clean', NEW t \in Tools PROVE TrueAt(t)'
      <3>1. Clean /\ TrueAt(t) /\ CallAt(t)
        BY <1>10, <2>4, RecoverFacts DEF Clean, ProcessMoves, CallInv
      <3>2. Live = {p}
        BY <1>10, <3>1, OnlyOne, RecoverFacts DEF Live
      <3>3. tool[t].by = 0 /\ ~tool[t].child
        BY <1>10, <3>1, <3>2, RecoverFacts DEF CallAt, Live, TypeOK, CallType
      <3>4. \A q \in Processes : process'[q].st \in {"recovered", "listening"} => q = p
        BY <1>10, <3>2, RecoverFacts DEF Live, ProcessMoves
      <3>5. process'[p].recover = process[p].recover
        BY <1>10, RecoverFacts DEF ProcessMoves
      <3> QED
        BY <1>10, <3>3, <3>4, <3>5, RecoverFacts DEF TrueAt
    <2> QED
      BY <2>1, <2>2, <2>3, <2>4 DEF CallInv
  <1>11. ASSUME NEW p \in Processes, Listen(p) PROVE CallInv'
    <2>1. CASE Die(p)
      BY <1>11, <2>1, CallsDie DEF Listen, Live
    <2>2. CASE /\ Listening = {} /\ UNCHANGED Calls
               /\ process' = [process EXCEPT ![p].st = "listening"]
      <3>1. process[p].st = "recovered" /\ ProcessMoves(p, "listening")
        BY <1>11, <2>2, ProcessFacts DEF Listen
      <3>2. \A q \in Listening' : q = p
        BY <2>2, <3>1 DEF Listening, Live, ProcessMoves
      <3>3. ASSUME NEW t \in Tools PROVE CallAt(t)' /\ (TrueAt(t) => TrueAt(t)')
        BY <2>2, <3>1 DEF CallInv, CallAt, TrueAt, ProcessMoves, TypeOK, CallType
      <3>4. Clean' => Clean
        BY <3>1 DEF Clean, ProcessMoves
      <3> QED
        BY <2>2, <3>2, <3>3, <3>4 DEF CallInv
    <2> QED
      BY <1>11, <2>1, <2>2 DEF Listen
  <1>12. ASSUME NEW p \in Processes, Dies(p) \/ Crashes(p) PROVE CallInv'
    BY <1>12, CallsDie DEF Dies, Crashes
  <1>13. ASSUME NEW all \in BOOLEAN, KillApp(all) PROVE CallInv'
    <2>1. CASE all
      <3>1. /\ \A p \in Processes : process'[p].st = "gone"
            /\ captured' = {}
            /\ \A t \in Tools : tool'[t].by = 0 /\ tool'[t].child = FALSE
        <4>1. /\ process' = [p \in Processes |-> Gone]
              /\ tool' = [t \in Tools |-> Orphaned(t)]
              /\ captured' = {}
          BY <1>13, <2>1 DEF KillApp
        <4> QED
          BY <4>1, OrphanedFacts DEF Gone
      <3> QED
        BY <3>1 DEF CallInv, CallAt, TrueAt, Listening, Live
    <2>2. CASE ~all
      BY <1>13, <2>2, KillFacts, CallsStay DEF KillApp
    <2> QED
      BY <2>1, <2>2
  <1>14. CASE Session
    <2>1. UNCHANGED process
      BY <1>14 DEF Session, Abort, AbortReads, AbortCancels, AbortMarks, CallBegins, CallEnds
    <2>2. Listening' = Listening /\ (Clean' => Clean)
      BY <2>1 DEF Listening, Live, Clean
    <2>3. ASSUME abort' = "none" => captured' = {},
                 \A t \in Tools : CallAt(t)' /\ (Clean /\ TrueAt(t) => TrueAt(t)')
          PROVE  CallInv'
      BY <2>2, <2>3 DEF CallInv
    <2>4. CASE AbortReads
      BY <2>1, <2>3, <2>4 DEF AbortReads, CallInv, CallAt, TrueAt
    <2>5. CASE AbortCancels
      <3>1. captured' = captured /\ abort' = "mark"
        BY <2>5 DEF AbortCancels
      <3>2. ASSUME NEW t \in Tools PROVE CallAt(t)' /\ (TrueAt(t) => TrueAt(t)')
        <4>1. ~tool'[t].child
          BY <2>5, CancelsFacts DEF CallInv, CallAt, Listening, Live, TypeOK, CallType
        <4> QED
          BY <2>1, <2>5, <3>1, <4>1, CancelsFacts DEF CallInv, CallAt, TrueAt
      <3> QED
        BY <2>3, <3>1, <3>2
    <2>6. CASE AbortMarks
      <3>1. captured' = {} /\ abort' = "none" /\ abort = "mark"
        BY <2>6 DEF AbortMarks
      <3>2. ASSUME NEW t \in Tools PROVE CallAt(t)' /\ (TrueAt(t) => TrueAt(t)')
        BY <2>1, <2>6, <3>1, MarksFacts DEF CallInv, CallAt, TrueAt
      <3> QED
        BY <2>3, <3>1, <3>2
    <2>7. ASSUME NEW t \in Tools, CallBegins(t) PROVE CallInv'
      <3>1. UNCHANGED <<captured, abort>>
        BY <2>7 DEF CallBegins
      <3>2. \A u \in Tools : CallAt(u)'
        BY <2>1, <2>7, <3>1, BeginsFacts, ServiceAssumption DEF CallInv, CallAt, Listening, Live
      <3>3. ASSUME Clean, NEW u \in Tools, TrueAt(u) PROVE TrueAt(u)'
        <4>1. CASE u # t
          BY <2>1, <2>7, <3>3, <4>1, BeginsFacts DEF TrueAt
        <4>2. CASE u = t
          <5>1. tool'[t].by \in Live /\ tool'[t].st = "running"
            BY <2>7, BeginsFacts DEF Listening
          <5> QED
            BY <2>1, <3>3, <4>2, <5>1, OnlyOne DEF TrueAt, Live
        <4> QED
          BY <4>1, <4>2
      <3> QED
        BY <2>3, <3>1, <3>2, <3>3 DEF CallInv
    <2>8. ASSUME NEW t \in Tools, CallEnds(t) PROVE CallInv'
      <3>1. UNCHANGED <<captured, abort>>
        BY <2>8 DEF CallEnds
      <3>2. ASSUME NEW u \in Tools PROVE CallAt(u)' /\ (TrueAt(u) => TrueAt(u)')
        <4>1. CallAt(u)
          BY DEF CallInv
        <4>2. CASE u = t
          BY <2>1, <2>8, <3>1, <4>1, <4>2, EndsFacts DEF CallAt, TrueAt
        <4>3. CASE u # t
          BY <2>1, <2>8, <3>1, <4>1, <4>3, EndsFacts DEF CallAt, TrueAt
        <4> QED
          BY <4>2, <4>3
      <3> QED
        BY <2>3, <3>1, <3>2 DEF CallInv
    <2> QED
      BY <1>14, <2>4, <2>5, <2>6, <2>7, <2>8 DEF Session, Abort
  <1> QED
    BY <1>3, <1>4, <1>5, <1>6, <1>7, <1>8, <1>9, <1>10, <1>11, <1>12, <1>13, <1>14
    DEF Moves, System, MainThread, Backend

-----------------------------------------------------------------------------
Invariant == TypeOK /\ InstanceInv /\ BackendInv /\ CallInv

LEMMA Inductive == Spec => []Invariant
  <1>1. Init => Invariant
    BY TypeInit, InstanceInit, BackendInit, CallInit DEF Invariant
  <1>2. Invariant /\ [Next]_serviceVars => Invariant'
    BY TypeStep, InstanceStep, BackendStep, CallStep, NextMoves DEF Invariant
  <1> QED
    BY <1>1, <1>2, PTL DEF Spec

\* The service, its backend processes and the calls keep their types.
THEOREM Typed == Spec => []TypeOK
  <1>1. Invariant => TypeOK
    BY DEF Invariant
  <1> QED
    BY <1>1, Inductive, PTL

\* At most one backend on record is alive, and one whose service says that it has stopped
\* has been told to end, whatever taps, kills and overlapping instances there were: the
\* record of RuntimeSetupService.java, 36-46 and 199-207, and of the wait of
\* LocalLinuxRuntime.java, 386-412.
THEOREM SingleBackend == Spec => []OneBackend
  <1>1. Invariant => OneBackend
    BY BackendImplies DEF Invariant
  <1> QED
    BY <1>1, Inductive, PTL

\* A call whose stored state is final has no process left, and a running one belongs to
\* the backend that lists it: what startup-recovery.ts rewrites at the start of a backend
\* and SessionPrompt.cancel on an abort (opencode-runtime-recovery-2.patch, 83-118, 264-300).
THEOREM StatesAreTrue == Spec => []ToolStateIsTrue
  <1>1. Invariant => ToolStateIsTrue
    BY CallImplies DEF Invariant
  <1> QED
    BY <1>1, Inductive, PTL
=============================================================================
