------------------------- MODULE DnfastUpgrade_proofs -------------------------
(***************************************************************************)
(* What holds of the replacement of the dnfast executables for any number  *)
(* of libraries, executables, guest scripts, journals and crashes.         *)
(***************************************************************************)
EXTENDS DnfastUpgrade, TLAPS

Publishing == {"next", "stage", "write", "replace"}
Writing    == {"stage", "write", "replace"}
Holding    == {"validate"} \cup Publishing
Live       == {"start"} \cup Holding

\* Whoever works on the root holds its lock: no two scripts publish at once, and none while
\* the stray transaction runs.
LockInv ==
  /\ \A k \in Scripts : script[k].pc \in Holding => lock = k
  /\ stray = "holds" => lock = "stray"

\* What the targets may hold, by what was installed at first.
FileInv ==
  /\ \A n \in Names :
       file[Root(n)] \in IF kind = "fresh" THEN {"absent", "torn", "new"}
                         ELSE IF n \in Execs THEN {kind, "alien", "new"}
                         ELSE {"absent", "alien", "new"}
  /\ \A e \in Execs :
       file[Backup(e)] \in IF kind = "fresh" THEN {"absent"} ELSE {"absent", "alien", kind}

\* What a script has seen to when it has come as far as it is. A script for other originals
\* than the root's is refused at its first backup.
ScriptInv(k) ==
  LET s == script[k] IN
  /\ s.pc \in Publishing =>
       /\ s.mode # "snapshot"
       /\ StateAccepted(s)
       /\ Original(s.mode) # kind => s.pc = "next" /\ s.todo = Targets
       /\ \A t \in Targets \ s.todo : file[t] = Payload(s, t)
  /\ s.pc \in Writing => s.at \in Due(s.todo)

\* tar begins with no executable in the root, and the CLI is the first it writes.
UnpackInv ==
  /\ kind = "fresh" => journal = 0 /\ stray = "gone"
  /\ kind = "fresh" /\ file[Root(Cli)] = "absent" => \A e \in Execs : file[Root(e)] = "absent"
  /\ app.pc = "unpack" =>
       /\ kind = "fresh"
       /\ app.todo \subseteq {Root(n) : n \in Names}
       /\ Root(Cli) \notin app.todo => file[Root(Cli)] = "new"
       /\ \A e \in Execs : Root(e) \in app.todo => file[Root(e)] # "new"
       /\ Root(Cli) \in app.todo =>
            \A e \in Execs \ {Cli} : Root(e) \in app.todo /\ file[Root(e)] = "absent"

PublicationInv ==
  /\ LockInv /\ FileInv /\ UnpackInv
  /\ \A k \in Scripts : ScriptInv(k)
  /\ PublicationIsOrdered

-----------------------------------------------------------------------------
\* A journal somebody has written down: if it is still the one there is, the old runtime has
\* found nothing unfinished in it.
SettledAt(x, j) == x \in 0 .. j /\ (x = j => j \notin Unfinished)
Settled(x) == SettledAt(x, journal)

\* The app and the script it waits for.
SlotInv ==
  /\ app.pc \in {"snapshot", "publish"} => app.slot \in Scripts
  /\ app.pc = "snapshot" => script[app.slot].mode = "snapshot"

AppSettled ==
  /\ checkpoint # None => Settled(checkpoint)
  /\ app.pc = "save" => Settled(app.checked)
  /\ app.pc = "choose" /\ app.checked # None => Settled(app.checked)
  /\ app.pc = "ask" => app.checked \in 0 .. journal

ScriptSettled(k) ==
  /\ script[k].mode = "checked" /\ script[k].pc \in Live => Settled(script[k].arg)
  /\ script[k].mode = "snapshot" /\ script[k].pc = "ok" => script[k].arg \in 0 .. journal

SettledInv == AppSettled /\ \A k \in Scripts : ScriptSettled(k)

JournalInv == SlotInv /\ SettledInv

\* A script that would still be let through.
Valid(k) == script[k].mode = "checked" /\ script[k].pc \in Live /\ script[k].arg = journal

\* The old journals are, or may at any moment be, left to the new executables.
Pending == ~bound /\ ((\E k \in Scripts : Valid(k)) \/ \E e \in Execs : Upgraded(e))

FollowInv ==
  kind = "43b" =>
    /\ Pending => checkpoint = journal
    /\ Pending /\ app.pc \in {"ask", "save"} => app.checked = journal
    /\ Pending /\ app.pc = "snapshot" /\ script[app.slot].pc = "ok" => script[app.slot].arg = journal
    /\ app.pc = "choose" /\ app.checked # None => app.checked = checkpoint
    /\ app.pc \in {"verify", "forget", "compare", "ready"} => bound
    /\ bound => Has("new")

IInv == TypeOK /\ PublicationInv /\ JournalInv /\ FollowInv

-----------------------------------------------------------------------------
(* The targets and their order.                                            *)

LEMMA TargetNames ==
  /\ \A n \in Names : Root(n) \in Targets
  /\ \A e \in Execs : Backup(e) \in Targets
  /\ \A t \in Targets : (\E n \in Names : t = Root(n)) \/ (\E e \in Execs : t = Backup(e))
  /\ \A m, n : Root(m) = Root(n) => m = n
  /\ \A m, n : Backup(m) = Backup(n) => m = n
  /\ \A m, n : Root(m) # Backup(n)
  /\ Cli \in Names /\ Execs \subseteq Names /\ Libs \subseteq Names
BY ConstantsAssumption DEF Targets, Names, Root, Backup

LEMMA Ranks ==
  /\ \A e \in Execs : Rank(Backup(e)) = 1
  /\ \A l \in Libs : Rank(Root(l)) = 2
  /\ Rank(Root(Cli)) = 3
  /\ \A e \in Execs \ {Cli} : Rank(Root(e)) = 4
BY ConstantsAssumption DEF Rank, Root, Backup

LEMMA DueTargets ==
  ASSUME NEW todo \in SUBSET Targets, NEW t \in Due(todo)
  PROVE  /\ t \in todo /\ t \in Targets
         /\ Backup(Cli) \in todo => \E e \in Execs : t = Backup(e)
         /\ \A e \in Execs : t = Root(e) =>
              /\ \A f \in Execs : Backup(f) \notin todo
              /\ \A l \in Libs : Root(l) \notin todo
              /\ Root(Cli) \in todo => e = Cli
<1>1. t \in todo /\ \A u \in todo : Rank(t) <= Rank(u)
      BY DEF Due
<1>2. (\E l \in Libs : t = Root(l)) \/ (\E e \in Execs : t = Root(e)) \/ (\E e \in Execs : t = Backup(e))
      BY <1>1, TargetNames DEF Names
<1>3. Rank(t) \in Nat /\ (Rank(t) = 1 => \E e \in Execs : t = Backup(e))
      BY <1>2, Ranks, ConstantsAssumption
<1>4. Backup(Cli) \in todo => \E e \in Execs : t = Backup(e)
      BY <1>1, <1>3, Ranks, ConstantsAssumption, TargetNames, <1>2
<1>5. ASSUME NEW e \in Execs, t = Root(e)
      PROVE  /\ \A f \in Execs : Backup(f) \notin todo
             /\ \A l \in Libs : Root(l) \notin todo
             /\ Root(Cli) \in todo => e = Cli
      BY <1>1, <1>5, Ranks
<1>.  QED
      BY <1>1, <1>4, <1>5

-----------------------------------------------------------------------------
(* Types.                                                                  *)

ScriptPc == {"off", "start", "validate", "next", "stage", "write", "replace", "ok", "refused"}
AppPc == {"down", "failed", "look", "unpack", "choose", "snapshot", "ask", "save", "publish",
          "check", "migrate", "verify", "forget", "compare", "ready"}
ScriptType == [pc : ScriptPc, mode : {"empty", "snapshot", "checked"},
               arg : {None} \cup 0 .. MaxJournal, todo : SUBSET Targets, at : {None} \cup Targets]
AppType == [pc : AppPc, slot : {None} \cup Scripts, checked : {None} \cup 0 .. MaxJournal,
            todo : SUBSET Targets]

LEMMA IdleType == Idle \in ScriptType /\ \A pc \in AppPc : AppAt(pc) \in AppType
BY DEF Idle, AppAt, ScriptType, ScriptPc, AppType

LEMMA TypeInit == Init => TypeOK
<1> SUFFICES ASSUME Init PROVE TypeOK
    OBVIOUS
<1>1. file \in [Targets -> Contents] /\ staged \in [Targets -> {"none", "part", "whole", "alien"}]
  <2> DEFINE clean == [t \in Targets |->
                         IF kind # "fresh" /\ t \in {Root(e) : e \in Execs} THEN kind ELSE "absent"]
  <2>1. clean \in [Targets -> Contents]
        BY DEF Init, Contents
  <2>2. \/ file = clean /\ staged = [t \in Targets |-> "none"]
        \/ \E t \in Targets :
             \/ file = [clean EXCEPT ![t] = "alien"] /\ staged = [u \in Targets |-> "none"]
             \/ file = clean /\ staged = [u \in Targets |-> IF u = t THEN "alien" ELSE "none"]
        BY DEF Init
  <2>. HIDE DEF clean
  <2>.  QED
        BY <2>1, <2>2 DEF Contents
<1>2. script \in [Scripts -> ScriptType] /\ app \in AppType
      BY IdleType DEF Init, AppPc
<1>3. journal \in 0 .. MaxJournal /\ crashes \in 0 .. MaxCrashes
      BY ConstantsAssumption DEF Init
<1>4. bound \in BOOLEAN
      BY DEF Init
<1>.  QED
      BY <1>1, <1>2, <1>3, <1>4 DEF Init, TypeOK, ScriptType, ScriptPc, AppType, AppPc

\* The actions of a script, with what they leave alone.
LEMMA ScriptSteps ==
  ASSUME NEW k \in Scripts, ScriptStep(k)
  PROVE  /\ UNCHANGED <<kind, journal, bound, checkpoint, app, stray, crashes>>
         /\ \/ Lock(k) \/ Validate(k) \/ NextTarget(k) \/ Stage(k) \/ Write(k) \/ Replace(k) \/ Published(k)
BY DEF ScriptStep

LEMMA RecordTypes ==
  ASSUME NEW s \in ScriptType, NEW pc \in ScriptPc, NEW todo \in SUBSET Targets, NEW t \in Targets,
         NEW arg \in {None} \cup 0 .. MaxJournal
  PROVE  /\ [s EXCEPT !.pc = pc] \in ScriptType
         /\ [s EXCEPT !.todo = todo] \in ScriptType
         /\ [s EXCEPT !.pc = pc, !.todo = todo] \in ScriptType
         /\ [s EXCEPT !.pc = pc, !.at = t] \in ScriptType
         /\ [s EXCEPT !.pc = pc, !.arg = arg] \in ScriptType
BY DEF ScriptType

\* NextTarget without its conditions.
LEMMA NextTargets ==
  ASSUME NEW k \in Scripts, NextTarget(k)
  PROVE  /\ script[k].pc = "next"
         /\ \E t \in Due(script[k].todo) :
              \/ /\ file[t] = Payload(script[k], t)
                 /\ script' = [script EXCEPT ![k] = [script[k] EXCEPT !.todo = script[k].todo \ {t}]]
                 /\ UNCHANGED <<file, staged, lock>>
              \/ /\ file[t] # Payload(script[k], t) /\ Publishable(script[k], t)
                 /\ script' = [script EXCEPT ![k] = [script[k] EXCEPT !.pc = "stage", !.at = t]]
                 /\ UNCHANGED <<file, staged, lock>>
              \/ Ends(k, "refused")
BY DEF NextTarget

LEMMA ScriptTypes ==
  ASSUME TypeOK, NEW k \in Scripts, ScriptStep(k)
  PROVE  TypeOK'
<1>1. /\ script \in [Scripts -> ScriptType]
      /\ file \in [Targets -> Contents]
      /\ staged \in [Targets -> {"none", "part", "whole", "alien"}]
      /\ lock \in {"free", "stray"} \cup Scripts
      /\ journal \in 0 .. MaxJournal
      BY DEF TypeOK, ScriptType, ScriptPc
<1>2. script[k] \in ScriptType
      BY <1>1
<1>3. SUFFICES /\ script' \in [Scripts -> ScriptType]
               /\ file' \in [Targets -> Contents]
               /\ staged' \in [Targets -> {"none", "part", "whole", "alien"}]
               /\ lock' \in {"free", "stray"} \cup Scripts
      BY ScriptSteps DEF TypeOK, ScriptType, ScriptPc
<1>4. ASSUME NEW pc \in ScriptPc, Ends(k, pc)
      PROVE  /\ script' \in [Scripts -> ScriptType]
             /\ lock' \in {"free", "stray"} \cup Scripts
             /\ UNCHANGED <<file, staged>>
      BY <1>1, <1>2, <1>4, RecordTypes DEF Ends, At, Locked, ScriptType
<1>5. ASSUME NEW s \in ScriptType, script' = [script EXCEPT ![k] = s]
      PROVE  script' \in [Scripts -> ScriptType]
      BY <1>1, <1>5
<1> USE DEF ScriptPc
<1>6. CASE Lock(k)
  <2>1. CASE lock = "free"
    <3>1. [script[k] EXCEPT !.pc = "validate"] \in ScriptType
          BY <1>2 DEF ScriptType
    <3>2. script' = [script EXCEPT ![k] = [script[k] EXCEPT !.pc = "validate"]]
          BY <1>6, <2>1 DEF Lock, At
    <3>.  QED
          BY <1>1, <1>5, <1>6, <2>1, <3>1, <3>2 DEF Lock
  <2>2. CASE lock # "free"
        BY <1>1, <1>4, <1>6, <2>2 DEF Lock
  <2>.  QED
        BY <2>1, <2>2
<1>7. CASE Validate(k)
  <2>1. /\ [script[k] EXCEPT !.pc = "ok", !.arg = journal] \in ScriptType
        /\ [script[k] EXCEPT !.pc = "next", !.todo = Targets] \in ScriptType
        BY <1>1, <1>2 DEF ScriptType
  <2>.  QED
        BY <1>1, <1>4, <1>5, <1>7, <2>1 DEF Validate
<1>8. CASE NextTarget(k)
  <2>1. \A t \in Due(script[k].todo) :
          /\ [script[k] EXCEPT !.todo = script[k].todo \ {t}] \in ScriptType
          /\ [script[k] EXCEPT !.pc = "stage", !.at = t] \in ScriptType
        BY <1>2 DEF Due, ScriptType
  <2>.  QED
        BY <1>1, <1>4, <1>5, <1>8, <2>1, NextTargets
<1>9. CASE Stage(k)
  <2>1. CASE Ends(k, "refused")
        BY <1>1, <1>4, <2>1
  <2>2. CASE ~Ends(k, "refused")
    <3>1. [script[k] EXCEPT !.pc = "write"] \in ScriptType
          BY <1>2 DEF ScriptType
    <3>2. /\ script' = [script EXCEPT ![k] = [script[k] EXCEPT !.pc = "write"]]
          /\ staged' \in [Targets -> {"none", "part", "whole", "alien"}]
          /\ UNCHANGED <<file, lock>>
          BY <1>1, <1>9, <2>2 DEF Stage, At
    <3>.  QED
          BY <1>1, <1>5, <3>1, <3>2
  <2>.  QED
        BY <2>1, <2>2
<1>10. CASE Write(k)
  <2>1. [script[k] EXCEPT !.pc = "replace"] \in ScriptType
        BY <1>2 DEF ScriptType
  <2>2. script' = [script EXCEPT ![k] = [script[k] EXCEPT !.pc = "replace"]]
        BY <1>10 DEF Write, At
  <2>.  QED
        BY <1>1, <1>5, <1>10, <2>1, <2>2 DEF Write
<1>11. CASE Replace(k)
  <2>1. Payload(script[k], script[k].at) \in Contents
        BY DEF Payload, Original, Contents
  <2>2. [script[k] EXCEPT !.pc = "next", !.todo = script[k].todo \ {script[k].at}] \in ScriptType
    <3>1. script[k].todo \ {script[k].at} \subseteq Targets
          BY <1>2 DEF ScriptType
    <3>.  QED
          BY <1>2, <3>1 DEF ScriptType
  <2>.  QED
        BY <1>1, <1>5, <1>11, <2>1, <2>2 DEF Replace
<1>12. CASE Published(k)
      BY <1>1, <1>4, <1>12 DEF Published
<1>.  QED
      BY <1>6, <1>7, <1>8, <1>9, <1>10, <1>11, <1>12, ScriptSteps

\* What is left of the scripts when some are killed.
LEMMA Killed ==
  ASSUME TypeOK, Prepare \/ Crash
  PROVE  /\ script' \in [Scripts -> ScriptType]
         /\ \A k \in Scripts : \/ script'[k] = script[k] /\ (lock = k => lock' = k)
                              \/ script'[k] = Idle
                              \/ script'[k] = [script[k] EXCEPT !.pc = "refused"]
         /\ lock' \in {lock, "free"}
<1> USE DEF TypeOK, ScriptType, ScriptPc
<1>1. CASE Prepare
      BY <1>1, IdleType DEF Prepare
<1>2. CASE Crash
      BY <1>2, IdleType DEF Crash
<1>.  QED
      BY <1>1, <1>2

LEMMA SpawnTypes ==
  ASSUME TypeOK, NEW mode \in {"empty", "snapshot", "checked"},
         NEW arg \in {None} \cup 0 .. MaxJournal, NEW pc \in AppPc, Spawn(mode, arg, pc)
  PROVE  script' \in [Scripts -> ScriptType] /\ app' \in AppType
<1>1. PICK k \in Scripts :
        /\ script' = [script EXCEPT ![k] = [Idle EXCEPT !.pc = "start", !.mode = mode, !.arg = arg]]
        /\ app' = [app EXCEPT !.pc = pc, !.slot = k]
      BY DEF Spawn
<1>2. [Idle EXCEPT !.pc = "start", !.mode = mode, !.arg = arg] \in ScriptType
      BY DEF Idle, ScriptType, ScriptPc
<1>3. app' \in AppType
      BY <1>1 DEF TypeOK, AppType, AppPc
<1>.  QED
      BY <1>1, <1>2, <1>3 DEF TypeOK, ScriptType, ScriptPc

LEMMA AnswerTypes ==
  ASSUME TypeOK, NEW pc, NEW next \in AppPc, app.slot \in Scripts, Answer(pc, next)
  PROVE  script' \in [Scripts -> ScriptType] /\ app' \in AppType
<1>1. script[app.slot] \in ScriptType
      BY DEF TypeOK, ScriptType, ScriptPc
<1>2. app' \in AppType
      BY <1>1 DEF Answer, AppAt, AppType, AppPc, ScriptType
<1>3. script' \in [Scripts -> ScriptType]
      BY IdleType DEF Answer, TypeOK, ScriptType, ScriptPc
<1>.  QED
      BY <1>2, <1>3

LEMMA AppTypes ==
  ASSUME TypeOK, SlotInv, AppStep
  PROVE  TypeOK'
<1>0. /\ UNCHANGED <<kind, journal, stray, crashes>>
      /\ \/ Prepare \/ Look \/ Unpack \/ Choose \/ Snapshot \/ Publish \/ Ask \/ SaveCheckpoint
         \/ Check \/ Migrate \/ Verify \/ Forget \/ Compare
      BY DEF AppStep
<1>1. CASE Prepare
      BY <1>0, <1>1, Killed DEF Prepare, TypeOK, ScriptType, ScriptPc, AppAt
<1> USE DEF TypeOK
<1>2. CASE Look
      BY <1>0, <1>2 DEF Look, AppAt, Root, Targets
<1>3. CASE Unpack
      BY <1>0, <1>3 DEF Unpack, AppAt, Contents
<1>4. CASE Choose
  <2>1. script' \in [Scripts -> ScriptType] /\ app' \in AppType
        BY <1>4, SpawnTypes DEF Choose, AppPc
  <2>.  QED
        BY <1>0, <1>4, <2>1 DEF Choose, ScriptType, ScriptPc, AppType, AppPc
<1>5. CASE Snapshot \/ Publish
  <2>1. app.slot \in Scripts
        BY <1>5 DEF Snapshot, Publish, Answer, SlotInv
  <2>2. script' \in [Scripts -> ScriptType] /\ app' \in AppType
        BY <1>5, <2>1, AnswerTypes DEF Snapshot, Publish, AppPc
  <2>.  QED
        BY <1>0, <1>5, <2>2 DEF Snapshot, Publish, Answer, ScriptType, ScriptPc, AppType, AppPc
<1>7. CASE Ask
      BY <1>0, <1>7 DEF Ask, AppAt
<1>8. CASE SaveCheckpoint
  <2>1. script' \in [Scripts -> ScriptType] /\ app' \in AppType
        BY <1>8, SpawnTypes DEF SaveCheckpoint, AppPc
  <2>.  QED
        BY <1>0, <1>8, <2>1 DEF SaveCheckpoint, ScriptType, ScriptPc, AppType, AppPc
<1>9. CASE Check \/ Verify
      BY <1>0, <1>9 DEF Check, Verify, Launched, AppAt
<1>10. CASE Migrate
      BY <1>0, <1>10 DEF Migrate, Launched, AppAt
<1>11. CASE Forget
      BY <1>0, <1>11 DEF Forget, AppAt
<1>12. CASE Compare
      BY <1>0, <1>12 DEF Compare, AppAt
<1>.  QED
      BY <1>0, <1>1, <1>2, <1>3, <1>4, <1>5, <1>7, <1>8, <1>9, <1>10, <1>11, <1>12

LEMMA TypeStep ==
  ASSUME TypeOK, SlotInv, [Next]_vars
  PROVE  TypeOK'
<1>1. ASSUME NEW k \in Scripts, ScriptStep(k)
      PROVE  TypeOK'
      BY <1>1, ScriptTypes
<1>2. ASSUME NEW k \in Scripts, Reap(k)
      PROVE  TypeOK'
      BY <1>2, IdleType DEF TypeOK, Reap, ScriptType, ScriptPc
<1>3. CASE AppStep
      BY <1>3, AppTypes
<1>4. CASE StrayStep
      BY <1>4 DEF TypeOK, StrayStep
<1>5. CASE Crash
  <2>1. crashes' \in 0 .. MaxCrashes
        BY <1>5, ConstantsAssumption DEF Crash, TypeOK
  <2>2. app' \in AppType
        BY <1>5, IdleType DEF Crash, TypeOK, AppType, AppPc
  <2>3. script' \in [Scripts -> ScriptType] /\ lock' \in {"free", "stray"} \cup Scripts
        BY <1>5, Killed DEF TypeOK
  <2>.  QED
        BY <1>5, <2>1, <2>2, <2>3 DEF Crash, TypeOK, ScriptType, ScriptPc, AppType, AppPc
<1>6. CASE UNCHANGED vars
      BY <1>6 DEF vars, TypeOK
<1>.  QED
      BY <1>1, <1>2, <1>3, <1>4, <1>5, <1>6 DEF Next

-----------------------------------------------------------------------------
(* The lock.                                                               *)

\* A step of a script is its own, keeps its mode, and takes the lock only if it is free.
LEMMA ScriptFrame ==
  ASSUME TypeOK, LockInv, NEW k \in Scripts, ScriptStep(k)
  PROVE  /\ \A j \in Scripts \ {k} : script'[j] = script[j]
         /\ script'[k].mode = script[k].mode
         /\ script'[k].pc \in Holding => lock' = k
         /\ \/ lock' = lock
            \/ lock' = k /\ lock = "free"
            \/ lock = k /\ lock' = "free"
<1> USE DEF Holding, Publishing, Ends, At, Locked
<1>0. /\ script \in [Scripts -> ScriptType]
      /\ script[k].pc \in Holding => lock = k
      BY DEF TypeOK, ScriptType, ScriptPc, LockInv
<1> USE <1>0 DEF ScriptType
<1>1. CASE Lock(k)
      BY <1>1 DEF Lock
<1>2. CASE Validate(k)
  <2>1. CASE Ends(k, "refused")
        BY <2>1
  <2>2. CASE ~Ends(k, "refused")
        BY <1>2, <2>2 DEF Validate
  <2>.  QED
        BY <2>1, <2>2
<1>3. CASE NextTarget(k)
  <2>1. CASE Ends(k, "refused")
        BY <2>1
  <2>2. ASSUME NEW t, lock' = lock,
               script' = [script EXCEPT ![k] = [script[k] EXCEPT !.todo = script[k].todo \ {t}]]
        PROVE  /\ script'[k].mode = script[k].mode /\ script'[k].pc = script[k].pc
               /\ \A j \in Scripts \ {k} : script'[j] = script[j]
        BY <2>2
  <2>3. ASSUME NEW t, lock' = lock,
               script' = [script EXCEPT ![k] = [script[k] EXCEPT !.pc = "stage", !.at = t]]
        PROVE  /\ script'[k].mode = script[k].mode
               /\ \A j \in Scripts \ {k} : script'[j] = script[j]
        BY <2>3
  <2>.  QED
        BY <1>3, <2>1, <2>2, <2>3, NextTargets
<1>4. CASE Stage(k)
      BY <1>4 DEF Stage
<1>5. CASE Write(k)
      BY <1>5 DEF Write
<1>6. CASE Replace(k)
      BY <1>6 DEF Replace
<1>7. CASE Published(k)
      BY <1>7 DEF Published
<1>.  QED
      BY <1>1, <1>2, <1>3, <1>4, <1>5, <1>6, <1>7, ScriptSteps

\* What everybody else does to a script: start it, end it, or leave it its lock.
Elsewhere == (\E k \in Scripts : Reap(k)) \/ AppStep \/ StrayStep \/ Crash \/ UNCHANGED vars

Undisturbed ==
  /\ \A k \in Scripts : script'[k].pc \in Holding => script'[k] = script[k] /\ lock' = k
  /\ stray' = "holds" => lock' = "stray"
  /\ kind' = kind

LEMMA OtherFrame ==
  ASSUME TypeOK, SlotInv, LockInv, Elsewhere
  PROVE  Undisturbed
<1> USE DEF Holding, Publishing, Undisturbed
<1>0. script \in [Scripts -> ScriptType]
      BY DEF TypeOK, ScriptType, ScriptPc
<1>1. ASSUME NEW k \in Scripts, Reap(k)
      PROVE  Undisturbed
      BY <1>0, <1>1 DEF Reap, Idle, LockInv
<1>2. CASE (Prepare /\ UNCHANGED <<kind, stray>>) \/ Crash
  <2>1. \A k \in Scripts : \/ script'[k] = script[k] /\ (lock = k => lock' = k)
                          \/ script'[k] = Idle
                          \/ script'[k] = [script[k] EXCEPT !.pc = "refused"]
        BY <1>2, Killed
  <2>2. (lock = "stray" => lock' = "stray") /\ UNCHANGED <<kind, stray>>
        BY <1>2, ConstantsAssumption DEF Prepare, Crash
  <2>3. ASSUME NEW k \in Scripts, script'[k].pc \in Holding
        PROVE  script'[k] = script[k] /\ lock' = k
    <3>1. script'[k] # Idle /\ script'[k] # [script[k] EXCEPT !.pc = "refused"]
          BY <1>0, <2>3 DEF Idle, ScriptType
    <3>.  QED
          BY <2>1, <2>3, <3>1 DEF LockInv
  <2>.  QED
        BY <2>2, <2>3 DEF LockInv
<1>3. ASSUME UNCHANGED <<script, lock, kind, stray>>
      PROVE  Undisturbed
      BY <1>3 DEF LockInv
<1>4. ASSUME NEW mode, NEW arg, NEW pc, Spawn(mode, arg, pc), UNCHANGED <<lock, kind, stray>>
      PROVE  Undisturbed
      BY <1>0, <1>4 DEF Spawn, Idle, LockInv
<1>5. ASSUME NEW pc, NEW next, Answer(pc, next), UNCHANGED <<lock, kind, stray>>
      PROVE  Undisturbed
      BY <1>0, <1>5 DEF Answer, Idle, LockInv
<1>6. CASE AppStep
  <2>1. UNCHANGED <<kind, stray>>
        BY <1>6 DEF AppStep
  <2>2. CASE Prepare
        BY <1>2, <2>1, <2>2
  <2>3. CASE Choose
        BY <1>4, <2>1, <2>3 DEF Choose
  <2>4. CASE SaveCheckpoint
        BY <1>4, <2>1, <2>4 DEF SaveCheckpoint
  <2>5. CASE Snapshot \/ Publish
        BY <1>5, <2>1, <2>5 DEF Snapshot, Publish, Answer
  <2>6. CASE Look \/ Unpack \/ Ask \/ Check \/ Migrate \/ Verify \/ Forget \/ Compare
        BY <1>3, <2>1, <2>6 DEF Look, Unpack, Ask, Check, Migrate, Verify, Forget, Compare
  <2>.  QED
        BY <1>6, <2>2, <2>3, <2>4, <2>5, <2>6 DEF AppStep
<1>7. CASE StrayStep
      BY <1>7, ConstantsAssumption DEF StrayStep, LockInv
<1>8. CASE UNCHANGED vars
      BY <1>3, <1>8 DEF vars
<1>.  QED
      BY <1>1, <1>2, <1>6, <1>7, <1>8 DEF Elsewhere

LEMMA LockStep ==
  ASSUME TypeOK, SlotInv, LockInv, [Next]_vars
  PROVE  LockInv'
<1>1. ASSUME NEW k \in Scripts, ScriptStep(k)
      PROVE  LockInv'
  <2>1. stray' = stray
        BY <1>1, ScriptSteps
  <2>2. \A j \in Scripts \ {k} : script'[j].pc \in Holding => lock' = j
    <3>1. ASSUME NEW j \in Scripts \ {k}, script'[j].pc \in Holding
          PROVE  lock' = j
      <4>1. lock = j
            BY <1>1, <3>1, ScriptFrame DEF LockInv
      <4>2. lock # k /\ lock # "free"
            BY <4>1, ConstantsAssumption
      <4>.  QED
            BY <1>1, <4>1, <4>2, ScriptFrame
    <3>.  QED
          BY <3>1
  <2>3. stray' = "holds" => lock' = "stray"
    <3>1. CASE stray = "holds"
      <4>1. lock = "stray" /\ lock # k /\ lock # "free"
            BY <3>1, ConstantsAssumption DEF LockInv
      <4>.  QED
            BY <1>1, <4>1, ScriptFrame
    <3>.  QED
          BY <2>1, <3>1
  <2>4. script'[k].pc \in Holding => lock' = k
        BY <1>1, ScriptFrame
  <2>.  QED
        BY <2>2, <2>3, <2>4 DEF LockInv
<1>2. CASE Elsewhere
      BY <1>2, OtherFrame DEF Undisturbed, LockInv
<1>.  QED
      BY <1>1, <1>2 DEF Next, Elsewhere

-----------------------------------------------------------------------------
(* The files.                                                              *)

LEMMA Payloads ==
  /\ \A s, n : Payload(s, Root(n)) = "new" /\ Payload(s, Backup(n)) = Original(s.mode)
  /\ \A mode : Original(mode) \in {"16c", "43b"}
BY DEF Payload, Root, Backup, Original

\* Only the replacement by a script for the root's originals, and tar, write a target.
LEMMA FileFrame ==
  ASSUME TypeOK, NEW k \in Scripts, ScriptStep(k)
  PROVE  \/ file' = file
         \/ /\ Replace(k)
            /\ file' = [file EXCEPT ![script[k].at] = Payload(script[k], script[k].at)]
BY ScriptSteps, NextTargets DEF Lock, Validate, Stage, Write, Replace, Published, Ends

LEMMA OtherFiles ==
  ASSUME Elsewhere
  PROVE  file' = file \/ (AppStep /\ Unpack)
<1>1. ASSUME NEW k \in Scripts, Reap(k)
      PROVE  file' = file
      BY <1>1 DEF Reap
<1>2. CASE AppStep
      BY <1>2 DEF AppStep, Prepare, Look, Choose, Snapshot, Publish, Answer, Ask, SaveCheckpoint,
                  Check, Migrate, Verify, Forget, Compare
<1>3. CASE StrayStep \/ Crash \/ UNCHANGED vars
      BY <1>3 DEF StrayStep, Crash, vars
<1>.  QED
      BY <1>1, <1>2, <1>3 DEF Elsewhere

\* Whoever has the lock of the root sees the journals stay as they are.
LEMMA JournalFrame ==
  ASSUME LockInv, [Next]_vars
  PROVE  \/ journal' = journal
         \/ /\ stray = "holds" /\ lock = "stray" /\ Has(kind)
            /\ journal' \in (journal + 1) .. MaxJournal
            /\ StrayStep
<1>1. ASSUME NEW k \in Scripts, ScriptStep(k) \/ Reap(k)
      PROVE  journal' = journal
      BY <1>1, ScriptSteps DEF Reap
<1>2. CASE AppStep \/ Crash \/ UNCHANGED vars
      BY <1>2 DEF AppStep, Crash, vars
<1>3. CASE StrayStep
      BY <1>3 DEF StrayStep, LockInv
<1>.  QED
      BY <1>1, <1>2, <1>3 DEF Next

\* Nothing is published by a script for other originals than the root's.
LEMMA WrongOriginals ==
  ASSUME TypeOK, FileInv, NEW k \in Scripts, NextTarget(k),
         script[k].todo = Targets, Original(script[k].mode) # kind
  PROVE  Ends(k, "refused")
<1>1. PICK t \in Due(script[k].todo) :
         \/ file[t] = Payload(script[k], t)
         \/ Publishable(script[k], t)
         \/ Ends(k, "refused")
      BY NextTargets
<1>2. PICK e \in Execs : t = Backup(e)
      BY DueTargets, TargetNames, ConstantsAssumption
<1>3. Payload(script[k], t) = Original(script[k].mode) /\ Original(script[k].mode) \in {"16c", "43b"}
      BY <1>2, Payloads
<1>4. file[t] # Payload(script[k], t)
      BY <1>2, <1>3 DEF FileInv
<1>5. e \in Names /\ file[Root(e)] # Original(script[k].mode)
  <2>1. e \in Names
        BY TargetNames
  <2>.  QED
        BY <1>3, <2>1 DEF FileInv
<1>6. ~Publishable(script[k], t)
      BY <1>2, <1>5 DEF Publishable, Backup
<1>.  QED
      BY <1>1, <1>4, <1>6

\* The script that moves.
LEMMA OwnScript ==
  ASSUME TypeOK, LockInv, FileInv, NEW k \in Scripts, ScriptStep(k), ScriptInv(k)
  PROVE  ScriptInv(k)'
<1>0. /\ script \in [Scripts -> ScriptType] /\ script[k] \in ScriptType
      /\ journal' = journal /\ kind' = kind
      BY ScriptSteps DEF TypeOK, ScriptType, ScriptPc
<1> USE DEF Publishing, Writing
<1>1. ASSUME NEW pc \in {"validate", "refused", "ok"}, script'[k].pc = pc
      PROVE  ScriptInv(k)'
      BY <1>1 DEF ScriptInv
<1>2. ASSUME NEW pc \in ScriptPc, Ends(k, pc)
      PROVE  script'[k].pc = pc
      BY <1>0, <1>2 DEF Ends, At, ScriptType
<1>3. CASE Lock(k)
  <2>1. script'[k].pc \in {"validate", "refused"}
        BY <1>0, <1>2, <1>3 DEF Lock, At, ScriptType, ScriptPc
  <2>.  QED
        BY <1>1, <2>1
<1>4. CASE Validate(k)
  <2>1. CASE script'[k].pc = "ok"
        BY <1>1, <2>1
  <2>2. CASE Ends(k, "refused")
        BY <1>1, <1>2, <2>2 DEF ScriptPc
  <2>3. CASE /\ script' = [script EXCEPT ![k] = [script[k] EXCEPT !.pc = "next", !.todo = Targets]]
             /\ script[k].mode # "snapshot" /\ StateAccepted(script[k])
    <3>1. script'[k] = [script[k] EXCEPT !.pc = "next", !.todo = Targets]
          BY <1>0, <2>3
    <3>2. /\ script'[k].pc = "next" /\ script'[k].todo = Targets
          /\ script'[k].mode = script[k].mode /\ script'[k].arg = script[k].arg
          BY <1>0, <3>1 DEF ScriptType
    <3>.  QED
          BY <1>0, <2>3, <3>2 DEF ScriptInv, StateAccepted
  <2>.  QED
        BY <1>0, <1>4, <2>1, <2>2, <2>3 DEF Validate, ScriptType
<1>5. CASE NextTarget(k)
  <2>1. CASE Original(script[k].mode) # kind
    <3>1. script[k].todo = Targets
          BY <1>5, <2>1, NextTargets DEF ScriptInv
    <3>.  QED
          BY <1>1, <1>2, <1>5, <2>1, <3>1, WrongOriginals DEF ScriptPc
  <2>2. CASE Original(script[k].mode) = kind
    <3>1. CASE Ends(k, "refused")
          BY <1>1, <1>2, <3>1 DEF ScriptPc
    <3>2. ASSUME NEW t \in Due(script[k].todo), UNCHANGED file, file[t] = Payload(script[k], t),
                 script' = [script EXCEPT ![k] = [script[k] EXCEPT !.todo = script[k].todo \ {t}]]
          PROVE  ScriptInv(k)'
      <4>1. script'[k] = [script[k] EXCEPT !.todo = script[k].todo \ {t}]
            BY <1>0, <3>2
      <4>2. /\ script'[k].pc = "next" /\ script'[k].todo = script[k].todo \ {t}
            /\ script'[k].mode = script[k].mode /\ script'[k].arg = script[k].arg
            BY <1>0, <1>5, <4>1, NextTargets DEF ScriptType
      <4>.  QED
            BY <1>0, <1>5, <2>2, <3>2, <4>2, NextTargets DEF ScriptInv, StateAccepted, Payload
    <3>3. ASSUME NEW t \in Due(script[k].todo), UNCHANGED file,
                 script' = [script EXCEPT ![k] = [script[k] EXCEPT !.pc = "stage", !.at = t]]
          PROVE  ScriptInv(k)'
      <4>1. script'[k] = [script[k] EXCEPT !.pc = "stage", !.at = t]
            BY <1>0, <3>3
      <4>2. /\ script'[k].pc = "stage" /\ script'[k].todo = script[k].todo /\ script'[k].at = t
            /\ script'[k].mode = script[k].mode /\ script'[k].arg = script[k].arg
            BY <1>0, <4>1 DEF ScriptType
      <4>.  QED
            BY <1>0, <1>5, <2>2, <3>3, <4>2, NextTargets DEF ScriptInv, StateAccepted, Payload, Due
    <3>.  QED
          BY <1>5, <3>1, <3>2, <3>3, NextTargets
  <2>.  QED
        BY <2>1, <2>2
<1>6. ASSUME NEW pc \in {"write", "replace"}, script[k].pc \in Writing, At(k, pc), UNCHANGED file
      PROVE  ScriptInv(k)'
  <2>1. script'[k] = [script[k] EXCEPT !.pc = pc]
        BY <1>0, <1>6 DEF At
  <2>2. /\ script'[k].pc = pc /\ script'[k].todo = script[k].todo /\ script'[k].at = script[k].at
        /\ script'[k].mode = script[k].mode /\ script'[k].arg = script[k].arg
        BY <1>0, <2>1 DEF ScriptType
  <2>.  QED
        BY <1>0, <1>6, <2>2 DEF ScriptInv, StateAccepted, Payload, Due
<1>7. CASE Stage(k)
      BY <1>1, <1>2, <1>6, <1>7 DEF Stage, ScriptPc
<1>8. CASE Write(k)
      BY <1>6, <1>8 DEF Write
<1>9. CASE Replace(k)
  <2> DEFINE t == script[k].at
  <2>1. /\ script[k].pc = "replace"
        /\ file' = [file EXCEPT ![t] = Payload(script[k], t)]
        /\ script'[k] = [script[k] EXCEPT !.pc = "next", !.todo = script[k].todo \ {t}]
        BY <1>0, <1>9 DEF Replace
  <2>2. /\ script'[k].pc = "next" /\ script'[k].todo = script[k].todo \ {t}
        /\ script'[k].mode = script[k].mode /\ script'[k].arg = script[k].arg
        BY <1>0, <2>1 DEF ScriptType
  <2>3. /\ Original(script[k].mode) = kind /\ script[k].mode # "snapshot" /\ StateAccepted(script[k])
        /\ \A u \in Targets \ script[k].todo : file[u] = Payload(script[k], u)
        BY <2>1 DEF ScriptInv
  <2>4. \A u \in Targets \ script'[k].todo : file'[u] = Payload(script'[k], u)
    <3>1. \A u \in Targets : Payload(script'[k], u) = Payload(script[k], u)
          BY <2>2 DEF Payload
    <3>2. file \in [Targets -> Contents]
          BY DEF TypeOK
    <3>.  QED
          BY <2>1, <2>2, <2>3, <3>1, <3>2
  <2>.  QED
        BY <1>0, <2>2, <2>3, <2>4 DEF ScriptInv, StateAccepted
<1>10. CASE Published(k)
      BY <1>1, <1>2, <1>10 DEF Published, ScriptPc
<1>.  QED
      BY <1>3, <1>4, <1>5, <1>7, <1>8, <1>9, <1>10, ScriptSteps

\* Somebody else's step, seen by a script: nobody writes a target while it holds the lock.
LEMMA OtherScript ==
  ASSUME TypeOK, SlotInv, PublicationInv, [Next]_vars, NEW k \in Scripts,
         Elsewhere \/ \E j \in Scripts \ {k} : ScriptStep(j)
  PROVE  ScriptInv(k)'
<1> USE DEF Publishing, Writing, Holding
<1>1. LockInv /\ UnpackInv /\ ScriptInv(k)
      BY DEF PublicationInv
<1>2. SUFFICES ASSUME script'[k].pc \in Publishing
               PROVE  ScriptInv(k)'
      BY DEF ScriptInv
<1>3. /\ script'[k] = script[k] /\ kind' = kind
      BY <1>1, <1>2, OtherFrame, ScriptFrame, ScriptSteps DEF Undisturbed
<1>4. lock = k
      BY <1>1, <1>2, <1>3 DEF LockInv
<1>5. journal' = journal
      BY <1>1, <1>4, JournalFrame, ConstantsAssumption
<1>6. file' = file \/ kind = "fresh"
  <2>1. ASSUME NEW j \in Scripts \ {k}, ScriptStep(j)
        PROVE  file' = file
    <3>1. ASSUME Replace(j)
          PROVE  FALSE
      <4>1. script[j].pc = "replace"
            BY <3>1 DEF Replace
      <4>.  QED
            BY <1>1, <1>4, <4>1 DEF LockInv
    <3>.  QED
          BY <2>1, <3>1, FileFrame
  <2>2. CASE Elsewhere
        BY <1>1, <2>2, OtherFiles DEF Unpack, UnpackInv
  <2>.  QED
        BY <2>1, <2>2
<1>7. kind = "fresh" => script[k].todo = Targets
      BY <1>1, <1>2, <1>3, Payloads DEF ScriptInv
<1>.  QED
      BY <1>1, <1>3, <1>5, <1>6, <1>7 DEF ScriptInv, StateAccepted, Payload, Due

\* A script replaces a target by what belongs there, backups and libraries before executables.
LEMMA Replaces ==
  ASSUME TypeOK, PublicationInv, NEW k \in Scripts, Replace(k)
  PROVE  LET t == script[k].at IN
         /\ kind # "fresh" /\ Original(script[k].mode) = kind
         /\ file' = [file EXCEPT ![t] = Payload(script[k], t)]
         /\ t \in Targets
         /\ \A e \in Execs : t = Root(e) =>
              /\ \A f \in Execs : file[Backup(f)] = kind
              /\ \A l \in Libs : file[Root(l)] = "new"
<1> DEFINE t == script[k].at
<1>1. script[k].pc = "replace" /\ file' = [file EXCEPT ![t] = Payload(script[k], t)]
      BY DEF Replace
<1>2. /\ Original(script[k].mode) = kind
      /\ t \in Due(script[k].todo)
      /\ \A u \in Targets \ script[k].todo : file[u] = Payload(script[k], u)
      BY <1>1 DEF PublicationInv, ScriptInv, Publishing, Writing
<1>3. kind # "fresh"
      BY <1>2, Payloads
<1>4. script[k].todo \in SUBSET Targets
      BY DEF TypeOK
<1>5. t \in Targets
      BY <1>2, <1>4, DueTargets
<1>6. ASSUME NEW e \in Execs, t = Root(e)
      PROVE  /\ \A f \in Execs : file[Backup(f)] = kind
             /\ \A l \in Libs : file[Root(l)] = "new"
  <2>1. /\ \A f \in Execs : Backup(f) \in Targets \ script[k].todo
        /\ \A l \in Libs : Root(l) \in Targets \ script[k].todo
        BY <1>2, <1>4, <1>6, DueTargets, TargetNames
  <2>.  QED
        BY <1>2, <2>1, Payloads
<1>.  QED
      BY <1>1, <1>2, <1>3, <1>5, <1>6

\* What tar does, and when.
LEMMA Unpacks ==
  ASSUME TypeOK, UnpackInv, Unpack
  PROVE  /\ kind = "fresh"
         /\ \/ /\ app.todo = {} /\ file' = file /\ app'.pc # "unpack"
            \/ \E t \in Due(app.todo), n \in Names :
                 /\ t = Root(n)
                 /\ \/ /\ file[t] = "torn" /\ file' = [file EXCEPT ![t] = "new"]
                       /\ app'.pc = "unpack" /\ app'.todo = app.todo \ {t}
                    \/ file[t] # "torn" /\ file' = [file EXCEPT ![t] = "torn"] /\ app' = app
<1>1. app.pc = "unpack" /\ kind = "fresh" /\ app.todo \subseteq {Root(n) : n \in Names}
      BY DEF Unpack, UnpackInv
<1>2. app \in AppType
      BY DEF TypeOK, AppType, AppPc
<1>3. CASE app.todo = {}
      BY <1>1, <1>3 DEF Unpack, AppAt
<1>4. CASE app.todo # {}
  <2>1. PICK t \in Due(app.todo) :
          \/ file[t] = "torn" /\ file' = [file EXCEPT ![t] = "new"] /\ app' = [app EXCEPT !.todo = @ \ {t}]
          \/ file[t] # "torn" /\ file' = [file EXCEPT ![t] = "torn"] /\ app' = app
        BY <1>4 DEF Unpack
  <2>2. PICK n \in Names : t = Root(n)
        BY <1>1 DEF Due
  <2>3. app' = [app EXCEPT !.todo = @ \ {t}] => app'.pc = "unpack" /\ app'.todo = app.todo \ {t}
        BY <1>1, <1>2 DEF AppType
  <2>.  QED
        BY <1>1, <2>1, <2>2, <2>3
<1>.  QED
      BY <1>3, <1>4

\* The ways in which the files change.
LEMMA FileSteps ==
  ASSUME TypeOK, SlotInv, PublicationInv, [Next]_vars
  PROVE  /\ kind' = kind
         /\ \/ file' = file
            \/ AppStep /\ Unpack
            \/ \E k \in Scripts : ScriptStep(k) /\ Replace(k)
<1>1. LockInv
      BY DEF PublicationInv
<1>2. ASSUME NEW k \in Scripts, ScriptStep(k)
      PROVE  kind' = kind /\ (file' = file \/ Replace(k))
      BY <1>2, ScriptSteps, FileFrame
<1>3. CASE Elsewhere
      BY <1>1, <1>3, OtherFrame, OtherFiles DEF Undisturbed
<1>.  QED
      BY <1>2, <1>3 DEF Next, Elsewhere

LEMMA FileStep ==
  ASSUME TypeOK, SlotInv, PublicationInv, [Next]_vars
  PROVE  FileInv'
<1>1. FileInv /\ UnpackInv /\ kind' = kind
      BY FileSteps DEF PublicationInv
<1>2. file \in [Targets -> Contents]
      BY DEF TypeOK
<1>3. CASE file' = file
      BY <1>1, <1>3 DEF FileInv
<1>4. CASE Unpack
  <2>1. CASE file' = file
        BY <1>3, <2>1
  <2>2. ASSUME NEW n \in Names, NEW c \in {"torn", "new"}, kind = "fresh", file' = [file EXCEPT ![Root(n)] = c]
        PROVE  FileInv'
    <3>1. \A e \in Execs : file'[Backup(e)] = file[Backup(e)]
          BY <1>2, <2>2, TargetNames
    <3>2. \A m \in Names : file'[Root(m)] \in {file[Root(m)], c}
          BY <1>2, <2>2, TargetNames
    <3>.  QED
          BY <1>1, <2>2, <3>1, <3>2 DEF FileInv
  <2>.  QED
        BY <1>1, <1>4, <2>1, <2>2, Unpacks
<1>5. ASSUME NEW k \in Scripts, Replace(k)
      PROVE  FileInv'
  <2> DEFINE t == script[k].at
  <2>1. /\ kind # "fresh" /\ Original(script[k].mode) = kind /\ t \in Targets
        /\ file' = [file EXCEPT ![t] = Payload(script[k], t)]
        BY <1>5, Replaces
  <2>2. \A e \in Execs : file'[Backup(e)] \in {file[Backup(e)], kind}
        BY <1>2, <2>1, TargetNames, Payloads
  <2>3. \A n \in Names : file'[Root(n)] \in {file[Root(n)], "new"}
        BY <1>2, <2>1, TargetNames, Payloads
  <2>.  QED
        BY <1>1, <2>1, <2>2, <2>3 DEF FileInv
<1>.  QED
      BY <1>3, <1>4, <1>5, FileSteps

LEMMA OrderStep ==
  ASSUME TypeOK, SlotInv, PublicationInv, [Next]_vars
  PROVE  PublicationIsOrdered'
<1>1. PublicationIsOrdered /\ UnpackInv /\ kind' = kind
      BY FileSteps DEF PublicationInv
<1>2. file \in [Targets -> Contents]
      BY DEF TypeOK
<1>3. CASE file' = file
      BY <1>1, <1>3 DEF PublicationIsOrdered, Upgraded
<1>4. CASE Unpack
      BY <1>1, <1>4, Unpacks DEF PublicationIsOrdered, Upgraded
<1>5. ASSUME NEW k \in Scripts, Replace(k)
      PROVE  PublicationIsOrdered'
  <2> DEFINE t == script[k].at
  <2>1. /\ kind # "fresh" /\ Original(script[k].mode) = kind /\ t \in Targets
        /\ file' = [file EXCEPT ![t] = Payload(script[k], t)]
        /\ \A e \in Execs : t = Root(e) =>
             /\ \A f \in Execs : file[Backup(f)] = kind
             /\ \A l \in Libs : file[Root(l)] = "new"
        BY <1>5, Replaces
  <2>2. /\ \A f \in Execs : file[Backup(f)] = kind => file'[Backup(f)] = kind
        /\ \A n \in Names : file[Root(n)] = "new" => file'[Root(n)] = "new"
        BY <1>2, <2>1, TargetNames, Payloads
  <2>3. \A e \in Execs : file'[Root(e)] = "new" => file[Root(e)] = "new" \/ t = Root(e)
        BY <1>2, <2>1, TargetNames
  <2>4. ASSUME NEW e \in Execs, Upgraded(e)'
        PROVE  file'[Backup(e)] = kind /\ \A l \in Libs : file'[Root(l)] = "new"
    <3>1. file[Backup(e)] = kind /\ \A l \in Libs : file[Root(l)] = "new"
          BY <1>1, <2>1, <2>3, <2>4 DEF PublicationIsOrdered, Upgraded
    <3>.  QED
          BY <2>2, <3>1, TargetNames
  <2>.  QED
        BY <1>1, <2>4 DEF PublicationIsOrdered
<1>.  QED
      BY <1>3, <1>4, <1>5, FileSteps

\* How the app comes to unpack.
LEMMA AppPath ==
  ASSUME TypeOK, SlotInv, [Next]_vars, app'.pc = "unpack"
  PROVE  \/ app' = app
         \/ AppStep /\ Unpack
         \/ /\ AppStep /\ Look /\ file' = file
            /\ file[Root(Cli)] = "absent" /\ app'.todo = {Root(n) : n \in Names}
<1>1. CASE AppStep
  <2>1. app \in AppType
        BY DEF TypeOK, AppType, AppPc
  <2>2. ASSUME NEW mode, NEW arg, NEW pc, pc # "unpack", Spawn(mode, arg, pc)
        PROVE  FALSE
        BY <2>1, <2>2 DEF Spawn, AppType
  <2>3. ~Choose /\ ~SaveCheckpoint
        BY <2>2 DEF Choose, SaveCheckpoint
  <2>4. ~Prepare /\ ~Snapshot /\ ~Publish /\ ~Check /\ ~Migrate /\ ~Verify /\ ~Forget /\ ~Compare
        BY DEF Prepare, Snapshot, Publish, Answer, Check, Migrate, Verify, Launched, Forget, Compare, AppAt
  <2>5. ~Ask
        BY <2>1 DEF Ask, AppAt, AppType
  <2>6. CASE Look
        BY <1>1, <2>6 DEF Look, AppAt
  <2>.  QED
        BY <1>1, <2>3, <2>4, <2>5, <2>6 DEF AppStep
<1>2. ASSUME NEW k \in Scripts, ScriptStep(k) \/ Reap(k)
      PROVE  app' = app
      BY <1>2, ScriptSteps DEF Reap
<1>3. CASE StrayStep \/ Crash \/ UNCHANGED vars
      BY <1>3 DEF StrayStep, Crash, vars, AppAt
<1>.  QED
      BY <1>1, <1>2, <1>3 DEF Next

LEMMA UnpackStep ==
  ASSUME TypeOK, SlotInv, PublicationInv, [Next]_vars
  PROVE  UnpackInv'
<1>1. UnpackInv /\ LockInv /\ FileInv /\ kind' = kind
      BY FileSteps DEF PublicationInv
<1>2. file \in [Targets -> Contents] /\ app \in AppType
      BY DEF TypeOK, AppType, AppPc
<1>3. kind = "fresh" => journal' = 0 /\ stray' = "gone"
  <2>1. stray = "gone" => stray' = "gone"
    <3>1. ASSUME NEW k \in Scripts, ScriptStep(k) \/ Reap(k)
          PROVE  stray' = stray
          BY <3>1, ScriptSteps DEF Reap
    <3>.  QED
          BY <3>1 DEF Next, AppStep, StrayStep, Crash, vars
  <2>.  QED
        BY <1>1, <2>1, JournalFrame DEF UnpackInv
<1>4. CASE file' = file /\ ~Unpack
  <2>1. CASE app' = app
        BY <1>1, <1>3, <1>4, <2>1 DEF UnpackInv
  <2>2. CASE app'.pc # "unpack"
        BY <1>1, <1>3, <1>4, <2>2 DEF UnpackInv
  <2>3. CASE app'.pc = "unpack" /\ file[Root(Cli)] = "absent" /\ app'.todo = {Root(n) : n \in Names}
    <3>1. kind = "fresh"
      <4>1. kind \in {"fresh", "16c", "43b"} /\ Cli \in Execs /\ Cli \in Names
            BY ConstantsAssumption, TargetNames DEF TypeOK
      <4>.  QED
            BY <1>1, <2>3, <4>1 DEF FileInv
    <3>2. \A e \in Execs : file[Root(e)] = "absent" /\ Root(e) \in app'.todo
          BY <1>1, <2>3, <3>1, TargetNames DEF UnpackInv
    <3>.  QED
          BY <1>1, <1>3, <1>4, <2>3, <3>1, <3>2, ConstantsAssumption DEF UnpackInv
  <2>.  QED
        BY <1>4, <2>1, <2>2, <2>3, AppPath
<1>5. CASE Unpack
  <2>1. kind = "fresh" /\ app.pc = "unpack"
        BY <1>1, <1>5, Unpacks DEF Unpack
  <2>2. CASE app.todo = {} /\ file' = file /\ app'.pc # "unpack"
        BY <1>1, <1>3, <2>2 DEF UnpackInv
  <2>3. ASSUME NEW t \in Due(app.todo), NEW n \in Names, t = Root(n),
               \/ /\ file' = [file EXCEPT ![t] = "new"]
                  /\ app'.pc = "unpack" /\ app'.todo = app.todo \ {t}
               \/ file' = [file EXCEPT ![t] = "torn"] /\ app' = app
        PROVE  UnpackInv'
    <3>1. /\ app'.pc = "unpack" /\ app'.todo \subseteq app.todo
          /\ app.todo \ app'.todo \subseteq {t}
          BY <2>1, <2>3
    <3>2. /\ app.todo \in SUBSET Targets
          /\ app.todo \subseteq {Root(m) : m \in Names}
          BY <1>1, <2>1, TargetNames DEF UnpackInv
    <3>3. t \in app.todo /\ \A e \in Execs : t = Root(e) /\ Root(Cli) \in app.todo => e = Cli
          BY <2>3, <3>2, DueTargets
    <3>4. \A m \in Names : m # n => file'[Root(m)] = file[Root(m)]
          BY <1>2, <2>3, TargetNames
    <3>5. file'[t] = (IF t \in app'.todo THEN "torn" ELSE "new")
          BY <1>2, <2>3, <3>2, <3>3
    <3>6. Root(Cli) \notin app'.todo => file'[Root(Cli)] = "new"
          BY <1>1, <2>1, <2>3, <3>1, <3>4, <3>5, TargetNames DEF UnpackInv
    <3>7. \A e \in Execs : Root(e) \in app'.todo => file'[Root(e)] # "new"
          BY <1>1, <2>1, <2>3, <3>1, <3>4, <3>5, TargetNames DEF UnpackInv
    <3>8. Root(Cli) \in app'.todo =>
            \A e \in Execs \ {Cli} : Root(e) \in app'.todo /\ file'[Root(e)] = "absent"
          BY <1>1, <2>1, <2>3, <3>1, <3>3, <3>4, TargetNames DEF UnpackInv
    <3>9. file'[Root(Cli)] = "absent" => \A e \in Execs : file'[Root(e)] = "absent"
          BY <2>3, <3>5, <3>6, <3>8, TargetNames
    <3>.  QED
          BY <1>1, <1>3, <2>1, <3>1, <3>2, <3>6, <3>7, <3>8, <3>9 DEF UnpackInv
  <2>.  QED
        BY <1>1, <1>5, <2>2, <2>3, Unpacks
<1>6. ASSUME NEW k \in Scripts, ScriptStep(k), Replace(k)
      PROVE  UnpackInv'
  <2>1. kind # "fresh"
        BY <1>6, Replaces
  <2>2. app' = app
        BY <1>6, ScriptSteps
  <2>.  QED
        BY <1>1, <2>1, <2>2 DEF UnpackInv
<1>.  QED
      BY <1>4, <1>5, <1>6, FileSteps

-----------------------------------------------------------------------------
(* The app and its script.                                                 *)

LEMMA SlotStep ==
  ASSUME TypeOK, SlotInv, LockInv, [Next]_vars
  PROVE  SlotInv'
<1>0. /\ app \in AppType /\ script \in [Scripts -> ScriptType]
      BY DEF TypeOK, AppType, AppPc, ScriptType, ScriptPc
<1>1. ASSUME NEW k \in Scripts, ScriptStep(k)
      PROVE  SlotInv'
  <2>1. app' = app /\ \A j \in Scripts : script'[j].mode = script[j].mode
        BY <1>1, ScriptSteps, ScriptFrame
  <2>.  QED
        BY <2>1 DEF SlotInv
<1>2. ASSUME NEW k \in Scripts, Reap(k)
      PROVE  SlotInv'
      BY <1>0, <1>2 DEF Reap, SlotInv
<1>3. ASSUME NEW mode, NEW arg, NEW pc, Spawn(mode, arg, pc), pc = "snapshot" => mode = "snapshot"
      PROVE  SlotInv'
  <2>1. PICK k \in Scripts :
          /\ script' = [script EXCEPT ![k] = [Idle EXCEPT !.pc = "start", !.mode = mode, !.arg = arg]]
          /\ app' = [app EXCEPT !.pc = pc, !.slot = k]
        BY <1>3 DEF Spawn
  <2>2. app'.pc = pc /\ app'.slot = k
        BY <1>0, <2>1 DEF AppType
  <2>3. script'[k].mode = mode
        BY <1>0, <2>1 DEF Idle
  <2>.  QED
        BY <1>3, <2>2, <2>3 DEF SlotInv
<1>4. CASE AppStep
  <2>1. CASE Choose \/ SaveCheckpoint
        BY <1>3, <2>1 DEF Choose, SaveCheckpoint
  <2>2. CASE Prepare \/ Snapshot \/ Publish \/ Check \/ Migrate \/ Verify \/ Forget \/ Compare \/ Look
        BY <2>2 DEF Prepare, Snapshot, Publish, Answer, Check, Migrate, Verify, Launched, Forget,
                    Compare, Look, AppAt, SlotInv
  <2>3. CASE Unpack
        BY <1>0, <2>3 DEF Unpack, AppAt, AppType, SlotInv
  <2>4. CASE Ask
        BY <1>0, <2>4 DEF Ask, AppAt, AppType, SlotInv
  <2>.  QED
        BY <1>4, <2>1, <2>2, <2>3, <2>4 DEF AppStep
<1>5. CASE StrayStep \/ UNCHANGED vars
      BY <1>5 DEF StrayStep, vars, SlotInv
<1>6. CASE Crash
  <2>1. CASE app' = app
    <3>1. \A k \in Scripts : k = app.slot => script'[k].mode = script[k].mode
          BY <1>0, <1>6, <2>1 DEF Crash, ScriptType
    <3>.  QED
          BY <2>1, <3>1 DEF SlotInv
  <2>2. CASE app' = AppAt("down")
        BY <2>2 DEF AppAt, SlotInv
  <2>.  QED
        BY <1>6, <2>1, <2>2 DEF Crash
<1>.  QED
      BY <1>1, <1>2, <1>4, <1>5, <1>6 DEF Next

-----------------------------------------------------------------------------
(* The journals.                                                           *)

LEMMA SettledStays ==
  ASSUME NEW i \in Nat, NEW j \in Nat, i <= j
  PROVE  \A x : /\ SettledAt(x, i) => SettledAt(x, j)
                /\ x \in 0 .. i => x \in 0 .. j
BY DEF SettledAt

\* The argument of a script is the caller's, or the journals it has taken the snapshot of.
Argued(k) ==
  /\ script[k].pc \in Live
  /\ script'[k].mode = script[k].mode
  /\ \/ script'[k].arg = script[k].arg /\ ~(script'[k].pc = "ok" /\ script[k].mode = "snapshot")
     \/ script'[k].pc = "ok" /\ script[k].mode = "snapshot" /\ script'[k].arg = journal

LEMMA ScriptArgs ==
  ASSUME TypeOK, NEW k \in Scripts, ScriptStep(k), ScriptInv(k)
  PROVE  Argued(k)
<1>0. /\ script \in [Scripts -> ScriptType] /\ script[k] \in ScriptType
      BY DEF TypeOK, ScriptType, ScriptPc
<1> USE DEF Live, Holding, Publishing, Argued
<1>1. ASSUME NEW pc, Ends(k, pc), pc = "ok" => script[k].mode # "snapshot", script[k].pc \in Live
      PROVE  Argued(k)
      BY <1>0, <1>1 DEF Ends, At, ScriptType
<1>2. ASSUME NEW pc \in Live, At(k, pc), script[k].pc \in Live
      PROVE  Argued(k)
      BY <1>0, <1>2 DEF At, ScriptType
<1>3. CASE Lock(k)
      BY <1>1, <1>2, <1>3 DEF Lock
<1>4. CASE Validate(k)
  <2>1. CASE Ends(k, "refused")
        BY <1>1, <1>4, <2>1 DEF Validate
  <2>2. CASE ~Ends(k, "refused")
        BY <1>0, <1>4, <2>2 DEF Validate, ScriptType
  <2>.  QED
        BY <2>1, <2>2
<1>5. CASE NextTarget(k)
  <2>1. script[k].pc = "next"
        BY <1>5, NextTargets
  <2>2. CASE Ends(k, "refused")
        BY <1>1, <2>1, <2>2
  <2>3. ASSUME NEW t,
               script' = [script EXCEPT ![k] = [script[k] EXCEPT !.todo = script[k].todo \ {t}]]
        PROVE  Argued(k)
        BY <1>0, <2>1, <2>3 DEF ScriptType
  <2>4. ASSUME NEW t,
               script' = [script EXCEPT ![k] = [script[k] EXCEPT !.pc = "stage", !.at = t]]
        PROVE  Argued(k)
        BY <1>0, <2>1, <2>4 DEF ScriptType
  <2>.  QED
        BY <1>5, <2>2, <2>3, <2>4, NextTargets
<1>6. CASE Stage(k)
      BY <1>1, <1>2, <1>6 DEF Stage
<1>7. CASE Write(k)
      BY <1>2, <1>7 DEF Write
<1>8. CASE Replace(k)
      BY <1>0, <1>8 DEF Replace, ScriptType
<1>9. CASE Published(k)
      BY <1>1, <1>9 DEF Published, ScriptInv
<1>.  QED
      BY <1>3, <1>4, <1>5, <1>6, <1>7, <1>8, <1>9, ScriptSteps

\* What has been written down about the journals stays settled.
LEMMA SettledStep ==
  ASSUME TypeOK, SlotInv, PublicationInv, SettledInv, [Next]_vars
  PROVE  SettledInv'
<1>0. /\ app \in AppType /\ script \in [Scripts -> ScriptType] /\ journal \in Nat
      /\ journal' = journal \/ journal' \in (journal + 1) .. MaxJournal
  <2>1. journal' = journal \/ journal' \in (journal + 1) .. MaxJournal
        BY JournalFrame DEF PublicationInv
  <2>.  QED
        BY <2>1 DEF TypeOK, AppType, AppPc, ScriptType, ScriptPc
<1>a. \A x : /\ SettledAt(x, journal) => SettledAt(x, journal')
             /\ x \in 0 .. journal => x \in 0 .. journal'
  <2>1. journal' \in Nat /\ journal <= journal'
        BY <1>0, ConstantsAssumption
  <2>.  QED
        BY <1>0, <2>1, SettledStays
<1>b. AppSettled /\ \A k \in Scripts : ScriptSettled(k)
      BY DEF SettledInv
<1> USE DEF Settled, Live, Holding, Publishing
<1>c. UNCHANGED <<app, checkpoint>> => AppSettled'
      BY <1>a, <1>b DEF AppSettled
<1>d. ASSUME NEW k \in Scripts,
             script'[k] = script[k] \/ script'[k] = Idle \/ script'[k] = [script[k] EXCEPT !.pc = "refused"]
      PROVE  ScriptSettled(k)'
  <2>1. script[k] \in ScriptType
        BY <1>0
  <2>2. CASE script'[k] = script[k]
        BY <1>a, <1>b, <2>2 DEF ScriptSettled
  <2>3. CASE script'[k] = Idle
        BY <2>3 DEF ScriptSettled, Idle
  <2>4. CASE script'[k] = [script[k] EXCEPT !.pc = "refused"]
    <3>1. script'[k].pc = "refused"
          BY <2>1, <2>4 DEF ScriptType
    <3>.  QED
          BY <3>1 DEF ScriptSettled
  <2>.  QED
        BY <1>d, <2>2, <2>3, <2>4
<1>e. ASSUME NEW mode, NEW arg, NEW pc, Spawn(mode, arg, pc), pc \in {"publish", "snapshot"},
             mode = "checked" => SettledAt(arg, journal)
      PROVE  /\ \A k \in Scripts : ScriptSettled(k)'
             /\ app'.pc = pc
  <2>1. PICK k \in Scripts :
          /\ script' = [script EXCEPT ![k] = [Idle EXCEPT !.pc = "start", !.mode = mode, !.arg = arg]]
          /\ app' = [app EXCEPT !.pc = pc, !.slot = k]
        BY <1>e DEF Spawn
  <2>2. /\ script'[k].pc = "start" /\ script'[k].mode = mode /\ script'[k].arg = arg
        /\ \A j \in Scripts \ {k} : script'[j] = script[j]
        BY <1>0, <2>1 DEF Idle
  <2>3. ScriptSettled(k)'
        BY <1>a, <1>e, <2>2 DEF ScriptSettled
  <2>.  QED
        BY <1>0, <1>d, <2>1, <2>2, <2>3 DEF AppType
<1>1. ASSUME NEW k \in Scripts, ScriptStep(k)
      PROVE  SettledInv'
  <2>1. /\ UNCHANGED <<app, checkpoint, journal>>
        /\ \A j \in Scripts \ {k} : script'[j] = script[j]
        BY <1>1, ScriptSteps, ScriptFrame DEF PublicationInv
  <2>2. Argued(k)
        BY <1>1, ScriptArgs DEF PublicationInv
  <2>3. ScriptSettled(k)'
        BY <1>0, <1>b, <2>1, <2>2 DEF Argued, ScriptSettled
  <2>.  QED
        BY <1>c, <1>d, <2>1, <2>3 DEF SettledInv
<1>2. ASSUME NEW k \in Scripts, Reap(k)
      PROVE  SettledInv'
      BY <1>0, <1>c, <1>d, <1>2 DEF Reap, SettledInv
<1>3. CASE StrayStep \/ UNCHANGED vars
      BY <1>c, <1>d, <1>3 DEF StrayStep, vars, SettledInv
<1>4. CASE Crash
  <2>1. AppSettled'
        BY <1>c, <1>4, <1>a, <1>b DEF Crash, AppSettled, AppAt
  <2>.  QED
        BY <1>4, <1>d, <2>1, Killed DEF SettledInv
<1>5. CASE AppStep
  <2>0. journal' = journal
        BY <1>5 DEF AppStep
  <2>1. CASE Prepare
    <3>1. AppSettled'
          BY <1>a, <1>b, <2>1 DEF Prepare, AppSettled, AppAt
    <3>.  QED
          BY <1>d, <2>1, <3>1, Killed DEF SettledInv
  <2>2. CASE Choose
    <3>1. app'.pc \in {"publish", "snapshot"} /\ \A k \in Scripts : ScriptSettled(k)'
      <4>1. CASE app.checked # None
            BY <1>b, <1>e, <2>2, <4>1 DEF Choose, AppSettled
      <4>2. CASE app.checked = None
            BY <1>e, <2>2, <4>2 DEF Choose
      <4>.  QED
            BY <4>1, <4>2
    <3>2. AppSettled'
          BY <1>a, <1>b, <2>2, <3>1 DEF Choose, AppSettled
    <3>.  QED
          BY <3>1, <3>2 DEF SettledInv
  <2>3. CASE SaveCheckpoint
    <3>1. app'.pc = "publish" /\ \A k \in Scripts : ScriptSettled(k)'
          BY <1>b, <1>e, <2>3 DEF SaveCheckpoint, AppSettled
    <3>2. AppSettled'
          BY <1>a, <1>b, <2>3, <3>1 DEF SaveCheckpoint, AppSettled
    <3>.  QED
          BY <3>1, <3>2 DEF SettledInv
  <2>4. CASE Snapshot
    <3>1. app.pc = "snapshot" /\ app.slot \in Scripts /\ script[app.slot].mode = "snapshot"
          BY <2>4 DEF Snapshot, Answer, SlotInv
    <3>2. AppSettled'
      <4>1. CASE script[app.slot].pc = "ok"
        <5>1. script[app.slot].arg \in 0 .. journal
              BY <1>b, <3>1, <4>1 DEF ScriptSettled
        <5>2. app'.pc = "ask" /\ app'.checked = script[app.slot].arg
              BY <2>4, <4>1 DEF Snapshot, Answer, AppAt
        <5>.  QED
              BY <1>a, <1>b, <2>4, <5>1, <5>2 DEF Snapshot, Answer, AppSettled
      <4>2. CASE script[app.slot].pc # "ok"
            BY <1>a, <1>b, <2>4, <4>2 DEF Snapshot, Answer, AppAt, AppSettled
      <4>.  QED
            BY <4>1, <4>2
    <3>3. \A k \in Scripts : script'[k] = script[k] \/ script'[k] = Idle
          BY <1>0, <2>4 DEF Snapshot, Answer
    <3>.  QED
          BY <1>d, <3>2, <3>3 DEF SettledInv
  <2>5. CASE Publish
    <3>1. app'.pc \in {"check", "failed"} /\ checkpoint' = checkpoint
          BY <2>5 DEF Publish, Answer, AppAt
    <3>2. \A k \in Scripts : script'[k] = script[k] \/ script'[k] = Idle
          BY <1>0, <2>5 DEF Publish, Answer
    <3>.  QED
          BY <1>a, <1>b, <1>d, <3>1, <3>2 DEF SettledInv, AppSettled
  <2>6. CASE Look
    <3>1. AppSettled'
          BY <1>a, <1>b, <2>6 DEF Look, AppSettled, AppAt
    <3>.  QED
          BY <1>d, <2>6, <3>1 DEF Look, SettledInv
  <2>7. CASE Ask
    <3>1. AppSettled'
      <4>1. CASE app' = AppAt("failed")
            BY <1>a, <1>b, <2>7, <4>1 DEF Ask, AppSettled, AppAt
      <4>2. CASE app' = [app EXCEPT !.pc = "save"] /\ journal \notin Unfinished
        <5>1. app'.pc = "save" /\ app'.checked = app.checked
              BY <1>0, <4>2 DEF AppType
        <5>.  QED
              BY <1>a, <1>b, <2>0, <2>7, <4>2, <5>1 DEF Ask, AppSettled, SettledAt
      <4>.  QED
            BY <2>7, <4>1, <4>2 DEF Ask
    <3>.  QED
          BY <1>d, <2>7, <3>1 DEF Ask, SettledInv
  <2>8. CASE Unpack
    <3>1. AppSettled'
      <4>1. app'.pc \notin {"save", "choose", "ask"} /\ checkpoint' = checkpoint
            BY <1>0, <2>8 DEF Unpack, AppAt, AppType
      <4>.  QED
            BY <1>a, <1>b, <4>1 DEF AppSettled
    <3>.  QED
          BY <1>d, <2>8, <3>1 DEF Unpack, SettledInv
  <2>9. CASE Check \/ Migrate \/ Verify \/ Forget \/ Compare
    <3>1. /\ app'.pc \notin {"save", "choose", "ask"} /\ checkpoint' \in {checkpoint, None}
          /\ script' = script
          BY <2>9 DEF Check, Migrate, Verify, Launched, Forget, Compare, AppAt
    <3>2. AppSettled'
          BY <1>a, <1>b, <3>1 DEF AppSettled
    <3>.  QED
          BY <1>d, <3>1, <3>2 DEF SettledInv
  <2>.  QED
        BY <1>5, <2>1, <2>2, <2>3, <2>4, <2>5, <2>6, <2>7, <2>8, <2>9 DEF AppStep
<1>.  QED
      BY <1>1, <1>2, <1>3, <1>4, <1>5 DEF Next

-----------------------------------------------------------------------------
(* The first state.                                                        *)

\* At most one target, or what is staged for it, is not as it was installed.
LEMMA FirstFiles ==
  ASSUME Init
  PROVE  /\ kind \in {"fresh", "16c", "43b"}
         /\ \A n \in Names :
              \/ file[Root(n)] = (IF kind # "fresh" /\ n \in Execs THEN kind ELSE "absent")
              \/ kind # "fresh" /\ file[Root(n)] = "alien"
         /\ \A e \in Execs : file[Backup(e)] = "absent" \/ (kind # "fresh" /\ file[Backup(e)] = "alien")
<1> DEFINE clean == [t \in Targets |->
                       IF kind # "fresh" /\ t \in {Root(e) : e \in Execs} THEN kind ELSE "absent"]
<1>1. \/ file = clean
      \/ kind # "fresh" /\ \E t \in Targets : file = [clean EXCEPT ![t] = "alien"]
      BY DEF Init
<1>2. \A n \in Names : clean[Root(n)] = (IF kind # "fresh" /\ n \in Execs THEN kind ELSE "absent")
      BY TargetNames
<1>3. \A e \in Execs : clean[Backup(e)] = "absent"
      BY TargetNames
<1>4. /\ \A n \in Names : Root(n) \in Targets
      /\ \A e \in Execs : Backup(e) \in Targets
      /\ Execs \subseteq Names
      BY TargetNames
<1>5. kind \in {"fresh", "16c", "43b"}
      BY DEF Init
<1>6. \A t \in Targets : file[t] = clean[t] \/ (kind # "fresh" /\ file[t] = "alien")
  <2>. HIDE DEF clean
  <2>0. clean = [t \in Targets |-> clean[t]]
        BY DEF clean
  <2>1. CASE file = clean
        BY <2>1
  <2>2. ASSUME NEW u \in Targets, file = [clean EXCEPT ![u] = "alien"], kind # "fresh"
        PROVE  \A t \in Targets : file[t] = clean[t] \/ file[t] = "alien"
        BY <2>0, <2>2
  <2>.  QED
        BY <1>1, <2>1, <2>2
<1> HIDE DEF clean
<1>.  QED
      BY <1>2, <1>3, <1>4, <1>5, <1>6

LEMMA InvInit == Init => PublicationInv /\ JournalInv /\ FollowInv
<1> SUFFICES ASSUME Init PROVE PublicationInv /\ JournalInv /\ FollowInv
    OBVIOUS
<1>1. /\ \A k \in Scripts : script[k].pc = "off" /\ script[k].mode = "empty"
      /\ app.pc = "down" /\ lock = "free" /\ stray # "holds" /\ checkpoint = None /\ bound = FALSE
      /\ kind = "fresh" => journal = 0 /\ stray = "gone"
      BY DEF Init, Idle, AppAt
<1>2. /\ LockInv
      /\ \A k \in Scripts : ScriptInv(k)
      BY <1>1 DEF LockInv, ScriptInv, Holding, Publishing, Writing
<1>3. FileInv
      BY FirstFiles DEF FileInv
<1>4. \A e \in Execs : ~Upgraded(e)
      BY FirstFiles, TargetNames DEF Upgraded
<1>5. UnpackInv
      BY <1>1, FirstFiles, TargetNames DEF UnpackInv
<1>6. PublicationIsOrdered
      BY <1>4 DEF PublicationIsOrdered
<1>7. JournalInv
      BY <1>1 DEF JournalInv, SlotInv, SettledInv, AppSettled, ScriptSettled
<1>8. FollowInv
  <2>1. ~Pending
        BY <1>1, <1>4 DEF Pending, Valid
  <2>.  QED
        BY <1>1, <2>1 DEF FollowInv
<1>.  QED
      BY <1>2, <1>3, <1>5, <1>6, <1>7, <1>8 DEF PublicationInv

LEMMA PublicationStep ==
  ASSUME TypeOK, SlotInv, PublicationInv, [Next]_vars
  PROVE  PublicationInv'
<1>1. LockInv'
      BY LockStep DEF PublicationInv
<1>2. ASSUME NEW k \in Scripts
      PROVE  ScriptInv(k)'
  <2>1. CASE ScriptStep(k)
        BY <2>1, OwnScript DEF PublicationInv
  <2>2. CASE Elsewhere \/ \E j \in Scripts \ {k} : ScriptStep(j)
        BY <2>2, OtherScript
  <2>.  QED
        BY <2>1, <2>2 DEF Next, Elsewhere
<1>.  QED
      BY <1>1, <1>2, FileStep, UnpackStep, OrderStep DEF PublicationInv

Core == TypeOK /\ PublicationInv /\ JournalInv

LEMMA Upgrade == Spec => []Core
<1>1. Init => Core
      BY TypeInit, InvInit DEF Core
<1>2. Core /\ [Next]_vars => Core'
  <2> SUFFICES ASSUME Core, [Next]_vars PROVE Core'
      OBVIOUS
  <2>1. SlotInv'
        BY SlotStep DEF Core, JournalInv, PublicationInv
  <2>2. TypeOK' /\ PublicationInv' /\ SettledInv'
        BY TypeStep, PublicationStep, SettledStep DEF Core, JournalInv
  <2>.  QED
        BY <2>1, <2>2 DEF Core, JournalInv
<1>.  QED
      BY <1>1, <1>2, PTL DEF Spec

\* The files, the journals and the old runtime's data always have values of their types, and
\* no target is ever anything but torn, foreign, original or new
\* (DnfastRuntime.java, lines 39-128, and upgrade-dnfast-empty.py).
THEOREM Typed == Spec => []TypeOK
<1>1. Core => TypeOK
      BY DEF Core
<1>.  QED
      BY <1>1, Upgrade, PTL

\* However many scripts there are and however often any of them or the app is killed, an
\* original executable is only replaced once its backup is in place, and no new one is
\* visible without its private libraries (upgrade-dnfast-empty.py, lines 167-184).
THEOREM Ordered == Spec => []PublicationIsOrdered
<1>1. Core => PublicationIsOrdered
      BY DEF Core, PublicationInv
<1>.  QED
      BY <1>1, Upgrade, PTL

-----------------------------------------------------------------------------
(* The checkpoint.                                                         *)

\* In an existing root nothing that is new is ever replaced again.
LEMMA NewStays ==
  ASSUME TypeOK, SlotInv, PublicationInv, [Next]_vars, kind # "fresh"
  PROVE  /\ \A n \in Names : file[Root(n)] = "new" => file'[Root(n)] = "new"
         /\ Has("new") => Has("new")'
<1>1. file \in [Targets -> Contents]
      BY DEF TypeOK
<1>2. \A n \in Names : file[Root(n)] = "new" => file'[Root(n)] = "new"
  <2>1. CASE file' = file
        BY <2>1
  <2>2. ~Unpack
        BY DEF PublicationInv, UnpackInv, Unpack
  <2>3. ASSUME NEW k \in Scripts, Replace(k)
        PROVE  \A n \in Names : file[Root(n)] = "new" => file'[Root(n)] = "new"
        BY <1>1, <2>3, Replaces, TargetNames, Payloads
  <2>.  QED
        BY <2>1, <2>2, <2>3, FileSteps
<1>.  QED
      BY <1>2, TargetNames DEF Has

LEMMA FollowStep ==
  ASSUME TypeOK, PublicationInv, JournalInv, FollowInv, [Next]_vars
  PROVE  FollowInv'
<1>0. /\ kind' = kind /\ SlotInv /\ LockInv
      /\ app \in AppType /\ script \in [Scripts -> ScriptType]
      /\ journal \in 0 .. MaxJournal /\ journal # None /\ bound \in BOOLEAN
  <2>1. kind' = kind /\ SlotInv /\ LockInv
        BY FileSteps DEF JournalInv, PublicationInv
  <2>.  QED
        BY <2>1, ConstantsAssumption DEF TypeOK, AppType, AppPc, ScriptType, ScriptPc
<1>1. SUFFICES ASSUME kind = "43b"
               PROVE  FollowInv'
      BY <1>0 DEF FollowInv
<1>2. /\ Pending => checkpoint = journal
      /\ Pending /\ app.pc \in {"ask", "save"} => app.checked = journal
      /\ Pending /\ app.pc = "snapshot" /\ script[app.slot].pc = "ok" => script[app.slot].arg = journal
      /\ app.pc = "choose" /\ app.checked # None => app.checked = checkpoint
      /\ app.pc \in {"verify", "forget", "compare", "ready"} => bound
      /\ bound => Has("new")
      BY <1>1 DEF FollowInv
<1>3. Has("new") => Has("new")'
      BY <1>0, <1>1, NewStays
<1> USE DEF Live, Holding, Publishing
\* Scripts that end, or stay as they are, leave nothing pending that was not.
<1>4. ASSUME UNCHANGED <<file, journal>>, bound' = bound \/ bound' = TRUE,
             \A k \in Scripts : \/ script'[k] = script[k]
                               \/ script'[k] = Idle
                               \/ script'[k] = [script[k] EXCEPT !.pc = "refused"]
      PROVE  Pending' => Pending
  <2>1. ASSUME NEW k \in Scripts, Valid(k)'
        PROVE  Valid(k)
    <3>1. script'[k] # Idle /\ script'[k] # [script[k] EXCEPT !.pc = "refused"]
          BY <1>0, <2>1 DEF Valid, Idle, ScriptType
    <3>.  QED
          BY <1>4, <2>1, <3>1 DEF Valid
  <2>2. \A e \in Execs : Upgraded(e)' => Upgraded(e)
        BY <1>0, <1>4 DEF Upgraded
  <2>.  QED
        BY <1>0, <1>4, <2>1, <2>2 DEF Pending
<1>5. ASSUME NEW mode, NEW arg, NEW pc, Spawn(mode, arg, pc), UNCHANGED <<file, journal, bound>>
      PROVE  /\ app'.pc = pc
             /\ pc = "snapshot" => script'[app'.slot].pc # "ok"
             /\ Pending' => Pending \/ (mode = "checked" /\ arg = journal)
  <2>1. PICK k \in Scripts :
          /\ script' = [script EXCEPT ![k] = [Idle EXCEPT !.pc = "start", !.mode = mode, !.arg = arg]]
          /\ app' = [app EXCEPT !.pc = pc, !.slot = k]
        BY <1>5 DEF Spawn
  <2>2. /\ app'.pc = pc /\ app'.slot = k
        /\ script'[k].pc = "start" /\ script'[k].mode = mode /\ script'[k].arg = arg
        /\ \A j \in Scripts \ {k} : script'[j] = script[j]
        BY <1>0, <2>1 DEF AppType, Idle
  <2>3. \A e \in Execs : Upgraded(e)' => Upgraded(e)
        BY <1>0, <1>5 DEF Upgraded
  <2>4. \A j \in Scripts \ {k} : Valid(j)' => Valid(j)
        BY <1>5, <2>2 DEF Valid
  <2>5. Valid(k)' => mode = "checked" /\ arg = journal
        BY <1>5, <2>2 DEF Valid
  <2>.  QED
        BY <1>5, <2>2, <2>3, <2>4, <2>5 DEF Pending
\* What has to be shown.
<1>6. ASSUME Pending' => checkpoint' = journal',
             Pending' /\ app'.pc \in {"ask", "save"} => app'.checked = journal',
             Pending' /\ app'.pc = "snapshot" /\ script'[app'.slot].pc = "ok"
               => script'[app'.slot].arg = journal',
             app'.pc = "choose" /\ app'.checked # None => app'.checked = checkpoint',
             app'.pc \in {"verify", "forget", "compare", "ready"} => bound',
             bound' => Has("new")'
      PROVE  FollowInv'
      BY <1>6 DEF FollowInv
<1>7. ASSUME NEW k \in Scripts, ScriptStep(k)
      PROVE  FollowInv'
  <2>1. /\ UNCHANGED <<app, checkpoint, journal, bound>>
        /\ \A j \in Scripts \ {k} : script'[j] = script[j]
        BY <1>0, <1>7, ScriptSteps, ScriptFrame
  <2>2. Argued(k)
        BY <1>7, ScriptArgs DEF PublicationInv
  <2>3. \A j \in Scripts : Valid(j)' => Valid(j)
    <3>1. \A j \in Scripts \ {k} : Valid(j)' => Valid(j)
          BY <2>1 DEF Valid
    <3>2. Valid(k)' => Valid(k)
          BY <2>1, <2>2 DEF Valid, Argued
    <3>.  QED
          BY <3>1, <3>2
  <2>4. ASSUME NEW e \in Execs, Upgraded(e)', ~Upgraded(e)
        PROVE  Valid(k)
    <3>1. Replace(k)
          BY <1>0, <1>7, <2>4, FileFrame DEF Upgraded
    <3>2. script[k].pc = "replace"
          BY <3>1 DEF Replace
    <3>3. ScriptInv(k) /\ Original(script[k].mode) = kind
          BY <3>1, Replaces DEF PublicationInv
    <3>.  QED
          BY <1>0, <1>1, <3>2, <3>3 DEF ScriptInv, StateAccepted, Original, Valid, ScriptType
  <2>5. Pending' => Pending
        BY <2>1, <2>3, <2>4 DEF Pending
  <2>6. Pending' /\ app.pc = "snapshot" /\ script'[app.slot].pc = "ok" => script'[app.slot].arg = journal
    <3>1. CASE app.slot = k
          BY <1>0, <2>2, <3>1 DEF Argued, SlotInv
    <3>2. CASE app.slot # k
          BY <1>0, <1>2, <2>1, <2>5, <3>2 DEF SlotInv
    <3>.  QED
          BY <3>1, <3>2
  <2>.  QED
        BY <1>2, <1>3, <1>6, <2>1, <2>5, <2>6
<1>8. ASSUME NEW k \in Scripts, Reap(k)
      PROVE  FollowInv'
  <2>1. /\ UNCHANGED <<file, app, checkpoint, journal, bound>> /\ app.slot # k
        /\ script' = [script EXCEPT ![k] = Idle]
        BY <1>8 DEF Reap
  <2>2. Pending' => Pending
        BY <1>0, <1>4, <2>1
  <2>3. script'[app.slot] = script[app.slot]
        BY <1>0, <2>1
  <2>.  QED
        BY <1>2, <1>3, <1>6, <2>1, <2>2, <2>3
<1>9. CASE StrayStep
  <2>1. UNCHANGED <<file, app, script, checkpoint, bound>>
        BY <1>9 DEF StrayStep
  <2>2. CASE journal' = journal
    <3>1. Pending' => Pending
          BY <1>0, <1>4, <2>1, <2>2
    <3>.  QED
          BY <1>2, <1>3, <1>6, <2>1, <2>2, <3>1
  <2>3. CASE Has(kind) /\ journal' \in (journal + 1) .. MaxJournal
    <3>1. \A e \in Execs : ~Upgraded(e)'
          BY <1>0, <1>1, <2>1, <2>3 DEF Has, Upgraded
    <3>2. ASSUME NEW k \in Scripts, Valid(k)'
          PROVE  FALSE
      <4>1. script[k].arg \in 0 .. journal
            BY <2>1, <3>2 DEF Valid, JournalInv, SettledInv, ScriptSettled, Settled, SettledAt
      <4>.  QED
            BY <1>0, <2>1, <2>3, <3>2, <4>1 DEF Valid
    <3>3. ~Pending'
          BY <3>1, <3>2 DEF Pending
    <3>.  QED
          BY <1>2, <1>3, <1>6, <2>1, <3>3
  <2>.  QED
        BY <1>0, <2>2, <2>3, JournalFrame
<1>10. CASE Crash
  <2>1. /\ UNCHANGED <<file, checkpoint, journal, bound>> /\ app' \in {app, AppAt("down")}
        BY <1>10 DEF Crash
  <2>2. Pending' => Pending
        BY <1>4, <1>10, <2>1, Killed
  <2>3. CASE app' = app
    <3>1. app.slot \in Scripts /\ script'[app.slot].pc = "ok" => script'[app.slot] = script[app.slot]
      <4>1. ASSUME NEW k \in Scripts, script'[k].pc = "ok"
            PROVE  script'[k] = script[k]
            BY <1>0, <1>10, <4>1, Killed DEF Idle, ScriptType
      <4>.  QED
            BY <4>1
    <3>.  QED
          BY <1>0, <1>2, <1>3, <1>6, <2>1, <2>2, <2>3, <3>1 DEF SlotInv
  <2>4. CASE app' = AppAt("down")
        BY <1>2, <1>3, <1>6, <2>1, <2>2, <2>4 DEF AppAt
  <2>.  QED
        BY <2>1, <2>3, <2>4
<1>11. CASE AppStep
  <2>0. /\ journal' = journal /\ ~Unpack
        /\ file' = file
    <3>1. journal' = journal /\ ~Unpack
          BY <1>1, <1>11 DEF AppStep, PublicationInv, UnpackInv, Unpack
    <3>.  QED
          BY <1>11, <3>1, OtherFiles DEF Elsewhere
  <2>1. CASE Prepare
    <3>1. app'.pc = "look" /\ UNCHANGED <<bound, checkpoint>>
          BY <2>1 DEF Prepare, AppAt
    <3>2. Pending' => Pending
          BY <1>4, <2>0, <2>1, <3>1, Killed
    <3>.  QED
          BY <1>2, <1>3, <1>6, <2>0, <3>1, <3>2
  <2>2. CASE Look
    <3>1. UNCHANGED <<bound, checkpoint, script>>
          BY <2>2 DEF Look
    <3>2. Pending' => Pending
          BY <1>0, <1>4, <2>0, <3>1
    <3>3. CASE Has("new") /\ checkpoint = None
      <4>1. Upgraded(Cli)
            BY <1>1, <3>3, ConstantsAssumption DEF Has, Upgraded
      <4>2. bound
            BY <1>0, <1>2, <3>3, <4>1, ConstantsAssumption DEF Pending
      <4>3. app'.pc \in {"unpack", "compare"}
            BY <2>2, <3>3 DEF Look, AppAt
      <4>.  QED
            BY <1>2, <1>3, <1>6, <2>0, <3>1, <3>2, <4>2, <4>3
    <3>4. CASE ~(Has("new") /\ checkpoint = None)
      <4>1. /\ app'.pc \in {"unpack", "check", "choose"}
            /\ app'.pc = "choose" => app'.checked \in {None, checkpoint}
            BY <2>2, <3>4 DEF Look, AppAt
      <4>.  QED
            BY <1>2, <1>3, <1>6, <2>0, <3>1, <3>2, <4>1
    <3>.  QED
          BY <3>3, <3>4
  <2>3. CASE Choose
    <3>1. UNCHANGED <<bound, checkpoint>>
          BY <2>3 DEF Choose
    <3>2. CASE app.checked # None
      <4>1. Spawn("checked", app.checked, "publish") /\ app.checked = checkpoint
            BY <1>2, <2>3, <3>2 DEF Choose
      <4>2. app'.pc = "publish" /\ (Pending' => Pending \/ checkpoint = journal)
            BY <1>5, <2>0, <3>1, <4>1
      <4>.  QED
            BY <1>2, <1>3, <1>6, <2>0, <3>1, <4>2
    <3>3. CASE app.checked = None
      <4>1. Spawn("snapshot", None, "snapshot") \/ Spawn("empty", None, "publish")
            BY <2>3, <3>3 DEF Choose
      <4>2. /\ app'.pc \in {"snapshot", "publish"}
            /\ app'.pc = "snapshot" => script'[app'.slot].pc # "ok"
            /\ Pending' => Pending
            BY <1>5, <2>0, <3>1, <4>1
      <4>.  QED
            BY <1>2, <1>3, <1>6, <2>0, <3>1, <4>2
    <3>.  QED
          BY <3>2, <3>3
  <2>4. CASE SaveCheckpoint
    <3>1. /\ app.pc = "save" /\ checkpoint' = app.checked /\ bound' = bound
          /\ Spawn("checked", app.checked, "publish")
          BY <2>4 DEF SaveCheckpoint
    <3>2. app'.pc = "publish" /\ (Pending' => Pending \/ app.checked = journal)
          BY <1>5, <2>0, <3>1
    <3>.  QED
          BY <1>2, <1>3, <1>6, <2>0, <3>1, <3>2
  <2>5. ASSUME NEW pc, NEW next, Answer(pc, next), pc \in {"snapshot", "publish"}
        PROVE  /\ UNCHANGED <<bound, checkpoint>> /\ (Pending' => Pending)
               /\ app.pc = pc
               /\ \/ app'.pc = "failed"
                  \/ /\ app'.pc = next /\ app'.checked = script[app.slot].arg
                     /\ script[app.slot].pc = "ok"
    <3>1. /\ UNCHANGED <<bound, checkpoint>> /\ app.pc = pc
          /\ script' = [script EXCEPT ![app.slot] = Idle]
          BY <2>5 DEF Answer
    <3>2. Pending' => Pending
          BY <1>0, <1>4, <2>0, <3>1
    <3>.  QED
          BY <2>5, <3>1, <3>2 DEF Answer, AppAt
  <2>6. CASE Snapshot
    <3>1. Answer("snapshot", "ask")
          BY <2>6 DEF Snapshot
    <3>.  QED
          BY <1>2, <1>3, <1>6, <2>0, <2>5, <3>1
  <2>7. CASE Publish
    <3>1. Answer("publish", "check")
          BY <2>7 DEF Publish
    <3>.  QED
          BY <1>2, <1>3, <1>6, <2>0, <2>5, <3>1
  <2>8. CASE Ask
    <3>1. UNCHANGED <<bound, checkpoint, script>>
          BY <2>8 DEF Ask
    <3>2. Pending' => Pending
          BY <1>0, <1>4, <2>0, <3>1
    <3>3. app'.pc = "failed" \/ (app.pc = "ask" /\ app'.pc = "save" /\ app'.checked = app.checked)
          BY <1>0, <2>8 DEF Ask, AppAt, AppType
    <3>.  QED
          BY <1>2, <1>3, <1>6, <2>0, <3>1, <3>2, <3>3
  <2>9. CASE Check \/ Migrate \/ Verify \/ Compare
    <3>1. UNCHANGED <<checkpoint, script>>
          BY <2>9 DEF Check, Migrate, Verify, Compare
    <3>2. /\ app'.pc \in {"migrate", "verify", "forget", "ready", "failed"}
          /\ app'.pc \in {"verify", "forget", "ready"} => bound'
          /\ bound' = bound \/ (bound' = TRUE /\ Has("new"))
      <4>1. CASE Check \/ Verify \/ Compare
            BY <1>2, <4>1 DEF Check, Verify, Compare, Launched, AppAt
      <4>2. CASE Migrate
            BY <1>0, <4>2 DEF Migrate, Launched, Launches, AppAt
      <4>.  QED
            BY <2>9, <4>1, <4>2
    <3>3. Pending' => Pending
          BY <1>0, <1>4, <2>0, <3>1, <3>2
    <3>.  QED
          BY <1>2, <1>3, <1>6, <2>0, <3>1, <3>2, <3>3
  <2>10. CASE Forget
    <3>1. app.pc = "forget" /\ bound' = bound /\ app'.pc = "compare"
          BY <2>10 DEF Forget, AppAt
    <3>2. ~Pending'
          BY <1>2, <3>1 DEF Pending
    <3>.  QED
          BY <1>2, <1>3, <1>6, <2>0, <3>1, <3>2
  <2>.  QED
        BY <1>11, <2>0, <2>1, <2>2, <2>3, <2>4, <2>6, <2>7, <2>8, <2>9, <2>10 DEF AppStep
<1>12. CASE UNCHANGED vars
  <2>1. UNCHANGED <<file, script, journal, bound, app, checkpoint>>
        BY <1>12 DEF vars
  <2>2. Pending' => Pending
        BY <1>0, <1>4, <2>1
  <2>.  QED
        BY <1>2, <1>3, <1>6, <2>1, <2>2
<1>.  QED
      BY <1>7, <1>8, <1>9, <1>10, <1>11, <1>12 DEF Next

LEMMA Upgrades == Spec => []IInv
<1>1. Init => FollowInv
      BY InvInit
<1>2. Core /\ FollowInv /\ [Next]_vars => FollowInv'
      BY FollowStep DEF Core
<1>3. Core /\ FollowInv => IInv
      BY DEF Core, IInv
<1>.  QED
      BY <1>1, <1>2, <1>3, Upgrade, PTL DEF Spec

\* From the first replaced executable until the journals are migrated, the checkpoint on disk
\* names the journals as they are, whatever script a killed app has left behind; and prepare()
\* succeeds only over a complete runtime with migrated journals (DnfastRuntime.java, 62-86).
THEOREM Follow == Spec => []JournalsFollow
<1>1. IInv => JournalsFollow
  <2> SUFFICES ASSUME IInv, kind = "43b" PROVE JournalsFollow
      BY DEF JournalsFollow
  <2>1. ~bound /\ (\E e \in Execs : Upgraded(e)) => checkpoint = journal
        BY DEF IInv, FollowInv, Pending
  <2>2. ASSUME app.pc = "ready"
        PROVE  bound /\ \A n \in Names : file[Root(n)] = "new"
    <3>1. bound /\ Has("new")
          BY <2>2 DEF IInv, FollowInv
    <3>2. Upgraded(Cli)
          BY <3>1, ConstantsAssumption DEF Has, Upgraded
    <3>3. \A l \in Libs : file[Root(l)] = "new"
          BY <3>2, ConstantsAssumption DEF IInv, PublicationInv, PublicationIsOrdered
    <3>.  QED
          BY <3>1, <3>3 DEF Has, Names
  <2>.  QED
        BY <2>1, <2>2 DEF JournalsFollow
<1>.  QED
      BY <1>1, Upgrades, PTL

-----------------------------------------------------------------------------
(* The replacement implements the contract.                                *)

\* A new executable stays, in an existing root and in one that is unpacked.
LEMMA ExecsStay ==
  ASSUME Core, [Next]_vars
  PROVE  \A e \in Execs : file[Root(e)] = "new" => file'[Root(e)] = "new"
<1>0. TypeOK /\ SlotInv /\ PublicationInv /\ UnpackInv
      BY DEF Core, JournalInv, PublicationInv
<1>1. CASE kind # "fresh"
      BY <1>0, <1>1, NewStays, TargetNames
<1>2. CASE kind = "fresh"
  <2>1. CASE file' = file
        BY <2>1
  <2>2. CASE Unpack /\ file' # file
    <3>1. PICK t \in Due(app.todo), n \in Names :
            t = Root(n) /\ \E c \in {"new", "torn"} : file' = [file EXCEPT ![t] = c]
          BY <1>0, <2>2, Unpacks
    <3>2. t \in app.todo /\ app.pc = "unpack"
          BY <2>2 DEF Due, Unpack
    <3>3. \A e \in Execs : file[Root(e)] = "new" => Root(e) # t
          BY <1>0, <3>2 DEF UnpackInv
    <3>.  QED
          BY <1>0, <3>1, <3>3, TargetNames DEF TypeOK
  <2>3. ASSUME NEW k \in Scripts, Replace(k)
        PROVE  FALSE
        BY <1>0, <1>2, <2>3, Replaces
  <2>.  QED
        BY <1>0, <2>1, <2>2, <2>3, FileSteps
<1>.  QED
      BY <1>1, <1>2

\* Targets are only written over settled journals.
LEMMA WritesSettled ==
  ASSUME Core, [Next]_vars, file' # file
  PROVE  journal' = journal /\ journal \notin Unfinished
<1>0. TypeOK /\ SlotInv /\ PublicationInv /\ UnpackInv /\ SettledInv
      BY DEF Core, JournalInv, PublicationInv
<1>1. CASE AppStep /\ Unpack
  <2>1. journal' = journal /\ kind = "fresh"
        BY <1>0, <1>1, Unpacks DEF AppStep
  <2>.  QED
        BY <1>0, <2>1, ConstantsAssumption DEF UnpackInv
<1>2. ASSUME NEW k \in Scripts, ScriptStep(k), Replace(k)
      PROVE  journal' = journal /\ journal \notin Unfinished
  <2>1. journal' = journal /\ script[k].pc = "replace"
        BY <1>2, ScriptSteps DEF Replace
  <2>2. script[k].mode # "snapshot" /\ StateAccepted(script[k])
        BY <1>0, <2>1 DEF PublicationInv, ScriptInv, Publishing
  <2>3. CASE script[k].mode = "empty"
        BY <2>1, <2>2, <2>3, ConstantsAssumption DEF StateAccepted
  <2>4. CASE script[k].mode # "empty"
    <3>1. script[k].mode = "checked"
          BY <1>0, <2>2, <2>4 DEF TypeOK
    <3>2. script[k].arg = journal /\ Settled(script[k].arg)
          BY <1>0, <2>1, <2>2, <2>4, <3>1
          DEF StateAccepted, SettledInv, ScriptSettled, Live, Holding, Publishing
    <3>.  QED
          BY <2>1, <3>2 DEF Settled, SettledAt
  <2>.  QED
        BY <2>3, <2>4
<1>.  QED
      BY <1>0, <1>1, <1>2, FileSteps

LEMMA StepImplements ==
  ASSUME Core, [Next]_vars
  PROVE  [Contract!Next]_<<Version, journal>>
<1>0. TypeOK /\ SlotInv /\ PublicationInv /\ LockInv /\ FileInv
      BY DEF Core, JournalInv, PublicationInv
<1>1. CASE file' = file
  <2>1. Version' = Version
        BY <1>1 DEF Version, Has
  <2>2. CASE journal' = journal
        BY <2>1, <2>2
  <2>3. CASE Has(kind) /\ journal' \in (journal + 1) .. MaxJournal
    <3>1. file[Root(Cli)] = kind /\ kind \in {"fresh", "16c", "43b"}
          BY <1>0, <2>3, ConstantsAssumption DEF Has, TypeOK
    <3>2. \A e \in Execs : file[Root(e)] # "new"
          BY <2>3, <3>1 DEF Has
    <3>3. Version = "old"
          BY <3>2, ConstantsAssumption DEF Version, Has
    <3>.  QED
          BY <2>1, <2>3, <3>3 DEF Contract!Next, Contract!Transact
  <2>.  QED
        BY <1>0, <2>2, <2>3, JournalFrame
<1>2. CASE file' # file
  <2>1. journal' = journal /\ journal \notin Unfinished
        BY <1>2, WritesSettled
  <2>2. \A e \in Execs : file[Root(e)] = "new" => file'[Root(e)] = "new"
        BY ExecsStay
  <2>3. Version \in {"old", "mixed", "new"} /\ Version' \in {"old", "mixed", "new"}
        BY DEF Version
  <2>4. Version = "new" => Version' = "new"
        BY <2>2 DEF Version, Has
  <2>5. Version = "mixed" => Version' # "old"
        BY <2>2 DEF Version, Has
  <2>.  QED
        BY <2>1, <2>3, <2>4, <2>5 DEF Contract!Next, Contract!Begin, Contract!Complete
<1>.  QED
      BY <1>1, <1>2

\* The journals are only ever switched over settled, nobody works on them while the
\* executables differ, and the switch never goes back, whoever is interrupted
\* (DnfastRuntime.java, lines 39-128; upgrade-dnfast-empty.py, lines 92-184).
THEOREM Implements == Spec => KeepsContract
<1>1. Init => Contract!Init
  <2> SUFFICES ASSUME Init PROVE Contract!Init
      OBVIOUS
  <2>1. \A e \in Execs : file[Root(e)] # "new"
        BY FirstFiles, TargetNames
  <2>2. Version = "old"
        BY <2>1, ConstantsAssumption DEF Version, Has
  <2>3. journal \in 0 .. MaxJournal
        BY TypeInit DEF TypeOK
  <2>.  QED
        BY <2>2, <2>3 DEF Contract!Init
<1>2. Core /\ [Next]_vars => [Contract!Next]_<<Version, journal>>
      BY StepImplements
<1>.  QED
      BY <1>1, <1>2, Upgrade, PTL DEF Spec, KeepsContract, Contract!Spec
=============================================================================
