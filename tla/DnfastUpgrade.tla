---------------------------- MODULE DnfastUpgrade ----------------------------
(***************************************************************************)
(* The replacement of the dnfast executables in an existing Fedora root:   *)
(* DnfastRuntime.prepareLocked (the app) and the guest script it runs,     *)
(* upgrade-dnfast-empty.py, directly or through upgrade-dnfast-checked.py. *)
(* The root's flock is the only thing the app, a script left behind by a   *)
(* killed app, and a package transaction left behind have in common.       *)
(***************************************************************************)
EXTENDS Naturals, FiniteSets

CONSTANTS Libs,         \* the private libraries of the overlay
          Execs,        \* usr/bin/dnfast and usr/libexec/dnfast-executor
          Cli,          \* the former
          Scripts,      \* guest processes that may exist at once
          MaxJournal,   \* bound on the package journals, 0 being none
          Unfinished,   \* journals with an unconcluded transaction
          MaxCrashes,   \* how often Android kills the app or a script
          None

ASSUME ConstantsAssumption ==
  /\ Cli \in Execs /\ Libs \cap Execs = {}
  /\ MaxJournal \in Nat /\ MaxCrashes \in Nat
  /\ Unfinished \subseteq 1 .. MaxJournal
  /\ None \notin Scripts \cup (0 .. MaxJournal)
  /\ "free" \notin Scripts /\ "stray" \notin Scripts

VARIABLES
  kind,         \* what is installed at first: nothing, 16c6887 or 43b0928
  file,         \* contents by target
  staged,       \* contents of the target's ".tinyagent-new"
  journal,      \* the package state directory
  bound,        \* whether it has been migrated to the new runtime
  checkpoint,   \* the journal the old runtime has accepted, on disk
  lock,         \* who holds the flock of the root
  script,       \* the guest scripts
  app,          \* the app's thread in prepareLocked
  stray,        \* a transaction of the old runtime that outlived its app
  crashes

vars == <<kind, file, staged, journal, bound, checkpoint, lock, script, app, stray, crashes>>

-----------------------------------------------------------------------------
Names == Libs \cup Execs
Root(n) == <<"root", n>>
Backup(e) == <<"backup", e>>
Targets == {Root(n) : n \in Names} \cup {Backup(e) : e \in Execs}

Contents == {"absent", "torn", "alien", "16c", "43b", "new"}

\* What the old executables are to a script: OLD of one or the other file.
Original(mode) == IF mode = "empty" THEN "16c" ELSE "43b"

Idle == [pc |-> "off", mode |-> "empty", arg |-> None, todo |-> {}, at |-> None]
AppAt(pc) == [pc |-> pc, slot |-> None, checked |-> None, todo |-> {}]

Has(c) == \A e \in Execs : file[Root(e)] = c

Init ==
  /\ kind \in {"fresh", "16c", "43b"}
  /\ LET clean == [t \in Targets |->
                     IF kind # "fresh" /\ t \in {Root(e) : e \in Execs} THEN kind ELSE "absent"]
     IN  \/ file = clean /\ staged = [t \in Targets |-> "none"]
         \/ kind # "fresh" /\ \E t \in Targets :
              \/ file = [clean EXCEPT ![t] = "alien"] /\ staged = [u \in Targets |-> "none"]
              \/ file = clean /\ staged = [u \in Targets |-> IF u = t THEN "alien" ELSE "none"]
  /\ journal \in IF kind = "fresh" THEN {0} ELSE 0 .. MaxJournal
  /\ bound = FALSE
  /\ checkpoint = None
  /\ lock = "free"
  /\ script = [k \in Scripts |-> Idle]
  /\ app = AppAt("down")
  /\ stray \in IF kind = "fresh" THEN {"gone"} ELSE {"waiting", "gone"}
  /\ crashes = 0

-----------------------------------------------------------------------------
\* The script.

At(k, pc) == script' = [script EXCEPT ![k].pc = pc]
Locked(k) == lock = k

Ends(k, pc) ==
  /\ At(k, pc)
  /\ lock' = IF Locked(k) THEN "free" ELSE lock
  /\ UNCHANGED <<file, staged>>

Lock(k) ==
  /\ script[k].pc = "start"
  /\ IF lock = "free" THEN At(k, "validate") /\ lock' = k /\ UNCHANGED <<file, staged>>
                      ELSE Ends(k, "refused")

\* A bug for StateAccepted: the checked journals are not looked at again.
StateAcceptedUnchanged(s) == s.mode = "empty" => journal = 0

\* The state directory is empty, or what the caller had checked.
StateAccepted(s) == IF s.mode = "empty" THEN journal = 0 ELSE journal = s.arg

\* Each executable is the original or the new one.
Known(s) == \A e \in Execs : file[Root(e)] \in {Original(s.mode), "new"}

Validate(k) ==
  LET s == script[k] IN
  /\ s.pc = "validate"
  /\ IF s.mode = "snapshot"
       THEN /\ script' = [script EXCEPT ![k] = [s EXCEPT !.pc = "ok", !.arg = journal]]
            /\ lock' = "free"
            /\ UNCHANGED <<file, staged>>
     ELSE IF StateAccepted(s) /\ Known(s)
       THEN /\ script' = [script EXCEPT ![k] = [s EXCEPT !.pc = "next", !.todo = Targets]]
            /\ UNCHANGED <<file, staged, lock>>
     ELSE Ends(k, "refused")

\* A bug for Rank: backups after what they are backups of.
RankBackupsLast(t) ==
  IF t[1] = "backup" THEN 5 ELSE IF t[2] \in Libs THEN 2 ELSE IF t[2] = Cli THEN 3 ELSE 4

\* Backups, then libraries, then executables, the CLI first.
Rank(t) ==
  IF t[1] = "backup" THEN 1 ELSE IF t[2] \in Libs THEN 2 ELSE IF t[2] = Cli THEN 3 ELSE 4
Due(todo) == {t \in todo : \A u \in todo : Rank(t) <= Rank(u)}

Payload(s, t) == IF t[1] = "backup" THEN Original(s.mode) ELSE "new"

\* An existing executable is replaced; any other file is only created, a backup
\* only from an executable that is still the original.
Publishable(s, t) ==
  \/ t[1] = "root" /\ t[2] \in Execs
  \/ file[t] = "absent" /\ (t[1] = "backup" => file[Root(t[2])] = Original(s.mode))

NextTarget(k) ==
  LET s == script[k] IN
  /\ s.pc = "next"
  /\ \E t \in Due(s.todo) :
       IF file[t] = Payload(s, t)
         THEN script' = [script EXCEPT ![k] = [s EXCEPT !.todo = s.todo \ {t}]] /\ UNCHANGED <<file, staged, lock>>
       ELSE IF Publishable(s, t)
         THEN /\ script' = [script EXCEPT ![k] = [s EXCEPT !.pc = "stage", !.at = t]]
              /\ UNCHANGED <<file, staged, lock>>
       ELSE Ends(k, "refused")

\* A bug for Stage: the whole payload is appended to what an interruption left.
StageAppends(k) ==
  LET t == script[k].at IN
  /\ script[k].pc = "stage"
  /\ staged' = [staged EXCEPT ![t] = IF @ = "none" THEN "part" ELSE "twice"]
  /\ At(k, "write")
  /\ UNCHANGED <<file, lock>>

\* publish() resumes a staging file that is a prefix of the payload.
Stage(k) ==
  LET t == script[k].at IN
  /\ script[k].pc = "stage"
  /\ IF staged[t] = "alien"
       THEN Ends(k, "refused")
       ELSE /\ staged' = [staged EXCEPT ![t] = IF @ = "none" THEN "part" ELSE @]
            /\ At(k, "write")
            /\ UNCHANGED <<file, lock>>

Write(k) ==
  /\ script[k].pc = "write"
  /\ staged' = [staged EXCEPT ![script[k].at] = "whole"]
  /\ At(k, "replace")
  /\ UNCHANGED <<file, lock>>

Replace(k) ==
  LET s == script[k] IN
  /\ s.pc = "replace"
  /\ file' = [file EXCEPT ![s.at] = Payload(s, s.at)]
  /\ staged' = [staged EXCEPT ![s.at] = "none"]
  /\ script' = [script EXCEPT ![k] = [s EXCEPT !.pc = "next", !.todo = s.todo \ {s.at}]]
  /\ UNCHANGED lock

Published(k) ==
  /\ script[k].pc = "next" /\ script[k].todo = {}
  /\ Ends(k, IF \A n \in Names : file[Root(n)] = "new" THEN "ok" ELSE "refused")

ScriptStep(k) ==
  /\ Lock(k) \/ Validate(k) \/ NextTarget(k) \/ Stage(k) \/ Write(k) \/ Replace(k) \/ Published(k)
  /\ UNCHANGED <<kind, journal, bound, checkpoint, app, stray, crashes>>

\* Nobody waits for the result of a script whose app is gone.
Reap(k) ==
  /\ script[k].pc \in {"ok", "refused"} /\ app.slot # k
  /\ script' = [script EXCEPT ![k] = Idle]
  /\ UNCHANGED <<kind, file, staged, journal, bound, checkpoint, lock, app, stray, crashes>>

-----------------------------------------------------------------------------
\* The app: one pass of prepareLocked. A failure leaves everything as it is.

\* The service prepares again. recoverPreviousProcesses ends the guest
\* processes whose record it finds.
Prepare ==
  /\ app.pc \in {"down", "failed"}
  /\ app' = AppAt("look")
  /\ \E killed \in SUBSET Scripts :
       /\ script' = [k \in Scripts |-> IF k \in killed THEN Idle ELSE script[k]]
       /\ lock' = IF lock \in killed THEN "free" ELSE lock
  /\ UNCHANGED <<file, staged, bound, checkpoint>>

\* A bug for Look: the checkpoint of an attempt that replaced nothing is kept.
LookTrustsCheckpoint ==
  /\ app.pc = "look"
  /\ app' = IF file[Root(Cli)] = "absent" THEN [AppAt("unpack") EXCEPT !.todo = {Root(n) : n \in Names}]
            ELSE IF Has("new") THEN AppAt(IF checkpoint = None THEN "compare" ELSE "check")
            ELSE [AppAt("choose") EXCEPT !.checked = checkpoint]
  /\ UNCHANGED <<file, staged, bound, checkpoint, lock, script>>

\* The first look at the executables and the checkpoint. A checkpoint is only
\* kept if a publication has begun.
Look ==
  /\ app.pc = "look"
  /\ app' = IF file[Root(Cli)] = "absent" THEN [AppAt("unpack") EXCEPT !.todo = {Root(n) : n \in Names}]
            ELSE IF Has("new") THEN AppAt(IF checkpoint = None THEN "compare" ELSE "check")
            ELSE [AppAt("choose") EXCEPT !.checked = IF Has("43b") THEN None ELSE checkpoint]
  /\ UNCHANGED <<file, staged, bound, checkpoint, lock, script>>

\* tar writes the members in place, one after the other.
Unpack ==
  /\ app.pc = "unpack"
  /\ IF app.todo = {}
       THEN app' = AppAt(IF checkpoint = None THEN "compare" ELSE "check") /\ UNCHANGED file
       ELSE \E t \in Due(app.todo) :
              IF file[t] = "torn"
                THEN file' = [file EXCEPT ![t] = "new"] /\ app' = [app EXCEPT !.todo = @ \ {t}]
                ELSE file' = [file EXCEPT ![t] = "torn"] /\ UNCHANGED app
  /\ UNCHANGED <<staged, bound, checkpoint, lock, script>>

Spawn(mode, arg, pc) ==
  \E k \in Scripts :
    /\ script[k].pc = "off"
    /\ script' = [script EXCEPT ![k] = [Idle EXCEPT !.pc = "start", !.mode = mode, !.arg = arg]]
    /\ app' = [app EXCEPT !.pc = pc, !.slot = k]

\* Which script runs first, and how.
Choose ==
  /\ app.pc = "choose"
  /\ IF app.checked # None THEN Spawn("checked", app.checked, "publish")
     ELSE IF file[Root(Cli)] = "43b" THEN Spawn("snapshot", None, "snapshot")
     ELSE Spawn("empty", None, "publish")
  /\ UNCHANGED <<file, staged, bound, checkpoint, lock>>

\* The script the app waits for has ended.
Answer(pc, next) ==
  /\ app.pc = pc /\ script[app.slot].pc \in {"ok", "refused"}
  /\ app' = IF script[app.slot].pc = "ok"
              THEN [AppAt(next) EXCEPT !.checked = script[app.slot].arg]
              ELSE AppAt("failed")
  /\ script' = [script EXCEPT ![app.slot] = Idle]
  /\ UNCHANGED <<file, staged, bound, checkpoint, lock>>

Snapshot == Answer("snapshot", "ask")
Publish == Answer("publish", "check")

\* A launcher takes the lock of the root, and runs only the executables whose
\* hashes it is given.
Launches(c) == lock = "free" /\ Has(c)

\* app-runtime check of the old runtime.
Ask ==
  /\ app.pc = "ask"
  /\ app' = IF Launches("43b") /\ journal \notin Unfinished
              THEN [app EXCEPT !.pc = "save"] ELSE AppAt("failed")
  /\ UNCHANGED <<file, staged, bound, checkpoint, lock, script>>

\* A bug for SaveCheckpoint: publication starts before anything is on disk.
SaveCheckpointNever ==
  /\ app.pc = "save"
  /\ Spawn("checked", app.checked, "publish")
  /\ UNCHANGED <<file, staged, bound, checkpoint, lock>>

SaveCheckpoint ==
  /\ app.pc = "save"
  /\ checkpoint' = app.checked
  /\ Spawn("checked", app.checked, "publish")
  /\ UNCHANGED <<file, staged, bound, lock>>

\* app-runtime check, migrate, check of the new runtime.
Launched(pc, next) ==
  /\ app.pc = pc
  /\ app' = IF Launches("new") /\ journal \notin Unfinished THEN AppAt(next) ELSE AppAt("failed")

Check ==
  Launched("check", "migrate") /\ UNCHANGED <<file, staged, bound, checkpoint, lock, script>>

Migrate ==
  /\ Launched("migrate", "verify")
  /\ bound' = (bound \/ app'.pc = "verify")
  /\ UNCHANGED <<file, staged, checkpoint, lock, script>>

Verify ==
  Launched("verify", "forget") /\ UNCHANGED <<file, staged, bound, checkpoint, lock, script>>

Forget ==
  /\ app.pc = "forget"
  /\ checkpoint' = None
  /\ app' = AppAt("compare")
  /\ UNCHANGED <<file, staged, bound, lock, script>>

Compare ==
  /\ app.pc = "compare"
  /\ app' = AppAt(IF \A n \in Names : file[Root(n)] = "new" THEN "ready" ELSE "failed")
  /\ UNCHANGED <<file, staged, bound, checkpoint, lock, script>>

AppStep ==
  /\ Prepare \/ Look \/ Unpack \/ Choose \/ Snapshot \/ Publish \/ Ask \/ SaveCheckpoint
     \/ Check \/ Migrate \/ Verify \/ Forget \/ Compare
  /\ UNCHANGED <<kind, journal, stray, crashes>>

-----------------------------------------------------------------------------
\* A package transaction of the old runtime whose app was killed before the
\* launcher's record was written. Its dnfast refuses other executables.
StrayStep ==
  /\ \/ stray = "waiting" /\ lock = "free" /\ stray' = "holds" /\ lock' = "stray"
        /\ UNCHANGED journal
     \/ stray = "holds" /\ Has(kind) /\ journal' \in (journal + 1) .. MaxJournal
        /\ UNCHANGED <<stray, lock>>
     \/ stray = "holds" /\ stray' = "gone" /\ lock' = "free" /\ UNCHANGED journal
     \/ stray = "waiting" /\ stray' = "gone" /\ UNCHANGED <<journal, lock>>
  /\ UNCHANGED <<kind, file, staged, bound, checkpoint, script, app, crashes>>

\* Android kills the app, any of the scripts, or both.
Crash ==
  /\ crashes < MaxCrashes
  /\ crashes' = crashes + 1
  /\ app' \in {app, AppAt("down")}
  /\ \E killed \in SUBSET Scripts :
       /\ script' = [k \in Scripts |->
                       IF k \notin killed THEN script[k]
                       ELSE IF k = app'.slot THEN [script[k] EXCEPT !.pc = "refused"]
                       ELSE Idle]
       /\ lock' = IF lock \in killed THEN "free" ELSE lock
  /\ UNCHANGED <<kind, file, staged, journal, bound, checkpoint, stray>>

Next == (\E k \in Scripts : ScriptStep(k) \/ Reap(k)) \/ AppStep \/ StrayStep \/ Crash

Spec == Init /\ [][Next]_vars

\* The processes run, the flock of a dead one is free, and somebody prepares
\* again after a failure.
Fairness ==
  /\ WF_vars(AppStep)
  /\ \A k \in Scripts : WF_vars(ScriptStep(k)) /\ WF_vars(Reap(k))
  /\ WF_vars(StrayStep)

FairSpec == Spec /\ Fairness

-----------------------------------------------------------------------------
TypeOK ==
  /\ kind \in {"fresh", "16c", "43b"}
  /\ file \in [Targets -> Contents]
  /\ staged \in [Targets -> {"none", "part", "whole", "alien"}]
  /\ journal \in 0 .. MaxJournal
  /\ bound \in BOOLEAN
  /\ checkpoint \in {None} \cup 0 .. MaxJournal
  /\ lock \in {"free", "stray"} \cup Scripts
  /\ script \in [Scripts ->
       [pc : {"off", "start", "validate", "next", "stage", "write", "replace", "ok", "refused"},
        mode : {"empty", "snapshot", "checked"}, arg : {None} \cup 0 .. MaxJournal,
        todo : SUBSET Targets, at : {None} \cup Targets]]
  /\ app \in
       [pc : {"down", "failed", "look", "unpack", "choose", "snapshot", "ask", "save", "publish",
              "check", "migrate", "verify", "forget", "compare", "ready"},
        slot : {None} \cup Scripts, checked : {None} \cup 0 .. MaxJournal, todo : SUBSET Targets]
  /\ stray \in {"waiting", "holds", "gone"}
  /\ crashes \in 0 .. MaxCrashes

Upgraded(e) == kind # "fresh" /\ file[Root(e)] = "new"

\* However often it is interrupted, an original executable is only replaced once its backup
\* is in place, and no new one is ever visible without its private libraries
\* (upgrade-dnfast-empty.py, lines 167-184).
PublicationIsOrdered ==
  \A e \in Execs : Upgraded(e) => file[Backup(e)] = kind /\ \A l \in Libs : file[Root(l)] = "new"

\* From the first replaced executable until the journals are migrated, the checkpoint on
\* disk names the journals as they are, so that the next prepare can finish; and prepare()
\* succeeds only over a complete runtime whose journals have been migrated
\* (DnfastRuntime.java, 62-86).
JournalsFollow ==
  kind = "43b" =>
    /\ ~bound /\ (\E e \in Execs : Upgraded(e)) => checkpoint = journal
    /\ app.pc = "ready" => bound /\ \A n \in Names : file[Root(n)] = "new"

\* What a launcher finds in the root.
Version == IF Has("new") THEN "new" ELSE IF \E e \in Execs : file[Root(e)] = "new" THEN "mixed" ELSE "old"

Contract == INSTANCE UpgradeContract WITH version <- Version

\* The journals are only ever switched over settled, and nobody works on them
\* while the executables differ.
KeepsContract == Contract!Spec

Foreign == \E t \in Targets : file[t] = "alien" \/ staged[t] = "alien"

\* If what was left behind settles the journals, and a 16c6887 root has none, an
\* upgrade interrupted anywhere is completed by preparing again.
Completes ==
  /\ kind # "fresh" /\ ~Foreign
  /\ <>[](journal \notin Unfinished /\ (kind = "16c" => journal = 0))
  => <>(app.pc = "ready")
=============================================================================
