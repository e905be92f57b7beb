# TinyAgent: TLA+ models, checks and proofs

TinyAgent is an Android app that runs a Fedora userland (PRoot) and an OpenCode
server under the app's own UID, and offers that userland two durable job queues:
package transactions with `dnfast`, and commands or APK installations on the
Android side through a self-ADB connection. Most of the difficulty of the program
is in what happens to such a job, or to the server itself, when a request, a worker
thread, a restarted service, a killed app and a process that outlives all of them
meet. The rest of it is in scripts: one that replaces executables in an existing
root, and those that make an APK out of downloads and say what it was made of. Each
of them can be killed between any two files. That is what these modules are about.

Everything is in this directory. Paths below are relative to the repository;
`J/` stands for `app/src/main/java/io/github/gplaider/tinyagent/`.

    tlc -workers 2 -config jobs_restart.cfg MCAndroidJobs      # any run
    tlapm AndroidJobs_proofs.tla                               # any *_proofs module

## 1. Inventory

| Part | State | Operations | Interacts with | What is hard | What makes it correct |
|---|---|---|---|---|---|
| Android job queue `J/AndroidJobs.java` | job row files; `controls` (id → cancel flag), `current`, `active`, `closed`; a one-thread executor | constructor (recovers rows), `submit`, `read`, `inspect`, `cancel`, `close`, the worker's `run`, `remote`, `install` | bridge (requests), `SelfAdbClient` (connection that any thread may close), `android-job.sh` (remote truth) | a closed instance drains while its successor recovers; lost answers; app killed at any step; cancel between two looks at the flag | an id is handed to Android once; "failed" means never sent; final rows are true; no row is abandoned; a cancelled job does not block the queue |
| Android job script `scripts/android-job.sh` | one directory per job: `pid`, `cancel`, `exit`; the process group of the worker shell | `start`, generated worker, `status`, `cancel` | called over ADB, several calls at once | one call looks at several files and processes, one after the other; the pid can be reused; the leader can exit before its group | never two workers; a final report is true; a returned cancel ends the command; no foreign group is signalled |
| Package jobs `J/PackageJobs.java` | job row files; `current`, `currentRow`, `cancelRequested`, `running` | constructor, `submit`, `read`, `cancel`, `close`, worker, output callback | `LocalLinuxRuntime`, bridge | status set and saved under two separate locks; three nested monitors; failing writes; overlap with the next instance | one transaction at a time; cancellation sticks; "completed" is true; a job called over has no process left |
| Package processes `J/LocalLinuxRuntime.java`, `J/RuntimeProcessOutput.java`, `app/src/main/assets/linux-launch.sh`, `native/dnfast-launch.c` | `pids`, `cancelled`, `lastExitCode`; pid records on disk; `flock` of the root | `runPackages`, `run`, `start`, `cancel`, `stop`, `forget`, `recoverPreviousProcesses` | processes outlive the app | record not yet written when it is read; a wait that runs out | a new instance does not run beside an old transaction |
| dnfast runtime and upgrade `J/DnfastRuntime.java`, `scripts/upgrade-dnfast-empty.py`, `scripts/upgrade-dnfast-checked.py` | installed executables, backups, staging files, checkpoint, planning marker | `prepareLocked`, `planningIdentity`, `planningCurrent`, `rememberPlanning`, both guest scripts | package journals, `flock` of the root, scripts and transactions left behind | file-by-file publication killed anywhere; a stale checkpoint; somebody else writing the journals | never a new executable without backup and libraries; journals switched only when settled; preparing again completes it |
| Runtime service `J/RuntimeSetupService.java`, `J/LocalLinuxRuntime.java` | `running`, `stopping`, `backend`, `runtime`, session monitor; the preferences "wanted" and status | START, STOP, the worker's task, `onDestroy`, resumption by the activity | bridge, backend process, both job services | STOP on the main thread between any two worker steps; overlap of instances; app killed with or without its processes | STOP always ends the backend; never two backends |
| OpenCode recovery patches `runtime/*.patch` | stored parts of tool calls | recovery at start, `SessionPrompt.cancel` | backend, command processes | an abort reads, cancels and rewrites in three steps; a restarted backend reads what a dead one left | a final tool call has no process |
| Guest clients `scripts/tinyagent-packages.py`, `scripts/tinyagent-android.py` | identifier of the job | submit, status, cancel | bridge | a lost request or answer | exit codes tell the truth; an uncertain job can be asked for |
| Runtime check scripts `scripts/check-stock-restart.py`, `check-native-stop-recovery.py`, `check-job-abort.py`, `check-runtime-candidate.py` | round and place | drive the service, wait, assert | service, backend | what they assume between a tap and an assertion | assertions hold unless something else failed |
| Phone SDK inputs `scripts/prepare-android-sdk-fedora.py`, `configure-android-sdk-fedora.py`, `configure-arm-aidl.py` | archives, trees, links, `provenance.json`, `android-build.json` | prepare, configure, relink aidl | other builds on the phone | only the first script takes a lock | links lead to complete pinned trees; a finished build has ARM64 aidl |
| Runtime inputs `scripts/collect_upstream.py`, `build-proot-fchmodat2.py`, `stage-*.py` and others | downloads, builds, staged assets, notices, reports | seventeen scripts in six chains; `check-packaged-runtime.py` | Gradle's assembly of the APK | killed between two files; assembly while a script works | only pinned bytes are staged and accepted; a rerun completes |
| Library sources `scripts/collect-dnfast-library-sources.py` | RPMs, receipt | download, save receipt | distribution servers | the receipt is rewritten row by row and is itself the pins of the next run | a complete receipt is true |
| APK delta `scripts/apk-delta.py`, `apk-delta-android.py` | part, output, file on the phone | create, apply, phone script | a transfer that damages | several appliers; kills; a part left behind | the output is the exact APK or absent |
| Source export `scripts/export-private-source.py`, `verify-source-snapshot.py` | checkout, `SOURCE-SNAPSHOT.json` | export, archive, verify | an editor | digest and copy are two readings | what verifies is whole |
| Release evidence `scripts/check-release.py` | rounds, logs, `candidate.json` | rebuild, round, select, verdict | | selected rounds not consecutive, not of one APK, logs overwritten | three complete rounds in a row on the APK on disk |
| Signers `scripts/prepare-release-signing.py`, `provision-development-signing.py` | key files | make, provision | a transport that truncates | two makers at once; kill between files | metadata means a complete signer; private files exact |
| Diagnostics bridge `J/AndroidDiagnosticsBridge.java` | one abstract socket, one request thread | `serve`, `handle`, `close` | every job API call | the next instance binds the same name | requests are served one at a time |
| Self-ADB connection `J/SelfAdbClient.java`, `J/AdbShellResult.java` | connection, closed flag | `inspect`, `execute`, `install`, `close` | adbd | closed while being opened; answer lost after execution; packet split | an answer accepted is the whole answer |
| Native launcher `native/dnfast-launch.c` | `flock`, root id, sealed context | lock, verify hashes, exec | both job kinds, the upgrade | | one writer per root |
| Wireless pairing `J/WirelessAdb.java`, `J/WirelessPairingService.java` | discovery state, chosen port | discover, pair, connect | NSD callbacks | callbacks after a timeout | |
| APK installer screens `J/InstallerActivity.java`, `J/InstallResultReceiver.java` | persisted session id and code, `BUSY` | create/commit session, confirmation, result broadcast | PackageInstaller | process death between create and commit; late broadcast | a result is applied to its own session |
| Root preparation `preroot/*.sh` | lock file, state record, pid | start, stop, status of the root backend | | stale record, reused pid | one backend |
| Policies and helpers, user interface, other check scripts, probes, benchmarks, vendored code | none, or view state | | | | |

`PROJECT.json` lists all of them as components, with every hazard found at its
line.

## 2. Modules

    AndroidRemote            the promise: what android-job.sh does to one job directory
      ^            ^
      | EXTENDS    | refined by (KeepsContract, INSTANCE ... WITH)
    AndroidJobs  AndroidJobScript      the Java queue;  the script step by step
      ^            ^
    MCAndroidJobs MCAndroidJobScript   TLC instances (the latter adds a history variable)
    AndroidJobs_proofs       AndroidJobScript_proofs
      ^ EXTENDS
    AndroidJobsRows_proofs

    PackageProcess           processes, pid records, the lock of the Fedora root
      ^
    PackageJobs              PackageJobs.java over LocalLinuxRuntime.java
      ^
    MCPackageJobs            adds what the commands of a job have done
      ^ EXTENDS
    PackageJobs_proofs

    UpgradeContract          the promise of an upgrade to the package journals
      ^ refined by (KeepsContract)
    DnfastUpgrade            prepareLocked and the guest scripts, file by file
      ^
    DnfastUpgrade_proofs

    RuntimeService           service, runtime, backend, tool calls
      ^ EXTENDS      ^ EXTENDS
      |              RuntimeService_proofs
    RuntimeDrills            the check scripts that drive it      GuestClient
      ^ EXTENDS                                                     ^ INSTANCE
    MCService  -----------------------------------------------------+
      ^ EXTENDS (and RuntimeService_proofs)
    MCService_proofs

    RuntimeInputs            the scripts that make what the APK packages
      ^ EXTENDS
    MCBuild  --INSTANCE-->   SdkInputs, LibrarySources, ApkDelta, SourceExport,
                             ReleaseEvidence, Signing
      ^ EXTENDS
    MCBuild_proofs

`MCService` and `MCBuild` choose one focus (or part) in the initial state and follow
it. The clients share nothing with the service but the bridge, and the parts of the
build share files only after the script that writes them has ended, so there is no
interleaving between them to explore; one run asks the same questions as several.

### AndroidRemote: the contract between the Java queue and the script

A job directory is in one of eight phases (`absent`, `starting`, `stillborn`,
`running`, `lingering`, `completed`, `leaderless`, `dead`), beside its cancel file
and exit code. `Reports(j)` is the set of answers one `status` call may give. The
unpleasant answers are there because the script really gives them: a running job
may be "unknown", a completed one may be "cancelled", a lingering one "running" with
a code. AndroidJobs is checked against the whole set.

### AndroidJobScript: `scripts/android-job.sh`

One directory, any number of concurrent `status` and `cancel` calls, one action per
point at which a script looks at or changes something another can see. `Next` has
the `start` script (`Mkdir`, `LaunchWorker`, or `StartBreaksOff`), the generated
worker (`PublishPid` → `RunCommand` → `CommandEnds` → `PublishExit` → `LeaderExits`,
or `NoCwd`, which writes 126 in place so that an empty exit file is visible),
`cancel` (`CancelMark` … `CancelKill`, three seconds of waiting are three tries) and
`status`. Android may kill anything (`MayLose`), and the recorded pid may be given
to a foreign group (`MayReuse`), except in the instant between a cancel's identity
test and its signal, which no script can close.

### AndroidJobs: `J/AndroidJobs.java`

Every bridge the service builds owns one instance: a generation `g`. `life[g]` is
`booting` in the constructor, `open`, `closed` after `close()`, and `dead` when
Android killed the process. Variables carry the Java names (`controls`, `current`,
`active`, `submitted`, `row`); `flagged` is the set of controls whose AtomicBoolean
is true. `disk` is the stored row of every id. `row[g]` is the worker's own JSON
object, which is a *different* object from the fresh copy `cancel()` loads and
rewrites: the worker's next `save` overwrites what `cancel()` stored, in the model
as in the code. (`RecoverLoad`, `RecoverSave`) splits the constructor's
read-modify-write, because the closed predecessor's worker holds another monitor.

`WorkerStep` follows `run()`: `Take`, `Begin`, `Check1`, `Announce`, `Prove`,
`Check2`, then `Stage` for an install, a request for an install or a `start`, and the
loop `Poll` → (a request to cancel) → `Query` → `Record`. A request is `Verify` → `Send`
→ `Answered`. `Verify` is the client's last look whether it was closed, inside
`SelfAdbClient.read` (`J/SelfAdbClient.java:184`, `:197`); `Send` is the write behind it
(`:190`, `:198`, `:201`). No lock joins the two, and Dadb reopens a closed connection for
the write, so `Send` does not ask whether the client is still open. `Answered` does, as
the code does once more (`:191`, `:202`).
`Fail` is the catch block and is possible wherever the code can throw; `Finally` is
the finally block. A request whose caller gave up, or died, becomes a *ghost*: adbd
may execute it later or never. `handed` counts the start commands and installs
handed to adbd for each id.

### PackageProcess and PackageJobs: `J/PackageJobs.java`, `J/LocalLinuxRuntime.java`

A process of a package job is a `shell` (linux-launch.sh, no record yet), a `launcher`
(record moved into place), a `writer` (past the lock of the Fedora root), or `gone`.
`SIGQUIT` only reaches a process whose record names it. Processes survive the app.

PackageJobs has instances by generation as well. A start is `NewInstance`
(recoverPreviousProcesses: SIGQUIT to what the records name), `Prepared` (those are
gone and the `DnfastRuntime.class` monitor was free), the constructor's
`RecoverLoad`/`RecoverSave`, `Booted`. `cancel()` is two actions, because
`running.cancel()` waits for the runtime's monitor, which `start()` holds: between
them `cancelling[g]` stands for the job monitor being held. The worker is `Enter`
(takes the package monitor), `Plan`, `Launch`, `Started`, `Output`, `Exited`,
`AwaitStop`, `SetStatus`, `Finish`. The last two are the two synchronized blocks of
the worker. A planned install runs the five commands of `runPackages` in order.

### DnfastUpgrade and UpgradeContract: `J/DnfastRuntime.java`, `scripts/upgrade-dnfast-*.py`

The root starts `fresh`, with the executables of 16c6887 or with those of 43b0928,
with any package journal, perhaps with a foreign file in the place of a target. The
app's pass through `prepareLocked` is `Prepare` → `Look` → (`Unpack` for a fresh root,
or `Choose` → `Snapshot` → `Ask` → `SaveCheckpoint` → `Publish`) → `Check` →
`Migrate` → `Verify` → `Forget` → `Compare`. The guest script is `Lock`, `Validate`,
and for every target in the order of `Rank` `NextTarget`, `Stage`, `Write`,
`Replace`; it holds the flock, which a dead process gives back. `StrayStep` is a
transaction of the old runtime that outlived its app. `Crash` kills the app, any
scripts, or both, at any step.

`UpgradeContract` is what this promises to the journals, in five lines: the old
runtime may write them until the switch begins, the switch begins only over settled
journals, and it never goes back. `KeepsContract` is the refinement, with `version`
computed from what a launcher would find.

### RuntimeService, RuntimeDrills, GuestClient

An instance of the service is a record of its fields and the place of its worker:
`Begin` (takes the task), `Reap` (recoverPreviousProcesses), `Prepare`, `Look` (the
cancel flag, the bridge), `Spawn`, `Started` (at most a second for the launcher's
record, with the runtime's monitor held), `Await` (health), `Ready`, `Serving`, `Finish`
and `CloseTask` (the finally block and stopSelf). The main thread takes `StartCommand`
and `StopCommand`; a stop has a second half, `StopRuntime`, because it waits for the
runtime's monitor. `DestroyBegins`/`DestroyEnds` are `onDestroy`, `KillApp` and
`Reopen` a killed app and the activity that resumes a wanted runtime. A backend is a
`shell`, `proot` (recorded), `recovered`, `listening`, or `gone`. Below it, a tool call
is a stored status and a child process; `AbortReads`, `AbortCancels` and `AbortMarks`
are the three steps of `SessionPrompt.cancel`.

RuntimeDrills runs five check scripts as sequences of operations over that model:
taps, waits, kills and assertions, three rounds each. `Settled` says that finding a
button takes a second, in which an instance that has ended is destroyed. GuestClient
models both command-line clients over a bridge that may lose a request or an answer.

### SdkInputs, RuntimeInputs, LibrarySources

In RuntimeInputs a script is a sequence of effects: `need`, `put`, `copy`, `match`,
`stage`, `download`, `fetch`, `cache`. A file written in place is `torn` between two of
its effects; one that is written aside and moved is not. `Steps` translates
seventeen scripts and two copies a person makes, `Scripts` says in which chain they are run, `Kill` stops one at any
effect, and `Pack`/`Check` are an assembly of the APK and `check-packaged-runtime.py`,
file after file, also while a script works. SdkInputs has two builds on the phone:
locked download and extraction, unlocked linking. LibrarySources has the receipt that
is at once a report and the pins of the next run.

### ApkDelta, SourceExport, ReleaseEvidence, Signing

In ApkDelta `Skip` and `Share` are one turn each of the loop of `apk-delta.py create`
(headers in the order of their offsets, payloads looked up by name and compared, a literal
for the gap in between), `Send` writes the patch, which may arrive damaged, and two
appliers and the phone script use it span by span. An archive is its bytes and its
directory; where a payload starts is read from its local header, as in `payloads()`. SourceExport reads, digests and copies while somebody edits.
ReleaseEvidence has rounds, logs that a later round may overwrite, a selection and the
verdict. Signing has two makers of a release signer, and the transfer of the
development signer through an encoded copy over a transport that truncates.

### What is abstracted

Texts, outputs, argv, timestamps, error strings and package identities. Exit codes
are `zero` or `other`. `mode` (root or developer) only selects a directory prefix
and a UID and is left out. The planning identity is one bit that an app update may
clear. Requests arrive on one thread, as in `J/AndroidDiagnosticsBridge.java`, and
hold the instance's monitor, so each API call is atomic except where it is split
above. Failing writes of job rows are modelled for package jobs (`MayFail`), not for
Android jobs. The short processes `prepare()` starts are part of one step of
RuntimeService; DnfastUpgrade shows what is inside. The contents of a file are what the
scripts distinguish of it (`absent`, `torn`, `pinned`, `old` …), digests are the
contents themselves, and the presence of the guest's python is taken for granted.

## 3. Runs

Nine runs pass and three show a disagreement between the code and what the
repository says of it. `MaxGen` bounds how many instances are built, `MayCrash`
allows Android to kill the app, `MayLose` to kill remote processes, `MayFail` lets a
row write fail, `MayLag` lets a record or an exit take longer than it is waited for,
`MaxFaults` counts kills and bad transfers.

| Run | Instance | Distinct states | What it shows |
|---|---|---|---|
| `script` | 2 calls, loss, pid reuse | 106 K | `ReportsAreTrue`, `CancelEndsCommand`, `NeverSignalsForeign`, and the refinement `KeepsContract` |
| `jobs_restart` | 1 shell job and 1 install, queue of 2, 2 instances, crash, loss | 843 K | `HandedAtMostOnce`, `FailedMeansNotSubmitted`, `CodesAreTrue`, `PolledRowsAreOwned`, `CancelledMeansStopped`, `CancelledInstallGoesNoFurther` |
| `jobs_fair` | 1 shell job, 1 install, fairness | 98 K | `CancelReleasesWorker`, `QueueDrains` |
| `pkg_restart` | an install and a check, 2 instances, crash | 509 K | `RowsAreTrue` |
| `pkg_storage` | an install, 2 instances, failing writes, fairness | 12 K | `FinalMeansGone`, `CancelEndsJob`, `JobsEnd` |
| `pkg_lag` | a refresh and a check, 2 instances, crash, failing writes, lag | 1.8 M | `CompletedIsTrue`, `CancelsReachWorker` (the inductive invariant), `CancellationSticks`, `StopsStarting` |
| `upgrade` | 2 executables, 1 library, 2 scripts, journals 0–2 (1 unfinished), 2 kills | 738 K | `PublicationIsOrdered`, `JournalsFollow`, the refinement `KeepsContract`, `Completes` |
| `build` | 7 parts; 1 fault, 2 for the SDK and the signers | 190 K | `InputsArePinned`, `HandedOverIsExact`, `DeltasApply`, `ThreeRoundsInARow`, `InputsRecover` |
| `service` | 2 instances, 2 processes, 3 tool calls, 4 taps, 1 fault, 3 rounds | 143 K | `OneBackend`, `ToolStateIsTrue`, `ScriptsHold`, `ClientsAreTrue`, `StopEnds` |
| `jobs_premature` | violation of `UnknownMeansSubmitted` | | see section 6 |
| `jobs_lost` | violation of `RunningJobsStayReachable` | | |
| `pkg_stranded` | violation of `CancelRequestedRowsAreOwned` | | |

Why these bounds. Two script calls are enough for a call to be overtaken by another
one at each of its steps; a third has no file or process the second does not
already change. Two instances are the smallest number with overlap or recovery, and
a third one starts from rows the second can already have left. In the job queue a
job interferes with another one only by occupying the worker and a slot; the second
instance is built only where no install was asked for (`MCAndroidJobs`), because an
install has no recovery but its row. `ShellJobs` and `InstallJobs` are never more than
one each, so there is no symmetry to exploit. The safety of both queues, the script,
the upgrade, the service, the clients and the build does not rest on these bounds: it is proved for all of them (section 5).

In the upgrade a second kill hits the pass that repairs what the first one left; what
a third would find, the second can already leave. One library and two executables give
all ranks of the publication order; two scripts are one that was left behind and its
successor. In the service two instances overlap, the fault may be a kill, a crash or a
late record, and four taps are start, stop, and both again in the overlap; a session
of two calls is enough for an abort that has read one and not the other. Two runs of a
client on two identifiers can ask for the same job or for different ones; two losses lose
a request and the answer to its repetition. In the build
one fault can hit each effect of each script, and a rerun then meets what it left;
archives have entries that move, change, are too small, and share a name. Rounds of
evidence are four of which three are selected, so that a gap, a rebuild and an
overwritten log fit in between. Deadlock is not checked: the user may stop asking, and
bounded numbers of instances, taps and faults run out.

Each property of a passing run has a mutant: a definition named "A bug for X", next
to the definition it corrupts, that a plausible mistake in that code would produce.

## 4. Fairness

`AndroidJobs!Fairness`: the worker thread runs, adbd executes what it received, the
constructor returns, and a launched worker shell writes its pid. Nothing is assumed
of users, of commands or of Android. `CancelReleasesWorker` holds with this alone:
the command need not end. It stops short of a job in phase `lingering`: a command
that ended and left members of its group behind reports "running" until they are
gone, and `cancel` no longer touches a group whose leader has exited. `QueueDrains`
adds the antecedent `CommandsEnd`, which says of the environment that commands and
what they leave behind end.

`PackageJobs!Fairness`: a step of the worker gets the monitors it waits for
infinitely often, so it is strong fairness on the worker (the request thread is one
thread that waits for its next client between two cancellations); `cancel()` returns;
launch.sh writes its record; a process that got SIGQUIT dies, which is PRoot's
kill_all_tracees handler. `JobsEnd` has the antecedent `CommandsEnd`;
`CancelEndsJob` does not. Both are checked without crashes and without lag. Under lag
they are false, see the hazard at `J/LocalLinuxRuntime.java:361`.

`DnfastUpgrade!Fairness`: the app's thread and the scripts run, the flock of a dead
process is free, a stray transaction ends. `Prepare` is part of `AppStep`: somebody
opens the app again after a failure, which is what `Completes` is about. It excepts a
root with a foreign file, which the code refuses on purpose, a `fresh` root (below),
and journals that never settle.

`MCService!ServiceFairSpec`: the main thread and the workers run; the launcher writes
its record and a process that got SIGQUIT ends. Nothing is assumed of taps, crashes or
tool calls.

`MCBuild!BuildFairSpec`: a script that was started runs on, and an assembly is packed
and checked. That anybody starts them is not assumed but is the antecedent of
`InputsRecover`: every script of the chain, and an assembly, started again and again.
Its conclusion excepts `Spoiled`, the files a fault spoils for every later run.

## 5. Proofs

TLAPS proves what follows for every value of the constants that satisfies the named
assumption of the module: any number of jobs, instances, calls, scripts, processes,
executables and libraries, with every kill, loss and failure the model has. The bounds
of section 3 play no part. Each safety invariant here is a consequence of a stronger one
that is inductive; TLC checked that one on the configurations of section 3 before it was
proved.

| Module | Theorems | Inductive invariant | Assumption |
|---|---|---|---|
| `AndroidJobs_proofs` | `Typed`, `Claims`, `HandedOnce`, `FailedNeverSubmitted` | `TypeOK /\ ClaimsAreUnique` | `JobsAssumption` |
| `AndroidJobsRows_proofs` | `CodesTrue`, `Owners`, `PolledOwned`, `FlaggedInstallStops`, `CancelledStopped` | `TruthInv`, `OwnerInv`, `PollInv`, `FlagInv`, `RequestInv`, `CancelInv`, each relative to those before it | `JobsAssumption` |
| `AndroidJobScript_proofs` | `Typed`, `CancelEnds`, `NeverForeign`, `Implements`, `TrueReports` | `ScriptInv`, `ReportsInv` | `ScriptAssumption` |
| `PackageJobs_proofs` | `Typed`, `Reached`, `CancelSticks`, `CancelStopsStarting`, `CompletedTrue`, `RowsTrue`, `FinalGone` | `TypeOK /\ CancelsReachWorker`, then `RowsInv` relative to it | `PackageAssumption` |
| `DnfastUpgrade_proofs` | `Typed`, `Ordered`, `Follow`, `Implements` | `IInv` | `ConstantsAssumption` |
| `RuntimeService_proofs` | `Typed`, `SingleBackend`, `StatesAreTrue` | `Invariant` | `ServiceAssumption` |
| `MCService_proofs` | `RunTyped`, `RunSingleBackend`, `RunStatesAreTrue`, `ScriptsTrue`, `ClientsTrue` | `FocusInv`: `Invariant`, with `DrillInv /\ PlaceInv` and, without a fault, `Quiet` under a script, and `GuestInv` under the clients | `ServiceAssumption`, `DrillAssumption`, `GuestAssumption` |
| `MCBuild_proofs` | `InputsPinned`, `HandedOverExactly`, `DeltasRebuild`, `RoundsInARow`, `BuildTyped` | `BuildInv`, one conjunct per part | `BuildAssumption`, `InputsAssumption`, `DeltaAssumption` |

The assumptions say that kinds of ids are disjoint, that the value that stands for null
is none of them, that bounds are naturals and switches Booleans; the upgrade's, that the
CLI is one of the executables, no library is one, and unfinished journals are among the
journals; the service's, that it has an instance 1 and that 0, which it uses for
"none", is neither an instance nor a process; the build's, that `Nobody` is no build and
no maker is called "absent" or "torn", that there is a library, an APK and more than one
attempt at a download, and that libraries pinned by hand are among the libraries and their
digest among the versions, and of an APK that it is a ZIP file (`DeltaAssumption`): every
entry has a header of its own and lies within the file, and no two overlap. The scripts are
not parameters, they are translated.

### The Android job queue

`HandedAtMostOnce` is not inductive: nothing in `handed[i] <= 1` says that the worker
about to send has not sent before. The strengthening is the idea of a **claim**. A
claim on job i is a task in some queue that is to create it, or a worker that holds
it and has not passed `Send` (`Verify` does not spend a claim). Only `submit` of an unseen id creates a claim; `Take`
turns a queued claim into a held one; `Send` spends it; a failure or a crash drops
it. `ClaimsAreUnique` is the conjunction of

* `WorkerInv`: where a worker may be for the kind of task it holds;
* `ClaimInv`: no two claims on one job, in one queue, in two instances, or queued and
  held at once;
* `HandedInv`: while there is a claim on a job, or its row is absent, or is (or is
  about to become) a failure without a code, it has not been handed over.

`HandedAtMostOnce` and `FailedMeansNotSubmitted` follow. The preservation proof has one
step per action; actions that touch no claim share a lemma.

What the rows say rests on more, because a row has up to three copies (on disk, with a
worker, with a constructor) and any of them may be the next one written.
`CodesTrue` needs `TruthInv`: the truth of a code also in the worker's copy, the
constructor's, and in the code a queued task carries; and that the remote side takes back
nothing it published. `PolledOwned` needs `OwnerInv` (what an instance
has queued and what its worker holds are different jobs, each with its control and its
row; an instance not yet built has no control, a closed one has flagged them all, only
the newest is open) and `PollInv` (what a worker is about to write last is not
transient). `FlaggedInstallStops` needs `FlagInv`: one instance alone
answers for an install; while its worker may still be on the way to the installation,
`current` and `active` name the job, so that a cancel reaches it; past the last look at the
flag, the client of a flagged install has been closed. A closed client does not pass
`Verify` and does not pass `Answered`; between the two nothing stops it, which is why the
theorem says "no further than it had got" and not "never installed".

`CancelledStopped` needs the most. A row "cancelled" is written by four parties, and for
each the job is `Over`: its command has stopped, or it was never handed over and has no
claim left. `RequestInv` says that a start that is on its way, from a worker or from a
dead one, is one, and has not been executed. A queued job that is cancelled is not
`Over` yet: it is `Doomed`, as its claim is flagged and not past the first look. The
constructor may also write "cancelled" for the queued rows of a closed predecessor whose
worker still drains; so `CancelInv` has `Doomed` for the row in the constructor's hands,
and `WaitingInv` says that a row is "queued" only until the worker announces the job.
Where `CancelInv` says `Unkilled` the property has that condition too: section 6 shows
what a kill does.

### The Android job script

`ScriptInv` ties the worker's place to the files it has published, and each call's place
to what it has seen: a call about to signal has seen the cancel file it wrote, a pid file
and its own group. `CancelEnds` and `NeverForeign` follow. `Implements` is the
refinement: initial states map to initial states of `AndroidRemote`, and each action of
the script is a step of it or a stutter, one step of the proof per action. `TrueReports`
is about `MCSpec`, whose history variable collects what the contract would have allowed a
call to say at each instant. `ReportsInv` adds what a call relies on between two looks:
for instance that one about to look at the exit file again may already say "unknown",
unless a code is there by now.

### The package job queue

`CancellationSticks` and `StopsStarting` speak of the *stored* row, and the step that
could break them is a step
of a worker, which looks at neither: it reads its own row object, its flag and the
flag of its runtime. So the invariant ties the four together. `OneWorker`: two
instances never hold one job, because an id is submitted only while it has no row,
and a job that is held has one. `WorkerAt`: the worker's row is "cancel_requested" or
"cancelled" exactly when the flag is set, and the stored row is not final while the
job is held. `CancelAt`: once the flag is set the runtime is stopped too, or
`cancel()` is still on its way there; the stored row says "cancel_requested" only
after the flag is set, and "interrupted" only if the job's instance was closed, which
sets the flag as well. `BootInv` is what makes that last point true: the constructor
runs only after its predecessor was closed or died, and a row it holds is one it still
has to write. A command is started only by
`Launch`, which a stopped runtime refuses, and a row is rewritten only by the steps
whose outcome the flag decides.

`RowsInv` is what the rows tell a client. For each worker: what its job has run, followed
by what is left, is exactly the job's own command, or an install's four planning steps
and then the install; between two commands it has no process; at the end its row is
final, or a late cancel has put "cancel_requested" back, and is "completed" only with
all of that run and exit code zero. A job without a row has neither run nor been started.
`CompletedTrue` has no further condition. `RowsTrue` is proved where rows can be written
(`~MayFail`), since a row whose last save fails does keep "running" (section 6);
`FinalGone` where no wait runs out (`~MayLag`), since `GiveUp` leaves a process behind.
Both conditions are the ones of the runs.

### The upgrade

`PublicationInv`: whoever works on the root holds its lock; a file holds nothing but what
was there at first, the new one, or somebody else's; every target a script has struck off
its list is in place, for that script's own originals; the order of a first unpacking.
`Ordered` follows, because a script replaces an executable only when all targets of lower
rank are struck off. `JournalInv`: a journal number anybody has written down (checkpoint,
the app's variable, an argument of a script, its answer) that is still current was found
settled. `FollowInv`: as long as the old journals may be left to the new executables, by
an upgraded file or by a script, left behind or not, that would still be let through,
the checkpoint on disk is the journal there is. `Follow` and the refinement
`Implements` of `UpgradeContract` follow, the latter with one step per action.

### The service

`InstanceInv`: only the instance that commands are delivered to has a queue, an open
runtime or a record being written. `BackendInv`: of the processes that escaped neither
their record nor their app, at most one lives; it has been told to quit, or it is the
backend of the running instance that started it, or nobody's after a kill; and there is
none while the delivering instance prepares, looks and is about to start one. `CallInv`:
one backend at most listens; the process of a call belongs to a backend that still
listens; what an abort has captured is a call that was made, and one whose process is gone
once the abort has cancelled it; and, unless a process escaped, the final states are true and
a call stored as running belongs to the backend that lists it or recovers it.

The check scripts drive the same service, except that two of them start and kill a backend
without it. So `RuntimeService_proofs` proves each part of `Invariant` for `Moves`, which is
`Next` without the bounds on taps and faults, and `MCService_proofs` shows that a step of a
script is one of `Moves`, or one of the isolated backend, which `PlaceInv` covers: no
instance is bound beside that backend and nothing escaped its record, it is started only
when no process lives, and an abort is under way only while the script waits for its
answer. What follows on what in a script is stated as lemmas about `Script`, for every
number of rounds.

That no assertion of a script fails (`ScriptsTrue`) depends on what the service did at every
earlier position of that script. `Quiet` sums it up by phases: the operation a script has
next, and in a few places which operations lie behind it (`Follows`, `OrderAt`), determine
whether the service is on its way up or ready (`Up`), on its way down or gone (`Ending`), or
absent beside a lone backend (`Steady`), and what the calls and an abort may be in the middle
of (`NativeAt`, `AbortAt`). One lemma per operation of a script shows that it leads
from its phase to the next one's; one (`QuietPhases`) shows that the steps of the service
below a waiting script stay in the phase. A failed preparation and a late record are the
only steps that leave it, and they count as faults, which `ScriptsHold` excepts.

### The clients

`GuestInv`: an identifier is of one kind of job, and a job exists only if some client
asked for it; the answer a client holds is no older than a final status of its job, so what
it prints was true when it printed and, if final, is true for ever. `ClientsTrue` follows for
any number of clients, identifiers, and lost requests and answers.

### The build

The parts share no variable, so `BuildInv` is a conjunction that each part's actions keep
alone.

* SDK, `SdkInv`: what is no longer on a build's list is done, and a tree that is there is
  the pinned one; a build below the lock is the only one there, and one that has left it
  has every tree.
* Library sources, `LibraryInv`: no library is there with another digest than the rows of
  the collector, and those of a complete receipt, give it, unless the row says "error"; a
  collector past its first library has made the receipt incomplete.
* Signers, `SignerInv`: one maker at most is past `mkdir`; the file it writes is torn or
  missing, those before it are its own, those behind it are not there. On the phone, a part
  that is about to be moved is exact.
* Source export, `ExportInv`: what is listed is to be done or digested; and until somebody
  edits, what is digested is what source and checkout hold.
* Delta, `DeltaInv`: one applier at a time is writing, and the part holds what that one has
  written; the phone's script does not run again over what it has announced. What the spans
  yield, one after the other, would be an induction over the patch. `Chain` makes it one over
  the steps of the loop that builds it: there is a function `reach` from the number of spans
  to a position in the new APK, and span k yields the bytes between two values of it. It
  grows by a point with each span that `Share` or `Send` appends, up to the cursor and, in
  a patch that is complete and intact, to the end (`Rebuilds`); an applier that has k spans
  behind it has written the bytes up to `reach[k]`, so that the last look cannot find a
  difference (`DeltasRebuild`). No entry that is still to be looked at begins before the
  cursor, which is where the order of the headers counts.
* Evidence, `EvidenceInv`: the rounds that are selected are rounds that were run.
* Inputs, `InputsInv`: `Held(f)` is what a file may hold, whatever is running. Each effect
  of all but two scripts, wherever it occurs, leaves its file in `Held`
  (`Tame`), which is shown script by script without following the order of the effects. The
  order counts in two: the collector may write "verified" only past the checks of all that
  it lists, and the build copies its binary only from a tree with both patches
  (`PlacesInv`). `AssemblyInv` says the same of the files in the APK, of which the check
  lets through what `AcceptedFacts` lists.

### What the proofs changed

`DnfastUpgrade!Rank` was a CASE whose guards overlapped for the backup of the CLI;
`RuntimeService!Delivered` chose an instance from a set that could be empty. TLC never met
either: it takes the first guard, and its instances had one left. The server that a script
starts itself, `RuntimeDrills!DrillServes`, lacked the bound on processes that `Spawn` has,
and chose from an empty set once they were used up. All three now say what the code does.
`ApkDelta` had the patch computed by folds in the initial state, about which nothing could be
proved; now the loops of `create()` are steps, and a copying span is known to lie within the
old APK, which `apply()` asserts. An applier also gives up as soon as it has written more
than the new APK's size, a refusal the fold version lacked.

### Model-checked only

* Liveness, which is out of the prover's reach: `CancelReleasesWorker`, `QueueDrains`,
  `CancelEndsJob`, `JobsEnd`, `Completes`, `StopEnds`, `InputsRecover`.

Every invariant and every action property of the passing runs is stated by a theorem. Some
rest on conditions that their runs have as well: `RowsTrue` on `~MayFail`, `FinalGone` on
`~MayLag`.

## 6. Where the code and the repository disagree

Each is a run TLC ends with a counterexample.

1. **A running command behind a final row** (`jobs_lost`, `J/AndroidJobs.java:172`).
   After a restart a running shell job is "unknown". `inspect` queues a re-inspection;
   `cancel` before the worker takes it writes "cancelled" into the row, although
   nothing has been cancelled yet. If the app is killed now, the constructor leaves
   "cancelled" alone, and neither `inspect` nor `cancel` reopens it: the command runs
   on and cannot be reached. `CancelledMeansStopped` holds without a kill.
2. **A package row stuck in "cancel_requested"** (`pkg_stranded`,
   `J/PackageJobs.java:83-85`). The final status is put under the monitor, which is
   then released and taken again to save. `cancel()` or `close()` in between puts
   "cancel_requested" back; the finally block saves it and forgets the job.
3. **"unknown" for an install never sent** (`jobs_premature`,
   `J/AndroidJobs.java:107`). `submitted` is set before the APK has been validated and
   copied locally, so a local refusal is recorded as an uncertain submission, against
   `docs/ANDROID-EXECUTION-INTEGRATION.md:61`.

Observations without a run of their own. Jobs:

* An install cancelled, or whose service is closed, between the client's last look at its
  connection (`J/SelfAdbClient.java:297`, within `:197`) and the transfer (`:201`) is still
  installed: `cancel()` closes the client on another thread (`J/AndroidJobs.java:171`)
  and Dadb reconnects. The look after it (`:202`) makes the row "unknown", for which the
  help text asks to check PackageManager (`J/RuntimeSetupService.java:80`).
* A cancel leaves members of the group alive if the leader has exited, or exits on TERM
  (`scripts/android-job.sh:71`, against `harness/ADB.md:36`).
* A planned install runs five commands (`J/LocalLinuxRuntime.java:300`), where
  `scripts/check-package-planning.py:35` expects four.
* The bound of 16 is tested in `submit` only; `inspect` and `cancel` of unknown jobs
  add to a full queue (`J/AndroidJobs.java:84` against the comment at line 19).
* `status` overlapping the publication of the pid file prints "unknown" for a healthy
  job (`scripts/android-job.sh:85-95`, against
  `docs/ANDROID-EXECUTION-INTEGRATION.md:31`). The contract has this report.
* A process whose record is still empty when the next start reads it survives
  `recoverPreviousProcesses` (`J/LocalLinuxRuntime.java:391`, against
  `docs/STARTUP-RECOVERY-VALIDATION.md:28`). The lock taken by
  `native/dnfast-launch.c:172` still keeps a second package process from the root.
* A job that has just completed by itself may be reported "cancelled" if a cancel
  marked it; after pid reuse a completed job may be reported "running".
* A stillborn directory reports "starting" for ever; uncancelled, and cancelled too, it
  holds the sole worker until the connection fails. `jobs_fair` has `MayLose = FALSE`
  for this reason.
* `inspect()` hands the bridge thread the row object the worker mutates
  (`J/AndroidJobs.java:68`). If the last save of a package job fails, its row keeps the
  transient status until the next restart (`J/PackageJobs.java:88`).
* The package client's `status` exits 1 while the job still runs.

Service:

* A STOP when nothing runs, or after the last look at the flag, leaves the status text
  "stopping" for ever. A START while the worker finishes is ignored although the text
  asks for it. A START between `running = false` and `onDestroy` gets its task dropped, or
  meets the session monitor that is already shut down and fails.
* A stale instance can write "stopped" over the status of a newer one.
* An app killed between the two halves of a STOP leaves a backend nobody wants.
* A record later than the second `start()` waits makes a STOP miss the process; a
  process whose app died before its record is not found by the next start, and a second
  backend is started beside it. `OneBackend` excepts exactly these (`late`, `orphan`).
* The health check is answered by any listener on the port.

Upgrade: a kill during the very first unpacking can leave a torn CLI, which every
later prepare refuses. A 16c6887 root killed after its publication is taken for complete and
skips the migration.

Build:

* A file torn in place is not repaired by any later run: the PRoot source caches,
  `opencode-manifest`, an exported crate. So is a wrong unpinned CHECKSUM or keyring.
* `fedora.pgp` is listed in the report but not verified; the upstream manifest keeps
  "verified" while a later check is running or was killed.
* `stage-proot.py` leaves the Termux tracer in jniLibs until the patched one overwrites
  it; `check-packaged-runtime.py` catches an APK assembled in between.
* Two unlocked configurations of one SDK can make each other fail (never succeed
  wrongly).
* A cargo export with missing crates replaces the archive and exits 0.
* The library-source receipt loses the pins of rows not yet reached when a run fails or is
  killed; changed content is then accepted by the next run.
* A `.part` left by a killed delta applier blocks later ones. The phone script, killed,
  leaves a torn file that later runs refuse.
* A listed source file that was removed blocks every export; a torn
  `SOURCE-SNAPSHOT.json` does until it is restored. A snapshot is not of one moment:
  digest and copy read the file twice.
* Failed rounds after the last selected one may be left out of the evidence.

## 7. Plan

Done: the two job services, the script, the upgrade with its contract and the service,
the drills and clients, the build and hand-over scripts, with proofs of their safety.

Next, in this order:

1. `Installer`: BUSY flag, persisted session, confirmation, broadcast, process death.
2. `PreRootBackend`: lock, state record, stale pid.
3. Operators against reference definitions: the shell-v2 packet parser
   (`J/AdbShellResult.java`), `J/LocalPolicy.java`, `J/RuntimeProcessIdentity.java`,
   root identity.
4. The ADB connection's creation, pairing, and the activity's operation token; failing
   writes of Android rows.

Not modelled, and why: user interface screens and view wiring (no protocol state);
`check-managed-stop.py` and `check-device-setup.py` (they drive paths of the root backend
the app no longer calls); the other check scripts (each asserts about one screen, one text
or one device and keeps no state between steps); probes and benchmarks (they measure);
wireless pairing, installer screens and the preroot scripts (planned above); policies
(pure functions, planned as operators); evidence, vendored and third-party code (not part
of the program; of the OpenCode patches only the recovery of tool calls and the abort are
modelled, their base is not in the repository).
