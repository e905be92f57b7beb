----------------------- MODULE AndroidJobScript_proofs -----------------------
(***************************************************************************)
(* What holds of scripts/android-job.sh for any number of concurrent       *)
(* status and cancel calls, with Android killing what it likes and the     *)
(* recorded pid given to somebody else.                                    *)
(***************************************************************************)
EXTENDS MCAndroidJobScript, TLAPS

Marked  == {"cancel:wait", "cancel:test", "cancel:term", "cancel:again", "cancel:kill"}
Signals == {"cancel:term", "cancel:kill"}

\* Where the worker may be for the files there are.
WorkerInv ==
  /\ start # "over" => worker = "off"
  /\ worker \in {"off", "boot"} => ~pidFile /\ ~members
  /\ worker = "published" => ~members
  /\ worker \in {"published", "nocwd", "command", "ended", "exiting"} => pidFile
  /\ worker \in {"published", "command", "ended"} => exitFile = "none"
  /\ worker = "nocwd" => exitFile = "empty"
  /\ worker = "ended" => code \in Codes
  /\ worker = "exiting" => exitFile \in Codes
  /\ ~pidFile => exitFile = "none" /\ ~members
  /\ foreign => pidFile /\ ~LeaderAlive /\ ~members

\* What a call has seen to when it has come as far as it is.
CallInv ==
  /\ cancelled => cancelFile /\ worker \in {"off", "boot", "published", "gone"}
  /\ \A c \in Calls :
       /\ at[c] # "idle" => start # "ready"
       /\ at[c] \in Marked => cancelFile
       /\ at[c] \in Signals => pidFile /\ ~foreign
       /\ at[c] = "cancel:again" => pidFile
  /\ ~hit

ScriptInv == TypeOK /\ WorkerInv /\ CallInv

\* What a report relies on. Beside what was said already, a call about to look at the exit
\* file for the second time may say "unknown", unless there is a code by now.
ReportInv(c) ==
  /\ at[c] # "idle" => result[c] = "nothing" /\ Sayable \subseteq possible[c]
  /\ at[c] = "status:group" => pidFile /\ cancelFile
  /\ at[c] = "status:nopid" /\ pidFile =>
       Contract!Report("unknown", "none") \in possible[c] \/ exitFile \in Codes
  /\ at[c] = "status:recheck" =>
       pidFile /\ (Contract!Report("unknown", "none") \in possible[c] \/ exitFile \in Codes)
  /\ at[c] = "status:completed" => exitFile \in Codes /\ told[c] = exitFile

ReportsInv == ReportsAreTrue /\ \A c \in Calls : ReportInv(c)

-----------------------------------------------------------------------------
USE DEF Codes, Workers, Points, Printed, LeaderAlive, GroupAlive, Marked, Signals

LEMMA ScriptInit == Init => ScriptInv
<1> SUFFICES ASSUME Init PROVE ScriptInv
    OBVIOUS
<1> USE DEF Init
<1>1. TypeOK
  <2>1. /\ pidFile \in BOOLEAN /\ cancelFile \in BOOLEAN
        /\ members \in BOOLEAN /\ foreign \in BOOLEAN
        /\ cancelled \in BOOLEAN /\ hit \in BOOLEAN
        OBVIOUS
  <2>.  QED
        BY <2>1 DEF TypeOK
<1>2. WorkerInv
      BY DEF WorkerInv
<1>3. CallInv
      BY DEF CallInv
<1>.  QED
      BY <1>1, <1>2, <1>3 DEF ScriptInv

\* One step per action of the worker's side and of a call.
LEMMA ScriptStep ==
  ASSUME ScriptInv, [Next]_vars
  PROVE  ScriptInv'
<1> USE DEF ScriptInv, TypeOK, WorkerInv, CallInv, files, group, calls
<1>1. CASE Mkdir
      BY <1>1 DEF Mkdir
<1>2. CASE LaunchWorker
      BY <1>2 DEF LaunchWorker
<1>3. CASE StartBreaksOff
      BY <1>3 DEF StartBreaksOff
<1>4. CASE PublishPid
      BY <1>4 DEF PublishPid
<1>5. CASE RunCommand
      BY <1>5 DEF RunCommand
<1>6. CASE NoCwd
      BY <1>6 DEF NoCwd
<1>7. CASE CommandEnds
      BY <1>7 DEF CommandEnds
<1>8. CASE PublishExit
      BY <1>8 DEF PublishExit
<1>9. CASE LeaderExits
      BY <1>9 DEF LeaderExits
<1>10. CASE MembersEnd
      BY <1>10 DEF MembersEnd
<1>11. CASE AndroidKills
  <2>0. members' = members \/ members' = FALSE
        BY <1>11 DEF AndroidKills
  <2>1. members' \in BOOLEAN /\ (members' => members)
    <3>1. CASE members' = members
          BY <3>1
    <3>2. CASE members' = FALSE
          BY <3>2
    <3>.  QED
          BY <2>0, <3>1, <3>2
  <2>2. TypeOK'
        BY <1>11, <2>1 DEF AndroidKills
  <2>3. WorkerInv'
        BY <1>11, <2>1 DEF AndroidKills
  <2>4. CallInv'
        BY <1>11 DEF AndroidKills
  <2>.  QED
        BY <2>2, <2>3, <2>4
<1>12. CASE PidReused
      BY <1>12 DEF PidReused
<1>13. CASE ForeignEnds
      BY <1>13 DEF ForeignEnds
<1>14. ASSUME NEW c \in Calls, Call(c)
       PROVE  ScriptInv'
      BY <1>14 DEF Call, GoOn
<1>15. ASSUME NEW c \in Calls, Cancel(c)
       PROVE  ScriptInv'
  <2> USE DEF GoOn, CancelReturns, Identity
  <2>1. CASE CancelMark(c)
        BY <2>1 DEF CancelMark
  <2>2. CASE CancelWait(c)
        BY <2>2 DEF CancelWait
  <2>3. CASE CancelTest(c)
        BY <2>3 DEF CancelTest
  <2>4. CASE CancelTerm(c)
    <3>1. members' \in BOOLEAN /\ (members' => members)
      <4>1. members' = members \/ members' = FALSE
            BY <2>4 DEF CancelTerm
      <4>2. CASE members' = members
            BY <4>2
      <4>3. CASE members' = FALSE
            BY <4>3
      <4>.  QED
            BY <4>1, <4>2, <4>3
    <3>2. ~foreign /\ pidFile /\ cancelFile /\ ~hit'
          BY <2>4 DEF CancelTerm
    <3>3. TypeOK'
          BY <2>4, <3>1, <3>2 DEF CancelTerm
    <3>4. WorkerInv'
          BY <2>4, <3>1, <3>2 DEF CancelTerm
    <3>5. CallInv'
          BY <2>4, <3>2 DEF CancelTerm
    <3>.  QED
          BY <3>3, <3>4, <3>5
  <2>5. CASE CancelAgain(c)
        BY <2>5 DEF CancelAgain
  <2>6. CASE CancelKill(c)
        BY <2>6 DEF CancelKill
  <2>.  QED
        BY <1>15, <2>1, <2>2, <2>3, <2>4, <2>5, <2>6 DEF Cancel
<1>16. ASSUME NEW c \in Calls, Status(c)
       PROVE  ScriptInv'
  <2> USE DEF GoOn, Say, Quiet, Identity
  <2>1. CASE StatusExit(c)
        BY <2>1 DEF StatusExit
  <2>2. CASE StatusIdentity(c)
        BY <2>2 DEF StatusIdentity
  <2>3. CASE StatusFiles(c)
        BY <2>3 DEF StatusFiles
  <2>4. CASE StatusNoPid(c)
        BY <2>4 DEF StatusNoPid
  <2>5. CASE StatusGroup(c)
        BY <2>5 DEF StatusGroup
  <2>6. CASE StatusRecheck(c)
        BY <2>6 DEF StatusRecheck
  <2>7. CASE StatusCompleted(c)
        BY <2>7 DEF StatusCompleted
  <2>.  QED
        BY <1>16, <2>1, <2>2, <2>3, <2>4, <2>5, <2>6, <2>7 DEF Status
<1>17. CASE UNCHANGED vars
      BY <1>17 DEF vars
<1>.  QED
      BY <1>1, <1>2, <1>3, <1>4, <1>5, <1>6, <1>7, <1>8, <1>9, <1>10, <1>11, <1>12,
         <1>13, <1>14, <1>15, <1>16, <1>17 DEF Next, WorkerStep

LEMMA Script == Spec => []ScriptInv
BY ScriptInit, ScriptStep, PTL DEF Spec

\* The files, the worker and the calls always have values of their types
\* (android-job.sh, lines 39-112).
THEOREM Typed == Spec => []TypeOK
<1>1. ScriptInv => TypeOK
      BY DEF ScriptInv
<1>.  QED
      BY <1>1, Script, PTL

\* After a cancel has returned, the command is not running and never will, however many
\* calls there are: either the worker finds the cancel file, or the cancel the pid file
\* (android-job.sh, lines 52-54 and 57-76).
THEOREM CancelEnds == Spec => []CancelEndsCommand
<1>1. ScriptInv => CancelEndsCommand
      BY DEF ScriptInv, CallInv, CancelEndsCommand
<1>.  QED
      BY <1>1, Script, PTL

\* No signal of a cancel reaches a group that was given the pid of the worker
\* (android-job.sh, lines 68-74).
THEOREM NeverForeign == Spec => []NeverSignalsForeign
<1>1. ScriptInv => NeverSignalsForeign
      BY DEF ScriptInv, CallInv, NeverSignalsForeign
<1>.  QED
      BY <1>1, Script, PTL

-----------------------------------------------------------------------------
(* The script implements the contract: every step is one of its directory, *)
(* or none.                                                                *)

Code == IF exitFile = "empty" THEN "none" ELSE exitFile

\* A step of the contract for the one directory, in terms of the script.
Moved(p, q) == Phase = p /\ Phase' = q
Kept == Phase' = Phase
SameFile == cancelFile' = cancelFile
SameCode == Code' = Code

AbstractStep ==
  \/ Kept /\ SameFile /\ SameCode
  \/ Moved("absent", "starting") /\ SameFile /\ SameCode
  \/ MayLose /\ Moved("starting", "stillborn") /\ SameFile /\ SameCode
  \/ Moved("starting", "running") /\ SameFile /\ SameCode
  \/ Moved("running", "lingering") /\ Code' \in Codes /\ SameFile
  \/ Moved("lingering", "completed") /\ SameFile /\ SameCode
  \/ Moved("leaderless", "dead") /\ SameFile /\ SameCode
  \/ (MayLose \/ cancelFile) /\ Phase = "running" /\ Phase' \in {"leaderless", "dead"}
       /\ SameFile /\ SameCode
  \/ Kept /\ Phase # "absent" /\ cancelFile' = TRUE /\ SameCode

LEMMA AbstractSteps ==
  ASSUME AbstractStep
  PROVE  [Contract!RemoteNext]_(Contract!remoteVars)
<1> USE DEF Contract!remoteVars, Contract!RemoteNext, Contract!RemoteStep, Contract!MoveTo,
       Moved, Kept, SameFile, SameCode, Code
<1>1. CASE Kept /\ SameFile /\ SameCode
      BY <1>1
<1>2. CASE Moved("absent", "starting") /\ SameFile /\ SameCode
      BY <1>2 DEF Contract!Launch
<1>3. CASE MayLose /\ Moved("starting", "stillborn") /\ SameFile /\ SameCode
      BY <1>3 DEF Contract!Lose
<1>4. CASE Moved("starting", "running") /\ SameFile /\ SameCode
      BY <1>4 DEF Contract!Publish
<1>5. CASE Moved("running", "lingering") /\ Code' \in Codes /\ SameFile
      BY <1>5 DEF Contract!Finish, Contract!Exits
<1>6. CASE Moved("lingering", "completed") /\ SameFile /\ SameCode
      BY <1>6 DEF Contract!Settle
<1>7. CASE Moved("leaderless", "dead") /\ SameFile /\ SameCode
      BY <1>7 DEF Contract!Settle
<1>8. CASE /\ (MayLose \/ cancelFile) /\ Phase = "running" /\ Phase' \in {"leaderless", "dead"}
           /\ SameFile /\ SameCode
      BY <1>8 DEF Contract!Lose, Contract!Kill
<1>9. CASE Kept /\ Phase # "absent" /\ cancelFile' = TRUE /\ SameCode
      BY <1>9 DEF Contract!Mark
<1>.  QED
      BY <1>1, <1>2, <1>3, <1>4, <1>5, <1>6, <1>7, <1>8, <1>9 DEF AbstractStep

LEMMA StepsImplement ==
  ASSUME ScriptInv, [Next]_vars
  PROVE  AbstractStep
<1> USE DEF ScriptInv, TypeOK, WorkerInv, CallInv, files, group, calls,
       AbstractStep, Phase, Moved, Kept, SameFile, SameCode, Code
<1>1. CASE Mkdir
      BY <1>1 DEF Mkdir
<1>2. CASE LaunchWorker
      BY <1>2 DEF LaunchWorker
<1>3. CASE StartBreaksOff
      BY <1>3 DEF StartBreaksOff
<1>4. CASE PublishPid
      BY <1>4 DEF PublishPid
<1>5. CASE RunCommand
      BY <1>5 DEF RunCommand
<1>6. CASE NoCwd
      BY <1>6 DEF NoCwd
<1>7. CASE CommandEnds
      BY <1>7 DEF CommandEnds
<1>8. CASE PublishExit
      BY <1>8 DEF PublishExit
<1>9. CASE LeaderExits
      BY <1>9 DEF LeaderExits
<1>10. CASE MembersEnd
      BY <1>10 DEF MembersEnd
<1>11. CASE AndroidKills
      BY <1>11 DEF AndroidKills
<1>12. CASE PidReused \/ ForeignEnds
      BY <1>12 DEF PidReused, ForeignEnds
<1>13. ASSUME NEW c \in Calls, Call(c)
       PROVE  AbstractStep
      BY <1>13 DEF Call
<1>14. ASSUME NEW c \in Calls, Cancel(c)
       PROVE  AbstractStep
  <2>1. CASE CancelMark(c)
        BY <2>1 DEF CancelMark
  <2>2. CASE CancelWait(c) \/ CancelTest(c) \/ CancelAgain(c)
        BY <2>2 DEF CancelWait, CancelTest, CancelAgain
  <2>3. CASE CancelTerm(c)
    <3>1. /\ start # "ready" /\ pidFile /\ ~foreign /\ cancelFile
          /\ worker' \in {worker, "gone"}
          /\ members' = members \/ members' = FALSE
          /\ UNCHANGED <<files, start, foreign>>
          BY <2>3 DEF CancelTerm
    <3>2. CASE members' = members
          BY <3>1, <3>2
    <3>3. CASE members' = FALSE /\ worker' = worker
          BY <3>1, <3>3
    <3>4. CASE members' = FALSE /\ worker' = "gone"
          BY <3>1, <3>4
    <3>.  QED
          BY <3>1, <3>2, <3>3, <3>4
  <2>4. CASE CancelKill(c)
        BY <2>4 DEF CancelKill
  <2>.  QED
        BY <1>14, <2>1, <2>2, <2>3, <2>4 DEF Cancel
<1>15. ASSUME NEW c \in Calls, Status(c)
       PROVE  AbstractStep
  <2>1. UNCHANGED <<files, group>>
        BY <1>15 DEF Status, StatusExit, StatusIdentity, StatusFiles, StatusNoPid, StatusGroup,
                     StatusRecheck, StatusCompleted, Quiet
  <2>.  QED
        BY <2>1
<1>16. CASE UNCHANGED vars
      BY <1>16 DEF vars
<1>.  QED
      BY <1>1, <1>2, <1>3, <1>4, <1>5, <1>6, <1>7, <1>8, <1>9, <1>10, <1>11, <1>12,
         <1>13, <1>14, <1>15, <1>16 DEF Next, WorkerStep

\* The script keeps the contract the Java queue is written against, for any number of calls
\* beside one another: a directory is started once, a code is published once, and nothing
\* comes back to life (android-job.sh, lines 39-112).
THEOREM Implements == Spec => KeepsContract
<1>1. Init => Contract!RemoteInit
      BY DEF Init, Contract!RemoteInit, Phase
<1>2. ScriptInv /\ [Next]_vars => [Contract!RemoteNext]_(Contract!remoteVars)
      BY StepsImplement, AbstractSteps
<1>.  QED
      BY <1>1, <1>2, Script, PTL DEF Spec, KeepsContract, Contract!RemoteSpec

-----------------------------------------------------------------------------
(* What a call prints was true of some instant of it.                      *)

\* What the contract lets a call say, by the test of the script that leads to it.
Says ==
  /\ Identity => Contract!Report("running", "none") \in Sayable
  /\ start # "ready" /\ ~pidFile => Contract!Report("starting", "none") \in Sayable
  /\ pidFile /\ cancelFile /\ ~GroupAlive
       => Contract!Report("cancelled", "none") \in Sayable
  /\ pidFile /\ exitFile \notin Codes /\ (~cancelFile \/ GroupAlive \/ MayLose)
       => Contract!Report("unknown", "none") \in Sayable
  /\ exitFile \in Codes /\ GroupAlive => Contract!Report("running", exitFile) \in Sayable
  /\ exitFile \in Codes /\ ~GroupAlive
       => Contract!Report("completed", exitFile) \in Sayable
  /\ exitFile \in Codes /\ MayLose => Contract!Report("unknown", exitFile) \in Sayable

LEMMA SayableNow == ScriptInv => Says
<1> SUFFICES ASSUME ScriptInv PROVE Says
    OBVIOUS
<1> USE DEF Says, ScriptInv, TypeOK, WorkerInv, Identity, Sayable, Contract!Reports
<1>1. CASE start = "ready"
      BY <1>1 DEF Phase
<1>2. CASE start # "ready" /\ ~pidFile
  <2>1. Phase \in {"starting", "stillborn"}
        BY <1>2 DEF Phase
  <2>.  QED
        BY <1>2, <2>1
<1>3. CASE pidFile /\ exitFile \in Codes /\ (LeaderAlive \/ members)
  <2>1. Phase = "lingering"
        BY <1>3 DEF Phase
  <2>.  QED
        BY <1>3, <2>1
<1>4. CASE pidFile /\ exitFile \in Codes /\ ~LeaderAlive /\ ~members
  <2>1. Phase = "completed"
        BY <1>4 DEF Phase
  <2>.  QED
        BY <1>4, <2>1
<1>5. CASE pidFile /\ exitFile \notin Codes /\ LeaderAlive
  <2>1. Phase = "running"
        BY <1>5 DEF Phase
  <2>.  QED
        BY <1>5, <2>1
<1>6. CASE pidFile /\ exitFile \notin Codes /\ ~LeaderAlive /\ members
  <2>1. Phase = "leaderless"
        BY <1>6 DEF Phase
  <2>.  QED
        BY <1>6, <2>1
<1>7. CASE pidFile /\ exitFile \notin Codes /\ ~LeaderAlive /\ ~members
  <2>1. Phase = "dead"
        BY <1>7 DEF Phase
  <2>.  QED
        BY <1>7, <2>1
<1>.  QED
      BY <1>1, <1>2, <1>3, <1>4, <1>5, <1>6, <1>7

\* What no step undoes.
LEMMA Lasting ==
  ASSUME ScriptInv, [Next]_vars
  PROVE  /\ pidFile => pidFile'
         /\ cancelFile => cancelFile'
         /\ exitFile \in Codes => exitFile' = exitFile
         /\ ~pidFile /\ pidFile' => exitFile' = "none" /\ worker' = "published"
         /\ Phase \in {"completed", "dead"} => Phase' = Phase
<1>1. Phase \in {"completed", "dead"} => Phase' = Phase
      BY StepsImplement DEF AbstractStep, Kept, Moved
<1> USE DEF ScriptInv, TypeOK, WorkerInv, files, group
<1>2. ASSUME NEW c \in Calls, Call(c) \/ Cancel(c)
      PROVE  pidFile' = pidFile /\ exitFile' = exitFile /\ (cancelFile => cancelFile')
      BY <1>2 DEF Call, Cancel, CancelMark, CancelWait, CancelTest, CancelTerm, CancelAgain, CancelKill
<1>3. ASSUME NEW c \in Calls, Status(c)
      PROVE  UNCHANGED files
      BY <1>3 DEF Status, StatusExit, StatusIdentity, StatusFiles, StatusNoPid, StatusGroup,
                  StatusRecheck, StatusCompleted, Quiet
<1>4. CASE WorkerStep
      BY <1>1, <1>4 DEF WorkerStep, PublishPid, RunCommand, NoCwd, CommandEnds, PublishExit, LeaderExits
<1>5. CASE Mkdir \/ LaunchWorker \/ StartBreaksOff \/ MembersEnd \/ AndroidKills \/ PidReused
             \/ ForeignEnds \/ UNCHANGED vars
  <2>1. UNCHANGED files
        BY <1>5 DEF Mkdir, LaunchWorker, StartBreaksOff, MembersEnd, AndroidKills, PidReused,
                    ForeignEnds, vars
  <2>.  QED
        BY <1>1, <2>1
<1>.  QED
      BY <1>1, <1>2, <1>3, <1>4, <1>5 DEF Next

\* A step is one of the call's own, or leaves it where it is.
LEMMA OwnSteps ==
  ASSUME TypeOK, [Next]_vars, NEW c \in Calls
  PROVE  \/ at'[c] = at[c] /\ result'[c] = result[c] /\ told'[c] = told[c]
         \/ Call(c) \/ Cancel(c) \/ Status(c)
<1> USE DEF TypeOK, calls, GoOn, Say
<1>1. ASSUME NEW d \in Calls, d # c, Call(d)
      PROVE  at'[c] = at[c] /\ result'[c] = result[c] /\ told'[c] = told[c]
      BY <1>1 DEF Call
<1>2. ASSUME NEW d \in Calls, d # c, Cancel(d)
      PROVE  at'[c] = at[c] /\ result'[c] = result[c] /\ told'[c] = told[c]
      BY <1>2 DEF Cancel, CancelReturns, CancelMark, CancelWait, CancelTest, CancelTerm,
                  CancelAgain, CancelKill
<1>3. ASSUME NEW d \in Calls, d # c, Status(d)
      PROVE  at'[c] = at[c] /\ result'[c] = result[c] /\ told'[c] = told[c]
      BY <1>3 DEF Status, StatusExit, StatusIdentity, StatusFiles, StatusNoPid, StatusGroup,
                  StatusRecheck, StatusCompleted, Quiet
<1>4. CASE WorkerStep
      BY <1>4 DEF WorkerStep, PublishPid, RunCommand, NoCwd, CommandEnds, PublishExit, LeaderExits
<1>5. CASE Mkdir \/ LaunchWorker \/ StartBreaksOff \/ MembersEnd \/ AndroidKills \/ PidReused
             \/ ForeignEnds \/ UNCHANGED vars
      BY <1>5 DEF Mkdir, LaunchWorker, StartBreaksOff, MembersEnd, AndroidKills, PidReused,
                  ForeignEnds, vars
<1>.  QED
      BY <1>1, <1>2, <1>3, <1>4, <1>5 DEF Next

\* A call that goes on may say whatever it might have said before, and what it may now.
LEMMA Possible ==
  ASSUME NEW c \in Calls, MCNext
  PROVE  /\ at'[c] # "idle" => Sayable' \subseteq possible'[c]
         /\ at[c] # "idle" => possible[c] \subseteq possible'[c]
         /\ at'[c] = "idle" => possible'[c] = possible[c]
BY DEF MCNext

ReportTrue(c) ==
  /\ result[c] = "completed" => Phase = "completed" /\ exitFile = told[c]
  /\ result[c] = "cancelled" => cancelFile /\ Phase \in {"completed", "dead"}
  /\ result[c] \notin {"nothing", "error"} => Contract!Report(result[c], told[c]) \in possible[c]

LEMMA EveryReport == (\A c \in Calls : ReportTrue(c) /\ ReportInv(c)) <=> ReportsInv
BY DEF ReportTrue, ReportsInv, ReportsAreTrue, FinalReportsAreTrue

\* Somebody else's step, seen by a call.
LEMMA OtherReports ==
  ASSUME ScriptInv, ScriptInv', MCNext, NEW c \in Calls, ReportTrue(c), ReportInv(c),
         at'[c] = at[c], result'[c] = result[c], told'[c] = told[c]
  PROVE  ReportTrue(c)' /\ ReportInv(c)'
<1>0. [Next]_vars
      BY DEF MCNext
<1>1. ReportTrue(c)'
  <2>1. Phase \in {"completed", "dead"} => Phase' = Phase
        BY <1>0, Lasting
  <2>2. Phase = "completed" => exitFile \in Codes
        BY DEF ScriptInv, TypeOK, Phase
  <2>3. result[c] = "completed" => Phase' = "completed" /\ exitFile' = told[c]
        BY <1>0, <2>1, <2>2, Lasting DEF ReportTrue
  <2>4. result[c] = "cancelled" => cancelFile' /\ Phase' \in {"completed", "dead"}
        BY <1>0, <2>1, Lasting DEF ReportTrue
  <2>5. possible[c] \subseteq possible'[c]
        BY Possible
  <2>.  QED
        BY <2>3, <2>4, <2>5 DEF ReportTrue
<1>2. at'[c] # "idle" => result'[c] = "nothing" /\ Sayable' \subseteq possible'[c]
      BY Possible DEF ReportInv
<1>3. at'[c] = "status:group" => pidFile' /\ cancelFile'
      BY <1>0, Lasting DEF ReportInv
<1>4. at'[c] = "status:nopid" /\ pidFile' =>
        Contract!Report("unknown", "none") \in possible'[c] \/ exitFile' \in Codes
  <2>1. CASE pidFile
        BY <1>0, <2>1, Lasting, Possible DEF ReportInv
  <2>2. CASE ~pidFile /\ pidFile' /\ at'[c] = "status:nopid"
    <3>1. Contract!Report("unknown", "none") \in Sayable'
      <4>1. exitFile' \notin Codes /\ GroupAlive'
            BY <1>0, <2>2, Lasting
      <4>2. Says'
            BY SayableNow, PTL
      <4>.  QED
            BY <2>2, <4>1, <4>2 DEF Says
    <3>.  QED
          BY <1>2, <2>2, <3>1
  <2>.  QED
        BY <2>1, <2>2
<1>5. at'[c] = "status:recheck" =>
        pidFile' /\ (Contract!Report("unknown", "none") \in possible'[c] \/ exitFile' \in Codes)
      BY <1>0, Lasting, Possible DEF ReportInv
<1>6. at'[c] = "status:completed" => exitFile' \in Codes /\ told'[c] = exitFile'
      BY <1>0, Lasting DEF ReportInv
<1>.  QED
      BY <1>1, <1>2, <1>3, <1>4, <1>5, <1>6 DEF ReportInv

\* The call's own step: it starts, it looks, or it has something to say.
LEMMA StartReports ==
  ASSUME ScriptInv, MCNext, NEW c \in Calls, ReportTrue(c), ReportInv(c), Call(c)
  PROVE  ReportTrue(c)' /\ ReportInv(c)'
<1>1. /\ at'[c] \in {"cancel:mark", "status:exit"}
      /\ result'[c] = "nothing"
      BY DEF ScriptInv, TypeOK, Call, GoOn
<1>2. ReportTrue(c)'
      BY <1>1 DEF ReportTrue
<1>3. Sayable' \subseteq possible'[c]
      BY <1>1, Possible
<1>.  QED
      BY <1>1, <1>2, <1>3 DEF ReportInv

LEMMA CancelReports ==
  ASSUME ScriptInv, MCNext, NEW c \in Calls, ReportTrue(c), ReportInv(c), Cancel(c)
  PROVE  ReportTrue(c)' /\ ReportInv(c)'
<1>1. /\ at'[c] \in Marked \cup {"idle"}
      /\ result' = result
      /\ at[c] # "idle"
      BY DEF ScriptInv, TypeOK, Cancel, CancelReturns, CancelMark, CancelWait, CancelTest, CancelTerm,
             CancelAgain, CancelKill, GoOn
<1>2. result'[c] = "nothing"
      BY <1>1 DEF ReportInv
<1>3. ReportTrue(c)'
      BY <1>2 DEF ReportTrue
<1>4. at'[c] # "idle" => Sayable' \subseteq possible'[c]
      BY Possible
<1>.  QED
      BY <1>1, <1>2, <1>3, <1>4 DEF ReportInv

LEMMA StatusReports ==
  ASSUME ScriptInv, MCNext, NEW c \in Calls, ReportTrue(c), ReportInv(c), Status(c)
  PROVE  ReportTrue(c)' /\ ReportInv(c)'
<1>1. UNCHANGED <<files, group>>
      BY DEF Status, StatusExit, StatusIdentity, StatusFiles, StatusNoPid, StatusGroup,
             StatusRecheck, StatusCompleted, Quiet
<1>2. /\ at[c] # "idle" /\ start # "ready"
      /\ result[c] = "nothing" /\ Sayable \subseteq possible[c]
  <2>1. at[c] # "idle"
        BY DEF Status, StatusExit, StatusIdentity, StatusFiles, StatusNoPid, StatusGroup,
               StatusRecheck, StatusCompleted
  <2>.  QED
        BY <2>1 DEF ScriptInv, CallInv, ReportInv
<1>3. Sayable' = Sayable /\ Phase' = Phase
      BY <1>1 DEF files, group, Sayable, Contract!Reports, Phase
<1>4. /\ possible[c] \subseteq possible'[c]
      /\ at'[c] # "idle" => Sayable' \subseteq possible'[c]
      BY <1>2, Possible
<1>5. Says
      BY SayableNow
<1>6. ASSUME NEW r, NEW n, Say(c, r, n), Contract!Report(r, n) \in Sayable \cup possible[c] \/ r = "error",
             r = "completed" => Phase = "completed" /\ exitFile = n,
             r = "cancelled" => cancelFile /\ Phase \in {"completed", "dead"}
      PROVE  ReportTrue(c)' /\ ReportInv(c)'
  <2>1. at'[c] = "idle" /\ result'[c] = r /\ told'[c] = n
        BY <1>6 DEF Say, GoOn, ScriptInv, TypeOK
  <2>2. ReportTrue(c)'
        BY <1>1, <1>2, <1>3, <1>4, <1>6, <2>1 DEF ReportTrue, files
  <2>.  QED
        BY <2>1, <2>2 DEF ReportInv
<1>7. ASSUME NEW p \in Points \ {"idle"}, GoOn(c, p), result' = result,
             p = "status:group" => pidFile /\ cancelFile,
             p = "status:nopid" /\ pidFile =>
               Contract!Report("unknown", "none") \in Sayable \cup possible[c] \/ exitFile \in Codes,
             p = "status:recheck" =>
               /\ pidFile
               /\ Contract!Report("unknown", "none") \in Sayable \cup possible[c] \/ exitFile \in Codes,
             p = "status:completed" => exitFile \in Codes /\ told'[c] = exitFile
      PROVE  ReportTrue(c)' /\ ReportInv(c)'
  <2>1. at'[c] = p /\ result'[c] = "nothing"
        BY <1>2, <1>7 DEF GoOn, ScriptInv, TypeOK
  <2>2. ReportTrue(c)'
        BY <2>1 DEF ReportTrue
  <2>.  QED
        BY <1>1, <1>2, <1>3, <1>4, <1>7, <2>1, <2>2 DEF ReportInv, files
<1>8. CASE StatusExit(c)
      BY <1>6, <1>7, <1>8 DEF StatusExit, ScriptInv, TypeOK
<1>9. CASE StatusIdentity(c)
      BY <1>5, <1>6, <1>7, <1>9 DEF StatusIdentity, Says
<1>10. CASE StatusFiles(c)
      BY <1>5, <1>6, <1>7, <1>10 DEF StatusFiles, Says
<1>11. CASE StatusNoPid(c)
      BY <1>2, <1>5, <1>6, <1>7, <1>11 DEF StatusNoPid, Says, ReportInv
<1>12. CASE StatusGroup(c)
      BY <1>2, <1>5, <1>6, <1>7, <1>12 DEF StatusGroup, Says, ReportInv, Phase
<1>13. CASE StatusRecheck(c)
      BY <1>2, <1>5, <1>6, <1>7, <1>13 DEF StatusRecheck, Says, ReportInv, ScriptInv, TypeOK
<1>14. CASE StatusCompleted(c)
  <2>1. exitFile \in Codes /\ told[c] = exitFile /\ start # "ready" /\ pidFile
        BY <1>2, <1>14 DEF StatusCompleted, ReportInv, ScriptInv, WorkerInv
  <2>2. ~GroupAlive => Phase = "completed"
        BY <2>1 DEF Phase
  <2>.  QED
        BY <1>5, <1>6, <1>14, <2>1, <2>2 DEF StatusCompleted, Says
<1>.  QED
      BY <1>8, <1>9, <1>10, <1>11, <1>12, <1>13, <1>14 DEF Status

LEMMA ReportsStep ==
  ASSUME ScriptInv, ScriptInv', ReportsInv, [MCNext]_<<vars, possible>>
  PROVE  ReportsInv'
<1>1. CASE MCNext
  <2>1. ASSUME NEW c \in Calls
        PROVE  ReportTrue(c)' /\ ReportInv(c)'
    <3>1. ReportTrue(c) /\ ReportInv(c)
          BY EveryReport
    <3>2. \/ at'[c] = at[c] /\ result'[c] = result[c] /\ told'[c] = told[c]
          \/ Call(c) \/ Cancel(c) \/ Status(c)
          BY <1>1, OwnSteps DEF MCNext, ScriptInv
    <3>.  QED
          BY <1>1, <3>1, <3>2, OtherReports, StartReports, CancelReports, StatusReports
  <2>2. ((\A c \in Calls : ReportTrue(c) /\ ReportInv(c)) <=> ReportsInv)'
        BY EveryReport, PTL
  <2>.  QED
        BY <2>1, <2>2
<1>2. CASE UNCHANGED <<vars, possible>>
  <2>1. Phase' = Phase /\ Sayable' = Sayable
        BY <1>2 DEF vars, files, group, Phase, Sayable, Contract!Reports
  <2>.  QED
        BY <1>2, <2>1 DEF vars, files, calls, ReportsInv, ReportsAreTrue, FinalReportsAreTrue, ReportInv
<1>.  QED
      BY <1>1, <1>2

\* Whatever a status call prints, the contract allowed at an instant between its first look
\* and its last, and what it prints as final stays true, for any number of calls: no two looks
\* of a call add up to a state the job was never in (android-job.sh, lines 77-112).
THEOREM TrueReports == MCSpec => []ReportsAreTrue
<1>1. MCInit => ScriptInv
      BY ScriptInit DEF MCInit
<1>2. MCInit => ReportsInv
      BY DEF MCInit, Init, ReportsInv, ReportsAreTrue, FinalReportsAreTrue, ReportInv
<1>3. ScriptInv /\ [MCNext]_<<vars, possible>> => ScriptInv'
      BY ScriptStep DEF MCNext
<1>4. ScriptInv /\ ScriptInv' /\ ReportsInv /\ [MCNext]_<<vars, possible>> => ReportsInv'
      BY ReportsStep
<1>5. ReportsInv => ReportsAreTrue
      BY DEF ReportsInv
<1>.  QED
      BY <1>1, <1>2, <1>3, <1>4, <1>5, PTL DEF MCSpec
=============================================================================
