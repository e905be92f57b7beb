---------------------------- MODULE RuntimeDrills ----------------------------
(***************************************************************************)
(* The scripts that check a runtime from outside, as the only user of the  *)
(* service: three stop and restart cycles and a forced stop, three stops   *)
(* below a running command, three aborts, and the isolated backend of      *)
(* check-runtime-candidate.py, which is killed, or not, and then asked to  *)
(* abort. A script taps, waits and asserts; what it asserts is stated here *)
(* by its answers. Its deadlines are left out: a script that would run     *)
(* into one waits for ever.                                                *)
(***************************************************************************)
EXTENDS RuntimeService, Sequences

CONSTANTS Rounds        \* three in every script, which makes a call in each

ASSUME DrillAssumption == Rounds \in Nat \ {0} /\ 1 .. Rounds \subseteq Tools

VARIABLES drill         \* the script, its round, its place in it, and a failed assertion

drillVars == <<serviceVars, drill>>

Cycle(first, round, last) == [first |-> first, round |-> round, last |-> last]

StockRestart ==
  Cycle(<< "force", "open" >>,
        << "start", "ready", "one", "stop", "stopped", "empty" >>,
        << "start", "ready", "force", "open", "ready", "one" >>)

NativeStop ==
  Cycle(<< "start", "ready" >>,
        << "session", "call", "stop", "exited", "start", "ready", "recovered" >>,
        << >>)

JobAbort ==
  Cycle(<< "start", "ready" >>, << "session", "call", "abort", "answer", "childless" >>, << >>)

Candidate ==
  Cycle(<< >>, << "serve", "healthy", "call", "abort", "answer", "childless", "settled", "term", "exited" >>, << >>)

CandidateCrash ==
  Cycle(<< >>,
        << "serve", "healthy", "call", "kill", "serve", "healthy", "orphan",
           "abort", "answer", "childless", "settled", "term", "exited" >>,
        << >>)

Drill ==
  [stock |-> StockRestart, native |-> NativeStop, abort |-> JobAbort,
   candidate |-> Candidate, crash |-> CandidateCrash]

\* The operations of a round, the first and the last with what surrounds them.
Script(d) ==
  (IF d.round = 1 THEN Drill[d.name].first ELSE << >>) \o Drill[d.name].round
    \o (IF d.round = Rounds THEN Drill[d.name].last ELSE << >>)

DrillInit == Init /\ drill \in [name : DOMAIN Drill, round : {1}, at : {1}, failed : {FALSE}]

-----------------------------------------------------------------------------
Now(op) == ~drill.failed /\ drill.at <= Len(Script(drill)) /\ Script(drill)[drill.at] = op

Advance ==
  drill' = IF drill.at = Len(Script(drill)) /\ drill.round < Rounds
           THEN [drill EXCEPT !.round = @ + 1, !.at = 1] ELSE [drill EXCEPT !.at = @ + 1]

Fails == drill' = [drill EXCEPT !.failed = TRUE]

\* Finding a button takes a second, in which an instance that has ended is destroyed.
Settled == bound \in {0} \cup {i \in Instances : service[i].running /\ ~service[i].stopping}

\* A tap, and the activity that is stopped by force and opened again.
DrillTaps ==
  /\ \/ Now("start") /\ Settled /\ \E i \in Instances : StartCommand(i)
     \/ Now("stop") /\ \E i \in Instances : StopCommand(i)
  /\ Advance /\ UNCHANGED <<taps, faults>>

DrillForces == Now("force") /\ KillApp(TRUE) /\ UNCHANGED faults /\ Advance
DrillOpens == Now("open") /\ Reopen /\ Advance

\* wait_status: the failed status ends the script.
DrillWaits ==
  /\ \/ Now("ready") /\ status = "ready" /\ Advance
     \/ Now("stopped") /\ status = "stopped" /\ Advance
     \/ (Now("ready") \/ Now("stopped")) /\ status = "failed" /\ Fails
     \/ Now("exited") /\ Live = {} /\ Advance
     \/ Now("healthy") /\ Listening # {} /\ Advance
     \/ Now("healthy") /\ Live = {} /\ Fails
     \/ Now("answer") /\ abort = "none" /\ Advance
  /\ UNCHANGED serviceVars

\* A new session has no calls; its command runs until it is killed.
DrillCalls ==
  /\ \/ /\ Now("session") /\ tool' = [t \in Tools |-> NoCall]
        /\ Untouched /\ UNCHANGED <<process, captured, abort, faults>>
     \/ Now("call") /\ \E t \in Tools : CallBegins(t)
     \/ Now("abort") /\ AbortReads
  /\ Advance

\* The backend under test is started without the flag of the app, in a group of its own.
DrillServes ==
  /\ Now("serve") /\ Free # {}
  /\ process' = [process EXCEPT ![NewProcess] = [Gone EXCEPT !.st = "proot"]]
  /\ Advance /\ Untouched /\ UNCHANGED <<Calls, faults>>

\* SIGKILL to the backend and to the command it started; SIGTERM to its group.
DrillKills ==
  /\ \/ Now("kill") /\ \E p \in Listening : Die(p)
     \/ Now("term") /\ process' = Quit(Live) /\ UNCHANGED Calls
  /\ Advance /\ Untouched /\ UNCHANGED faults

Called == {t \in Tools : tool[t].st # "none"}

Asserted ==
  [one |-> \E p \in Live : Live = {p} /\ process[p].st # "shell",
   empty |-> Live = {},
   recovered |-> \A t \in Called : tool[t].st = "recovered",
   childless |-> \A t \in Called : ~tool[t].child,
   orphan |-> \E t \in Tools : tool[t].st = "running",
   settled |-> \A t \in Tools : tool[t].st # "running"]

DrillAsserts ==
  /\ \E a \in DOMAIN Asserted : Now(a) /\ IF Asserted[a] THEN Advance ELSE Fails
  /\ UNCHANGED serviceVars

DrillStep ==
  \/ DrillTaps \/ DrillForces \/ DrillOpens \/ DrillWaits
  \/ DrillCalls \/ DrillServes \/ DrillKills \/ DrillAsserts

\* The service runs on below the script. A killed command is stored by the backend or not.
DrilledStep ==
  /\ \/ MainThread \/ Abort
     \/ \E i \in Instances : Worker(i)
     \/ \E p \in Processes : Backend(p)
     \/ \E t \in Tools : ~tool[t].child /\ CallEnds(t)
  /\ UNCHANGED drill

DrillNext == DrillStep \/ DrilledStep

DrillSpec == DrillInit /\ [][DrillNext]_drillVars

-----------------------------------------------------------------------------
DrillTypeOK ==
  /\ TypeOK
  /\ drill.name \in DOMAIN Drill /\ drill.round \in 1 .. Rounds
  /\ drill.at \in 1 .. Len(Script(drill)) + 1 /\ drill.failed \in BOOLEAN

\* No assertion of check-stock-restart.py, check-native-stop-recovery.py, check-job-abort.py
\* or check-runtime-candidate.py fails, unless something failed that they do not do themselves.
DrillsHold == faults = 0 => ~drill.failed
=============================================================================
