------------------------------ MODULE MCService ------------------------------
(***************************************************************************)
(* The runtime service under free taps and kills, under the session inside *)
(* its backend, and under the check scripts; and the guest clients, which  *)
(* share nothing with it but the bridge's name.                            *)
(***************************************************************************)
EXTENDS RuntimeDrills

CONSTANTS Clients,      \* runs of the guest clients
          Identifiers,  \* of their jobs
          MaxLost       \* bound on lost requests and answers

ASSUME GuestAssumption == MaxLost \in Nat

VARIABLES focus, job, client, printed, lost

Guest == INSTANCE GuestClient WITH Runs <- Clients, Jobs <- Identifiers

guestVars == <<job, client, printed, lost>>
allVars == <<focus, drillVars, guestVars>>

Focuses == {"taps", "session", "drill", "client"}

ServiceInit ==
  /\ focus \in Focuses
  /\ IF focus = "drill" THEN DrillInit ELSE Init /\ drill = 0
  /\ IF focus = "client" THEN Guest!Init
     ELSE job = 0 /\ client = 0 /\ printed = 0 /\ lost = 0

\* Starts and stops at any time.
Tapped ==
  /\ focus = "taps"
  /\ MainThread \/ User \/ Killed \/ Reopen \/ (\E i \in Instances : Worker(i))
     \/ \E p \in Processes : Backend(p) \/ Crashes(p)
  /\ UNCHANGED <<focus, drill, guestVars>>

\* Two of them, and two calls.
InSession ==
  /\ focus = "session"
  /\ MainThread \/ (User /\ taps < 2) \/ Killed \/ Reopen \/ (\E i \in Instances : Worker(i))
     \/ (\E p \in Processes : Backend(p) \/ Crashes(p))
     \/ AbortReads \/ Abort \/ \E t \in {1, 2} : CallBegins(t) \/ CallEnds(t)
  /\ UNCHANGED <<focus, drill, guestVars>>

Drilled == focus = "drill" /\ DrillNext /\ UNCHANGED <<focus, guestVars>>

Guests == focus = "client" /\ Guest!ClientNext /\ UNCHANGED <<focus, drillVars>>

ServiceNext == Tapped \/ InSession \/ Drilled \/ Guests

ServiceFairSpec ==
  /\ ServiceInit /\ [][ServiceNext]_allVars
  /\ WF_serviceVars(MainThread)
  /\ \A i \in Instances : WF_serviceVars(Worker(i))
  /\ \A p \in Processes : WF_serviceVars(Backend(p))

-----------------------------------------------------------------------------
ServiceTypeOK ==
  /\ focus \in Focuses
  /\ IF focus = "drill" THEN DrillTypeOK ELSE TypeOK
  /\ focus = "client" => Guest!TypeOK

\* What the check scripts assert holds.
ScriptsHold == focus = "drill" => DrillsHold

\* What a client of the bridge prints and returns is true.
ClientsAreTrue == focus = "client" => Guest!ClientIsTrue

=============================================================================
