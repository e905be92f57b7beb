-------------------------- MODULE MCAndroidJobScript --------------------------
(***************************************************************************)
(* AndroidJobScript for TLC, with a history variable: what the contract    *)
(* would have let each running `status` call print at some instant of it.  *)
(***************************************************************************)
EXTENDS AndroidJobScript

VARIABLE possible

\* What the contract lets a report say now.  A foreign group under the recorded pid
\* adds what `ps` makes of it: the job's own group seems to be alive.
Sayable ==
  Contract!Reports("job") \cup
    (IF foreign THEN {Contract!Report("running", exitFile), Contract!Report("unknown", "none")}
                ELSE {})

MCInit == Init /\ possible = [c \in Calls |-> {}]

MCNext ==
  /\ Next
  /\ possible' = [c \in Calls |->
       IF at'[c] = "idle" THEN possible[c]
       ELSE Sayable' \cup (IF at[c] = "idle" THEN Sayable ELSE possible[c])]

MCSpec == MCInit /\ [][MCNext]_<<vars, possible>>

\* Whatever a `status` call prints, the contract allowed at an instant between its first
\* look and its last: the looks it takes one after the other, while the worker and cancels
\* go on, add up to one state the job was really in. A final report also stays true
\* (android-job.sh, lines 77-112).
ReportsAreTrue ==
  /\ FinalReportsAreTrue
  /\ \A c \in Calls :
       result[c] \notin {"nothing", "error"} =>
         Contract!Report(result[c], told[c]) \in possible[c]
=============================================================================
