---------------------------- MODULE MCAndroidJobs ----------------------------
(***************************************************************************)
(* Small instances of AndroidJobs for TLC.                                 *)
(***************************************************************************)
EXTENDS AndroidJobs

Untouched(i) == disk[i].status = "none" /\ \A g \in Gens : i \notin controls[g]

\* A bound: a second instance is only built where no install has been asked for.
Bounded == gen > 1 => \A i \in InstallJobs : Untouched(i)

MCNext ==
  \/ NewInstance /\ Bounded'
  \/ Constructor
  \/ Request /\ Bounded'
  \/ Close
  \/ Crash
  \/ \E g \in Gens : WorkerStep(g) \/ Deliver(g)
  \/ DeliverGhost
  \/ \E j \in ShellJobs : Remote(j)

MCSpec == Init /\ [][MCNext]_vars
=============================================================================
