---------------------------- MODULE MCPackageJobs ----------------------------
(***************************************************************************)
(* PackageJobs for TLC; the instances are the .cfg files pkg_*.            *)
(***************************************************************************)
EXTENDS PackageJobs

\* What a client reads is worth believing: a row that says completed is true of the
\* commands of the job and of what is left of them, and one that says it is still going on
\* is in the hands of a worker, also where two instances wrote it (PackageJobs.java, 24-31
\* and 69-88).
RowsAreTrue == CompletedIsTrue /\ RunningRowsAreOwned
=============================================================================
