--------------------------- MODULE UpgradeContract ---------------------------
(***************************************************************************)
(* What a dnfast upgrade promises to the package journals of a Fedora      *)
(* root, whatever is interrupted: the old runtime works on them until the  *)
(* switch begins, the switch begins only over settled journals, nobody     *)
(* works on them while it lasts, and it never goes back.                   *)
(***************************************************************************)
EXTENDS Naturals

CONSTANTS MaxJournal,   \* journals are 0 (none) .. MaxJournal
          Unfinished    \* those with a transaction that has not been concluded

VARIABLES version,      \* what a launcher finds: "old", "mixed" or "new"
          journal       \* the package journals, which only ever grow

Init == version \in {"old", "new"} /\ journal \in 0 .. MaxJournal

\* A transaction of the old runtime writes its journal.
Transact ==
  /\ version = "old"
  /\ journal' \in (journal + 1) .. MaxJournal
  /\ UNCHANGED version

\* The first executable is replaced.
Begin ==
  /\ version = "old"
  /\ journal \notin Unfinished
  /\ version' \in {"mixed", "new"}
  /\ UNCHANGED journal

\* The last one is.
Complete == version = "mixed" /\ version' = "new" /\ UNCHANGED journal

Next == Transact \/ Begin \/ Complete

Spec == Init /\ [][Next]_<<version, journal>>
=============================================================================
