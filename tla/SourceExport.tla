----------------------------- MODULE SourceExport -----------------------------
(***************************************************************************)
(* The source snapshot of a release. export-private-source.py copies the   *)
(* listed files of a working tree, which is being edited, to the release   *)
(* checkout and then records their digests; an archive of the checkout may *)
(* be made at any time, and verify-source-snapshot.py judges it.           *)
(***************************************************************************)
EXTENDS Naturals, FiniteSets

CONSTANTS Fixed, Globbed, \* files named in the script, and found by its patterns
          Versions,       \* contents a file may have
          Absent, Torn,   \* no content
          MaxEdits, MaxFaults

VARIABLES source, checkout, \* contents of every file
          snapshot,       \* SOURCE-SNAPSHOT.json: digests by file, or Torn
          export,         \* the exporter: what is left, what it has read and digested
          edited,         \* edits, and whether one was made during this export
          archive,        \* an archive of the checkout
          verified,
          interrupts

vars == <<source, checkout, snapshot, export, edited, archive, verified, interrupts>>

Names == Fixed \cup Globbed
Idle == [pc |-> "idle", todo |-> {}, at |-> Absent, data |-> Absent, copied |-> Absent, hashes |-> <<>>]

\* A first snapshot, of an earlier source.
Init ==
  /\ source \in [Names -> Versions \cup {Absent}] /\ \A n \in Fixed : source[n] # Absent
  /\ snapshot \in {[n \in Fixed |-> v] : v \in Versions}
  /\ checkout = [n \in Names |-> IF n \in DOMAIN snapshot THEN snapshot[n] ELSE Absent]
  /\ export = Idle
  /\ edited = [count |-> 0, since |-> FALSE]
  /\ archive = [files |-> checkout, snapshot |-> snapshot] /\ verified = FALSE
  /\ interrupts = 0

-----------------------------------------------------------------------------
release == <<archive, verified>>

Edit(n, v) ==
  /\ edited.count < MaxEdits /\ source[n] # v
  /\ source' = [source EXCEPT ![n] = v]
  /\ edited' = [count |-> edited.count + 1, since |-> TRUE]
  /\ UNCHANGED <<checkout, snapshot, export, release, interrupts>>

\* The names of the last snapshot stay, beside those the script knows and finds.
Start ==
  /\ export.pc \in {"idle", "done"} /\ snapshot # Torn
  /\ export' = [Idle EXCEPT !.pc = "read",
       !.todo = DOMAIN snapshot \cup Fixed \cup {n \in Globbed : source[n] # Absent}]
  /\ edited' = [edited EXCEPT !.since = FALSE]
  /\ UNCHANGED <<source, checkout, snapshot, release, interrupts>>

Hashed(n, data) == [m \in DOMAIN export.hashes \cup {n} |-> IF m = n THEN data ELSE export.hashes[m]]

Read(n) ==
  /\ export.pc = "read" /\ n \in export.todo
  /\ export' =
       IF source[n] = Absent THEN Idle
       ELSE IF checkout[n] = source[n]
         THEN [export EXCEPT !.todo = @ \ {n}, !.hashes = Hashed(n, source[n])]
         ELSE [export EXCEPT !.pc = "copy", !.at = n, !.data = source[n]]
  /\ UNCHANGED <<source, checkout, snapshot, edited, release, interrupts>>

\* copyfile() reads the file once more, and empties its target first. A file that is
\* removed while it is open can still be read.
CopyOpen ==
  /\ export.pc = "copy"
  /\ IF source[export.at] = Absent
       THEN export' = Idle /\ UNCHANGED checkout
       ELSE /\ checkout' = [checkout EXCEPT ![export.at] = Torn]
            /\ export' = [export EXCEPT !.pc = "copying", !.copied = source[export.at]]
  /\ UNCHANGED <<source, snapshot, edited, release, interrupts>>

CopyEnd ==
  /\ export.pc = "copying"
  /\ checkout' = [checkout EXCEPT ![export.at] =
       IF source[export.at] = Absent THEN export.copied ELSE source[export.at]]
  /\ export' = [export EXCEPT !.pc = "read", !.todo = @ \ {export.at}, !.copied = Absent,
                              !.hashes = Hashed(export.at, export.data)]
  /\ UNCHANGED <<source, snapshot, edited, release, interrupts>>

SnapshotOpen ==
  /\ export.pc = "read" /\ export.todo = {}
  /\ snapshot' = Torn
  /\ export' = [export EXCEPT !.pc = "snapshot"]
  /\ UNCHANGED <<source, checkout, edited, release, interrupts>>

SnapshotEnd ==
  /\ export.pc = "snapshot"
  /\ snapshot' = export.hashes
  /\ export' = [Idle EXCEPT !.pc = "done"]
  /\ UNCHANGED <<source, checkout, edited, release, interrupts>>

Kill ==
  /\ export.pc \notin {"idle", "done"} /\ interrupts < MaxFaults
  /\ export' = Idle /\ interrupts' = interrupts + 1
  /\ UNCHANGED <<source, checkout, snapshot, edited, release>>

Archive ==
  /\ archive' = [files |-> checkout, snapshot |-> snapshot] /\ verified' = FALSE
  /\ UNCHANGED <<source, checkout, snapshot, export, edited, interrupts>>

Matches == archive.snapshot # Torn /\ \A n \in DOMAIN archive.snapshot : archive.files[n] = archive.snapshot[n]

Verify ==
  /\ Matches /\ verified' = TRUE
  /\ UNCHANGED <<source, checkout, snapshot, export, edited, archive, interrupts>>

Next ==
  \/ \E n \in Names, v \in Versions \cup {Absent} : Edit(n, v)
  \/ Start \/ (\E n \in Names : Read(n)) \/ CopyOpen \/ CopyEnd \/ SnapshotOpen \/ SnapshotEnd
  \/ Kill \/ Archive \/ Verify

Spec == Init /\ [][Next]_vars

-----------------------------------------------------------------------------
Contents == Versions \cup {Absent, Torn}

TypeOK ==
  /\ source \in [Names -> Versions \cup {Absent}]
  /\ checkout \in [Names -> Contents]
  /\ snapshot = Torn \/ DOMAIN snapshot \subseteq Names
  /\ export.pc \in {"idle", "read", "copy", "copying", "snapshot", "done"}
  /\ export.todo \subseteq Names /\ DOMAIN export.hashes \subseteq Names
  /\ edited.count \in 0 .. MaxEdits /\ edited.since \in BOOLEAN
  /\ archive.files \in [Names -> Contents]
  /\ verified \in BOOLEAN /\ interrupts \in 0 .. MaxFaults

\* An export that nobody edits under leaves checkout, snapshot and source in agreement, over
\* whatever an export that was killed half way has left (export-private-source.py, 130-154).
QuietExportAgrees ==
  export.pc = "done" /\ ~edited.since =>
    /\ Fixed \subseteq DOMAIN snapshot
    /\ \A n \in DOMAIN snapshot : checkout[n] = snapshot[n] /\ snapshot[n] = source[n]

\* An archive that verifies has whole files and the digests of a finished export, whenever
\* it was made: between two files, or between a file and its second reading, it fails.
VerifiedIsWhole ==
  verified =>
    /\ archive.snapshot # Torn
    /\ \A n \in DOMAIN archive.snapshot : archive.files[n] \in Versions
=============================================================================
