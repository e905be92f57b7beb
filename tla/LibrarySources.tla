---------------------------- MODULE LibrarySources ----------------------------
(***************************************************************************)
(* collect-dnfast-library-sources.py: source RPMs are downloaded, or found *)
(* in place, one after the other, and after each one the receipt in the    *)
(* repository is replaced by the rows so far. Its digests are the pins of  *)
(* the next run, beside the few in dnfast-additional-source-rpms.json.     *)
(***************************************************************************)
EXTENDS Naturals

CONSTANTS Rpms,         \* 1 .. n, in the order of their names
          Digests, Absent,
          Additional,   \* the digests of those pinned by hand
          MaxChanges,   \* of the content behind a URL
          MaxFaults

VARIABLES upstream,     \* what every URL answers
          rpm,          \* the digest of every file in place, or Absent
          receipt,      \* rows of dnfast-library-sources.json, and its verdict
          collector,    \* the script under way
          changes, faults

vars == <<upstream, rpm, receipt, collector, changes, faults>>

Error == "error"
Ended == [at |-> 0, done |-> FALSE, known |-> <<>>, rows |-> <<>>]

Init ==
  /\ upstream \in [Rpms -> Digests]
  /\ \A r \in DOMAIN Additional : upstream[r] = Additional[r]
  /\ rpm = [r \in Rpms |-> Absent]
  /\ receipt = [rows |-> <<>>, complete |-> FALSE]
  /\ collector = Ended /\ changes = 0 /\ faults = 0

Fault == faults < MaxFaults /\ faults' = faults + 1

-----------------------------------------------------------------------------
\* Only rows with a digest are known, and what is pinned by hand wins.
Known ==
  LET recorded == {r \in DOMAIN receipt.rows : receipt.rows[r] # Error} IN
  [r \in recorded \cup DOMAIN Additional |->
     IF r \in DOMAIN Additional THEN Additional[r] ELSE receipt.rows[r]]

Start ==
  /\ collector = Ended
  /\ collector' = [at |-> 1, done |-> FALSE, known |-> Known, rows |-> <<>>]
  /\ UNCHANGED <<upstream, rpm, receipt, changes, faults>>

This == collector.at
Due == This # 0 /\ ~collector.done
Previous(d) == This \in DOMAIN collector.known => collector.known[This] = d

Row(x) ==
  collector' = [collector EXCEPT !.done = TRUE,
    !.rows = [r \in DOMAIN @ \cup {This} |-> IF r = This THEN x ELSE @[r]]]

\* A file in place is read again if there is a digest to compare it with.
Cached ==
  /\ Due /\ This \in DOMAIN collector.known /\ rpm[This] # Absent
  /\ Row(IF Previous(rpm[This]) THEN rpm[This] ELSE Error)
  /\ UNCHANGED <<upstream, rpm, receipt, changes, faults>>

Needed == Due /\ (This \notin DOMAIN collector.known \/ rpm[This] = Absent)

\* The part takes the place of the file once its digest is right.
Download ==
  /\ Needed
  /\ \/ /\ Previous(upstream[This]) /\ Row(upstream[This])
        /\ rpm' = [rpm EXCEPT ![This] = upstream[This]]
        /\ UNCHANGED faults
     \/ ~Previous(upstream[This]) /\ Row(Error) /\ UNCHANGED <<rpm, faults>>
     \/ Fault /\ Row(Error) /\ UNCHANGED rpm
  /\ UNCHANGED <<upstream, receipt, changes>>

\* After every row; a run that has written the last one ends.
SaveReceipt ==
  /\ collector.done
  /\ receipt' = [rows |-> collector.rows,
                 complete |-> \A r \in Rpms : r \in DOMAIN collector.rows /\ collector.rows[r] # Error]
  /\ collector' = IF This + 1 \in Rpms THEN [collector EXCEPT !.at = @ + 1, !.done = FALSE] ELSE Ended
  /\ UNCHANGED <<upstream, rpm, changes, faults>>

Kill ==
  /\ collector # Ended /\ Fault /\ collector' = Ended
  /\ UNCHANGED <<upstream, rpm, receipt, changes>>

\* Another file behind the URL, and a file in place that is removed.
Changed(r) ==
  /\ changes < MaxChanges /\ changes' = changes + 1
  /\ \/ \E d \in Digests : upstream' = [upstream EXCEPT ![r] = d] /\ UNCHANGED rpm
     \/ rpm' = [rpm EXCEPT ![r] = Absent] /\ UNCHANGED upstream
  /\ UNCHANGED <<receipt, collector, faults>>

Next ==
  \/ Start \/ Cached \/ Download \/ SaveReceipt \/ Kill
  \/ \E r \in Rpms : Changed(r)

Spec == Init /\ [][Next]_vars

-----------------------------------------------------------------------------
TypeOK ==
  /\ upstream \in [Rpms -> Digests] /\ rpm \in [Rpms -> Digests \cup {Absent}]
  /\ DOMAIN receipt.rows \subseteq Rpms /\ receipt.complete \in BOOLEAN
  /\ collector.at \in Rpms \cup {0} /\ DOMAIN collector.rows \subseteq Rpms
  /\ changes \in 0 .. MaxChanges /\ faults \in 0 .. MaxFaults

\* While the receipt says "complete", every file that is in place is the one recorded,
\* whatever a later run has begun, and nothing else than what is pinned by hand is ever in
\* the place of such a file (collect-dnfast-library-sources.py, 27-57).
ReceiptIsTrue ==
  /\ receipt.complete => \A r \in Rpms : rpm[r] \in {receipt.rows[r], Absent}
  /\ \A r \in DOMAIN Additional : rpm[r] \in {Additional[r], Absent}
=============================================================================
