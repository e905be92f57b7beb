-------------------------------- MODULE Signing --------------------------------
(***************************************************************************)
(* The two signers. prepare-release-signing.py makes a release key in a    *)
(* directory of its own, file after file; several of it may run.           *)
(* provision-development-signing.py takes the host's debug key to the      *)
(* phone through a transport that truncates. Either may be killed.         *)
(***************************************************************************)
EXTENDS Naturals, Sequences

CONSTANTS Makers,     \* processes that make a release signer
          MaxFaults

VARIABLES directory,  \* the release signer's directory exists
          signer,     \* what its files hold: whose key, certificate, password
          maker,      \* the next step of every process
          phone,      \* the files of the development signer
          transfer,   \* and the transfer of one of them
          faults

vars == <<directory, signer, maker, phone, transfer, faults>>
release == <<directory, signer, maker>>
development == <<phone, transfer>>

Private == << "keystore", "properties" >>
Absent == [target |-> "absent", encoded |-> "absent", part |-> "absent"]
Off == [pc |-> "off", file |-> 1]

Init ==
  /\ directory = FALSE
  /\ signer = [f \in {"store", "properties", "certificate", "metadata"} |-> "absent"]
  /\ maker = [m \in Makers |-> "look"]
  /\ phone \in [{"keystore", "properties"} -> {Absent, [Absent EXCEPT !.target = "foreign"]}]
  /\ transfer = Off
  /\ faults = 0

Fault == faults < MaxFaults /\ faults' = faults + 1

-----------------------------------------------------------------------------
Order == << "store", "properties", "certificate", "metadata" >>

After(f) ==
  LET later == {i \in 2 .. Len(Order) : Order[i - 1] = f}
  IN IF later = {} THEN "done" ELSE Order[CHOOSE i \in later : TRUE]

Goes(m, pc) == maker' = [maker EXCEPT ![m] = pc]

Look(m) ==
  /\ maker[m] = "look"
  /\ Goes(m, IF directory THEN "refused" ELSE "mkdir")
  /\ UNCHANGED <<directory, signer, development, faults>>

\* mkdir() refuses what another process has made since.
MkDir(m) ==
  /\ maker[m] = "mkdir"
  /\ IF directory THEN Goes(m, "refused") /\ UNCHANGED directory
     ELSE directory' = TRUE /\ Goes(m, Order[1])
  /\ UNCHANGED <<signer, development, faults>>

\* Every file is opened, and then written; keytool may fail.
OpenFile(m) ==
  LET f == maker[m] IN
  /\ f \in DOMAIN signer /\ signer[f] # "torn"
  /\ IF f \in {"store", "properties"} /\ signer[f] # "absent"
       THEN Goes(m, "refused") /\ UNCHANGED signer
       ELSE signer' = [signer EXCEPT ![f] = "torn"] /\ UNCHANGED maker
  /\ UNCHANGED <<directory, development, faults>>

WriteFile(m) ==
  LET f == maker[m] IN
  /\ f \in DOMAIN signer /\ signer[f] = "torn"
  /\ \/ signer' = [signer EXCEPT ![f] = m] /\ Goes(m, After(f)) /\ UNCHANGED faults
     \/ f = "store" /\ Fault /\ Goes(m, "failed") /\ UNCHANGED signer
  /\ UNCHANGED <<directory, development>>

KillMaker(m) ==
  /\ maker[m] \in DOMAIN signer /\ Fault
  /\ Goes(m, "failed")
  /\ UNCHANGED <<directory, signer, development>>

-----------------------------------------------------------------------------
Name == Private[transfer.file]
Turns(pc) == transfer' = [transfer EXCEPT !.pc = pc]
Gets(field, c) == phone' = [phone EXCEPT ![Name][field] = c]

Provision ==
  /\ transfer.pc = "off"
  /\ transfer' = [pc |-> "list", file |-> 1]
  /\ UNCHANGED <<release, phone, faults>>

\* A bug for NextFile: one file too many.
NextFilePast == [pc |-> "list", file |-> transfer.file + 1]

NextFile == IF transfer.file = Len(Private) THEN Off ELSE [pc |-> "list", file |-> transfer.file + 1]

\* An existing file is compared, and is never replaced.
List ==
  /\ transfer.pc = "list"
  /\ CASE phone[Name].target = "absent" -> Turns("touch")
       [] phone[Name].target = "exact" -> transfer' = NextFile
       [] OTHER -> transfer' = Off
  /\ UNCHANGED <<release, phone, faults>>

Touch ==
  /\ transfer.pc = "touch"
  /\ Gets("encoded", IF phone[Name].encoded = "absent" THEN "cut" ELSE phone[Name].encoded)
  /\ Turns("dd")
  /\ UNCHANGED <<release, faults>>

\* dd begins anew. It may be given less than was sent, and does not mind; or it is stuck.
Dd ==
  /\ transfer.pc = "dd"
  /\ \/ Gets("encoded", "exact") /\ Turns("decode") /\ UNCHANGED faults
     \/ Gets("encoded", "cut") /\ Fault /\ Turns("decode")
     \/ Gets("encoded", "cut") /\ Fault /\ transfer' = Off
  /\ UNCHANGED release

\* Both ends of base64 are on the phone: what is cut decodes to something that is cut.
Decode ==
  /\ transfer.pc = "decode"
  /\ Gets("part", phone[Name].encoded) /\ Turns("digest")
  /\ UNCHANGED <<release, faults>>

Digest ==
  /\ transfer.pc = "digest"
  /\ IF phone[Name].part = "exact" THEN Turns("mv") ELSE transfer' = Off
  /\ UNCHANGED <<release, phone, faults>>

Mv ==
  /\ transfer.pc = "mv"
  /\ phone' = [phone EXCEPT ![Name].target = phone[Name].part, ![Name].part = "absent"]
  /\ Turns("rm")
  /\ UNCHANGED <<release, faults>>

Rm ==
  /\ transfer.pc = "rm"
  /\ Gets("encoded", "absent") /\ transfer' = NextFile
  /\ UNCHANGED <<release, faults>>

\* What the phone was decoding is cut.
KillProvision ==
  /\ transfer.pc # "off" /\ Fault
  /\ IF transfer.pc = "decode" THEN Gets("part", "cut") ELSE UNCHANGED phone
  /\ transfer' = Off
  /\ UNCHANGED release

Next ==
  \/ \E m \in Makers : Look(m) \/ MkDir(m) \/ OpenFile(m) \/ WriteFile(m) \/ KillMaker(m)
  \/ Provision \/ List \/ Touch \/ Dd \/ Decode \/ Digest \/ Mv \/ Rm \/ KillProvision

Spec == Init /\ [][Next]_vars

-----------------------------------------------------------------------------
Holds == {"absent", "torn"} \cup Makers

TypeOK ==
  /\ directory \in BOOLEAN
  /\ signer \in [{"store", "properties", "certificate", "metadata"} -> Holds]
  /\ \A m \in Makers : maker[m] \in {"look", "mkdir", "done", "refused", "failed"} \cup DOMAIN signer
  /\ \A f \in DOMAIN phone :
       /\ phone[f].target \in {"absent", "cut", "exact", "foreign"}
       /\ phone[f].encoded \in {"absent", "cut", "exact"}
       /\ phone[f].part \in {"absent", "cut", "exact"}
  /\ transfer.pc \in {"off", "list", "touch", "dd", "decode", "digest", "mv", "rm"}
  /\ transfer.file \in DOMAIN Private
  /\ faults \in 0 .. MaxFaults

\* Metadata that can be read is that of a complete signer of one process: whoever else
\* tried at the same time, and wherever somebody was killed
\* (prepare-release-signing.py, lines 17-50).
MetadataMeansReady ==
  signer["metadata"] \notin {"absent", "torn"} => \A f \in DOMAIN signer : signer[f] = signer["metadata"]

\* Under its own name a private file is exact or somebody else's, never cut; and the
\* properties do not come before the key they are about, unless that was there already
\* (provision-development-signing.py, lines 36-67).
PrivateFilesAreExact ==
  /\ \A f \in DOMAIN phone : phone[f].target # "cut"
  /\ phone["properties"].target = "exact" => phone["keystore"].target = "exact"
=============================================================================
