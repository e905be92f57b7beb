-------------------------------- MODULE MCBuild --------------------------------
(***************************************************************************)
(* What a release is built with, one part at a time: the parts share files *)
(* only after the one that writes them has ended, so that every behaviour  *)
(* of the build is a sequence of behaviours of single parts. RuntimeInputs *)
(* is extended rather than instantiated: it is the largest, and TLC        *)
(* evaluates the scripts, which are constants, only once then.             *)
(***************************************************************************)
EXTENDS RuntimeInputs
LOCAL INSTANCE SequencesExt

CONSTANTS Builds, Pins, Tools, Nobody, Nothing,    \* of the SDK
          Apks, Least, Appliers,                   \* of a delta
          Listed, Found, Versions, NoFile, Torn,   \* the source, and what its files hold
          Journeys, Passed,                        \* of a round
          Makers,                                  \* of a signer
          MaxRpm, ByHand, HandDigest,              \* library sources, and those pinned by hand
          MoreFaults,                              \* in the SDK and the signers
          MaxEdits, MaxApks, MaxRounds, MaxChanges

ASSUME BuildAssumption ==
  /\ Nobody \notin Builds
  /\ Makers \cap {"absent", "torn"} = {}
  /\ MaxRpm \in Nat \ {0} /\ ByHand \subseteq 1 .. MaxRpm /\ HandDigest \in Versions
  /\ MoreFaults \in Nat /\ MaxEdits \in Nat /\ MaxApks \in Nat \ {0}
  /\ MaxRounds \in Nat /\ MaxChanges \in Nat

VARIABLES part,
          archive, received, tree, provenance, link, config, aidl, next, lock, build,
          old, new, todo, cursor, spans, delivery, partial, output, applier,
          phone, script, announced,
          source, checkout, snapshot, export, edited, exported, verified,
          built, rounds, disk, candidate, complete,
          directory, signer, maker, app, transfer,
          upstream, rpm, receipt, collector, changes

sdkVars == <<archive, received, tree, provenance, link, config, aidl, next, lock, build>>
inputVars == <<chain, file, run, assembly, apk, accepted>>
deltaVars == <<old, new, todo, cursor, spans, delivery, partial, output, applier,
               phone, script, announced>>
exportVars == <<source, checkout, snapshot, export, edited, exported, verified>>
evidenceVars == <<built, rounds, disk, candidate, complete>>
signingVars == <<directory, signer, maker, app, transfer>>
libraryVars == <<upstream, rpm, receipt, collector, changes>>
buildVars == <<part, faults, sdkVars, inputVars, deltaVars, exportVars, evidenceVars, signingVars, libraryVars>>

E(n, extra, p) == [name |-> n, extra |-> extra, payload |-> p]

Apk(s) ==
  LET Behind(a, e) ==
        [data |-> a.data \o <<0, e.extra>> \o [i \in 1 .. e.extra |-> 9] \o e.payload,
         entries |-> a.entries \cup
           {[name |-> e.name, offset |-> Len(a.data), size |-> Len(e.payload)]}]
      a == FoldLeft(Behind, [data |-> <<>>, entries |-> {}], s)
  IN [a EXCEPT !.data = Append(@, 100 + Len(s))]

\* Entries that move, that change, that are too small, and two of one name.
MCApks ==
  {Apk(<<E(1, 0, <<1, 2>>), E(2, 1, <<3, 3, 3>>)>>),
   Apk(<<E(2, 0, <<3, 3, 3>>), E(1, 0, <<1, 2>>)>>),
   Apk(<<E(1, 0, <<2, 2>>), E(2, 1, <<1>>), E(2, 0, <<3, 3, 3>>)>>)}

Sdk == INSTANCE SdkInputs WITH
  Archives <- Pins, MaxFaults <- MoreFaults, part <- received
Delta == INSTANCE ApkDelta WITH
  Archives <- Apks, part <- partial
Export == INSTANCE SourceExport WITH
  Fixed <- Listed, Globbed <- Found, Absent <- NoFile,
  archive <- exported, interrupts <- faults
Evidence == INSTANCE ReleaseEvidence WITH apk <- built
Signer == INSTANCE Signing WITH MaxFaults <- MoreFaults, phone <- app
Library == INSTANCE LibrarySources WITH
  Rpms <- 1 .. MaxRpm, Digests <- Versions, Absent <- NoFile,
  Additional <- [r \in ByHand |-> HandDigest]

ASSUME DeltaAssumption == \A a \in Apks : Delta!WellFormed(a)

Parts == {"sdk", "inputs", "delta", "export", "evidence", "signing", "library"}

-----------------------------------------------------------------------------
BuildInit ==
  /\ part \in Parts /\ faults = 0
  /\ IF part = "sdk" THEN Sdk!Init
     ELSE /\ archive = 0 /\ received = 0 /\ tree = 0 /\ provenance = 0 /\ link = 0
          /\ config = 0 /\ aidl = 0 /\ next = 0 /\ lock = 0 /\ build = 0
  /\ IF part = "inputs" THEN Init
     ELSE chain = 0 /\ file = 0 /\ run = 0 /\ assembly = 0 /\ apk = 0 /\ accepted = 0
  /\ IF part = "delta" THEN Delta!Init
     ELSE /\ old = 0 /\ new = 0 /\ todo = 0 /\ cursor = 0 /\ spans = 0
          /\ delivery = 0 /\ partial = 0 /\ output = 0 /\ applier = 0 /\ phone = 0 /\ script = 0 /\ announced = 0
  /\ IF part = "export" THEN Export!Init
     ELSE /\ source = 0 /\ checkout = 0 /\ snapshot = 0 /\ export = 0
          /\ edited = 0 /\ exported = 0 /\ verified = 0
  /\ IF part = "evidence" THEN Evidence!Init
     ELSE built = 0 /\ rounds = 0 /\ disk = 0 /\ candidate = 0 /\ complete = 0
  /\ IF part = "signing" THEN Signer!Init
     ELSE directory = 0 /\ signer = 0 /\ maker = 0 /\ app = 0 /\ transfer = 0
  /\ IF part = "library" THEN Library!Init
     ELSE upstream = 0 /\ rpm = 0 /\ receipt = 0 /\ collector = 0 /\ changes = 0

PrepareSdk ==
  /\ part = "sdk" /\ Sdk!Next
  /\ UNCHANGED <<part, inputVars, deltaVars, exportVars, evidenceVars, signingVars, libraryVars>>
PrepareInputs ==
  /\ part = "inputs" /\ Next
  /\ UNCHANGED <<part, sdkVars, deltaVars, exportVars, evidenceVars, signingVars, libraryVars>>
SendDelta ==
  /\ part = "delta" /\ Delta!Next
  /\ UNCHANGED <<part, sdkVars, inputVars, exportVars, evidenceVars, signingVars, libraryVars>>
ExportSource ==
  /\ part = "export" /\ Export!Next
  /\ UNCHANGED <<part, sdkVars, inputVars, deltaVars, evidenceVars, signingVars, libraryVars>>
CollectEvidence ==
  /\ part = "evidence" /\ Evidence!Next
  /\ UNCHANGED <<part, faults, sdkVars, inputVars, deltaVars, exportVars, signingVars, libraryVars>>
MakeSigners ==
  /\ part = "signing" /\ Signer!Next
  /\ UNCHANGED <<part, sdkVars, inputVars, deltaVars, exportVars, evidenceVars, libraryVars>>
CollectLibraries ==
  /\ part = "library" /\ Library!Next
  /\ UNCHANGED <<part, sdkVars, inputVars, deltaVars, exportVars, evidenceVars, signingVars>>

BuildNext == PrepareSdk \/ PrepareInputs \/ SendDelta \/ ExportSource \/ CollectEvidence
  \/ MakeSigners \/ CollectLibraries

BuildSpec == BuildInit /\ [][BuildNext]_buildVars

\* A script runs on, and an assembly is finished and checked.
BuildFairSpec ==
  /\ BuildSpec
  /\ WF_inputVars(part = "inputs" /\ RunStep)
  /\ WF_inputVars(part = "inputs" /\ Pack) /\ WF_inputVars(part = "inputs" /\ Check)

-----------------------------------------------------------------------------
BuildTypeOK ==
  /\ part \in Parts
  /\ CASE part = "sdk" -> Sdk!TypeOK
       [] part = "inputs" -> TypeOK
       [] part = "delta" -> Delta!TypeOK
       [] part = "export" -> Export!TypeOK
       [] part = "evidence" -> Evidence!TypeOK
       [] part = "signing" -> Signer!TypeOK
       [] part = "library" -> Library!TypeOK

\* The SDK a build is told of is the pinned one, whole, and its aidl the phone's. Nothing
\* but pinned bytes is staged, an APK that passes holds nothing else, and the report on the
\* upstream archives and the receipt of the library sources are true while they are there.
InputsArePinned ==
  /\ part = "sdk" => Sdk!LinkedTreesArePinned /\ Sdk!DoneIsConfigured
  /\ part = "inputs" => StagedIsPinned /\ AcceptedIsPinned /\ ReportIsTrue
  /\ part = "library" => Library!ReceiptIsTrue

\* The n-th script of the chain, or the first where there are fewer.
Tried(n) == part = "inputs" /\ Begin(IF n \in DOMAIN Scripts[chain] THEN n ELSE 1)

\* Scripts that were interrupted anywhere can be run again until an APK passes, unless one
\* of the files that none of them repairs is spoiled: somebody who starts every script, and
\* an assembly while none runs, again and again, gets one (stage-proot.py, 43-98;
\* collect_upstream.py, 46-93).
InputsRecover ==
  (\A n \in 1 .. 4 : []<><<Tried(n)>>_inputVars)
    /\ []<><<part = "inputs" /\ run.script = "none" /\ Assemble>>_inputVars
  => []<>(part = "inputs" /\ accepted) \/ <>[](part = "inputs" /\ Spoiled)

\* An APK rebuilt from a delta is the sender's or is not there; a source archive that
\* verifies is whole, and an undisturbed export a copy of the source; signers come into
\* being whole, and the phone gets the key that was sent.
HandedOverIsExact ==
  /\ part = "delta" => Delta!OutputIsExact /\ Delta!PartIsOwned /\ Delta!AnnouncedIsExact
  /\ part = "export" => Export!QuietExportAgrees /\ Export!VerifiedIsWhole
  /\ part = "signing" => Signer!MetadataMeansReady /\ Signer!PrivateFilesAreExact

\* Every delta that arrives as it was made rebuilds the sender's APK (apk-delta.py, 26-40).
DeltasApply == part = "delta" => Delta!GoodPatchApplies

\* A release has three complete rounds in a row on the APK that is on disk.
ThreeRoundsInARow == [][part = "evidence" /\ ~complete /\ complete' => Evidence!InARowOnDisk]_buildVars
=============================================================================
