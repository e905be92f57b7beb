----------------------------- MODULE RuntimeInputs -----------------------------
(***************************************************************************)
(* How the native inputs of the APK come about: the scripts that collect   *)
(* upstream archives, build and package PRoot, and stage everything below  *)
(* app/src/main, and the check of the APK built from it. A script is the   *)
(* sequence of its effects on files, each of which it may be killed at; a  *)
(* file written in place is torn until it is whole, a replaced one is not. *)
(* The APK is assembled file after file, also while a script is running.   *)
(***************************************************************************)
EXTENDS Naturals, Sequences

CONSTANTS Attempts,     \* of a download
          MaxFaults     \* kills and bad transfers

ASSUME InputsAssumption == Attempts \in Nat \ {0, 1} /\ MaxFaults \in Nat

VARIABLES chain,        \* the part of the inputs that is being worked on
          file,         \* contents of every file a script reads or writes
          run,          \* the script under way and the place it has reached
          assembly,     \* "none", or the APK is being "packed" or "checked"
          apk,          \* its contents so far
          accepted,     \* check-packaged-runtime.py has passed this APK
          faults

vars == <<chain, file, run, assembly, apk, accepted, faults>>

\* Effects of a script.
Need(f, ok) == << [op |-> "need", f |-> f, v |-> ok] >>
Put(f, c) == << [op |-> "put", f |-> f, v |-> {c}] >>
Write(f, c) == Put(f, "torn") \o Put(f, c)
Copy(f, g) == << [op |-> "copy", f |-> f, v |-> {g}] >>
WriteFrom(f, g) == Put(f, "torn") \o Copy(f, g)
Match(f, g) == << [op |-> "match", f |-> f, v |-> {g}] >>

\* A partial copy is verified before it replaces the file.
Stage(f, g) == << [op |-> "stage", f |-> f, v |-> {g}] >>

\* collect_upstream.download: under a digest, without one, and always anew.
Pinned(f) == << [op |-> "download", f |-> f, v |-> {"pinned"}] >>
Unpinned(f) == << [op |-> "download", f |-> f, v |-> {"unpinned"}] >>
Refreshed(f) == << [op |-> "download", f |-> f, v |-> {"refreshed"}] >>

\* collect-proot-sources.fetch, and the package cache of stage-proot.
Fetch(f) == << [op |-> "fetch", f |-> f, v |-> {"good"}] >>
Cache(f) == << [op |-> "cache", f |-> f, v |-> {"good"}] >>

-----------------------------------------------------------------------------
\* A signed checksum is worth what the keyring and the signature are worth.
CollectUpstream ==
  Write("report", "collecting")
  \o Unpinned("checksum") \o Unpinned("keyring") \o Unpinned("pgp")
  \o Need("checksum", {"good"}) \o Need("keyring", {"good"}) \o Pinned("image")
  \o Refreshed("api") \o Need("api", {"good"}) \o Pinned("opencode-upstream")
  \o Write("manifest", "verified") \o Write("report", "verified")

\* The handlers of main(), on any exception.
CollectFailed == Write("manifest", "failed") \o Write("report", "failed")

PrepareFedora == Need("image", {"good"}) \o Write("rootfs", "good")

\* The manifest is read first and rewritten last.
PackageOpencode ==
  Need("opencode-manifest", {"good"}) \o Put("opencode", "good") \o Write("opencode-manifest", "good")

StageRuntimeAssets == Stage("asset-fedora", "rootfs") \o Stage("asset-opencode", "opencode")

CollectProotSources ==
  Fetch("source-proot") \o Fetch("source-deps") \o Write("asset-notices", "good")
  \o Fetch("recipes") \o Write("evidence", "good")

\* git apply writes its files one after the other.
Patch(tree, from, to) == Need(tree, {from}) \o Write(tree, to)

\* Sources are extracted anew; the link uses what stage-proot has left in jniLibs.
Compile(tree, binary, report) ==
  Need("source-deps", {"good"}) \o Need("lib-deps", {"good"})
  \o WriteFrom(binary, tree) \o WriteFrom(report, binary)

BuildProotCandidate ==
  Need("source-proot", {"good"}) \o Write("old-tree", "pristine")
  \o Patch("old-tree", "pristine", "exitkill") \o Compile("old-tree", "old-build", "old-report")

BuildProot ==
  Need("source-proot", {"good"}) \o Write("tree", "pristine")
  \o Patch("tree", "pristine", "exitkill") \o Patch("tree", "exitkill", "patched")
  \o Compile("tree", "build", "build-report")

\* The archive is open for writing when a digest turns out not to be the reported one.
PackageProot ==
  Match("build-report", "build-report") \o Put("proot-archive", "torn")
  \o Match("build", "build-report") \o Copy("proot-archive", "build")
  \o WriteFrom("proot-json", "build-report")

\* The tracer of the Termux package goes to jniLibs first, and is overwritten.
StageProot ==
  Cache("packages") \o Write("lib-tracer", "termux") \o Write("lib-deps", "good")
  \o Match("proot-archive", "proot-json")
  \o WriteFrom("lib-tracer", "proot-archive")

StageDnfast == Stage("asset-overlay", "dnfast-overlay") \o Stage("asset-dnfast", "dnfast-manifest")

\* Every file in place, then the manifest of what is there.
StageWebUi ==
  Write("ui-index", "good") \o Write("ui-script", "good") \o Write("ui-manifest", "good")

\* The archive of the dnfast sources is replaced, its notice and record are not.
CollectDnfastSources ==
  Put("dnfast-archive", "good") \o Write("asset-dnfast-license", "good") \o Write("export-record", "good")

\* A crate fetched before is written over itself. Every crate is taken to be at hand.
CollectCargoSources == Cache("crate") \o Put("cargo-archive", "good") \o Write("cargo-report", "good")

CollectCargoNotices ==
  Match("cargo-archive", "cargo-record")
  \o Copy("cargo-notices", "cargo-archive") \o WriteFrom("notices-record", "cargo-notices")

\* In the build image, in place.
CollectRpmNotices == Write("rpm-notices", "good") \o WriteFrom("rpm-report", "rpm-notices")

\* Every notice is read before the first is written.
StageRpmNotices ==
  Match("carried-notices", "rpm-record")
  \o WriteFrom("asset-rpm-1", "carried-notices") \o WriteFrom("asset-rpm-2", "carried-notices")

StageSourceNotices ==
  Need("source-rpm", {"good"}) \o Write("asset-source-notice", "good") \o Write("source-notices-record", "good")

\* What a person copies into the repository.
CarryCargo ==
  WriteFrom("cargo-record", "cargo-report")
  \o Need("cargo-notices", {"good"}) \o WriteFrom("asset-cargo-notices", "cargo-notices")
CarryRpms == WriteFrom("rpm-record", "rpm-report") \o WriteFrom("carried-notices", "rpm-notices")

Chains == {"upstream", "proot", "candidate", "gui", "crates", "rpms"}

Scripts ==
  [upstream |-> << "collect", "fedora", "opencode", "assets" >>,
   proot |-> << "sources", "build", "package", "stage" >>,
   candidate |-> << "candidate", "stage" >>,
   gui |-> << "dnfast", "ui" >>,
   crates |-> << "dnfastSources", "crates", "crateNotices", "carryCargo" >>,
   rpms |-> << "rpmNotices", "carryRpms", "stageRpms", "stageSources" >>]

Steps ==
  [collect |-> CollectUpstream, failed |-> CollectFailed, fedora |-> PrepareFedora,
   opencode |-> PackageOpencode, assets |-> StageRuntimeAssets,
   sources |-> CollectProotSources, candidate |-> BuildProotCandidate, build |-> BuildProot,
   package |-> PackageProot, stage |-> StageProot, dnfast |-> StageDnfast, ui |-> StageWebUi,
   dnfastSources |-> CollectDnfastSources, crates |-> CollectCargoSources,
   crateNotices |-> CollectCargoNotices, carryCargo |-> CarryCargo,
   rpmNotices |-> CollectRpmNotices, carryRpms |-> CarryRpms, stageRpms |-> StageRpmNotices, stageSources |-> StageSourceNotices]

Packaged ==
  [upstream |-> {"asset-fedora", "asset-opencode"},
   proot |-> {"lib-tracer", "lib-deps", "asset-notices"},
   candidate |-> {"lib-tracer", "lib-deps", "asset-notices"},
   gui |-> {"asset-overlay", "asset-dnfast", "ui-index", "ui-script", "ui-manifest"},
   crates |-> {"asset-dnfast-license", "asset-cargo-notices"},
   rpms |-> {"asset-rpm-1", "asset-rpm-2", "asset-source-notice"}]

Records == {"export-record", "cargo-record", "notices-record", "rpm-record", "source-notices-record"}

Files ==
  {"report", "manifest", "checksum", "keyring", "pgp", "image", "api", "opencode-upstream",
   "rootfs", "opencode", "opencode-manifest", "source-proot", "source-deps", "recipes",
   "evidence", "old-tree", "old-build", "old-report", "tree", "build", "build-report",
   "packages", "proot-archive", "proot-json", "dnfast-overlay", "dnfast-manifest",
   "dnfast-archive", "crate", "cargo-archive", "cargo-report", "cargo-notices", "rpm-notices",
   "rpm-report", "carried-notices", "source-rpm"}
  \cup Records \cup UNION {Packaged[c] : c \in Chains}

\* What the repository holds: pins, the packaged PRoot, an earlier GUI and earlier notices.
Versioned(f) ==
  CASE f \in {"opencode-manifest", "dnfast-overlay", "dnfast-manifest", "source-rpm"} -> "good"
    [] f \in {"proot-archive", "proot-json"} -> "patched"
    [] f \in {"ui-index", "ui-script", "ui-manifest"} \cup Records \cup Packaged.crates \cup Packaged.rpms -> "old"
    [] OTHER -> "absent"

\* The candidate, which came first, is built from sources that are there.
Collected == {"source-proot", "source-deps", "asset-notices", "recipes", "evidence"}

Off == [script |-> "none", at |-> 1, tries |-> 0]

Init ==
  /\ chain \in Chains
  /\ file = [f \in Files |-> IF chain = "candidate" /\ f \in Collected THEN "good" ELSE Versioned(f)]
  /\ run = Off
  /\ assembly = "none" /\ apk = <<>> /\ accepted = FALSE
  /\ faults = 0

-----------------------------------------------------------------------------
Fault == faults < MaxFaults /\ faults' = faults + 1

Begin(n) ==
  /\ run.script = "none" /\ assembly = "none" /\ n \in DOMAIN Scripts[chain]
  /\ run' = [Off EXCEPT !.script = Scripts[chain][n]]
  /\ UNCHANGED <<chain, file, assembly, apk, accepted, faults>>

Now(op) == run.script # "none" /\ run.at <= Len(Steps[run.script]) /\ Steps[run.script][run.at].op = op
This == Steps[run.script][run.at]
Here == file[This.f]
Given == CHOOSE x \in This.v : TRUE

Becomes(c) == file' = [file EXCEPT ![This.f] = c]
Done == run' = [run EXCEPT !.at = @ + 1, !.tries = 0]
Again == run' = [run EXCEPT !.tries = @ + 1]

\* An exception ends the script; only the collector has handlers.
Fails == run' = IF run.script = "collect" /\ run.at > 2 THEN [Off EXCEPT !.script = "failed"] ELSE Off

aside == <<chain, assembly, apk, accepted>>

NeedStep ==
  /\ Now("need")
  /\ IF Here \in This.v THEN Done ELSE Fails
  /\ UNCHANGED <<aside, file, faults>>

PutStep == Now("put") /\ Becomes(Given) /\ Done /\ UNCHANGED <<aside, faults>>

CopyStep ==
  /\ Now("copy")
  /\ IF file[Given] \in {"absent", "torn"} THEN Fails /\ UNCHANGED file ELSE Becomes(file[Given]) /\ Done
  /\ UNCHANGED <<aside, faults>>

\* A digest recorded in one file is that of the other.
MatchStep ==
  /\ Now("match")
  /\ IF Here = file[Given] /\ Here \notin {"absent", "torn"} THEN Done ELSE Fails
  /\ UNCHANGED <<aside, file, faults>>

StageStep ==
  /\ Now("stage")
  /\ IF file[Given] # "good" THEN Fails /\ UNCHANGED file ELSE Becomes("good") /\ Done
  /\ UNCHANGED <<aside, faults>>

\* A bug for Receive: an interrupted transfer is left under the name of the file.
ReceiveInPlace ==
  \/ Becomes("good") /\ Done /\ UNCHANGED faults
  \/ Fault /\ Becomes("torn") /\ Fails

\* Received into a part. A cut transfer is tried again; a wrong digest is final.
Receive ==
  \/ Becomes("good") /\ Done /\ UNCHANGED faults
  \/ Fault /\ UNCHANGED file /\ IF run.tries + 1 < Attempts THEN Again ELSE Fails
  \/ Fault /\ IF Given = "pinned" THEN Fails /\ UNCHANGED file ELSE Becomes("bad") /\ Done

DownloadStep ==
  /\ Now("download")
  /\ \/ /\ Here # "absent" /\ Given # "refreshed"
        /\ IF Given = "pinned" /\ Here # "good" THEN Fails ELSE Done
        /\ UNCHANGED <<file, faults>>
     \/ (Here = "absent" \/ Given = "refreshed") /\ Receive
  /\ UNCHANGED aside

\* Verified in memory, written in place, and verified again on every later run.
FetchStep ==
  /\ Now("fetch")
  /\ \/ Here = "absent" /\ Becomes("torn") /\ Again /\ UNCHANGED faults
     \/ Here = "absent" /\ Fault /\ Fails /\ UNCHANGED file
     \/ run.tries = 1 /\ Becomes("good") /\ Done /\ UNCHANGED faults
     \/ /\ Here # "absent" /\ run.tries = 0
        /\ IF Here = "good" THEN Done ELSE Fails
        /\ UNCHANGED <<file, faults>>
  /\ UNCHANGED aside

\* A package that is cached and right is written over itself.
CacheStep ==
  /\ Now("cache")
  /\ \/ Here \in {"absent", "good"} /\ run.tries = 0 /\ Becomes("torn") /\ Again /\ UNCHANGED faults
     \/ Here = "absent" /\ Fault /\ Fails /\ UNCHANGED file
     \/ run.tries = 1 /\ Becomes("good") /\ Done /\ UNCHANGED faults
     \/ Here = "torn" /\ run.tries = 0 /\ Fails /\ UNCHANGED <<file, faults>>
  /\ UNCHANGED aside

End ==
  /\ run.script # "none" /\ run.at > Len(Steps[run.script])
  /\ run' = Off
  /\ UNCHANGED <<aside, file, faults>>

\* No handler runs.
Kill ==
  /\ run.script # "none" /\ Fault
  /\ run' = Off
  /\ UNCHANGED <<aside, file>>

-----------------------------------------------------------------------------
Assemble ==
  /\ assembly = "none"
  /\ assembly' = "packed" /\ apk' = <<>> /\ accepted' = FALSE
  /\ UNCHANGED <<chain, file, run, faults>>

\* In an order of the build's own, always the same.
Pack ==
  /\ assembly = "packed"
  /\ LET f == CHOOSE f \in Packaged[chain] \ DOMAIN apk : TRUE IN
       apk' = [g \in DOMAIN apk \cup {f} |-> IF g = f THEN file[f] ELSE apk[g]]
  /\ assembly' = IF DOMAIN apk' = Packaged[chain] THEN "checked" ELSE "packed"
  /\ UNCHANGED <<chain, file, run, accepted, faults>>

\* A bug for TracerPin: the pins of the Termux package win.
TracerPinOfPackage == "termux"

\* The manifest of the source build goes over the pins of the package.
TracerPin == file["proot-json"]

RecordOf ==
  [f \in Packaged.crates \cup Packaged.rpms |->
     CASE f = "asset-dnfast-license" -> "export-record"
       [] f = "asset-cargo-notices" -> "notices-record"
       [] f = "asset-source-notice" -> "source-notices-record"
       [] OTHER -> "rpm-record"]

\* Every packaged file against the manifest or the pin that stands for it.
Accepts ==
  CASE chain = "upstream" -> \A f \in Packaged[chain] : apk[f] = "good"
    [] chain \in {"proot", "candidate"} ->
         /\ apk["lib-tracer"] = TracerPin /\ TracerPin # "torn"
         /\ apk["lib-deps"] = "good"
         /\ file["evidence"] = "good" /\ apk["asset-notices"] = "good"
    [] chain = "gui" ->
         /\ apk["asset-overlay"] = "good" /\ apk["asset-dnfast"] = "good"
         /\ apk["ui-manifest"] # "torn"
         /\ \A f \in {"ui-index", "ui-script"} : apk[f] = apk["ui-manifest"]
    [] chain \in {"crates", "rpms"} ->
         \A f \in Packaged[chain] : apk[f] = file[RecordOf[f]] /\ apk[f] # "torn"

Check ==
  /\ assembly = "checked"
  /\ accepted' = Accepts
  /\ apk' = IF Accepts THEN apk ELSE <<>>
  /\ assembly' = "none"
  /\ UNCHANGED <<chain, file, run, faults>>

RunStep ==
  \/ NeedStep \/ PutStep \/ CopyStep \/ MatchStep \/ StageStep
  \/ DownloadStep \/ FetchStep \/ CacheStep \/ End

Next ==
  \/ \E n \in 1 .. 4 : Begin(n)
  \/ RunStep \/ Kill
  \/ Assemble \/ Pack \/ Check

Spec == Init /\ [][Next]_vars

-----------------------------------------------------------------------------
Contents ==
  {"absent", "torn", "bad", "good", "old", "collecting", "failed", "verified", "termux",
   "pristine", "exitkill", "patched"}

TypeOK ==
  /\ chain \in Chains
  /\ file \in [Files -> Contents]
  /\ run.script \in {Scripts[chain][n] : n \in DOMAIN Scripts[chain]} \cup {"none", "failed"}
  /\ run.script # "none" => run.at \in 1 .. Len(Steps[run.script]) + 1
  /\ run.tries \in 0 .. Attempts - 1
  /\ assembly \in {"none", "packed", "checked"}
  /\ DOMAIN apk \subseteq Packaged[chain]
  /\ assembly = "checked" => DOMAIN apk = Packaged[chain]
  /\ accepted \in BOOLEAN
  /\ faults \in 0 .. MaxFaults

\* While upstream-verification.md says "verified", what it lists is there and right:
\* also while the next check is running or has been killed (collect_upstream.py, 121-177).
ReportIsTrue ==
  file["report"] = "verified" =>
    \A f \in {"checksum", "keyring", "image", "api", "opencode-upstream"} : file[f] = "good"

\* No interruption leaves anything but pinned bytes below assets (stage-runtime-assets.py,
\* 24-41; stage-dnfast-runtime.py, 34-37).
StagedIsPinned ==
  \A f \in {"asset-fedora", "asset-opencode", "asset-overlay", "asset-dnfast"} :
    file[f] \in {"absent", "good"}

\* An APK that has passed holds the PRoot with both patches, never the package's, and a
\* GUI and RPM notices of one piece, whichever script was at work while it was assembled.
AcceptedIsPinned ==
  accepted =>
    /\ chain \in {"proot", "candidate"} => apk["lib-tracer"] = "patched" /\ apk["lib-deps"] = "good"
    /\ chain = "upstream" => apk["asset-fedora"] = "good" /\ apk["asset-opencode"] = "good"
    /\ chain = "gui" => \E v \in {"old", "good"} :
         \A f \in {"ui-index", "ui-script", "ui-manifest"} : apk[f] = v
    /\ chain \in {"crates", "rpms"} => \A f \in DOMAIN apk : apk[f] \in {"old", "good"}
    /\ chain = "rpms" => apk["asset-rpm-1"] = apk["asset-rpm-2"]

\* Files that a kill or a bad transfer spoils for every later run.
Spoiled ==
  \/ \E f \in {"source-proot", "source-deps", "recipes", "packages", "opencode-manifest", "crate"} : file[f] = "torn"
  \/ \E f \in {"checksum", "keyring"} : file[f] = "bad"
=============================================================================
