---------------------------- MODULE MCBuild_proofs ----------------------------
(***************************************************************************)
(* What holds of the parts of a release for any number of builds, makers,  *)
(* appliers, files, rounds and faults. BuildInv has one conjunct per part. *)
(***************************************************************************)
EXTENDS MCBuild, SequenceTheorems, TLAPS

-----------------------------------------------------------------------------
\* Release evidence: the selected rounds are some that were run.
RoundType == [apk : 1 .. MaxApks, failed : Journeys \cup {Passed}, log : 1 .. MaxRounds]

EvidenceInv ==
  /\ Evidence!TypeOK
  /\ Len(disk) <= Len(rounds) /\ Len(rounds) <= MaxRounds
  /\ candidate.rounds = <<>> \/ candidate.rounds \in [1 .. 3 -> 1 .. Len(rounds)]

LEMMA EvidenceInit == Evidence!Init => EvidenceInv
<1>.  SUFFICES ASSUME Evidence!Init PROVE EvidenceInv
      OBVIOUS
<1>1. /\ rounds = <<>> /\ disk = <<>> /\ built = 1 /\ complete = FALSE
      /\ candidate.apk = 1 /\ candidate.rounds = <<>>
      BY DEF Evidence!Init
<1>2. /\ rounds \in Seq(RoundType) /\ Len(rounds) = 0
      /\ disk \in Seq(DOMAIN rounds) /\ Len(disk) = 0
      BY <1>1
<1>3. DOMAIN candidate.rounds = {}
      BY <1>1
<1>.  QED
  <2>1. Evidence!TypeOK
    <3>1. 1 \in 1 .. MaxApks
          BY BuildAssumption
    <3>2. complete \in BOOLEAN
          BY <1>1
    <3>3. \A i \in DOMAIN candidate.rounds : candidate.rounds[i] \in DOMAIN rounds
          BY <1>3
    <3>.  QED
          BY <1>1, <1>2, <3>1, <3>2, <3>3 DEF Evidence!TypeOK, RoundType
  <2>2. Len(disk) <= Len(rounds) /\ Len(rounds) <= MaxRounds
        BY <1>2, BuildAssumption
  <2>.  QED
        BY <1>1, <2>1, <2>2 DEF EvidenceInv

LEMMA RoundKeeps ==
  ASSUME EvidenceInv, NEW f \in Journeys \cup {Passed}, NEW l \in 1 .. Len(disk) + 1,
         Evidence!Round(f, l)
  PROVE  EvidenceInv'
<1>  DEFINE r == [apk |-> built, failed |-> f, log |-> l]
<1>1. rounds \in Seq(RoundType) /\ disk \in Seq(DOMAIN rounds) /\ built \in 1 .. MaxApks
      BY DEF EvidenceInv, Evidence!TypeOK, RoundType
<1>2. Len(rounds) \in Nat /\ Len(disk) \in Nat /\ MaxRounds \in Nat /\ Len(rounds) < MaxRounds
      BY <1>1, BuildAssumption DEF Evidence!Round
<1>3. r \in RoundType
      BY <1>1, <1>2 DEF EvidenceInv, RoundType
<1>4. rounds' = Append(rounds, r)
      BY DEF Evidence!Round
<1>   HIDE DEF r
<1>5. rounds' \in Seq(RoundType) /\ Len(rounds') = Len(rounds) + 1
      BY <1>1, <1>3, <1>4
<1>6. DOMAIN rounds = 1 .. Len(rounds) /\ DOMAIN rounds' = 1 .. Len(rounds) + 1
      BY <1>1, <1>5
<1>7. disk' = [k \in DOMAIN disk \cup {l} |-> IF k = l THEN Len(rounds) + 1 ELSE disk[k]]
      BY DEF Evidence!Round
<1>8. /\ disk' \in Seq(DOMAIN rounds')
      /\ Len(disk') <= Len(rounds')
  <2>1. DOMAIN disk = 1 .. Len(disk) /\ \A k \in DOMAIN disk : disk[k] \in 1 .. Len(rounds)
        BY <1>1, <1>6
  <2>2. PICK n \in Nat : DOMAIN disk \cup {l} = 1 .. n /\ n <= Len(disk) + 1
    <3>1. CASE l = Len(disk) + 1
          BY <1>2, <2>1, <3>1
    <3>2. CASE l # Len(disk) + 1
          BY <1>2, <2>1, <3>2
    <3>.  QED
          BY <3>1, <3>2
  <2>3. disk' \in [1 .. n -> 1 .. Len(rounds) + 1]
    <3>1. ASSUME NEW k \in 1 .. n PROVE (IF k = l THEN Len(rounds) + 1 ELSE disk[k]) \in 1 .. Len(rounds) + 1
          BY <1>2, <2>1, <2>2
    <3>2. disk' = [k \in 1 .. n |-> IF k = l THEN Len(rounds) + 1 ELSE disk[k]]
          BY <1>7, <2>2
    <3>.  QED
          BY <3>1, <3>2
  <2>4. disk' \in Seq(1 .. Len(rounds) + 1) /\ Len(disk') = n
        BY <2>2, <2>3
  <2>.  QED
        BY <1>2, <1>5, <1>6, <2>2, <2>4 DEF EvidenceInv
<1>9. candidate' = candidate /\ built' = built /\ complete' = complete
      BY DEF Evidence!Round
<1>10. candidate'.rounds = <<>> \/ candidate'.rounds \in [1 .. 3 -> 1 .. Len(rounds')]
      BY <1>2, <1>5, <1>9 DEF EvidenceInv
<1>11. \A i \in DOMAIN candidate'.rounds : candidate'.rounds[i] \in DOMAIN rounds'
      BY <1>2, <1>6, <1>9 DEF EvidenceInv, Evidence!TypeOK
<1>.  QED
      BY <1>2, <1>5, <1>8, <1>9, <1>10, <1>11 DEF EvidenceInv, Evidence!TypeOK, RoundType

LEMMA EvidenceStep == EvidenceInv /\ [Evidence!Next]_evidenceVars => EvidenceInv'
<1>.  SUFFICES ASSUME EvidenceInv, [Evidence!Next]_evidenceVars PROVE EvidenceInv'
      OBVIOUS
<1>0. Len(rounds) \in Nat /\ DOMAIN rounds = 1 .. Len(rounds)
      BY DEF EvidenceInv, Evidence!TypeOK
<1>1. CASE Evidence!Rebuild
      BY <1>1, BuildAssumption DEF Evidence!Rebuild, EvidenceInv, Evidence!TypeOK
<1>2. ASSUME NEW f \in Journeys \cup {Passed}, NEW l \in 1 .. Len(disk) + 1, Evidence!Round(f, l)
      PROVE  EvidenceInv'
      BY <1>2, RoundKeeps
<1>3. ASSUME NEW s \in Evidence!Selections, Evidence!Select(s) PROVE EvidenceInv'
  <2>1. s \in [1 .. 3 -> 1 .. Len(rounds)]
        BY DEF Evidence!Selections
  <2>2. candidate'.apk = built /\ candidate'.rounds = s /\ complete' = FALSE
        BY <1>3 DEF Evidence!Select
  <2>3. \A i \in DOMAIN candidate'.rounds : candidate'.rounds[i] \in DOMAIN rounds
        BY <1>0, <2>1, <2>2
  <2>.  QED
        BY <1>3, <2>1, <2>2, <2>3 DEF Evidence!Select, EvidenceInv, Evidence!TypeOK
<1>4. CASE Evidence!Check
      BY <1>4 DEF Evidence!Check, Evidence!Complete, EvidenceInv, Evidence!TypeOK
<1>5. CASE UNCHANGED evidenceVars
      BY <1>5 DEF evidenceVars, EvidenceInv, Evidence!TypeOK
<1>.  QED
      BY <1>1, <1>2, <1>3, <1>4, <1>5 DEF Evidence!Next

\* The last three of the selected rounds are the ones InARowOnDisk asks for.
LEMMA VerdictFacts ==
  ASSUME EvidenceInv, Evidence!Complete
  PROVE  Evidence!InARowOnDisk
<1>  DEFINE s == candidate.rounds
<1>1. s \in [1 .. 3 -> 1 .. Len(rounds)] /\ Evidence!Last = 3
      BY DEF EvidenceInv, Evidence!Complete, Evidence!Last
<1>2. s[2] = s[1] + 1 /\ s[3] = s[2] + 1
      BY <1>1 DEF Evidence!Complete, Evidence!InARow
<1>3. Len(rounds) \in Nat /\ s[1] \in 1 .. Len(rounds) /\ s[3] \in 1 .. Len(rounds)
  <2>1. Len(rounds) \in Nat
        BY DEF EvidenceInv, Evidence!TypeOK
  <2>.  HIDE DEF s
  <2>.  QED
        BY <1>1, <2>1
<1>4. Evidence!Final = {s[1], s[2], s[3]}
      BY <1>1 DEF Evidence!Final
<1>   HIDE DEF s
<1>5. \A i \in s[3] - 2 .. s[3] : i \in Evidence!Final
      BY <1>2, <1>3, <1>4
<1>6. \A n \in Evidence!Final : /\ rounds[n].apk = built /\ rounds[n].failed = Passed
                                /\ disk[rounds[n].log] = n
      BY DEF Evidence!Complete, Evidence!LogsMatch
<1>7. s[3] \in 3 .. Len(rounds)
      BY <1>2, <1>3
<1>.  QED
      BY <1>5, <1>6, <1>7 DEF Evidence!InARowOnDisk

\* Only check-release.py itself comes to the verdict.
LEMMA VerdictStep ==
  EvidenceInv /\ [Evidence!Next]_evidenceVars /\ ~complete /\ complete' => Evidence!InARowOnDisk
  BY VerdictFacts
  DEF Evidence!Next, Evidence!Rebuild, Evidence!Round, Evidence!Select, Evidence!Check, evidenceVars

-----------------------------------------------------------------------------
\* The SDK. One build at a time is at the archives and the trees; one that has come to the
\* links has found, or made, every tree.
UnderLock == {"pins", "fetch", "place", "verify", "open", "extract"}
AtAnArchive == UnderLock \ {"pins"}
Unlocked == {"links", "link", "config", "compile", "tools", "symlink", "replace", "done"}
Linked == Unlocked \ {"links", "link"}

BuildAt(b) ==
  LET w == build[b] IN
  /\ w.pc \in UnderLock <=> lock = b
  /\ w.pc \in UnderLock =>
       w.todo \subseteq Pins /\ \A n \in Pins \ w.todo : tree[n] = "pinned"
  /\ w.pc \in AtAnArchive \cup {"link"} => w.at \in w.todo \cap Pins
  /\ w.pc \in {"open", "extract"} => archive[w.at] = "pinned"
  /\ w.pc \in Unlocked => \A n \in Pins : tree[n] = "pinned"
  /\ w.pc \in {"links", "link"} => w.todo \subseteq Pins /\ \A n \in Pins \ w.todo : link[n]
  /\ w.pc \in Linked => \A n \in Pins : link[n]
  /\ w.pc \in {"symlink", "replace"} => w.at \in w.todo
  /\ w.pc \in {"tools", "symlink", "replace", "done"} =>
       w.todo \subseteq Tools /\ \A t \in Tools \ w.todo : aidl[t] = "arm"
  /\ w.pc = "done" => w.todo = {}

TreesInv ==
  /\ \A n \in Pins : archive[n] # "wrong"
  /\ \A n \in Pins : tree[n] # "absent" => tree[n] = "pinned" /\ archive[n] = "pinned"
  /\ \A n \in Pins : link[n] \/ n \in provenance => tree[n] = "pinned"

SdkInv == Sdk!TypeOK /\ (\A b \in Builds : BuildAt(b)) /\ TreesInv

SdkPcs ==
  {"idle", "lock", "pins", "fetch", "place", "verify", "open", "extract", "links", "link",
   "config", "compile", "tools", "symlink", "replace", "done"}

LEMMA SdkInit == Sdk!Init => SdkInv
<1>.  SUFFICES ASSUME Sdk!Init PROVE SdkInv
      OBVIOUS
<1>1. Sdk!TypeOK
      BY BuildAssumption DEF Sdk!Init, Sdk!TypeOK, Sdk!Idle
<1>2. \A b \in Builds : build[b].pc = "idle" /\ lock # b
      BY BuildAssumption DEF Sdk!Init, Sdk!Idle
<1>3. TreesInv
      BY DEF Sdk!Init, TreesInv
<1>.  QED
      BY <1>1, <1>2, <1>3
      DEF SdkInv, BuildAt, UnderLock, AtAnArchive, Unlocked, Linked

\* What the work of one build leaves to the others: their places, the lock if one of them
\* has it, and all that is whole.
Only(b) ==
  /\ \A c \in Builds \ {b} : build'[c] = build[c] /\ (lock' = c <=> lock = c)
SdkGrows ==
  /\ \A n \in Pins : /\ tree[n] = "pinned" => tree'[n] = "pinned"
                     /\ archive[n] = "pinned" => archive'[n] = "pinned"
                     /\ link[n] => link'[n]
  /\ \A t \in Tools : aidl[t] = "arm" => aidl'[t] = "arm"

LEMMA SdkKeeps ==
  ASSUME SdkInv, NEW b \in Builds, Only(b), SdkGrows, Sdk!TypeOK', TreesInv', BuildAt(b)'
  PROVE  SdkInv'
<1>1. ASSUME NEW c \in Builds \ {b} PROVE BuildAt(c)'
  <2>1. BuildAt(c) /\ build'[c] = build[c] /\ (lock' = c <=> lock = c)
        BY DEF SdkInv, Only
  <2>2. build[c].todo \subseteq Pins \cup Tools
        BY DEF SdkInv, Sdk!TypeOK
  <2>.  QED
        BY <2>1, <2>2
        DEF SdkGrows, BuildAt, UnderLock, AtAnArchive, Unlocked, Linked
<1>.  QED
      BY <1>1 DEF SdkInv

Work == [pc : SdkPcs, todo : SUBSET (Pins \cup Tools), at : {Nothing} \cup Pins \cup Tools]

LEMMA WorkFacts ==
  ASSUME build \in [Builds -> Work], NEW b \in Builds, NEW pc \in SdkPcs,
         NEW x \in {Nothing} \cup Pins \cup Tools, NEW s \in SUBSET (Pins \cup Tools)
  PROVE  /\ Sdk!Goes(b, pc) => build' \in [Builds -> Work]
         /\ Sdk!Turns(b, pc, x) => build' \in [Builds -> Work]
         /\ Sdk!Does(b, pc, s) => build' \in [Builds -> Work]
         /\ Sdk!Fails(b) => build' \in [Builds -> Work] /\ lock' \in {lock, Nobody}
<1>1. build[b] \in Work
      OBVIOUS
<1>2. /\ [build[b] EXCEPT !.pc = pc] \in Work
      /\ [build[b] EXCEPT !.pc = pc, !.at = x] \in Work
      /\ [build[b] EXCEPT !.pc = pc, !.todo = s, !.at = Nothing] \in Work
      /\ Sdk!Idle \in Work
      BY <1>1 DEF Work, Sdk!Idle, SdkPcs
<1>3. Sdk!Goes(b, pc) => build' = [build EXCEPT ![b] = [build[b] EXCEPT !.pc = pc]]
      BY DEF Sdk!Goes
<1>4. Sdk!Turns(b, pc, x) => build' = [build EXCEPT ![b] = [build[b] EXCEPT !.pc = pc, !.at = x]]
      BY <1>1 DEF Sdk!Turns, Work
<1>5. Sdk!Does(b, pc, s) =>
        build' = [build EXCEPT ![b] = [build[b] EXCEPT !.pc = pc, !.todo = s, !.at = Nothing]]
      BY <1>1 DEF Sdk!Does, Work
<1>.  QED
      BY <1>2, <1>3, <1>4, <1>5 DEF Sdk!Fails

LEMMA SdkStart == ASSUME SdkInv, NEW b \in Builds, Sdk!Start(b) PROVE SdkInv'
<1>0. SdkInv /\ BuildAt(b)
      BY DEF SdkInv
<1>1. Sdk!TypeOK'
      BY <1>0
      DEF Sdk!Start, Sdk!Goes, Sdk!inputs, Sdk!sdk, SdkInv, BuildAt, UnderLock, AtAnArchive,
          Sdk!TypeOK
<1>2. Only(b)
      BY <1>0, BuildAssumption
      DEF Sdk!Start, Sdk!Goes, Sdk!inputs, Sdk!sdk, SdkInv, Only, BuildAt, UnderLock, Sdk!TypeOK
<1>3. SdkGrows /\ TreesInv'
      BY <1>0, <1>1
      DEF Sdk!Start, Sdk!Goes, Sdk!inputs, Sdk!sdk, SdkInv, SdkGrows, TreesInv, BuildAt,
          AtAnArchive, UnderLock, Unlocked, Sdk!TypeOK
<1>4. BuildAt(b)'
      BY <1>0, <1>1, BuildAssumption
      DEF Sdk!Start, Sdk!Goes, Sdk!inputs, Sdk!sdk, SdkInv, TreesInv, BuildAt, UnderLock,
          AtAnArchive, Unlocked, Linked, Sdk!TypeOK
<1>.  QED
      BY <1>1, <1>2, <1>3, <1>4, SdkKeeps

LEMMA SdkLock == ASSUME SdkInv, NEW b \in Builds, Sdk!Lock(b) PROVE SdkInv'
<1>0. SdkInv /\ BuildAt(b)
      BY DEF SdkInv
<1>1. Sdk!TypeOK'
  <2>1. build \in [Builds -> Work] /\ build[b] \in Work /\ lock \in {Nobody} \cup Builds
        BY <1>0 DEF SdkInv, Sdk!TypeOK, Work, SdkPcs
  <2>2. build' \in [Builds -> Work] /\ lock' \in {Nobody} \cup Builds
        BY <1>0, <2>1, WorkFacts
        DEF Sdk!Lock, Sdk!inputs, Sdk!sdk, BuildAt, UnderLock, AtAnArchive, SdkPcs, Work
  <2>.  QED
        BY <1>0, <2>2
        DEF Sdk!Lock, Sdk!inputs, Sdk!sdk, SdkInv, BuildAt, UnderLock, AtAnArchive, Sdk!TypeOK,
            Work, SdkPcs
<1>2. Only(b)
      BY <1>0, BuildAssumption
      DEF Sdk!Lock, Sdk!Does, Sdk!inputs, Sdk!sdk, SdkInv, Only, BuildAt, UnderLock, Sdk!TypeOK
<1>3. SdkGrows /\ TreesInv'
      BY <1>0, <1>1
      DEF Sdk!Lock, Sdk!Does, Sdk!inputs, Sdk!sdk, SdkInv, SdkGrows, TreesInv, BuildAt,
          AtAnArchive, UnderLock, Unlocked, Sdk!TypeOK
<1>4. BuildAt(b)'
      BY <1>0, <1>1, BuildAssumption
      DEF Sdk!Lock, Sdk!Does, Sdk!inputs, Sdk!sdk, SdkInv, TreesInv, BuildAt, UnderLock,
          AtAnArchive, Unlocked, Linked, Sdk!TypeOK
<1>.  QED
      BY <1>1, <1>2, <1>3, <1>4, SdkKeeps

LEMMA SdkPin == ASSUME SdkInv, NEW b \in Builds, Sdk!Pin(b) PROVE SdkInv'
<1>0. SdkInv /\ BuildAt(b)
      BY DEF SdkInv
<1>1. Sdk!TypeOK'
  <2>1. build \in [Builds -> Work] /\ build[b] \in Work /\ lock \in {Nobody} \cup Builds
        BY <1>0 DEF SdkInv, Sdk!TypeOK, Work, SdkPcs
  <2>2. build' \in [Builds -> Work] /\ lock' \in {Nobody} \cup Builds
        BY <1>0, <2>1, WorkFacts
        DEF Sdk!Pin, Sdk!inputs, Sdk!sdk, BuildAt, UnderLock, AtAnArchive, SdkPcs, Work
  <2>.  QED
        BY <1>0, <2>2
        DEF Sdk!Pin, Sdk!inputs, Sdk!sdk, SdkInv, BuildAt, UnderLock, AtAnArchive, Sdk!TypeOK,
            Work, SdkPcs
<1>2. Only(b)
      BY <1>0, BuildAssumption
      DEF Sdk!Pin, Sdk!Turns, Sdk!inputs, Sdk!sdk, SdkInv, Only, BuildAt, UnderLock, Sdk!TypeOK
<1>3. SdkGrows /\ TreesInv'
      BY <1>0, <1>1
      DEF Sdk!Pin, Sdk!Turns, Sdk!inputs, Sdk!sdk, SdkInv, SdkGrows, TreesInv, BuildAt,
          AtAnArchive, UnderLock, Unlocked, Sdk!TypeOK
<1>4. BuildAt(b)'
      BY <1>0, <1>1, BuildAssumption
      DEF Sdk!Pin, Sdk!Turns, Sdk!inputs, Sdk!sdk, SdkInv, TreesInv, BuildAt, UnderLock,
          AtAnArchive, Unlocked, Linked, Sdk!TypeOK
<1>.  QED
      BY <1>1, <1>2, <1>3, <1>4, SdkKeeps

LEMMA SdkFetch == ASSUME SdkInv, NEW b \in Builds, Sdk!Fetch(b) PROVE SdkInv'
<1>0. SdkInv /\ BuildAt(b)
      BY DEF SdkInv
<1>1. Sdk!TypeOK'
  <2>1. build \in [Builds -> Work] /\ build[b] \in Work /\ lock \in {Nobody} \cup Builds
        BY <1>0 DEF SdkInv, Sdk!TypeOK, Work, SdkPcs
  <2>2. build' \in [Builds -> Work] /\ lock' \in {Nobody} \cup Builds
        BY <1>0, <2>1, WorkFacts
        DEF Sdk!Fetch, Sdk!Fault, Sdk!sdk, BuildAt, UnderLock, AtAnArchive, SdkPcs, Work
  <2>3. received' \in [Pins -> {"absent", "pinned", "wrong", "cut"}] /\ faults' \in 0 .. MoreFaults
        BY <1>0, BuildAssumption DEF Sdk!Fetch, Sdk!Fault, SdkInv, BuildAt, AtAnArchive, Sdk!TypeOK
  <2>4. UNCHANGED <<archive, tree, provenance, Sdk!sdk>>
        BY DEF Sdk!Fetch
  <2>.  QED
        BY <1>0, <2>2, <2>3, <2>4 DEF SdkInv, Sdk!TypeOK, Sdk!sdk, Work, SdkPcs
<1>2. Only(b)
      BY <1>0, BuildAssumption
      DEF Sdk!Fetch, Sdk!Goes, Sdk!Fails, Sdk!Fault, Sdk!sdk, Sdk!Idle, SdkInv, Only, BuildAt,
          UnderLock, Sdk!TypeOK
<1>3. SdkGrows /\ TreesInv'
      BY <1>0, <1>1
      DEF Sdk!Fetch, Sdk!Goes, Sdk!Fails, Sdk!Fault, Sdk!sdk, Sdk!Idle, SdkInv, SdkGrows,
          TreesInv, BuildAt, AtAnArchive, UnderLock, Unlocked, Sdk!TypeOK
<1>4. BuildAt(b)'
      BY <1>0, <1>1, BuildAssumption
      DEF Sdk!Fetch, Sdk!Goes, Sdk!Fails, Sdk!Fault, Sdk!sdk, Sdk!Idle, SdkInv, TreesInv,
          BuildAt, UnderLock, AtAnArchive, Unlocked, Linked, Sdk!TypeOK
<1>.  QED
      BY <1>1, <1>2, <1>3, <1>4, SdkKeeps

LEMMA SdkPlace == ASSUME SdkInv, NEW b \in Builds, Sdk!Place(b) PROVE SdkInv'
<1>0. SdkInv /\ BuildAt(b)
      BY DEF SdkInv
<1>1. Sdk!TypeOK'
  <2>1. build \in [Builds -> Work] /\ build[b] \in Work /\ lock \in {Nobody} \cup Builds
        BY <1>0 DEF SdkInv, Sdk!TypeOK, Work, SdkPcs
  <2>2. build' \in [Builds -> Work] /\ lock' \in {Nobody} \cup Builds
        BY <1>0, <2>1, WorkFacts DEF Sdk!Place, Sdk!sdk, BuildAt, UnderLock, AtAnArchive, SdkPcs, Work
  <2>.  QED
        BY <1>0, <2>2
        DEF Sdk!Place, Sdk!sdk, SdkInv, BuildAt, UnderLock, AtAnArchive, Sdk!TypeOK, Work,
            SdkPcs
<1>2. Only(b)
      BY <1>0, BuildAssumption
      DEF Sdk!Place, Sdk!Goes, Sdk!Fails, Sdk!sdk, Sdk!Idle, SdkInv, Only, BuildAt, UnderLock,
          Sdk!TypeOK
<1>3. SdkGrows /\ TreesInv'
      BY <1>0, <1>1
      DEF Sdk!Place, Sdk!Goes, Sdk!Fails, Sdk!sdk, Sdk!Idle, SdkInv, SdkGrows, TreesInv,
          BuildAt, AtAnArchive, UnderLock, Unlocked, Sdk!TypeOK
<1>4. BuildAt(b)'
  <2>1. build[b] \in Work /\ build[b].pc = "place" /\ lock = b
        BY <1>0 DEF Sdk!Place, BuildAt, UnderLock, SdkInv, Sdk!TypeOK, Work, SdkPcs
  <2>2. CASE received[build[b].at] = "pinned"
    <3>1. build'[b] = [build[b] EXCEPT !.pc = "verify"] /\ UNCHANGED <<lock, tree, link, aidl>>
          BY <2>2, <1>0 DEF Sdk!Place, Sdk!Goes, Sdk!sdk, SdkInv, Sdk!TypeOK
    <3>.  QED
          BY <1>0, <2>1, <3>1 DEF BuildAt, UnderLock, AtAnArchive, Unlocked, Linked, Work
  <2>3. CASE received[build[b].at] # "pinned"
    <3>1. build'[b].pc = "idle" /\ lock' = Nobody
          BY <2>1, <2>3, <1>0 DEF Sdk!Place, Sdk!Fails, Sdk!Idle, SdkInv, Sdk!TypeOK
    <3>.  QED
          BY <3>1, BuildAssumption DEF BuildAt, UnderLock, AtAnArchive, Unlocked, Linked
  <2>.  QED
        BY <2>2, <2>3
<1>.  QED
      BY <1>1, <1>2, <1>3, <1>4, SdkKeeps

LEMMA SdkVerify == ASSUME SdkInv, NEW b \in Builds, Sdk!Verify(b) PROVE SdkInv'
<1>0. SdkInv /\ BuildAt(b)
      BY DEF SdkInv
<1>1. Sdk!TypeOK'
      BY <1>0
      DEF Sdk!Verify, Sdk!Goes, Sdk!Fails, Sdk!inputs, Sdk!sdk, Sdk!Idle, SdkInv, BuildAt,
          UnderLock, AtAnArchive, Sdk!TypeOK
<1>2. Only(b)
      BY <1>0, BuildAssumption
      DEF Sdk!Verify, Sdk!Goes, Sdk!Fails, Sdk!inputs, Sdk!sdk, Sdk!Idle, SdkInv, Only, BuildAt,
          UnderLock, Sdk!TypeOK
<1>3. SdkGrows /\ TreesInv'
      BY <1>0, <1>1
      DEF Sdk!Verify, Sdk!Goes, Sdk!Fails, Sdk!inputs, Sdk!sdk, Sdk!Idle, SdkInv, SdkGrows,
          TreesInv, BuildAt, AtAnArchive, UnderLock, Unlocked, Sdk!TypeOK
<1>4. BuildAt(b)'
      BY <1>0, <1>1, BuildAssumption
      DEF Sdk!Verify, Sdk!Goes, Sdk!Fails, Sdk!inputs, Sdk!sdk, Sdk!Idle, SdkInv, TreesInv,
          BuildAt, UnderLock, AtAnArchive, Unlocked, Linked, Sdk!TypeOK
<1>.  QED
      BY <1>1, <1>2, <1>3, <1>4, SdkKeeps

LEMMA SdkOpen == ASSUME SdkInv, NEW b \in Builds, Sdk!Open(b) PROVE SdkInv'
<1>0. SdkInv /\ BuildAt(b)
      BY DEF SdkInv
<1>1. Sdk!TypeOK'
      BY <1>0
      DEF Sdk!Open, Sdk!Goes, Sdk!Does, Sdk!inputs, Sdk!sdk, Sdk!Rest, SdkInv, BuildAt,
          UnderLock, AtAnArchive, Sdk!TypeOK
<1>2. Only(b)
      BY <1>0, BuildAssumption
      DEF Sdk!Open, Sdk!Goes, Sdk!Does, Sdk!inputs, Sdk!sdk, Sdk!Rest, SdkInv, Only, BuildAt,
          UnderLock, Sdk!TypeOK
<1>3. SdkGrows /\ TreesInv'
      BY <1>0, <1>1
      DEF Sdk!Open, Sdk!Goes, Sdk!Does, Sdk!inputs, Sdk!sdk, Sdk!Rest, SdkInv, SdkGrows,
          TreesInv, BuildAt, AtAnArchive, UnderLock, Unlocked, Sdk!TypeOK
<1>4. BuildAt(b)'
      BY <1>0, <1>1, BuildAssumption
      DEF Sdk!Open, Sdk!Goes, Sdk!Does, Sdk!inputs, Sdk!sdk, Sdk!Rest, SdkInv, TreesInv,
          BuildAt, UnderLock, AtAnArchive, Unlocked, Linked, Sdk!TypeOK
<1>.  QED
      BY <1>1, <1>2, <1>3, <1>4, SdkKeeps

LEMMA SdkExtract == ASSUME SdkInv, NEW b \in Builds, Sdk!Extract(b) PROVE SdkInv'
<1>0. SdkInv /\ BuildAt(b)
      BY DEF SdkInv
<1>1. Sdk!TypeOK'
      BY <1>0
      DEF Sdk!Extract, Sdk!Does, Sdk!sdk, Sdk!Rest, SdkInv, BuildAt, UnderLock, AtAnArchive,
          Sdk!TypeOK
<1>2. Only(b)
      BY <1>0, BuildAssumption
      DEF Sdk!Extract, Sdk!Does, Sdk!sdk, Sdk!Rest, SdkInv, Only, BuildAt, UnderLock, Sdk!TypeOK
<1>3. SdkGrows /\ TreesInv'
      BY <1>0, <1>1
      DEF Sdk!Extract, Sdk!Does, Sdk!sdk, Sdk!Rest, SdkInv, SdkGrows, TreesInv, BuildAt,
          AtAnArchive, UnderLock, Unlocked, Sdk!TypeOK
<1>4. BuildAt(b)'
      BY <1>0, <1>1, BuildAssumption
      DEF Sdk!Extract, Sdk!Does, Sdk!sdk, Sdk!Rest, SdkInv, TreesInv, BuildAt, UnderLock,
          AtAnArchive, Unlocked, Linked, Sdk!TypeOK
<1>.  QED
      BY <1>1, <1>2, <1>3, <1>4, SdkKeeps

LEMMA SdkRecord == ASSUME SdkInv, NEW b \in Builds, Sdk!Record(b) PROVE SdkInv'
<1>0. SdkInv /\ BuildAt(b)
      BY DEF SdkInv
<1>1. Sdk!TypeOK'
  <2>1. build \in [Builds -> Work] /\ build[b] \in Work /\ lock \in {Nobody} \cup Builds
        BY <1>0 DEF SdkInv, Sdk!TypeOK, Work, SdkPcs
  <2>2. build' \in [Builds -> Work] /\ lock' \in {Nobody} \cup Builds
        BY <1>0, <2>1, WorkFacts DEF Sdk!Record, Sdk!sdk, BuildAt, UnderLock, AtAnArchive, SdkPcs, Work
  <2>.  QED
        BY <1>0, <2>2
        DEF Sdk!Record, Sdk!sdk, SdkInv, BuildAt, UnderLock, AtAnArchive, Sdk!TypeOK, Work,
            SdkPcs
<1>2. Only(b)
      BY <1>0, BuildAssumption
      DEF Sdk!Record, Sdk!Does, Sdk!sdk, SdkInv, Only, BuildAt, UnderLock, Sdk!TypeOK
<1>3. SdkGrows /\ TreesInv'
      BY <1>0, <1>1
      DEF Sdk!Record, Sdk!Does, Sdk!sdk, SdkInv, SdkGrows, TreesInv, BuildAt, AtAnArchive,
          UnderLock, Unlocked, Sdk!TypeOK
<1>4. BuildAt(b)'
      BY <1>0, <1>1, BuildAssumption
      DEF Sdk!Record, Sdk!Does, Sdk!sdk, SdkInv, TreesInv, BuildAt, UnderLock, AtAnArchive,
          Unlocked, Linked, Sdk!TypeOK
<1>.  QED
      BY <1>1, <1>2, <1>3, <1>4, SdkKeeps

LEMMA SdkLinkLook == ASSUME SdkInv, NEW b \in Builds, Sdk!LinkLook(b) PROVE SdkInv'
<1>0. SdkInv /\ BuildAt(b)
      BY DEF SdkInv
<1>1. Sdk!TypeOK'
  <2>1. build \in [Builds -> Work] /\ build[b] \in Work /\ lock \in {Nobody} \cup Builds
        BY <1>0 DEF SdkInv, Sdk!TypeOK, Work, SdkPcs
  <2>2. build' \in [Builds -> Work] /\ lock' \in {Nobody} \cup Builds
        BY <1>0, <2>1, WorkFacts
        DEF Sdk!LinkLook, Sdk!inputs, Sdk!sdk, BuildAt, UnderLock, AtAnArchive, SdkPcs, Work
  <2>.  QED
        BY <1>0, <2>2
        DEF Sdk!LinkLook, Sdk!inputs, Sdk!sdk, SdkInv, BuildAt, UnderLock, AtAnArchive,
            Sdk!TypeOK, Work, SdkPcs
<1>2. Only(b)
      BY <1>0, BuildAssumption
      DEF Sdk!LinkLook, Sdk!Turns, Sdk!Does, Sdk!inputs, Sdk!sdk, SdkInv, Only, BuildAt,
          UnderLock, Sdk!TypeOK
<1>3. SdkGrows /\ TreesInv'
      BY <1>0, <1>1
      DEF Sdk!LinkLook, Sdk!Turns, Sdk!Does, Sdk!inputs, Sdk!sdk, SdkInv, SdkGrows, TreesInv,
          BuildAt, AtAnArchive, UnderLock, Unlocked, Sdk!TypeOK
<1>4. BuildAt(b)'
      BY <1>0, <1>1, BuildAssumption
      DEF Sdk!LinkLook, Sdk!Turns, Sdk!Does, Sdk!inputs, Sdk!sdk, SdkInv, TreesInv, BuildAt,
          UnderLock, AtAnArchive, Unlocked, Linked, Sdk!TypeOK
<1>.  QED
      BY <1>1, <1>2, <1>3, <1>4, SdkKeeps

LEMMA SdkLinkMake == ASSUME SdkInv, NEW b \in Builds, Sdk!LinkMake(b) PROVE SdkInv'
<1>0. SdkInv /\ BuildAt(b)
      BY DEF SdkInv
<1>1. Sdk!TypeOK'
  <2>1. build \in [Builds -> Work] /\ build[b] \in Work /\ lock \in {Nobody} \cup Builds
        BY <1>0 DEF SdkInv, Sdk!TypeOK, Work, SdkPcs
  <2>2. build' \in [Builds -> Work] /\ lock' \in {Nobody} \cup Builds
        BY <1>0, <2>1, WorkFacts
        DEF Sdk!LinkMake, Sdk!inputs, Sdk!Rest, BuildAt, UnderLock, AtAnArchive, SdkPcs, Work
  <2>3. link' \in [Pins -> BOOLEAN]
    <3>1. link \in [Pins -> BOOLEAN]
          BY <1>0 DEF SdkInv, Sdk!TypeOK
    <3>2. link' = link \/ link' = [link EXCEPT ![build[b].at] = TRUE]
          BY DEF Sdk!LinkMake
    <3>.  QED
          BY <3>1, <3>2
  <2>4. UNCHANGED <<Sdk!inputs, config, aidl, next, faults>>
        BY DEF Sdk!LinkMake
  <2>.  QED
        BY <1>0, <2>2, <2>3, <2>4 DEF SdkInv, Sdk!TypeOK, Sdk!inputs, Work, SdkPcs
<1>2. Only(b)
      BY <1>0, BuildAssumption
      DEF Sdk!LinkMake, Sdk!Does, Sdk!Fails, Sdk!inputs, Sdk!Rest, Sdk!Idle, SdkInv, Only,
          BuildAt, UnderLock, Sdk!TypeOK
<1>3. SdkGrows /\ TreesInv'
      BY <1>0, <1>1
      DEF Sdk!LinkMake, Sdk!Does, Sdk!Fails, Sdk!inputs, Sdk!Rest, Sdk!Idle, SdkInv, SdkGrows,
          TreesInv, BuildAt, AtAnArchive, UnderLock, Unlocked, Sdk!TypeOK
<1>4. BuildAt(b)'
      BY <1>0, <1>1, BuildAssumption
      DEF Sdk!LinkMake, Sdk!Does, Sdk!Fails, Sdk!inputs, Sdk!Rest, Sdk!Idle, SdkInv, TreesInv,
          BuildAt, UnderLock, AtAnArchive, Unlocked, Linked, Sdk!TypeOK
<1>.  QED
      BY <1>1, <1>2, <1>3, <1>4, SdkKeeps

LEMMA SdkConfigOpen == ASSUME SdkInv, NEW b \in Builds, Sdk!ConfigOpen(b) PROVE SdkInv'
<1>0. SdkInv /\ BuildAt(b)
      BY DEF SdkInv
<1>1. Sdk!TypeOK'
      BY <1>0
      DEF Sdk!ConfigOpen, Sdk!Goes, Sdk!inputs, SdkInv, BuildAt, UnderLock, AtAnArchive,
          Sdk!TypeOK
<1>2. Only(b)
      BY <1>0, BuildAssumption
      DEF Sdk!ConfigOpen, Sdk!Goes, Sdk!inputs, SdkInv, Only, BuildAt, UnderLock, Sdk!TypeOK
<1>3. SdkGrows /\ TreesInv'
      BY <1>0, <1>1
      DEF Sdk!ConfigOpen, Sdk!Goes, Sdk!inputs, SdkInv, SdkGrows, TreesInv, BuildAt,
          AtAnArchive, UnderLock, Unlocked, Sdk!TypeOK
<1>4. BuildAt(b)'
      BY <1>0, <1>1, BuildAssumption
      DEF Sdk!ConfigOpen, Sdk!Goes, Sdk!inputs, SdkInv, TreesInv, BuildAt, UnderLock,
          AtAnArchive, Unlocked, Linked, Sdk!TypeOK
<1>.  QED
      BY <1>1, <1>2, <1>3, <1>4, SdkKeeps

LEMMA SdkConfigWrite == ASSUME SdkInv, NEW b \in Builds, Sdk!ConfigWrite(b) PROVE SdkInv'
<1>0. SdkInv /\ BuildAt(b)
      BY DEF SdkInv
<1>1. Sdk!TypeOK'
      BY <1>0
      DEF Sdk!ConfigWrite, Sdk!Goes, Sdk!inputs, SdkInv, BuildAt, UnderLock, AtAnArchive,
          Sdk!TypeOK
<1>2. Only(b)
      BY <1>0, BuildAssumption
      DEF Sdk!ConfigWrite, Sdk!Goes, Sdk!inputs, SdkInv, Only, BuildAt, UnderLock, Sdk!TypeOK
<1>3. SdkGrows /\ TreesInv'
      BY <1>0, <1>1
      DEF Sdk!ConfigWrite, Sdk!Goes, Sdk!inputs, SdkInv, SdkGrows, TreesInv, BuildAt,
          AtAnArchive, UnderLock, Unlocked, Sdk!TypeOK
<1>4. BuildAt(b)'
      BY <1>0, <1>1, BuildAssumption
      DEF Sdk!ConfigWrite, Sdk!Goes, Sdk!inputs, SdkInv, TreesInv, BuildAt, UnderLock,
          AtAnArchive, Unlocked, Linked, Sdk!TypeOK
<1>.  QED
      BY <1>1, <1>2, <1>3, <1>4, SdkKeeps

LEMMA SdkCompile == ASSUME SdkInv, NEW b \in Builds, Sdk!Compile(b) PROVE SdkInv'
<1>0. SdkInv /\ BuildAt(b)
      BY DEF SdkInv
<1>1. Sdk!TypeOK'
      BY <1>0
      DEF Sdk!Compile, Sdk!Does, Sdk!Fails, Sdk!inputs, Sdk!sdk, Sdk!Idle, SdkInv, BuildAt,
          UnderLock, AtAnArchive, Sdk!TypeOK
<1>2. Only(b)
      BY <1>0, BuildAssumption
      DEF Sdk!Compile, Sdk!Does, Sdk!Fails, Sdk!inputs, Sdk!sdk, Sdk!Idle, SdkInv, Only,
          BuildAt, UnderLock, Sdk!TypeOK
<1>3. SdkGrows /\ TreesInv'
      BY <1>0, <1>1
      DEF Sdk!Compile, Sdk!Does, Sdk!Fails, Sdk!inputs, Sdk!sdk, Sdk!Idle, SdkInv, SdkGrows,
          TreesInv, BuildAt, AtAnArchive, UnderLock, Unlocked, Sdk!TypeOK
<1>4. BuildAt(b)'
      BY <1>0, <1>1, BuildAssumption
      DEF Sdk!Compile, Sdk!Does, Sdk!Fails, Sdk!inputs, Sdk!sdk, Sdk!Idle, SdkInv, TreesInv,
          BuildAt, UnderLock, AtAnArchive, Unlocked, Linked, Sdk!TypeOK
<1>.  QED
      BY <1>1, <1>2, <1>3, <1>4, SdkKeeps

LEMMA SdkAidlLook == ASSUME SdkInv, NEW b \in Builds, Sdk!AidlLook(b) PROVE SdkInv'
<1>0. SdkInv /\ BuildAt(b)
      BY DEF SdkInv
<1>1. Sdk!TypeOK'
  <2>1. build \in [Builds -> Work] /\ build[b] \in Work /\ lock \in {Nobody} \cup Builds
        BY <1>0 DEF SdkInv, Sdk!TypeOK, Work, SdkPcs
  <2>2. build' \in [Builds -> Work] /\ lock' \in {Nobody} \cup Builds
        BY <1>0, <2>1, WorkFacts
        DEF Sdk!AidlLook, Sdk!inputs, BuildAt, UnderLock, AtAnArchive, SdkPcs, Work
  <2>3. next' \in [Tools -> BOOLEAN]
    <3>1. next \in [Tools -> BOOLEAN]
          BY <1>0 DEF SdkInv, Sdk!TypeOK
    <3>2. next' = next \/ \E t \in build[b].todo : next' = [next EXCEPT ![t] = FALSE]
          BY DEF Sdk!AidlLook
    <3>.  QED
          BY <3>1, <3>2
  <2>4. UNCHANGED <<Sdk!inputs, link, config, aidl, faults>>
        BY DEF Sdk!AidlLook
  <2>.  QED
        BY <1>0, <2>2, <2>3, <2>4 DEF SdkInv, Sdk!TypeOK, Sdk!inputs, Work, SdkPcs
<1>2. Only(b)
      BY <1>0, BuildAssumption
      DEF Sdk!AidlLook, Sdk!Turns, Sdk!Does, Sdk!inputs, SdkInv, Only, BuildAt, UnderLock,
          Sdk!TypeOK
<1>3. SdkGrows /\ TreesInv'
      BY <1>0, <1>1
      DEF Sdk!AidlLook, Sdk!Turns, Sdk!Does, Sdk!inputs, SdkInv, SdkGrows, TreesInv, BuildAt,
          AtAnArchive, UnderLock, Unlocked, Sdk!TypeOK
<1>4. BuildAt(b)'
      BY <1>0, <1>1, BuildAssumption
      DEF Sdk!AidlLook, Sdk!Turns, Sdk!Does, Sdk!inputs, SdkInv, TreesInv, BuildAt, UnderLock,
          AtAnArchive, Unlocked, Linked, Sdk!TypeOK
<1>.  QED
      BY <1>1, <1>2, <1>3, <1>4, SdkKeeps

LEMMA SdkAidlLink == ASSUME SdkInv, NEW b \in Builds, Sdk!AidlLink(b) PROVE SdkInv'
<1>0. SdkInv /\ BuildAt(b)
      BY DEF SdkInv
<1>1. Sdk!TypeOK'
  <2>1. build \in [Builds -> Work] /\ build[b] \in Work /\ lock \in {Nobody} \cup Builds
        BY <1>0 DEF SdkInv, Sdk!TypeOK, Work, SdkPcs
  <2>2. build' \in [Builds -> Work] /\ lock' \in {Nobody} \cup Builds
        BY <1>0, <2>1, WorkFacts
        DEF Sdk!AidlLink, Sdk!inputs, BuildAt, UnderLock, AtAnArchive, SdkPcs, Work
  <2>3. next' \in [Tools -> BOOLEAN]
    <3>1. next \in [Tools -> BOOLEAN]
          BY <1>0 DEF SdkInv, Sdk!TypeOK
    <3>2. next' = next \/ next' = [next EXCEPT ![build[b].at] = TRUE]
          BY DEF Sdk!AidlLink
    <3>.  QED
          BY <3>1, <3>2
  <2>4. UNCHANGED <<Sdk!inputs, link, config, aidl, faults>>
        BY DEF Sdk!AidlLink
  <2>.  QED
        BY <1>0, <2>2, <2>3, <2>4 DEF SdkInv, Sdk!TypeOK, Sdk!inputs, Work, SdkPcs
<1>2. Only(b)
      BY <1>0, BuildAssumption
      DEF Sdk!AidlLink, Sdk!Goes, Sdk!Fails, Sdk!inputs, Sdk!Idle, SdkInv, Only, BuildAt,
          UnderLock, Sdk!TypeOK
<1>3. SdkGrows /\ TreesInv'
      BY <1>0, <1>1
      DEF Sdk!AidlLink, Sdk!Goes, Sdk!Fails, Sdk!inputs, Sdk!Idle, SdkInv, SdkGrows, TreesInv,
          BuildAt, AtAnArchive, UnderLock, Unlocked, Sdk!TypeOK
<1>4. BuildAt(b)'
      BY <1>0, <1>1, BuildAssumption
      DEF Sdk!AidlLink, Sdk!Goes, Sdk!Fails, Sdk!inputs, Sdk!Idle, SdkInv, TreesInv, BuildAt,
          UnderLock, AtAnArchive, Unlocked, Linked, Sdk!TypeOK
<1>.  QED
      BY <1>1, <1>2, <1>3, <1>4, SdkKeeps

LEMMA SdkAidlReplace == ASSUME SdkInv, NEW b \in Builds, Sdk!AidlReplace(b) PROVE SdkInv'
<1>0. SdkInv /\ BuildAt(b)
      BY DEF SdkInv
<1>1. Sdk!TypeOK'
      BY <1>0
      DEF Sdk!AidlReplace, Sdk!Does, Sdk!Fails, Sdk!inputs, Sdk!Rest, Sdk!Idle, SdkInv, BuildAt,
          UnderLock, AtAnArchive, Sdk!TypeOK
<1>2. Only(b)
      BY <1>0, BuildAssumption
      DEF Sdk!AidlReplace, Sdk!Does, Sdk!Fails, Sdk!inputs, Sdk!Rest, Sdk!Idle, SdkInv, Only,
          BuildAt, UnderLock, Sdk!TypeOK
<1>3. SdkGrows /\ TreesInv'
      BY <1>0, <1>1
      DEF Sdk!AidlReplace, Sdk!Does, Sdk!Fails, Sdk!inputs, Sdk!Rest, Sdk!Idle, SdkInv,
          SdkGrows, TreesInv, BuildAt, AtAnArchive, UnderLock, Unlocked, Sdk!TypeOK
<1>4. BuildAt(b)'
      BY <1>0, <1>1, BuildAssumption
      DEF Sdk!AidlReplace, Sdk!Does, Sdk!Fails, Sdk!inputs, Sdk!Rest, Sdk!Idle, SdkInv,
          TreesInv, BuildAt, UnderLock, AtAnArchive, Unlocked, Linked, Sdk!TypeOK
<1>.  QED
      BY <1>1, <1>2, <1>3, <1>4, SdkKeeps

LEMMA SdkFinish == ASSUME SdkInv, NEW b \in Builds, Sdk!Finish(b) PROVE SdkInv'
<1>0. SdkInv /\ BuildAt(b)
      BY DEF SdkInv
<1>1. Sdk!TypeOK'
      BY <1>0
      DEF Sdk!Finish, Sdk!Goes, Sdk!inputs, Sdk!sdk, SdkInv, BuildAt, UnderLock, AtAnArchive,
          Sdk!TypeOK
<1>2. Only(b)
      BY <1>0, BuildAssumption
      DEF Sdk!Finish, Sdk!Goes, Sdk!inputs, Sdk!sdk, SdkInv, Only, BuildAt, UnderLock,
          Sdk!TypeOK
<1>3. SdkGrows /\ TreesInv'
      BY <1>0, <1>1
      DEF Sdk!Finish, Sdk!Goes, Sdk!inputs, Sdk!sdk, SdkInv, SdkGrows, TreesInv, BuildAt,
          AtAnArchive, UnderLock, Unlocked, Sdk!TypeOK
<1>4. BuildAt(b)'
      BY <1>0, <1>1, BuildAssumption
      DEF Sdk!Finish, Sdk!Goes, Sdk!inputs, Sdk!sdk, SdkInv, TreesInv, BuildAt, UnderLock,
          AtAnArchive, Unlocked, Linked, Sdk!TypeOK
<1>.  QED
      BY <1>1, <1>2, <1>3, <1>4, SdkKeeps

LEMMA SdkKill == ASSUME SdkInv, NEW b \in Builds, Sdk!Kill(b) PROVE SdkInv'
<1>0. SdkInv /\ BuildAt(b)
      BY DEF SdkInv
<1>1. Sdk!TypeOK'
  <2>1. build \in [Builds -> Work] /\ build[b] \in Work /\ lock \in {Nobody} \cup Builds
        BY <1>0 DEF SdkInv, Sdk!TypeOK, Work, SdkPcs
  <2>2. build' \in [Builds -> Work] /\ lock' \in {Nobody} \cup Builds
        BY <1>0, <2>1, WorkFacts
        DEF Sdk!Kill, Sdk!Fault, Sdk!inputs, Sdk!sdk, BuildAt, UnderLock, AtAnArchive, SdkPcs,
            Work
  <2>3. faults' \in 0 .. MoreFaults
        BY <1>0, BuildAssumption DEF Sdk!Kill, Sdk!Fault, SdkInv, BuildAt, AtAnArchive, Sdk!TypeOK
  <2>4. UNCHANGED <<Sdk!inputs, Sdk!sdk>>
        BY DEF Sdk!Kill
  <2>.  QED
        BY <1>0, <2>2, <2>3, <2>4 DEF SdkInv, Sdk!TypeOK, Sdk!inputs, Sdk!sdk, Work, SdkPcs
<1>2. Only(b)
      BY <1>0, BuildAssumption
      DEF Sdk!Kill, Sdk!Fails, Sdk!Fault, Sdk!inputs, Sdk!sdk, Sdk!Idle, SdkInv, Only, BuildAt,
          UnderLock, Sdk!TypeOK
<1>3. SdkGrows /\ TreesInv'
      BY <1>0, <1>1
      DEF Sdk!Kill, Sdk!Fails, Sdk!Fault, Sdk!inputs, Sdk!sdk, Sdk!Idle, SdkInv, SdkGrows,
          TreesInv, BuildAt, AtAnArchive, UnderLock, Unlocked, Sdk!TypeOK
<1>4. BuildAt(b)'
      BY <1>0, <1>1, BuildAssumption
      DEF Sdk!Kill, Sdk!Fails, Sdk!Fault, Sdk!inputs, Sdk!sdk, Sdk!Idle, SdkInv, TreesInv,
          BuildAt, UnderLock, AtAnArchive, Unlocked, Linked, Sdk!TypeOK
<1>.  QED
      BY <1>1, <1>2, <1>3, <1>4, SdkKeeps

LEMMA SdkStep == SdkInv /\ [Sdk!Next]_(<<sdkVars, faults>>) => SdkInv'
<1>.  SUFFICES ASSUME SdkInv, [Sdk!Next]_(<<sdkVars, faults>>) PROVE SdkInv'
      OBVIOUS
<1>1. ASSUME NEW b \in Builds, Sdk!Step(b) \/ Sdk!Kill(b) PROVE SdkInv'
      BY <1>1, SdkStart, SdkLock, SdkPin, SdkFetch, SdkPlace, SdkVerify, SdkOpen, SdkExtract,
         SdkRecord, SdkLinkLook, SdkLinkMake, SdkConfigOpen, SdkConfigWrite, SdkCompile,
         SdkAidlLook, SdkAidlLink, SdkAidlReplace, SdkFinish, SdkKill
      DEF Sdk!Step
<1>2. CASE UNCHANGED <<sdkVars, faults>>
      BY <1>2 DEF sdkVars, SdkInv, Sdk!TypeOK, BuildAt, TreesInv
<1>.  QED
      BY <1>1, <1>2 DEF Sdk!Next

LEMMA SdkImplies == SdkInv => Sdk!TypeOK /\ Sdk!LinkedTreesArePinned /\ Sdk!DoneIsConfigured
  BY DEF SdkInv, TreesInv, BuildAt, Linked, Unlocked, Sdk!LinkedTreesArePinned, Sdk!DoneIsConfigured

-----------------------------------------------------------------------------
\* The library sources. A run that has not saved a row works by what the receipt says, and
\* one that has saved one, but not the last, has left an incomplete receipt.
True(rows, r) == rpm[r] \in {rows[r], NoFile} /\ (r \in ByHand => rows[r] = HandDigest)

CollectorInv ==
  LET c == collector IN
  /\ c.done => c.at \in DOMAIN c.rows
  /\ DOMAIN c.rows \subseteq 1 .. c.at
  /\ \A r \in DOMAIN c.rows : c.rows[r] # "error" => True(c.rows, r)
  /\ \A r \in ByHand : r \in DOMAIN c.known /\ c.known[r] = HandDigest
  /\ c.at = 1 => c.known = Library!Known
  /\ c.at > 1 => ~receipt.complete

LibraryTypes ==
  /\ upstream \in [1 .. MaxRpm -> Versions] /\ rpm \in [1 .. MaxRpm -> Versions \cup {NoFile}]
  /\ DOMAIN receipt.rows \subseteq 1 .. MaxRpm /\ receipt.complete \in BOOLEAN
  /\ changes \in 0 .. MaxChanges /\ faults \in 0 .. MaxFaults

CollectorType(c) ==
  /\ c = [at |-> c.at, done |-> c.done, known |-> c.known, rows |-> c.rows]
  /\ c.at \in 1 .. MaxRpm /\ c.done \in BOOLEAN

ReceiptInv ==
  receipt.complete => \A r \in 1 .. MaxRpm :
    r \in DOMAIN receipt.rows /\ receipt.rows[r] # "error" /\ True(receipt.rows, r)

LibraryInv ==
  /\ LibraryTypes
  /\ collector = Library!Ended \/ (CollectorType(collector) /\ CollectorInv)
  /\ ReceiptInv
  /\ \A r \in ByHand : rpm[r] \in {HandDigest, NoFile}

LEMMA EndedFacts ==
  /\ Library!Ended.at = 0 /\ ~Library!Ended.done /\ DOMAIN Library!Ended.rows = {}
  /\ \A c : CollectorType(c) => c # Library!Ended
  BY DEF Library!Ended, CollectorType

LEMMA LibraryInit == Library!Init => LibraryInv
<1>.  SUFFICES ASSUME Library!Init PROVE LibraryInv
      OBVIOUS
<1>1. receipt.rows = <<>> /\ receipt.complete = FALSE /\ DOMAIN receipt.rows = {}
      BY DEF Library!Init
<1>2. LibraryTypes
      BY <1>1, BuildAssumption, InputsAssumption DEF Library!Init, LibraryTypes
<1>.  QED
      BY <1>1, <1>2, BuildAssumption DEF Library!Init, LibraryInv, ReceiptInv

LEMMA LibraryImplies == LibraryInv => Library!TypeOK /\ Library!ReceiptIsTrue
<1>.  SUFFICES ASSUME LibraryInv PROVE Library!TypeOK /\ Library!ReceiptIsTrue
      OBVIOUS
<1>1. collector.at \in 1 .. MaxRpm \cup {0} /\ DOMAIN collector.rows \subseteq 1 .. MaxRpm
      BY EndedFacts, BuildAssumption DEF LibraryInv, CollectorType, CollectorInv
<1>2. Library!TypeOK
      BY <1>1 DEF LibraryInv, LibraryTypes, Library!TypeOK
<1>.  QED
      BY <1>2, BuildAssumption DEF LibraryInv, ReceiptInv, True, Library!ReceiptIsTrue

\* A row for the file in place, or an error, and the rows before it.
LEMMA RowFacts ==
  ASSUME CollectorType(collector), CollectorInv, NEW x, Library!Row(x)
  PROVE  /\ CollectorType(collector') /\ collector'.at = collector.at /\ collector'.done
         /\ collector'.known = collector.known
         /\ DOMAIN collector'.rows = DOMAIN collector.rows \cup {collector.at}
         /\ \A r \in DOMAIN collector'.rows :
              collector'.rows[r] = IF r = collector.at THEN x ELSE collector.rows[r]
  BY DEF CollectorType, Library!Row, Library!This

\* What a row that is true of the file in place, or an error, keeps.
LEMMA RowKeeps ==
  ASSUME LibraryInv, CollectorType(collector), CollectorInv, ~collector.done, NEW x, Library!Row(x),
         LibraryTypes', UNCHANGED receipt,
         \A r \in 1 .. MaxRpm : r # collector.at => rpm'[r] = rpm[r],
         x # "error" => /\ rpm'[collector.at] \in {x, NoFile}
                        /\ collector.at \in ByHand => x = HandDigest,
         rpm'[collector.at] = rpm[collector.at]
           \/ (collector.at \in DOMAIN collector.known => rpm'[collector.at] = collector.known[collector.at])
  PROVE  LibraryInv'
<1>1. /\ CollectorType(collector') /\ collector'.at = collector.at /\ collector'.done
      /\ collector'.known = collector.known
      /\ DOMAIN collector'.rows = DOMAIN collector.rows \cup {collector.at}
      /\ \A r \in DOMAIN collector'.rows :
           collector'.rows[r] = IF r = collector.at THEN x ELSE collector.rows[r]
      BY RowFacts
<1>2. CollectorInv'
  <2>1. Library!Known' = Library!Known
        BY DEF Library!Known
  <2>2. DOMAIN collector'.rows \subseteq 1 .. collector'.at /\ collector'.at \in DOMAIN collector'.rows
        BY <1>1 DEF CollectorInv, CollectorType
  <2>3. ASSUME NEW r \in DOMAIN collector'.rows, collector'.rows[r] # "error"
        PROVE  /\ rpm'[r] \in {collector'.rows[r], NoFile}
               /\ r \in ByHand => collector'.rows[r] = HandDigest
    <3>1. CASE r = collector.at
          BY <1>1, <2>3, <3>1 DEF True
    <3>2. CASE r # collector.at
      <4>1. r \in DOMAIN collector.rows /\ r \in 1 .. MaxRpm
            BY <1>1, <3>2, BuildAssumption DEF CollectorInv, CollectorType
      <4>2. collector'.rows[r] = collector.rows[r] /\ rpm'[r] = rpm[r] /\ True(collector.rows, r)
            BY <1>1, <2>3, <3>2, <4>1 DEF CollectorInv
      <4>.  QED
            BY <4>2 DEF True
    <3>.  QED
          BY <3>1, <3>2
  <2>4. \A r \in ByHand : r \in DOMAIN collector'.known /\ collector'.known[r] = HandDigest
        BY <1>1 DEF CollectorInv
  <2>5. /\ collector'.at = 1 => collector'.known = Library!Known'
        /\ collector'.at > 1 => ~receipt'.complete
        BY <1>1, <2>1 DEF CollectorInv
  <2>.  QED
        BY <2>2, <2>3, <2>4, <2>5 DEF CollectorInv, True
<1>3. ReceiptInv'
  <2>.  SUFFICES ASSUME receipt.complete, NEW r \in 1 .. MaxRpm
        PROVE  r \in DOMAIN receipt.rows /\ receipt.rows[r] # "error" /\ True(receipt.rows, r)'
        BY DEF ReceiptInv
  <2>1. r \in DOMAIN receipt.rows /\ receipt.rows[r] # "error" /\ True(receipt.rows, r)
        BY DEF LibraryInv, ReceiptInv
  <2>2. CASE r # collector.at \/ rpm'[collector.at] = rpm[collector.at]
        BY <2>1, <2>2 DEF True
  <2>3. CASE r = collector.at /\ rpm'[r] # rpm[r]
    <3>1. r = 1 /\ collector.known = Library!Known
          BY <2>3 DEF CollectorInv, CollectorType
    <3>2. r \in DOMAIN collector.known /\ collector.known[r] = receipt.rows[r]
          BY <2>1, <3>1, BuildAssumption DEF Library!Known, Library!Error, True
    <3>.  QED
          BY <2>1, <2>3, <3>2 DEF True
  <2>.  QED
        BY <2>2, <2>3
<1>4. \A r \in ByHand : rpm'[r] \in {HandDigest, NoFile}
  <2>.  SUFFICES ASSUME NEW r \in ByHand PROVE rpm'[r] \in {HandDigest, NoFile}
        OBVIOUS
  <2>1. rpm[r] \in {HandDigest, NoFile} /\ r \in 1 .. MaxRpm
        BY BuildAssumption DEF LibraryInv
  <2>2. r \in DOMAIN collector.known /\ collector.known[r] = HandDigest
        BY DEF CollectorInv
  <2>.  QED
        BY <2>1, <2>2
<1>.  QED
      BY <1>1, <1>2, <1>3, <1>4 DEF LibraryInv

LEMMA StartKeeps == ASSUME LibraryInv, Library!Start PROVE LibraryInv'
<1>1. collector' = [at |-> 1, done |-> FALSE, known |-> Library!Known, rows |-> <<>>]
      /\ UNCHANGED <<upstream, rpm, receipt, changes, faults>>
      BY DEF Library!Start
<1>2. /\ collector'.at = 1 /\ ~collector'.done /\ collector'.known = Library!Known
      /\ DOMAIN collector'.rows = {} /\ CollectorType(collector')
      BY <1>1, BuildAssumption DEF CollectorType
<1>3. Library!Known' = Library!Known
      BY <1>1 DEF Library!Known
<1>4. \A r \in ByHand : r \in DOMAIN Library!Known /\ Library!Known[r] = HandDigest
      BY DEF Library!Known
<1>5. CollectorInv'
      BY <1>2, <1>3, <1>4 DEF CollectorInv
<1>.  QED
      BY <1>1, <1>2, <1>5 DEF LibraryInv, LibraryTypes, ReceiptInv, True

LEMMA Working ==
  ASSUME LibraryInv, Library!Due \/ collector.done
  PROVE  CollectorType(collector) /\ CollectorInv
  BY EndedFacts DEF LibraryInv, Library!Due, Library!This

LEMMA CachedKeeps == ASSUME LibraryInv, Library!Cached PROVE LibraryInv'
<1>  DEFINE d == rpm[collector.at]
<1>1. /\ CollectorType(collector) /\ CollectorInv /\ ~collector.done
      /\ UNCHANGED <<upstream, rpm, receipt, changes, faults>>
      /\ collector.at \in DOMAIN collector.known
      BY Working DEF Library!Cached, Library!Due, Library!This
<1>2. PICK x : Library!Row(x) /\ x = IF Library!Previous(d) THEN d ELSE "error"
      BY DEF Library!Cached, Library!This, Library!Error
<1>3. x # "error" => /\ rpm'[collector.at] \in {x, NoFile}
                     /\ collector.at \in ByHand => x = HandDigest
      BY <1>1, <1>2 DEF Library!Previous, Library!This, CollectorInv
<1>4. LibraryTypes'
      BY <1>1 DEF LibraryInv, LibraryTypes
<1>.  QED
      BY <1>1, <1>2, <1>3, <1>4, RowKeeps

LEMMA DownloadKeeps == ASSUME LibraryInv, Library!Download PROVE LibraryInv'
<1>  DEFINE d == upstream[collector.at]
<1>1. /\ CollectorType(collector) /\ CollectorInv /\ ~collector.done
      /\ UNCHANGED <<upstream, receipt, changes>>
      /\ collector.at \in 1 .. MaxRpm
      BY Working DEF Library!Download, Library!Needed, Library!Due, Library!This, CollectorType
<1>2. CASE Library!Previous(d) /\ Library!Row(d) /\ rpm' = [rpm EXCEPT ![collector.at] = d] /\ UNCHANGED faults
  <2>1. LibraryTypes' /\ rpm'[collector.at] = d /\ \A r \in 1 .. MaxRpm : r # collector.at => rpm'[r] = rpm[r]
        BY <1>1, <1>2 DEF LibraryInv, LibraryTypes
  <2>2. collector.at \in DOMAIN collector.known => collector.known[collector.at] = d
        BY <1>2 DEF Library!Previous, Library!This
  <2>3. collector.at \in ByHand => d = HandDigest
        BY <1>1, <2>2 DEF CollectorInv
  <2>.  QED
        BY <1>1, <1>2, <2>1, <2>2, <2>3, RowKeeps
<1>3. CASE Library!Row("error") /\ UNCHANGED rpm /\ faults' \in 0 .. MaxFaults
  <2>1. LibraryTypes'
        BY <1>1, <1>3 DEF LibraryInv, LibraryTypes
  <2>.  QED
        BY <1>1, <1>3, <2>1, RowKeeps
<1>4. UNCHANGED faults \/ Library!Fault => faults' \in 0 .. MaxFaults
      BY InputsAssumption DEF LibraryInv, LibraryTypes, Library!Fault
<1>.  QED
      BY <1>2, <1>3, <1>4 DEF Library!Download, Library!This, Library!Error

LEMMA SaveKeeps == ASSUME LibraryInv, Library!SaveReceipt PROVE LibraryInv'
<1>1. /\ CollectorType(collector) /\ CollectorInv /\ collector.done
      /\ UNCHANGED <<upstream, rpm, changes, faults>>
      BY Working DEF Library!SaveReceipt
<1>2. /\ receipt'.rows = collector.rows
      /\ receipt'.complete \in BOOLEAN
      /\ receipt'.complete =>
           \A r \in 1 .. MaxRpm : r \in DOMAIN collector.rows /\ collector.rows[r] # "error"
      BY DEF Library!SaveReceipt, Library!Error
<1>3. ReceiptInv'
      BY <1>1, <1>2 DEF ReceiptInv, CollectorInv, True
<1>4. LibraryTypes'
      BY <1>1, <1>2, BuildAssumption DEF LibraryInv, LibraryTypes, CollectorType, CollectorInv
<1>5. CASE collector.at + 1 \in 1 .. MaxRpm
  <2>1. /\ collector'.at = collector.at + 1 /\ ~collector'.done /\ CollectorType(collector')
        /\ collector'.known = collector.known /\ collector'.rows = collector.rows
        BY <1>1, <1>5 DEF Library!SaveReceipt, Library!This, CollectorType
  <2>2. ~receipt'.complete
        BY <1>1, <1>2, <1>5 DEF CollectorInv, CollectorType
  <2>3. collector'.at > 1 /\ DOMAIN collector'.rows \subseteq 1 .. collector'.at
        BY <1>1, <2>1 DEF CollectorInv, CollectorType
  <2>4. CollectorInv'
        BY <1>1, <2>1, <2>2, <2>3 DEF CollectorInv, True
  <2>.  QED
        BY <1>1, <1>3, <1>4, <2>1, <2>4 DEF LibraryInv
<1>6. CASE collector.at + 1 \notin 1 .. MaxRpm
  <2>1. collector' = Library!Ended
        BY <1>6 DEF Library!SaveReceipt, Library!This
  <2>2. Library!Ended' = Library!Ended
        BY DEF Library!Ended
  <2>.  QED
        BY <1>1, <1>3, <1>4, <2>1, <2>2 DEF LibraryInv
<1>.  QED
      BY <1>5, <1>6

LEMMA LibraryStep == LibraryInv /\ [Library!Next]_(<<libraryVars, faults>>) => LibraryInv'
<1>.  SUFFICES ASSUME LibraryInv, [Library!Next]_(<<libraryVars, faults>>) PROVE LibraryInv'
      OBVIOUS
<1>1. CASE Library!Kill
  <2>1. collector' = Library!Ended /\ UNCHANGED <<upstream, rpm, receipt, changes>>
        BY <1>1 DEF Library!Kill
  <2>2. faults' \in 0 .. MaxFaults
        BY <1>1, InputsAssumption DEF Library!Kill, Library!Fault, LibraryInv, LibraryTypes
  <2>.  QED
        BY <2>1, <2>2 DEF LibraryInv, LibraryTypes, ReceiptInv, True
<1>2. ASSUME NEW r \in 1 .. MaxRpm, Library!Changed(r) PROVE LibraryInv'
  <2>1. UNCHANGED <<receipt, collector, faults>> /\ changes' \in 0 .. MaxChanges
        BY <1>2, BuildAssumption DEF Library!Changed, LibraryInv, LibraryTypes
  <2>2. upstream' \in [1 .. MaxRpm -> Versions]
        BY <1>2 DEF Library!Changed, LibraryInv, LibraryTypes
  <2>3. /\ rpm' \in [1 .. MaxRpm -> Versions \cup {NoFile}]
        /\ \A s \in 1 .. MaxRpm : rpm'[s] \in {rpm[s], NoFile}
        BY <1>2 DEF Library!Changed, LibraryInv, LibraryTypes
  <2>4. LibraryTypes'
        BY <2>1, <2>2, <2>3 DEF LibraryInv, LibraryTypes
  <2>5. ReceiptInv' /\ \A s \in ByHand : rpm'[s] \in {HandDigest, NoFile}
        BY <2>1, <2>3, BuildAssumption DEF LibraryInv, ReceiptInv, True
  <2>6. ASSUME CollectorType(collector), CollectorInv PROVE CollectorInv'
    <3>1. Library!Known' = Library!Known
          BY <2>1 DEF Library!Known
    <3>2. DOMAIN collector.rows \subseteq 1 .. MaxRpm
          BY <2>6, BuildAssumption DEF CollectorType, CollectorInv
    <3>.  QED
          BY <2>1, <2>3, <2>6, <3>1, <3>2 DEF CollectorInv, True
  <2>.  QED
        BY <2>1, <2>4, <2>5, <2>6 DEF LibraryInv
<1>3. CASE UNCHANGED <<libraryVars, faults>>
  <2>1. UNCHANGED <<upstream, rpm, receipt, collector, changes, faults>> /\ Library!Known' = Library!Known
        BY <1>3 DEF libraryVars, Library!Known
  <2>.  QED
        BY <2>1 DEF LibraryInv, LibraryTypes, ReceiptInv, CollectorInv, True
<1>.  QED
      BY <1>1, <1>2, <1>3, StartKeeps, CachedKeeps, DownloadKeeps, SaveKeeps DEF Library!Next

-----------------------------------------------------------------------------
\* The signers. One maker makes the directory; what stands before its file is its own, and
\* nothing stands behind it. What is moved to a private name has been compared.
SignerFiles == {"store", "properties", "certificate", "metadata"}
Entered == SignerFiles \cup {"done", "failed"}
PhoneFile ==
  [target : {"absent", "cut", "exact", "foreign"}, encoded : {"absent", "cut", "exact"},
   part : {"absent", "cut", "exact"}]

Stands(m, f, before, behind) ==
  maker[m] = f => /\ \A g \in before : signer[g] = m
                  /\ signer[f] \in {"absent", "torn"}
                  /\ \A g \in behind : signer[g] = "absent"

MakerInv ==
  /\ ~directory => /\ \A m \in Makers : maker[m] \in {"look", "mkdir"}
                   /\ \A f \in SignerFiles : signer[f] = "absent"
  /\ \A m, n \in Makers : maker[m] \in Entered /\ maker[n] \in Entered => m = n
  /\ \A m \in Makers :
       /\ Stands(m, "store", {}, {"properties", "certificate", "metadata"})
       /\ Stands(m, "properties", {"store"}, {"certificate", "metadata"})
       /\ Stands(m, "certificate", {"store", "properties"}, {"metadata"})
       /\ Stands(m, "metadata", {"store", "properties", "certificate"}, {})
  /\ Signer!MetadataMeansReady

TransferInv ==
  /\ transfer.pc # "off" /\ transfer.file = 2 => app["keystore"].target = "exact"
  /\ transfer.pc = "mv" => app[Signer!Name].part = "exact"
  /\ transfer.pc = "rm" => app[Signer!Name].target = "exact"
  /\ Signer!PrivateFilesAreExact

ReleaseType ==
  /\ directory \in BOOLEAN /\ signer \in [SignerFiles -> {"absent", "torn"} \cup Makers]
  /\ maker \in [Makers -> {"look", "mkdir", "done", "refused", "failed"} \cup SignerFiles]

TransferType ==
  /\ app \in [{"keystore", "properties"} -> PhoneFile]
  /\ transfer \in [pc : {"off", "list", "touch", "dd", "decode", "digest", "mv", "rm"}, file : 1 .. 2]

SignerInv == ReleaseType /\ TransferType /\ faults \in 0 .. MoreFaults /\ MakerInv /\ TransferInv

LEMMA OrderFacts ==
  /\ Signer!Order[1] = "store" /\ Signer!Order[2] = "properties"
  /\ Signer!Order[3] = "certificate" /\ Signer!Order[4] = "metadata"
  /\ Len(Signer!Order) = 4
  BY DEF Signer!Order

LEMMA PrivateFacts ==
  /\ Signer!Private[1] = "keystore" /\ Signer!Private[2] = "properties"
  /\ Len(Signer!Private) = 2 /\ DOMAIN Signer!Private = 1 .. 2
  BY DEF Signer!Private

LEMMA AfterFacts ==
  /\ Signer!After("store") = "properties" /\ Signer!After("properties") = "certificate"
  /\ Signer!After("certificate") = "metadata" /\ Signer!After("metadata") = "done"
<1>  DEFINE later(f) == {i \in 2 .. 4 : Signer!Order[i - 1] = f}
<1>1. \A f : Signer!After(f) = IF later(f) = {} THEN "done" ELSE Signer!Order[CHOOSE i \in later(f) : TRUE]
      BY OrderFacts DEF Signer!After
<1>2. \A i \in 2 .. 4 : i = 2 \/ i = 3 \/ i = 4
      OBVIOUS
<1>3. later("store") = {2} /\ later("properties") = {3} /\ later("certificate") = {4} /\ later("metadata") = {}
      BY <1>2, OrderFacts
<1>4. (CHOOSE i \in {2} : TRUE) = 2 /\ (CHOOSE i \in {3} : TRUE) = 3 /\ (CHOOSE i \in {4} : TRUE) = 4
      OBVIOUS
<1>   HIDE DEF later
<1>.  QED
      BY <1>1, <1>3, <1>4, OrderFacts

LEMMA SignerInit == Signer!Init => SignerInv
<1>.  SUFFICES ASSUME Signer!Init PROVE SignerInv
      OBVIOUS
<1>1. /\ directory = FALSE /\ signer = [f \in SignerFiles |-> "absent"]
      /\ maker = [m \in Makers |-> "look"] /\ transfer = [pc |-> "off", file |-> 1] /\ faults = 0
      BY DEF Signer!Init, Signer!Off, SignerFiles
<1>2. app \in [{"keystore", "properties"} -> PhoneFile]
      /\ \A f \in {"keystore", "properties"} : app[f].target \in {"absent", "foreign"}
      BY DEF Signer!Init, Signer!Absent, PhoneFile
<1>3. MakerInv
      BY <1>1 DEF MakerInv, Stands, Entered, SignerFiles, Signer!MetadataMeansReady
<1>4. TransferInv
      BY <1>1, <1>2 DEF TransferInv, Signer!PrivateFilesAreExact
<1>5. ReleaseType /\ TransferType
  <2>1. [pc |-> "off", file |-> 1]
          \in [pc : {"off", "list", "touch", "dd", "decode", "digest", "mv", "rm"}, file : 1 .. 2]
        OBVIOUS
  <2>2. TransferType
        BY <1>1, <1>2, <2>1 DEF TransferType
  <2>3. ReleaseType
        BY <1>1 DEF ReleaseType
  <2>.  QED
        BY <2>2, <2>3
<1>6. faults \in 0 .. MoreFaults
      BY <1>1, BuildAssumption
<1>.  QED
      BY <1>3, <1>4, <1>5, <1>6 DEF SignerInv

LEMMA SignerImplies ==
  SignerInv => Signer!TypeOK /\ Signer!MetadataMeansReady /\ Signer!PrivateFilesAreExact
<1>.  SUFFICES ASSUME SignerInv
      PROVE  Signer!TypeOK /\ Signer!MetadataMeansReady /\ Signer!PrivateFilesAreExact
      OBVIOUS
<1>1. /\ DOMAIN signer = SignerFiles /\ DOMAIN app = {"keystore", "properties"}
      /\ signer \in [SignerFiles -> Signer!Holds]
      BY DEF SignerInv, ReleaseType, TransferType, Signer!Holds
<1>2. Signer!TypeOK
      BY <1>1, PrivateFacts
      DEF SignerInv, ReleaseType, TransferType, Signer!TypeOK, SignerFiles, PhoneFile
<1>.  QED
      BY <1>2 DEF SignerInv, MakerInv, TransferInv

\* The steps of a maker leave the phone alone.
LEMMA MakerKeeps ==
  ASSUME SignerInv, ReleaseType', MakerInv', faults' \in 0 .. MoreFaults, UNCHANGED <<app, transfer>>
  PROVE  SignerInv'
  BY DEF SignerInv, TransferType, TransferInv, Signer!Name, Signer!PrivateFilesAreExact

\* Nobody else has come as far as a maker that has a file.
LEMMA MakerAlone ==
  ASSUME SignerInv, NEW m \in Makers, maker[m] \in SignerFiles
  PROVE  /\ directory
         /\ \A n \in Makers \ {m} : maker[n] \notin Entered
  BY DEF SignerInv, ReleaseType, MakerInv, Entered, SignerFiles

LEMMA LookKeeps == ASSUME SignerInv, NEW m \in Makers, Signer!Look(m) PROVE SignerInv'
<1>1. ReleaseType' /\ UNCHANGED <<signer, directory>> /\ UNCHANGED <<app, transfer, faults>>
      BY DEF Signer!Look, Signer!Goes, Signer!development, SignerInv, ReleaseType
<1>2. \A n \in Makers : maker'[n] = maker[n] \/ (maker'[n] = "refused" /\ directory) \/ maker'[n] = "mkdir"
      BY DEF Signer!Look, Signer!Goes, SignerInv, ReleaseType
<1>3. MakerInv'
      BY <1>1, <1>2
      DEF SignerInv, ReleaseType, MakerInv, Stands, Entered, SignerFiles, Signer!MetadataMeansReady
<1>.  QED
      BY <1>1, <1>3, MakerKeeps DEF SignerInv

LEMMA MkDirKeeps == ASSUME SignerInv, NEW m \in Makers, Signer!MkDir(m) PROVE SignerInv'
<1>1. ReleaseType' /\ UNCHANGED signer /\ UNCHANGED <<app, transfer, faults>> /\ directory'
      BY OrderFacts
      DEF Signer!MkDir, Signer!Goes, Signer!development, SignerInv, ReleaseType, SignerFiles
<1>2. CASE directory
  <2>1. \A n \in Makers : maker'[n] = maker[n] \/ maker'[n] = "refused"
        BY <1>2 DEF Signer!MkDir, Signer!Goes, SignerInv, ReleaseType
  <2>2. MakerInv'
        BY <1>1, <1>2, <2>1
        DEF SignerInv, ReleaseType, MakerInv, Stands, Entered, SignerFiles, Signer!MetadataMeansReady
  <2>.  QED
        BY <1>1, <2>2, MakerKeeps DEF SignerInv
<1>3. CASE ~directory
  <2>1. maker'[m] = "store" /\ \A n \in Makers \ {m} : maker'[n] \in {"look", "mkdir"}
        BY <1>3, OrderFacts DEF Signer!MkDir, Signer!Goes, SignerInv, ReleaseType, MakerInv
  <2>2. \A f \in SignerFiles : signer'[f] = "absent"
        BY <1>1, <1>3 DEF SignerInv, MakerInv
  <2>3. MakerInv'
        BY <1>1, <2>1, <2>2
        DEF MakerInv, Stands, Entered, SignerFiles, ReleaseType, Signer!MetadataMeansReady
  <2>.  QED
        BY <1>1, <2>3, MakerKeeps DEF SignerInv
<1>.  QED
      BY <1>2, <1>3

LEMMA OpenFileKeeps == ASSUME SignerInv, NEW m \in Makers, Signer!OpenFile(m) PROVE SignerInv'
<1>1. maker[m] \in SignerFiles /\ signer[maker[m]] = "absent"
      BY DEF Signer!OpenFile, SignerInv, ReleaseType, MakerInv, Stands, SignerFiles
<1>2. /\ signer' = [signer EXCEPT ![maker[m]] = "torn"]
      /\ UNCHANGED <<maker, directory>> /\ UNCHANGED <<app, transfer, faults>>
      BY <1>1 DEF Signer!OpenFile, Signer!development
<1>3. ReleaseType'
      BY <1>1, <1>2 DEF SignerInv, ReleaseType
<1>4. MakerInv'
      BY <1>1, <1>2, MakerAlone
      DEF SignerInv, ReleaseType, MakerInv, Stands, Entered, SignerFiles, Signer!MetadataMeansReady
<1>.  QED
      BY <1>2, <1>3, <1>4, MakerKeeps DEF SignerInv

LEMMA WriteFileKeeps == ASSUME SignerInv, NEW m \in Makers, Signer!WriteFile(m) PROVE SignerInv'
<1>  DEFINE f == maker[m]
<1>1. f \in SignerFiles /\ UNCHANGED <<app, transfer, directory>> /\ faults' \in 0 .. MoreFaults
      BY BuildAssumption
      DEF Signer!WriteFile, Signer!Fault, Signer!development, SignerInv, ReleaseType
<1>2. CASE signer' = [signer EXCEPT ![f] = m] /\ Signer!Goes(m, Signer!After(f))
  <2>1. maker' = [maker EXCEPT ![m] = Signer!After(f)] /\ maker'[m] = Signer!After(f)
        /\ \A n \in Makers \ {m} : maker'[n] = maker[n]
        BY <1>2 DEF Signer!Goes, SignerInv, ReleaseType
  <2>2. Signer!After(f) \in SignerFiles \cup {"done"}
        BY <1>1, AfterFacts DEF SignerFiles
  <2>3. ReleaseType'
        BY <1>1, <1>2, <2>1, <2>2 DEF SignerInv, ReleaseType
  <2>4. \A n \in Makers \ {m} : maker'[n] \notin Entered
        BY <1>1, <2>1, MakerAlone
  <2>5. directory'
        BY <1>1, MakerAlone
  <2>6. \A n \in Makers :
          /\ Stands(n, "store", {}, {"properties", "certificate", "metadata"})'
          /\ Stands(n, "properties", {"store"}, {"certificate", "metadata"})'
          /\ Stands(n, "certificate", {"store", "properties"}, {"metadata"})'
          /\ Stands(n, "metadata", {"store", "properties", "certificate"}, {})'
        BY <1>1, <1>2, <2>1, <2>4, AfterFacts
        DEF SignerInv, ReleaseType, MakerInv, Stands, Entered, SignerFiles
  <2>7. Signer!MetadataMeansReady'
        BY <1>1, <1>2, BuildAssumption
        DEF SignerInv, ReleaseType, MakerInv, Stands, SignerFiles, Signer!MetadataMeansReady
  <2>8. MakerInv'
        BY <2>4, <2>5, <2>6, <2>7 DEF MakerInv
  <2>.  QED
        BY <1>1, <2>3, <2>8, MakerKeeps
<1>3. CASE Signer!Goes(m, "failed") /\ UNCHANGED signer
  <2>1. maker' = [maker EXCEPT ![m] = "failed"]
        BY <1>3 DEF Signer!Goes
  <2>2. ReleaseType'
        BY <1>1, <1>3, <2>1 DEF SignerInv, ReleaseType
  <2>3. MakerInv'
        BY <1>1, <1>3, <2>1, MakerAlone
        DEF SignerInv, ReleaseType, MakerInv, Stands, Entered, SignerFiles, Signer!MetadataMeansReady
  <2>.  QED
        BY <1>1, <2>2, <2>3, MakerKeeps
<1>.  QED
      BY <1>2, <1>3 DEF Signer!WriteFile

LEMMA KillMakerKeeps == ASSUME SignerInv, NEW m \in Makers, Signer!KillMaker(m) PROVE SignerInv'
<1>1. /\ maker[m] \in SignerFiles /\ maker' = [maker EXCEPT ![m] = "failed"]
      /\ UNCHANGED <<app, transfer, directory, signer>> /\ faults' \in 0 .. MoreFaults
      BY BuildAssumption
      DEF Signer!KillMaker, Signer!Goes, Signer!Fault, Signer!development, SignerInv, ReleaseType
<1>2. ReleaseType'
      BY <1>1 DEF SignerInv, ReleaseType
<1>3. MakerInv'
      BY <1>1, MakerAlone
      DEF SignerInv, ReleaseType, MakerInv, Stands, Entered, SignerFiles, Signer!MetadataMeansReady
<1>.  QED
      BY <1>1, <1>2, <1>3, MakerKeeps

\* The steps of a transfer leave the release signer alone.
LEMMA TransferKeeps ==
  ASSUME SignerInv, TransferType', TransferInv', faults' \in 0 .. MoreFaults,
         UNCHANGED <<directory, signer, maker>>
  PROVE  SignerInv'
  BY DEF SignerInv, ReleaseType, MakerInv, Stands, Entered, SignerFiles, Signer!MetadataMeansReady

LEMMA NameFacts ==
  ASSUME SignerInv
  PROVE  /\ Signer!Name = IF transfer.file = 1 THEN "keystore" ELSE "properties"
         /\ app[Signer!Name] \in PhoneFile
  BY PrivateFacts DEF SignerInv, TransferType, Signer!Name

\* A field that is written keeps the rest of its file, and the other file.
LEMMA GetsFacts ==
  ASSUME SignerInv, NEW c \in {"cut", "exact", "absent"}
  PROVE  /\ Signer!Gets("encoded", c) => app' = [app EXCEPT ![Signer!Name].encoded = c]
         /\ Signer!Gets("part", c) => app' = [app EXCEPT ![Signer!Name].part = c]
         /\ Signer!Gets("encoded", c) \/ Signer!Gets("part", c) =>
              /\ app' \in [{"keystore", "properties"} -> PhoneFile]
              /\ \A f \in {"keystore", "properties"} : app'[f].target = app[f].target
  BY NameFacts DEF Signer!Gets, SignerInv, TransferType, PhoneFile

LEMMA TransferStep ==
  ASSUME SignerInv,
         \/ Signer!Provision \/ Signer!List \/ Signer!Touch \/ Signer!Dd \/ Signer!Decode
         \/ Signer!Digest \/ Signer!Mv \/ Signer!Rm \/ Signer!KillProvision
  PROVE  SignerInv'
<1>  DEFINE n == Signer!Name
<1>0. TransferType /\ TransferInv /\ faults \in 0 .. MoreFaults
      BY DEF SignerInv
<1>1. CASE Signer!Provision
  <2>1. transfer' = [pc |-> "list", file |-> 1] /\ UNCHANGED <<directory, signer, maker, app, faults>>
        BY <1>1 DEF Signer!Provision, Signer!release
  <2>2. TransferType' /\ TransferInv'
        BY <1>0, <2>1 DEF TransferType, TransferInv, Signer!PrivateFilesAreExact
  <2>.  QED
        BY <1>0, <2>1, <2>2, TransferKeeps
<1>2. CASE Signer!List
  <2>1. UNCHANGED <<directory, signer, maker, app, faults>>
        BY <1>2 DEF Signer!List, Signer!release
  <2>2. \/ transfer' = [transfer EXCEPT !.pc = "touch"]
        \/ transfer' = Signer!Off
        \/ app[n].target = "exact" /\ transfer' = Signer!NextFile
        BY <1>2 DEF Signer!List, Signer!Turns
  <2>3. TransferType' /\ TransferInv'
        BY <1>0, <1>2, <2>1, <2>2, NameFacts, PrivateFacts
        DEF Signer!List, TransferType, TransferInv, Signer!Off, Signer!NextFile, Signer!PrivateFilesAreExact
  <2>.  QED
        BY <1>0, <2>1, <2>3, TransferKeeps
<1>3. CASE Signer!Touch
  <2>1. /\ UNCHANGED <<directory, signer, maker>> /\ faults' \in 0 .. MoreFaults
        /\ app' \in [{"keystore", "properties"} -> PhoneFile]
        /\ \A f \in {"keystore", "properties"} : app'[f].target = app[f].target
        BY <1>0, <1>3, NameFacts, GetsFacts, BuildAssumption
        DEF Signer!Touch, Signer!Fault, Signer!release, PhoneFile, TransferType
  <2>2. transfer' = [transfer EXCEPT !.pc = "dd"]
        BY <1>3 DEF Signer!Touch, Signer!Turns, Signer!Off
  <2>3. TransferType' /\ TransferInv'
        BY <1>0, <1>3, <2>1, <2>2, NameFacts, PrivateFacts
        DEF Signer!Touch, TransferType, TransferInv, Signer!PrivateFilesAreExact, Signer!Name
  <2>.  QED
        BY <2>1, <2>3, TransferKeeps
<1>4. CASE Signer!Dd
  <2>1. /\ UNCHANGED <<directory, signer, maker>> /\ faults' \in 0 .. MoreFaults
        /\ app' \in [{"keystore", "properties"} -> PhoneFile]
        /\ \A f \in {"keystore", "properties"} : app'[f].target = app[f].target
        BY <1>0, <1>4, NameFacts, GetsFacts, BuildAssumption
        DEF Signer!Dd, Signer!Fault, Signer!release, PhoneFile, TransferType
  <2>2. transfer' = [transfer EXCEPT !.pc = "decode"] \/ transfer' = [pc |-> "off", file |-> 1]
        BY <1>4 DEF Signer!Dd, Signer!Turns, Signer!Off
  <2>3. TransferType' /\ TransferInv'
        BY <1>0, <1>4, <2>1, <2>2, NameFacts, PrivateFacts
        DEF Signer!Dd, TransferType, TransferInv, Signer!PrivateFilesAreExact, Signer!Name
  <2>.  QED
        BY <2>1, <2>3, TransferKeeps
<1>5. CASE Signer!Decode
  <2>1. /\ UNCHANGED <<directory, signer, maker>> /\ faults' \in 0 .. MoreFaults
        /\ app' \in [{"keystore", "properties"} -> PhoneFile]
        /\ \A f \in {"keystore", "properties"} : app'[f].target = app[f].target
        BY <1>0, <1>5, NameFacts, GetsFacts, BuildAssumption
        DEF Signer!Decode, Signer!Fault, Signer!release, PhoneFile, TransferType
  <2>2. transfer' = [transfer EXCEPT !.pc = "digest"]
        BY <1>5 DEF Signer!Decode, Signer!Turns, Signer!Off
  <2>3. TransferType' /\ TransferInv'
        BY <1>0, <1>5, <2>1, <2>2, NameFacts, PrivateFacts
        DEF Signer!Decode, TransferType, TransferInv, Signer!PrivateFilesAreExact, Signer!Name
  <2>.  QED
        BY <2>1, <2>3, TransferKeeps
<1>6. CASE Signer!Digest
  <2>1. UNCHANGED <<directory, signer, maker, app, faults>>
        BY <1>6 DEF Signer!Digest, Signer!release
  <2>2. \/ transfer' = [pc |-> "off", file |-> 1]
        \/ transfer' = [transfer EXCEPT !.pc = "mv"] /\ app[n].part = "exact"
        BY <1>6 DEF Signer!Digest, Signer!Turns, Signer!Off
  <2>3. TransferType' /\ TransferInv'
        BY <1>0, <1>6, <2>1, <2>2, NameFacts, PrivateFacts
        DEF Signer!Digest, TransferType, TransferInv, Signer!PrivateFilesAreExact, Signer!Name
  <2>.  QED
        BY <1>0, <2>1, <2>3, TransferKeeps
<1>7. CASE Signer!Mv
  <2>1. UNCHANGED <<directory, signer, maker, faults>> /\ transfer' = [transfer EXCEPT !.pc = "rm"]
        BY <1>7 DEF Signer!Mv, Signer!release, Signer!Turns
  <2>2. app[n].part = "exact" /\ app[n] \in PhoneFile /\ n \in {"keystore", "properties"}
        BY <1>0, <1>7, NameFacts DEF Signer!Mv, TransferInv
  <2>3. app' = [app EXCEPT ![n] = [app[n] EXCEPT !.target = "exact", !.part = "absent"]]
        BY <1>0, <1>7, <2>2 DEF Signer!Mv, TransferType, PhoneFile
  <2>4. TransferType'
        BY <1>0, <2>1, <2>2, <2>3 DEF TransferType, PhoneFile
  <2>5. TransferInv'
        BY <1>0, <1>7, <2>1, <2>2, <2>3, NameFacts, PrivateFacts
        DEF Signer!Mv, TransferType, TransferInv, PhoneFile, Signer!PrivateFilesAreExact, Signer!Name
  <2>.  QED
        BY <1>0, <2>1, <2>4, <2>5, TransferKeeps
<1>8. CASE Signer!Rm
  <2>1. /\ UNCHANGED <<directory, signer, maker, faults>> /\ transfer' = Signer!NextFile
        /\ app' \in [{"keystore", "properties"} -> PhoneFile]
        /\ \A f \in {"keystore", "properties"} : app'[f].target = app[f].target
        BY <1>8, GetsFacts DEF Signer!Rm, Signer!release
  <2>2. app[n].target = "exact"
        BY <1>0, <1>8 DEF Signer!Rm, TransferInv
  <2>3. TransferType' /\ TransferInv'
        BY <1>0, <1>8, <2>1, <2>2, NameFacts, PrivateFacts
        DEF Signer!Rm, TransferType, TransferInv, Signer!PrivateFilesAreExact, Signer!NextFile, Signer!Off
  <2>.  QED
        BY <1>0, <2>1, <2>3, TransferKeeps
<1>9. CASE Signer!KillProvision
  <2>1. /\ UNCHANGED <<directory, signer, maker>> /\ faults' \in 0 .. MoreFaults
        /\ app' \in [{"keystore", "properties"} -> PhoneFile]
        /\ \A f \in {"keystore", "properties"} : app'[f].target = app[f].target
        BY <1>0, <1>9, NameFacts, GetsFacts, BuildAssumption
        DEF Signer!KillProvision, Signer!Fault, Signer!release, PhoneFile, TransferType
  <2>2. transfer' = [pc |-> "off", file |-> 1]
        BY <1>9 DEF Signer!KillProvision, Signer!Turns, Signer!Off
  <2>3. TransferType' /\ TransferInv'
        BY <1>0, <1>9, <2>1, <2>2, NameFacts, PrivateFacts
        DEF Signer!KillProvision, TransferType, TransferInv, Signer!PrivateFilesAreExact, Signer!Name
  <2>.  QED
        BY <2>1, <2>3, TransferKeeps
<1>.  QED
      BY <1>1, <1>2, <1>3, <1>4, <1>5, <1>6, <1>7, <1>8, <1>9

LEMMA SignerStep == SignerInv /\ [Signer!Next]_(<<signingVars, faults>>) => SignerInv'
<1>.  SUFFICES ASSUME SignerInv, [Signer!Next]_(<<signingVars, faults>>) PROVE SignerInv'
      OBVIOUS
<1>1. CASE UNCHANGED <<signingVars, faults>>
  <2>1. UNCHANGED <<directory, signer, maker, app, transfer, faults>>
        BY <1>1 DEF signingVars
  <2>2. TransferType' /\ TransferInv' /\ faults' \in 0 .. MoreFaults
        BY <2>1 DEF SignerInv, TransferType, TransferInv, Signer!Name, Signer!PrivateFilesAreExact
  <2>.  QED
        BY <2>1, <2>2, TransferKeeps
<1>.  QED
      BY <1>1, LookKeeps, MkDirKeeps, OpenFileKeeps, WriteFileKeeps, KillMakerKeeps, TransferStep
      DEF Signer!Next

-----------------------------------------------------------------------------
\* The export. Until somebody edits, what it has digested is in the source and in the
\* checkout; what is left and what is digested are apart, and hold every listed file.
Tables == UNION {[D -> Versions] : D \in SUBSET Export!Names}

ExportType ==
  [pc : {"idle", "read", "copy", "copying", "snapshot", "done"}, todo : SUBSET Export!Names,
   at : Export!Names \cup {NoFile}, data : Versions \cup {NoFile}, copied : Versions \cup {NoFile},
   hashes : Tables]

ExportTypes ==
  /\ source \in [Export!Names -> Versions \cup {NoFile}]
  /\ checkout \in [Export!Names -> Versions \cup {NoFile, Torn}]
  /\ snapshot # Torn => snapshot \in Tables
  /\ export \in ExportType
  /\ edited \in [count : 0 .. MaxEdits, since : BOOLEAN]
  /\ exported = [files |-> exported.files, snapshot |-> exported.snapshot]
  /\ exported.files \in [Export!Names -> Versions \cup {NoFile, Torn}]
  /\ exported.snapshot # Torn => exported.snapshot \in Tables
  /\ verified \in BOOLEAN /\ faults \in 0 .. MaxFaults

Exporting == {"read", "copy", "copying", "snapshot"}

ExporterInv ==
  /\ export.pc \in {"copy", "copying"} => export.at \in export.todo /\ export.data \in Versions
  /\ export.pc = "copying" => export.copied \in Versions
  /\ export.pc = "copying" /\ ~edited.since => export.copied = source[export.at]
  /\ export.pc \in Exporting =>
       /\ export.todo \cap DOMAIN export.hashes = {}
       /\ Listed \subseteq export.todo \cup DOMAIN export.hashes
  /\ export.pc = "snapshot" => export.todo = {}
  /\ export.pc \in Exporting /\ ~edited.since =>
       \A n \in DOMAIN export.hashes :
         checkout[n] = export.hashes[n] /\ source[n] = export.hashes[n]
  /\ export.pc \in {"copy", "copying"} /\ ~edited.since => export.data = source[export.at]
  /\ Export!QuietExportAgrees

ExportInv == ExportTypes /\ ExporterInv /\ Export!VerifiedIsWhole

LEMMA ExportInit == Export!Init => ExportInv
<1>.  SUFFICES ASSUME Export!Init PROVE ExportInv
      OBVIOUS
<1>1. snapshot \in Tables /\ export = Export!Idle
      BY DEF Export!Init, Tables, Export!Names
<1>2. export \in ExportType /\ export.pc = "idle"
  <2>1. export.hashes = <<>> /\ <<>> \in [{} -> Versions]
        BY <1>1 DEF Export!Idle
  <2>2. <<>> \in Tables
        BY <2>1 DEF Tables
  <2>.  QED
        BY <1>1, <2>1, <2>2 DEF Export!Idle, ExportType
<1>3. checkout \in [Export!Names -> Versions \cup {NoFile, Torn}]
  <2>1. ASSUME NEW n \in Export!Names
        PROVE  (IF n \in DOMAIN snapshot THEN snapshot[n] ELSE NoFile) \in Versions \cup {NoFile, Torn}
        BY DEF Export!Init
  <2>.  QED
        BY <2>1 DEF Export!Init
<1>4. /\ edited = [count |-> 0, since |-> FALSE] /\ verified = FALSE /\ faults = 0
      /\ exported = [files |-> checkout, snapshot |-> snapshot]
      /\ source \in [Export!Names -> Versions \cup {NoFile}]
      BY DEF Export!Init
<1>5. edited \in [count : 0 .. MaxEdits, since : BOOLEAN] /\ 0 \in 0 .. MaxFaults
      BY <1>4, BuildAssumption, InputsAssumption
<1>6. ExportTypes
      BY <1>1, <1>2, <1>3, <1>4, <1>5 DEF ExportTypes
<1>7. ExporterInv
      BY <1>2 DEF ExporterInv, Exporting, Export!QuietExportAgrees
<1>.  QED
      BY <1>4, <1>6, <1>7 DEF ExportInv, Export!VerifiedIsWhole

LEMMA ExportImplies ==
  ExportInv => Export!TypeOK /\ Export!QuietExportAgrees /\ Export!VerifiedIsWhole
<1>.  SUFFICES ASSUME ExportInv PROVE Export!TypeOK
      BY DEF ExportInv, ExporterInv
<1>1. \A t \in Tables : DOMAIN t \subseteq Export!Names
      BY DEF Tables
<1>2. export.hashes \in Tables /\ export \in ExportType
      BY DEF ExportInv, ExportTypes, ExportType
<1>.  QED
      BY <1>1, <1>2 DEF ExportInv, ExportTypes, ExportType, Export!TypeOK, Export!Contents

LEMMA ExportEdit ==
  ASSUME ExportInv, NEW n \in Export!Names, NEW v \in Versions \cup {NoFile}, Export!Edit(n, v)
  PROVE  ExportInv'
<1>1. /\ UNCHANGED <<checkout, snapshot, export, exported, verified, faults>> /\ edited'.since
      /\ source' = [source EXCEPT ![n] = v] /\ edited' = [count |-> edited.count + 1, since |-> TRUE]
      /\ edited.count < MaxEdits
      BY DEF Export!Edit, Export!release
<1>2. edited' \in [count : 0 .. MaxEdits, since : BOOLEAN]
      BY <1>1, BuildAssumption DEF ExportInv, ExportTypes
<1>3. ExportTypes'
      BY <1>1, <1>2 DEF ExportInv, ExportTypes
<1>.  QED
      BY <1>1, <1>3 DEF ExportInv, ExporterInv, Export!QuietExportAgrees, Export!VerifiedIsWhole

\* Steps of the exporter leave the archive alone.
LEMMA ExporterKeeps ==
  ASSUME ExportInv, export' \in ExportType, ExporterInv',
         UNCHANGED <<source, exported, verified>>,
         checkout' \in [Export!Names -> Versions \cup {NoFile, Torn}],
         snapshot' # Torn => snapshot' \in Tables,
         edited' \in [count : 0 .. MaxEdits, since : BOOLEAN], faults' \in 0 .. MaxFaults
  PROVE  ExportInv'
  BY DEF ExportInv, ExportTypes, Export!VerifiedIsWhole

LEMMA IdleExport ==
  ASSUME NEW pc \in {"idle", "read", "copy", "copying", "snapshot", "done"},
         NEW s \in SUBSET Export!Names
  PROVE  /\ [Export!Idle EXCEPT !.pc = pc, !.todo = s] \in ExportType
         /\ [Export!Idle EXCEPT !.pc = pc] \in ExportType
         /\ Export!Idle \in ExportType /\ Export!Idle.pc = "idle" /\ Export!Idle.hashes = <<>>
<1>1. <<>> \in [{} -> Versions]
      OBVIOUS
<1>2. <<>> \in Tables
      BY <1>1 DEF Tables
<1>.  QED
      BY <1>2 DEF Export!Idle, ExportType

LEMMA ExportStart == ASSUME ExportInv, Export!Start PROVE ExportInv'
<1>  DEFINE s == DOMAIN snapshot \cup Listed \cup {n \in Found : source[n] # NoFile}
<1>1. snapshot # Torn /\ snapshot \in Tables
      BY DEF Export!Start, ExportInv, ExportTypes
<1>2. s \in SUBSET Export!Names
      BY <1>1 DEF Tables, Export!Names
<1>3. /\ export' = [Export!Idle EXCEPT !.pc = "read", !.todo = s]
      /\ edited' = [edited EXCEPT !.since = FALSE]
      /\ UNCHANGED <<source, checkout, snapshot, exported, verified, faults>>
      BY DEF Export!Start, Export!release
<1>4. edited' \in [count : 0 .. MaxEdits, since : BOOLEAN]
      BY <1>3 DEF ExportInv, ExportTypes
<1>5. export'.pc = "read" /\ export'.todo = s /\ DOMAIN export'.hashes = {}
      BY <1>3 DEF Export!Idle
<1>6. Listed \subseteq s
      OBVIOUS
<1>   HIDE DEF s
<1>7. ExporterInv'
      BY <1>5, <1>6 DEF ExporterInv, Export!QuietExportAgrees
<1>8. export' \in ExportType
      BY <1>2, <1>3, IdleExport
<1>.  QED
      BY <1>1, <1>3, <1>4, <1>7, <1>8, ExporterKeeps DEF ExportInv, ExportTypes

\* A digest that is added to the table.
LEMMA HashedFacts ==
  ASSUME export \in ExportType, NEW n \in Export!Names, NEW v \in Versions
  PROVE  /\ Export!Hashed(n, v) \in Tables
         /\ DOMAIN Export!Hashed(n, v) = DOMAIN export.hashes \cup {n}
         /\ \A m \in DOMAIN export.hashes \cup {n} :
              Export!Hashed(n, v)[m] = IF m = n THEN v ELSE export.hashes[m]
<1>1. export.hashes \in Tables
      BY DEF ExportType
<1>2. PICK D \in SUBSET Export!Names : export.hashes \in [D -> Versions]
      BY <1>1 DEF Tables
<1>3. D = DOMAIN export.hashes
      BY <1>2
<1>4. Export!Hashed(n, v) \in [D \cup {n} -> Versions]
      BY <1>2, <1>3 DEF Export!Hashed
<1>.  QED
      BY <1>2, <1>3, <1>4 DEF Tables, Export!Hashed

\* An export that ends, without a result.
LEMMA ExportEnds ==
  ASSUME ExportInv, export' = Export!Idle,
         UNCHANGED <<source, checkout, snapshot, edited, exported, verified>>, faults' \in 0 .. MaxFaults
  PROVE  ExportInv'
<1>1. export' \in ExportType /\ export'.pc = "idle"
      BY IdleExport
<1>2. ExporterInv'
      BY <1>1 DEF ExporterInv, Exporting, Export!QuietExportAgrees
<1>.  QED
      BY <1>1, <1>2, ExporterKeeps DEF ExportInv, ExportTypes

LEMMA ExportRead == ASSUME ExportInv, NEW n \in Export!Names, Export!Read(n) PROVE ExportInv'
<1>1. /\ UNCHANGED <<source, checkout, snapshot, edited, exported, verified, faults>>
      /\ export.pc = "read" /\ n \in export.todo /\ export \in ExportType
      BY DEF Export!Read, Export!release, ExportInv, ExportTypes
<1>2. CASE source[n] = NoFile
      BY <1>1, <1>2, ExportEnds DEF Export!Read, ExportInv, ExportTypes
<1>3. CASE source[n] # NoFile
  <2>1. source[n] \in Versions
        BY <1>3 DEF ExportInv, ExportTypes
  <2>2. CASE checkout[n] = source[n]
    <3>1. export' = [export EXCEPT !.todo = export.todo \ {n}, !.hashes = Export!Hashed(n, source[n])]
          BY <1>3, <2>2 DEF Export!Read
    <3>2. /\ export'.pc = "read" /\ export'.todo = export.todo \ {n}
          /\ export'.hashes = Export!Hashed(n, source[n]) /\ export' \in ExportType
          BY <1>1, <2>1, <3>1, HashedFacts DEF ExportType
    <3>3. /\ DOMAIN export'.hashes = DOMAIN export.hashes \cup {n}
          /\ \A m \in DOMAIN export.hashes \cup {n} :
               export'.hashes[m] = IF m = n THEN source[n] ELSE export.hashes[m]
      <4>1. /\ DOMAIN Export!Hashed(n, source[n]) = DOMAIN export.hashes \cup {n}
            /\ \A m \in DOMAIN export.hashes \cup {n} :
                 Export!Hashed(n, source[n])[m] = IF m = n THEN source[n] ELSE export.hashes[m]
            BY <1>1, <2>1, HashedFacts
      <4>.  QED
            BY <3>2, <4>1
    <3>4. ExporterInv'
      <4>1. /\ export'.todo \cap DOMAIN export'.hashes = {}
            /\ Listed \subseteq export'.todo \cup DOMAIN export'.hashes
            BY <1>1, <3>2, <3>3 DEF ExportInv, ExporterInv, Exporting
      <4>2. ASSUME ~edited.since, NEW m \in DOMAIN export'.hashes
            PROVE  checkout[m] = export'.hashes[m] /\ source[m] = export'.hashes[m]
            BY <1>1, <2>2, <3>3, <4>2 DEF ExportInv, ExporterInv, Exporting
      <4>.  QED
            BY <1>1, <3>2, <4>1, <4>2 DEF ExporterInv, Exporting, Export!QuietExportAgrees
    <3>.  QED
          BY <1>1, <3>2, <3>4, ExporterKeeps DEF ExportInv, ExportTypes
  <2>3. CASE checkout[n] # source[n]
    <3>1. export' = [export EXCEPT !.pc = "copy", !.at = n, !.data = source[n]]
          BY <1>3, <2>3 DEF Export!Read
    <3>2. /\ export'.pc = "copy" /\ export'.at = n /\ export'.data = source[n]
          /\ export'.todo = export.todo /\ export'.hashes = export.hashes /\ export' \in ExportType
          BY <1>1, <2>1, <3>1 DEF ExportType
    <3>3. ExporterInv'
          BY <1>1, <2>1, <3>2 DEF ExportInv, ExporterInv, Exporting, Export!QuietExportAgrees
    <3>.  QED
          BY <1>1, <3>2, <3>3, ExporterKeeps DEF ExportInv, ExportTypes
  <2>.  QED
        BY <2>2, <2>3
<1>.  QED
      BY <1>2, <1>3

LEMMA ExportCopyOpen == ASSUME ExportInv, Export!CopyOpen PROVE ExportInv'
<1>1. /\ UNCHANGED <<source, snapshot, edited, exported, verified, faults>>
      /\ export.pc = "copy" /\ export \in ExportType /\ export.at \in export.todo
      /\ export.at \in Export!Names
      BY DEF Export!CopyOpen, Export!release, ExportInv, ExportTypes, ExporterInv, ExportType
<1>2. CASE source[export.at] = NoFile
      BY <1>1, <1>2, ExportEnds DEF Export!CopyOpen, ExportInv, ExportTypes
<1>3. CASE source[export.at] # NoFile
  <2>1. source[export.at] \in Versions
        BY <1>1, <1>3 DEF ExportInv, ExportTypes
  <2>2. /\ export' = [export EXCEPT !.pc = "copying", !.copied = source[export.at]]
        /\ checkout' = [checkout EXCEPT ![export.at] = Torn]
        BY <1>3 DEF Export!CopyOpen
  <2>3. /\ export'.pc = "copying" /\ export'.at = export.at /\ export'.data = export.data
        /\ export'.copied = source[export.at] /\ export'.todo = export.todo
        /\ export'.hashes = export.hashes /\ export' \in ExportType
        BY <1>1, <2>1, <2>2 DEF ExportType
  <2>4. checkout' \in [Export!Names -> Versions \cup {NoFile, Torn}]
        BY <2>2 DEF ExportInv, ExportTypes
  <2>5. \A m \in DOMAIN export.hashes : checkout'[m] = checkout[m]
        BY <1>1, <2>2 DEF ExportInv, ExportTypes, ExporterInv, Exporting
  <2>6. ExporterInv'
        BY <1>1, <2>1, <2>3, <2>5 DEF ExportInv, ExporterInv, Exporting, Export!QuietExportAgrees
  <2>.  QED
        BY <1>1, <2>3, <2>4, <2>6, ExporterKeeps DEF ExportInv, ExportTypes
<1>.  QED
      BY <1>2, <1>3

LEMMA ExportCopyEnd == ASSUME ExportInv, Export!CopyEnd PROVE ExportInv'
<1>1. /\ UNCHANGED <<source, snapshot, edited, exported, verified, faults>>
      /\ export.pc = "copying" /\ export \in ExportType /\ export.at \in export.todo
      /\ export.at \in Export!Names /\ export.data \in Versions /\ export.copied \in Versions
      BY DEF Export!CopyEnd, Export!release, ExportInv, ExportTypes, ExporterInv, ExportType
<1>  DEFINE c == IF source[export.at] = NoFile THEN export.copied ELSE source[export.at]
<1>2. /\ export' = [export EXCEPT !.pc = "read", !.todo = export.todo \ {export.at}, !.copied = NoFile,
                                  !.hashes = Export!Hashed(export.at, export.data)]
      /\ checkout' = [checkout EXCEPT ![export.at] = c]
      BY DEF Export!CopyEnd
<1>3. /\ export'.pc = "read" /\ export'.todo = export.todo \ {export.at}
      /\ export'.hashes = Export!Hashed(export.at, export.data) /\ export' \in ExportType
      BY <1>1, <1>2, HashedFacts DEF ExportType
<1>4. checkout' \in [Export!Names -> Versions \cup {NoFile, Torn}] /\ checkout'[export.at] = c
      /\ \A m \in Export!Names : m # export.at => checkout'[m] = checkout[m]
      BY <1>1, <1>2 DEF ExportInv, ExportTypes
<1>5. DOMAIN export.hashes \subseteq Export!Names
      BY <1>1 DEF ExportType, Tables
<1>6. /\ DOMAIN export'.hashes = DOMAIN export.hashes \cup {export.at}
      /\ \A m \in DOMAIN export.hashes \cup {export.at} :
           export'.hashes[m] = IF m = export.at THEN export.data ELSE export.hashes[m]
  <2>1. /\ DOMAIN Export!Hashed(export.at, export.data) = DOMAIN export.hashes \cup {export.at}
        /\ \A m \in DOMAIN export.hashes \cup {export.at} :
             Export!Hashed(export.at, export.data)[m] =
               IF m = export.at THEN export.data ELSE export.hashes[m]
        BY <1>1, HashedFacts
  <2>.  QED
        BY <1>3, <2>1
<1>7. /\ export'.todo \cap DOMAIN export'.hashes = {}
      /\ Listed \subseteq export'.todo \cup DOMAIN export'.hashes
      BY <1>1, <1>3, <1>6 DEF ExportInv, ExporterInv, Exporting
<1>8. ASSUME ~edited.since, NEW n \in DOMAIN export'.hashes
      PROVE  checkout'[n] = export'.hashes[n] /\ source[n] = export'.hashes[n]
  <2>2. export.data = source[export.at] /\ export.copied = source[export.at]
        BY <1>1, <1>8 DEF ExportInv, ExporterInv
  <2>3. CASE n = export.at
        BY <1>1, <1>4, <1>6, <2>2, <2>3
  <2>4. CASE n # export.at
        BY <1>1, <1>4, <1>5, <1>6, <1>8, <2>4 DEF ExportInv, ExporterInv, Exporting
  <2>.  QED
        BY <2>3, <2>4
<1>9. ExporterInv'
      BY <1>1, <1>3, <1>7, <1>8 DEF ExporterInv, Exporting, Export!QuietExportAgrees
<1>.  QED
      BY <1>1, <1>3, <1>4, <1>9, ExporterKeeps DEF ExportInv, ExportTypes

LEMMA ExportSnapshot ==
  ASSUME ExportInv, Export!SnapshotOpen \/ Export!SnapshotEnd PROVE ExportInv'
<1>1. export \in ExportType /\ export.hashes \in Tables
      BY DEF ExportInv, ExportTypes, ExportType
<1>2. CASE Export!SnapshotOpen
  <2>1. /\ UNCHANGED <<source, checkout, edited, exported, verified, faults>> /\ snapshot' = Torn
        /\ export.pc = "read" /\ export.todo = {} /\ export' = [export EXCEPT !.pc = "snapshot"]
        BY <1>2 DEF Export!SnapshotOpen, Export!release
  <2>2. /\ export'.pc = "snapshot" /\ export'.todo = {} /\ export'.hashes = export.hashes
        /\ export' \in ExportType
        BY <1>1, <2>1 DEF ExportType
  <2>3. ExporterInv'
        BY <2>1, <2>2 DEF ExportInv, ExporterInv, Exporting, Export!QuietExportAgrees
  <2>.  QED
        BY <2>1, <2>2, <2>3, ExporterKeeps DEF ExportInv, ExportTypes
<1>3. CASE Export!SnapshotEnd
  <2>1. /\ UNCHANGED <<source, checkout, edited, exported, verified, faults>>
        /\ snapshot' = export.hashes /\ export.pc = "snapshot"
        /\ export' = [Export!Idle EXCEPT !.pc = "done"]
        BY <1>3 DEF Export!SnapshotEnd, Export!release
  <2>2. export'.pc = "done" /\ export' \in ExportType
        BY <2>1, IdleExport DEF Export!Idle
  <2>3. ExporterInv'
        BY <2>1, <2>2 DEF ExportInv, ExporterInv, Exporting, Export!QuietExportAgrees
  <2>.  QED
        BY <1>1, <2>1, <2>2, <2>3, ExporterKeeps DEF ExportInv, ExportTypes
<1>.  QED
      BY <1>2, <1>3

LEMMA ExportArchive == ASSUME ExportInv, Export!Archive \/ Export!Verify PROVE ExportInv'
<1>1. UNCHANGED <<source, checkout, snapshot, export, edited, faults>>
      BY DEF Export!Archive, Export!Verify
<1>2. ExporterInv'
      BY <1>1 DEF ExportInv, ExporterInv, Exporting, Export!QuietExportAgrees
<1>3. CASE Export!Archive
  <2>1. exported' = [files |-> checkout, snapshot |-> snapshot] /\ verified' = FALSE
        BY <1>3 DEF Export!Archive
  <2>2. exported'.files = checkout /\ exported'.snapshot = snapshot
        /\ exported' = [files |-> exported'.files, snapshot |-> exported'.snapshot]
        BY <2>1
  <2>3. ExportTypes'
        BY <1>1, <2>1, <2>2 DEF ExportInv, ExportTypes
  <2>.  QED
        BY <1>2, <2>1, <2>3 DEF ExportInv, Export!VerifiedIsWhole
<1>4. CASE Export!Verify
  <2>1. Export!Matches /\ verified' = TRUE /\ UNCHANGED exported
        BY <1>4 DEF Export!Verify
  <2>2. ExportTypes'
        BY <1>1, <2>1 DEF ExportInv, ExportTypes
  <2>3. \A t \in Tables : \A n \in DOMAIN t : t[n] \in Versions
        BY DEF Tables
  <2>4. Export!VerifiedIsWhole'
        BY <2>1, <2>3 DEF Export!Matches, Export!VerifiedIsWhole, ExportInv, ExportTypes
  <2>.  QED
        BY <1>2, <2>2, <2>4 DEF ExportInv
<1>.  QED
      BY <1>3, <1>4

LEMMA ExportStep == ExportInv /\ [Export!Next]_(<<exportVars, faults>>) => ExportInv'
<1>.  SUFFICES ASSUME ExportInv, [Export!Next]_(<<exportVars, faults>>) PROVE ExportInv'
      OBVIOUS
<1>1. CASE Export!Kill
  <2>1. /\ export' = Export!Idle /\ faults' = faults + 1 /\ faults < MaxFaults
        /\ UNCHANGED <<source, checkout, snapshot, edited, exported, verified>>
        BY <1>1 DEF Export!Kill, Export!release
  <2>2. faults' \in 0 .. MaxFaults
        BY <2>1, InputsAssumption DEF ExportInv, ExportTypes
  <2>.  QED
        BY <2>1, <2>2, ExportEnds
<1>2. CASE UNCHANGED <<exportVars, faults>>
  <2>1. UNCHANGED <<source, checkout, snapshot, export, edited, exported, verified, faults>>
        BY <1>2 DEF exportVars
  <2>.  QED
        BY <2>1
        DEF ExportInv, ExportTypes, ExporterInv, Export!QuietExportAgrees, Export!VerifiedIsWhole
<1>.  QED
      BY <1>1, <1>2, ExportEdit, ExportStart, ExportRead, ExportCopyOpen, ExportCopyEnd,
         ExportSnapshot, ExportArchive
      DEF Export!Next

-----------------------------------------------------------------------------
\* The delta. What create() has looked at is rebuilt by the spans so far; one applier at a
\* time has the part, and the part is what that one has written; the phone's script does not
\* run again over what it has announced.
Writing == {"write", "replace"}

\* Span after span, ss yields the new APK up to a point: reach says to which.
Chain(ss, reach) ==
  /\ reach \in [0 .. Len(ss) -> 0 .. Len(new.data)]
  /\ reach[0] = 0
  /\ \A k \in 1 .. Len(ss) :
       /\ reach[k - 1] <= reach[k]
       /\ Delta!Data(ss[k]) = Delta!Slice(new.data, reach[k - 1], reach[k])

\* A patch that is being made reaches its cursor, an intact one the end; and an applier has
\* written what the spans before the one it is at reach.
Rebuilds ==
  \E reach :
    /\ Chain(spans, reach)
    /\ reach[Len(spans)] = (IF delivery = "none" THEN cursor ELSE Len(new.data))
    /\ \A a \in Appliers : applier[a].pc = "write" =>
         applier[a].written = Delta!Slice(new.data, 0, reach[applier[a].at - 1])

DeltaInv ==
  /\ Delta!TypeOK
  /\ \A e \in todo : cursor <= e.offset
  /\ delivery = "none" => script = 0 /\ \A a \in Appliers : applier[a].pc = "idle"
  /\ delivery # "damaged" => Rebuilds
  /\ \A a \in Appliers : applier[a].pc = "write" => applier[a].at # 0
  /\ \A a \in Appliers : applier[a].pc \in Writing => partial = {applier[a].written}
  /\ \A a \in Appliers : applier[a].pc = "replace" => applier[a].written = new.data
  /\ \A a, b \in Appliers : applier[a].pc \in Writing /\ applier[b].pc \in Writing => a = b
  /\ script # 0 => ~announced
  /\ Delta!GoodPatchApplies
  /\ Delta!OutputIsExact /\ Delta!PartIsOwned /\ Delta!AnnouncedIsExact

ApplierStates ==
  {"idle", "open", "write", "replace", "done", "refused", "failed", "differs", "killed"}
ApplierType == [pc : ApplierStates, at : 0 .. Len(spans) + 1, written : Seq(Nat)]

LEMMA SliceFacts ==
  ASSUME NEW s \in Seq(Nat), NEW i \in 0 .. Len(s), NEW j \in i .. Len(s)
  PROVE  /\ Delta!Slice(s, i, j) \in Seq(Nat)
         /\ Len(Delta!Slice(s, i, j)) = j - i
         /\ Delta!Slice(s, 0, i) \o Delta!Slice(s, i, j) = Delta!Slice(s, 0, j)
         /\ Delta!Slice(s, i, i) = <<>>
         /\ Delta!Slice(s, 0, Len(s)) = s
<1>1. Len(s) \in Nat /\ i \in Nat /\ j \in Nat /\ i <= j /\ j <= Len(s)
      OBVIOUS
<1>2. \A k \in i + 1 .. j : s[k] \in Nat
      BY <1>1
<1>3. /\ SubSeq(s, i + 1, j) \in Seq(Nat)
      /\ Len(SubSeq(s, i + 1, j)) = IF i + 1 <= j THEN j - (i + 1) + 1 ELSE 0
      BY <1>1, <1>2, SubSeqProperties, SMT
<1>4. SubSeq(s, 1, i) \o SubSeq(s, i + 1, j) = SubSeq(s, 1, j)
      BY <1>1, ConcatAdjacentSubSeq
<1>5. SubSeq(s, i + 1, i) = <<>>
      BY <1>1, SubSeqEmpty
<1>6. SubSeq(s, 1, Len(s)) = s
      BY SubSeqFull
<1>.  QED
      BY <1>1, <1>3, <1>4, <1>5, <1>6 DEF Delta!Slice

\* What a well-formed APK is made of.
LEMMA ApkFacts ==
  ASSUME NEW a \in Apks
  PROVE  /\ a.data \in Seq(Nat)
         /\ \A e \in a.entries :
              /\ e.offset \in Nat /\ e.size \in Nat
              /\ Delta!Start(a, e) \in Nat /\ Delta!Start(a, e) >= e.offset
              /\ Delta!End(a, e) = Delta!Start(a, e) + e.size
              /\ Delta!End(a, e) <= Len(a.data)
         /\ \A e, f \in a.entries : e # f /\ e.offset <= f.offset => Delta!End(a, e) <= f.offset
<1>1. /\ a.data \in Seq(Nat)
      /\ \A e \in a.entries :
           /\ e.offset \in Nat /\ e.size \in Nat /\ e.offset + 2 <= Len(a.data)
           /\ a.data[e.offset + 1] = 0 /\ Delta!End(a, e) <= Len(a.data)
      /\ \A e, f \in a.entries :
           e # f => Delta!End(a, e) <= f.offset \/ Delta!End(a, f) <= e.offset
      BY DeltaAssumption DEF Delta!WellFormed, Delta!Fixed, Delta!Mark
<1>2. ASSUME NEW e \in a.entries
      PROVE  /\ Delta!Start(a, e) \in Nat /\ Delta!Start(a, e) >= e.offset + 2
             /\ Delta!End(a, e) = Delta!Start(a, e) + e.size
  <2>1. e.offset + 2 \in 1 .. Len(a.data)
        BY <1>1
  <2>2. a.data[e.offset + 2] \in Nat /\ e.offset \in Nat
        BY <1>1, <2>1
  <2>3. Delta!Start(a, e) = e.offset + 2 + a.data[e.offset + 2]
        BY DEF Delta!Start, Delta!Fixed
  <2>4. Delta!End(a, e) = Delta!Start(a, e) + e.size
        BY DEF Delta!End
  <2>.  QED
        BY <2>2, <2>3, <2>4
<1>3. ASSUME NEW e \in a.entries, NEW f \in a.entries, e # f, e.offset <= f.offset
      PROVE  Delta!End(a, e) <= f.offset
  <2>1. /\ Delta!Start(a, f) \in Nat /\ Delta!Start(a, f) >= f.offset + 2
        /\ Delta!End(a, f) = Delta!Start(a, f) + f.size
        /\ e.offset \in Nat /\ f.offset \in Nat /\ f.size \in Nat
        BY <1>1, <1>2
  <2>2. ~(Delta!End(a, f) <= e.offset)
        BY <1>3, <2>1
  <2>.  QED
        BY <1>1, <1>3, <2>2
<1>.  QED
      BY <1>1, <1>2, <1>3

LEMMA DataType ==
  ASSUME Delta!TypeOK, NEW s \in Delta!Spans
  PROVE  Delta!Data(s) \in Seq(Nat)
<1>1. old.data \in Seq(Nat)
      BY ApkFacts DEF Delta!TypeOK
<1>2. CASE s \in [copy : {FALSE}, data : Seq(Nat)]
      BY <1>2 DEF Delta!Data
<1>3. CASE s \in {t \in [copy : {TRUE}, start : Nat, size : Nat] :
                    t.start + t.size <= Len(old.data)}
  <2>1. /\ s.copy /\ s.start \in 0 .. Len(old.data)
        /\ s.start + s.size \in s.start .. Len(old.data)
    <3>1. s \in [copy : {TRUE}, start : Nat, size : Nat] /\ s.start + s.size <= Len(old.data)
          BY <1>3
    <3>2. s.copy
          BY <3>1
    <3>3. s.start \in Nat /\ s.size \in Nat
          BY <3>1
    <3>4. Len(old.data) \in Nat
          BY <1>1
    <3>.  QED
          BY <3>1, <3>2, <3>3, <3>4
  <2>.  QED
        BY <1>1, <2>1, SliceFacts DEF Delta!Data
<1>.  QED
      BY <1>2, <1>3 DEF Delta!Spans

LEMMA DeltaInit == Delta!Init => DeltaInv
<1>.  SUFFICES ASSUME Delta!Init PROVE DeltaInv
      OBVIOUS
<1>1. /\ old \in Apks /\ new \in Apks /\ todo = new.entries /\ cursor = 0 /\ spans = <<>>
      /\ delivery = "none" /\ partial = {} /\ output = {} /\ phone = {} /\ script = 0
      /\ announced = FALSE /\ faults = 0
      /\ applier = [a \in Appliers |-> [pc |-> "idle", at |-> 0, written |-> <<>>]]
      BY DEF Delta!Init, Delta!Idle, Delta!Missing
<1>2. \A a \in Appliers : applier[a] = [pc |-> "idle", at |-> 0, written |-> <<>>]
      BY <1>1
<1>3. Len(new.data) \in Nat /\ \A e \in todo : 0 <= e.offset
      BY <1>1, ApkFacts
<1>4. Delta!TypeOK
  <2>1. applier \in [Appliers -> ApplierType]
        BY <1>1 DEF ApplierType, ApplierStates
  <2>2. spans \in Seq(Delta!Spans) /\ Len(spans) = 0
        BY <1>1
  <2>3. Delta!IsFile(partial) /\ Delta!IsFile(output) /\ Delta!IsFile(phone)
        BY <1>1 DEF Delta!IsFile
  <2>4. /\ todo \subseteq new.entries /\ cursor \in 0 .. Len(new.data)
        /\ faults \in 0 .. MaxFaults /\ script \in 0 .. Len(spans) + 1
        BY <1>1, <1>3, <2>2, InputsAssumption
  <2>.  QED
        BY <1>1, <2>1, <2>2, <2>3, <2>4 DEF Delta!TypeOK, ApplierType, ApplierStates
<1>5. Rebuilds
  <2>  DEFINE reach == [k \in 0 .. 0 |-> 0]
  <2>1. Chain(spans, reach)
        BY <1>1, <1>3 DEF Chain
  <2>.  QED
        BY <1>1, <1>2, <2>1 DEF Rebuilds
<1>.  QED
      BY <1>1, <1>2, <1>3, <1>4, <1>5
      DEF DeltaInv, Writing, Delta!OutputIsExact, Delta!PartIsOwned, Delta!AnnouncedIsExact,
          Delta!Missing, Delta!GoodPatchApplies

-----------------------------------------------------------------------------
\* A chain grows by a span.
Stretched(ss, reach, to) == [k \in 0 .. Len(ss) + 1 |-> IF k <= Len(ss) THEN reach[k] ELSE to]

LEMMA ChainGrows ==
  ASSUME new \in Apks, NEW ss \in Seq(Delta!Spans), NEW reach, Chain(ss, reach),
         NEW s \in Delta!Spans, NEW to \in reach[Len(ss)] .. Len(new.data),
         Delta!Data(s) = Delta!Slice(new.data, reach[Len(ss)], to)
  PROVE  /\ Append(ss, s) \in Seq(Delta!Spans) /\ Len(Append(ss, s)) = Len(ss) + 1
         /\ Chain(Append(ss, s), Stretched(ss, reach, to))
         /\ Stretched(ss, reach, to)[Len(Append(ss, s))] = to
<1>  DEFINE after == Append(ss, s)
            far == Stretched(ss, reach, to)
<1>1. Len(ss) \in Nat /\ Len(new.data) \in Nat
      BY ApkFacts
<1>2. /\ after \in Seq(Delta!Spans) /\ Len(after) = Len(ss) + 1
      /\ \A k \in 1 .. Len(ss) : after[k] = ss[k]
      /\ after[Len(ss) + 1] = s
      BY AppendProperties
<1>3. /\ reach \in [0 .. Len(ss) -> 0 .. Len(new.data)] /\ reach[0] = 0
      /\ reach[Len(ss)] \in 0 .. Len(new.data)
      BY <1>1 DEF Chain
<1>4. (\A k \in 0 .. Len(ss) : far[k] = reach[k]) /\ far[Len(ss) + 1] = to
      BY <1>1 DEF Stretched
<1>   HIDE DEF after
<1>5. far \in [0 .. Len(after) -> 0 .. Len(new.data)]
      BY <1>1, <1>2, <1>3 DEF Stretched
<1>   HIDE DEF far
<1>6. ASSUME NEW k \in 1 .. Len(after)
      PROVE  /\ far[k - 1] <= far[k]
             /\ Delta!Data(after[k]) = Delta!Slice(new.data, far[k - 1], far[k])
  <2>1. CASE k <= Len(ss)
    <3>1. k \in 1 .. Len(ss) /\ k - 1 \in 0 .. Len(ss) /\ k \in 0 .. Len(ss)
          BY <1>1, <2>1
    <3>.  QED
          BY <1>2, <1>4, <3>1 DEF Chain
  <2>2. CASE k = Len(ss) + 1
    <3>1. k - 1 = Len(ss) /\ Len(ss) \in 0 .. Len(ss)
          BY <1>1, <2>2
    <3>2. far[k - 1] = reach[Len(ss)] /\ far[k] = to /\ after[k] = s
          BY <1>2, <1>4, <2>2, <3>1
    <3>.  QED
          BY <1>3, <3>2
  <2>.  QED
        BY <1>1, <1>2, <2>1, <2>2
<1>7. far[0] = 0 /\ far[Len(after)] = to
      BY <1>1, <1>2, <1>3, <1>4
<1>8. Chain(after, far)
      BY <1>5, <1>6, <1>7 DEF Chain
<1>.  QED
      BY <1>2, <1>7, <1>8 DEF after, far

LEMMA LiteralFacts ==
  ASSUME NEW b \in Seq(Nat)
  PROVE  Delta!Literal(b) \in Delta!Spans /\ Delta!Data(Delta!Literal(b)) = b
BY DEF Delta!Literal, Delta!Spans, Delta!Data

\* A literal from the end of a chain onwards.
LEMMA LiteralGrows ==
  ASSUME new \in Apks, NEW ss \in Seq(Delta!Spans), NEW reach, Chain(ss, reach),
         NEW to \in reach[Len(ss)] .. Len(new.data),
         NEW s, s = Delta!Literal(Delta!Slice(new.data, reach[Len(ss)], to))
  PROVE  /\ Append(ss, s) \in Seq(Delta!Spans) /\ Len(Append(ss, s)) = Len(ss) + 1
         /\ Chain(Append(ss, s), Stretched(ss, reach, to))
         /\ Stretched(ss, reach, to)[Len(Append(ss, s))] = to
<1>1. new.data \in Seq(Nat) /\ reach[Len(ss)] \in 0 .. Len(new.data)
      BY ApkFacts DEF Chain
<1>2. Delta!Slice(new.data, reach[Len(ss)], to) \in Seq(Nat)
      BY <1>1, SliceFacts
<1>3. s \in Delta!Spans /\ Delta!Data(s) = Delta!Slice(new.data, reach[Len(ss)], to)
      BY <1>2, LiteralFacts
<1>.  QED
      BY <1>3, ChainGrows

\* What create() does to the patch leaves the rest of the invariant alone.
LEMMA CreateKeeps ==
  ASSUME DeltaInv, delivery = "none",
         UNCHANGED <<old, new, partial, output, applier, phone, script, announced, faults>>,
         todo' \subseteq todo, cursor' \in 0 .. Len(new.data),
         delivery' \in {"none", "intact", "damaged"},
         spans' \in Seq(Delta!Spans), Len(spans') \in Nat, Len(spans') >= Len(spans),
         \A e \in todo' : cursor' <= e.offset,
         delivery' # "damaged" =>
           \E reach : Chain(spans', reach)
             /\ reach[Len(spans')] = (IF delivery' = "none" THEN cursor' ELSE Len(new.data))
  PROVE  DeltaInv'
<1>1. Delta!TypeOK'
  <2>1. Len(spans) \in Nat /\ Len(spans) + 1 <= Len(spans') + 1
        BY DEF DeltaInv, Delta!TypeOK
  <2>2. 0 .. Len(spans) + 1 \subseteq 0 .. Len(spans') + 1
        BY <2>1
  <2>3. Delta!Spans' = Delta!Spans
        BY DEF Delta!Spans
  <2>4. applier \in [Appliers -> ApplierType] /\ script \in 0 .. Len(spans) + 1
        BY DEF DeltaInv, Delta!TypeOK, ApplierType, ApplierStates
  <2>5. ApplierType \subseteq ApplierType'
        BY <2>2 DEF ApplierType
  <2>6. applier' \in [Appliers -> ApplierType'] /\ script' \in 0 .. Len(spans') + 1
        BY <2>2, <2>4, <2>5
  <2>7. spans' \in Seq(Delta!Spans')
        BY <2>3
  <2>8. Delta!IsFile(partial)' /\ Delta!IsFile(output)' /\ Delta!IsFile(phone)'
        BY DEF DeltaInv, Delta!TypeOK, Delta!IsFile
  <2>.  QED
        BY <2>6, <2>7, <2>8 DEF DeltaInv, Delta!TypeOK, ApplierType, ApplierStates
<1>2. \A a \in Appliers : applier[a].pc = "idle" /\ applier'[a].pc = "idle"
      BY DEF DeltaInv
<1>3. delivery' # "damaged" => Rebuilds'
  <2>  SUFFICES ASSUME delivery' # "damaged" PROVE Rebuilds'
       OBVIOUS
  <2>1. PICK reach : Chain(spans', reach)
          /\ reach[Len(spans')] = (IF delivery' = "none" THEN cursor' ELSE Len(new.data))
        OBVIOUS
  <2>2. Chain(spans, reach)'
        BY <2>1 DEF Chain, Delta!Data
  <2>.  QED
        BY <1>2, <2>1, <2>2 DEF Rebuilds
<1>4. Delta!OutputIsExact' /\ Delta!PartIsOwned' /\ Delta!AnnouncedIsExact'
      BY DEF DeltaInv, Delta!OutputIsExact, Delta!PartIsOwned, Delta!AnnouncedIsExact,
             Delta!Missing
<1>5. Delta!GoodPatchApplies'
      BY <1>2 DEF Delta!GoodPatchApplies
<1>.  QED
      BY <1>1, <1>2, <1>3, <1>4, <1>5 DEF DeltaInv, Writing

LEMMA CreateStep == ASSUME DeltaInv, Delta!Create PROVE DeltaInv'
<1>1. /\ old \in Apks /\ new \in Apks /\ spans \in Seq(Delta!Spans) /\ todo \subseteq new.entries
      /\ cursor \in 0 .. Len(new.data)
      BY DEF DeltaInv, Delta!TypeOK
<1>2. new.data \in Seq(Nat) /\ Len(new.data) \in Nat /\ Len(spans) \in Nat /\ cursor \in Nat
      BY <1>1, ApkFacts
<1>3. delivery = "none"
      BY DEF Delta!Create, Delta!Skip, Delta!Share, Delta!Look, Delta!Send
<1>4. PICK reach : Chain(spans, reach) /\ reach[Len(spans)] = cursor
      BY <1>3 DEF DeltaInv, Rebuilds
<1>5. ASSUME NEW e \in todo, Delta!Skip(e)
      PROVE  DeltaInv'
  <2>1. /\ UNCHANGED <<old, new, partial, output, applier, phone, script, announced, faults>>
        /\ todo' = todo \ {e} /\ delivery' = delivery /\ spans' = spans /\ cursor' = cursor
        BY <1>5 DEF Delta!Skip, Delta!Look, Delta!host, Delta!device
  <2>2. \A f \in todo' : cursor' <= f.offset
        BY <2>1 DEF DeltaInv
  <2>.  QED
        BY <1>1, <1>2, <1>3, <1>4, <2>1, <2>2, CreateKeeps
<1>6. ASSUME NEW e \in todo, Delta!Share(e)
      PROVE  DeltaInv'
  <2>  DEFINE start == Delta!Start(new, e)
              end == Delta!End(new, e)
              literal == Delta!Literal(Delta!Slice(new.data, cursor, start))
  <2>1. PICK p \in old.entries : Delta!Same(e, p)
                /\ spans' = spans \o Delta!Gap(start) \o <<Delta!Reuse(p)>>
        BY <1>6 DEF Delta!Share, Delta!Previous
  <2>2. /\ UNCHANGED <<old, new, partial, output, applier, phone, script, announced, faults>>
        /\ todo' = todo \ {e} /\ delivery' = delivery /\ cursor' = end
        /\ \A f \in todo : e.offset <= f.offset
        BY <1>6 DEF Delta!Share, Delta!Look, Delta!NextHeader, Delta!host, Delta!device
  <2>3. /\ start \in Nat /\ e.size \in Nat /\ end = start + e.size /\ end <= Len(new.data)
        /\ cursor <= start
    <3>1. cursor <= e.offset
          BY DEF DeltaInv
    <3>2. /\ start \in Nat /\ start >= e.offset /\ e.offset \in Nat /\ e.size \in Nat
          /\ end = start + e.size /\ end <= Len(new.data)
          BY <1>1, ApkFacts
    <3>   HIDE DEF start, end
    <3>.  QED
          BY <1>2, <3>1, <3>2
  <2>4. /\ Delta!Reuse(p) \in Delta!Spans
        /\ Delta!Data(Delta!Reuse(p)) = Delta!Slice(new.data, start, end)
    <3>1. /\ Delta!Start(old, p) \in Nat /\ p.size \in Nat
          /\ Delta!End(old, p) = Delta!Start(old, p) + p.size
          /\ Delta!End(old, p) <= Len(old.data)
          BY <1>1, ApkFacts
    <3>2. Delta!Reuse(p) = [copy |-> TRUE, start |-> Delta!Start(old, p), size |-> p.size]
          BY DEF Delta!Reuse
    <3>3. Delta!Reuse(p) \in [copy : {TRUE}, start : Nat, size : Nat]
          BY <3>1, <3>2
    <3>4. Delta!Reuse(p).start + Delta!Reuse(p).size <= Len(old.data)
          BY <3>1, <3>2
    <3>5. Delta!Data(Delta!Reuse(p)) = Delta!Slice(old.data, Delta!Start(old, p), Delta!End(old, p))
          BY <3>1, <3>2 DEF Delta!Data
    <3>.  QED
          BY <2>1, <3>3, <3>4, <3>5 DEF Delta!Spans, Delta!Same
  <2>5. \A f \in todo' : cursor' <= f.offset
    <3>1. ASSUME NEW f \in todo' PROVE end <= f.offset
          BY <1>1, <2>2, ApkFacts
    <3>.  QED
          BY <2>2, <3>1
  <2>   HIDE DEF start, end
  <2>6. CASE start > cursor
    <3>1. /\ Append(spans, literal) \in Seq(Delta!Spans)
          /\ Len(Append(spans, literal)) = Len(spans) + 1
          /\ Chain(Append(spans, literal), Stretched(spans, reach, start))
          /\ Stretched(spans, reach, start)[Len(Append(spans, literal))] = start
      <4>1. start \in cursor .. Len(new.data)
            BY <1>2, <2>3
      <4>   HIDE DEF literal
      <4>2. literal = Delta!Literal(Delta!Slice(new.data, reach[Len(spans)], start))
            BY <1>4 DEF literal
      <4>.  QED
            BY <1>1, <1>4, <4>1, <4>2, LiteralGrows
    <3>2. spans' = Append(Append(spans, literal), Delta!Reuse(p))
      <4>1. Delta!Gap(start) = <<literal>>
            BY <2>6 DEF Delta!Gap
      <4>2. spans \o <<literal>> = Append(spans, literal)
            BY <1>1
      <4>3. Append(spans, literal) \o <<Delta!Reuse(p)>>
              = Append(Append(spans, literal), Delta!Reuse(p))
            BY <2>4, <3>1, AppendIsConcat
      <4>.  QED
            BY <2>1, <4>1, <4>2, <4>3
    <3>   HIDE DEF literal
    <3>   DEFINE ss == Append(spans, literal)
                 far == Stretched(spans, reach, start)
    <3>3. ss \in Seq(Delta!Spans) /\ Chain(ss, far) /\ far[Len(ss)] = start
          /\ Len(ss) = Len(spans) + 1 /\ spans' = Append(ss, Delta!Reuse(p))
          BY <3>1, <3>2
    <3>   HIDE DEF ss, far
    <3>4. end \in far[Len(ss)] .. Len(new.data)
          BY <1>2, <2>3, <3>3
    <3>5. /\ spans' \in Seq(Delta!Spans) /\ Len(spans') = Len(ss) + 1
          /\ Chain(spans', Stretched(ss, far, end)) /\ Stretched(ss, far, end)[Len(spans')] = end
          BY <1>1, <2>4, <3>3, <3>4, ChainGrows
    <3>.  QED
      <4>1. Len(spans') \in Nat /\ Len(spans') >= Len(spans) /\ end \in 0 .. Len(new.data)
            BY <1>2, <2>3, <3>3, <3>5
      <4>.  QED
            BY <1>1, <1>3, <2>2, <2>5, <3>5, <4>1, CreateKeeps
  <2>7. CASE ~(start > cursor)
    <3>1. start = cursor
          BY <1>2, <2>3, <2>7
    <3>2. spans' = Append(spans, Delta!Reuse(p))
      <4>1. Delta!Gap(start) = <<>>
            BY <2>7 DEF Delta!Gap
      <4>2. spans \o <<>> = spans
            BY <1>1
      <4>.  QED
            BY <1>1, <2>1, <2>4, <4>1, <4>2, AppendIsConcat
    <3>3. end \in reach[Len(spans)] .. Len(new.data)
          BY <1>2, <1>4, <2>3, <3>1
    <3>4. /\ spans' \in Seq(Delta!Spans) /\ Len(spans') = Len(spans) + 1
          /\ Chain(spans', Stretched(spans, reach, end)) /\ Stretched(spans, reach, end)[Len(spans')] = end
          BY <1>1, <1>4, <2>4, <3>1, <3>2, <3>3, ChainGrows
    <3>5. Len(spans') \in Nat /\ Len(spans') >= Len(spans) /\ end \in 0 .. Len(new.data)
          BY <1>2, <2>3, <3>4
    <3>.  QED
          BY <1>1, <1>3, <2>2, <2>5, <3>4, <3>5, CreateKeeps
  <2>.  QED
        BY <2>6, <2>7
<1>7. CASE Delta!Send
  <2>  DEFINE rest == Delta!Slice(new.data, cursor, Len(new.data))
  <2>1. /\ UNCHANGED <<old, new, todo, cursor, partial, output, applier, phone, script, announced,
                       faults>>
        /\ todo = {}
        /\ \/ spans' = Append(spans, Delta!Literal(rest)) /\ delivery' = "intact"
           \/ /\ delivery' = "damaged"
              /\ \E b \in {<<>>, Append(rest, 0)} : spans' = Append(spans, Delta!Literal(b))
        BY <1>7 DEF Delta!Send, Delta!Damage, Delta!Mark, Delta!host, Delta!device
  <2>2. rest \in Seq(Nat)
        BY <1>1, <1>2, SliceFacts
  <2>3. Len(new.data) \in reach[Len(spans)] .. Len(new.data)
        BY <1>1, <1>2, <1>4
  <2>4. Delta!Literal(rest) = Delta!Literal(Delta!Slice(new.data, reach[Len(spans)], Len(new.data)))
        BY <1>4
  <2>   HIDE DEF rest
  <2>5. CASE delivery' = "intact"
    <3>1. spans' = Append(spans, Delta!Literal(rest))
          BY <2>1, <2>5
    <3>2. /\ spans' \in Seq(Delta!Spans) /\ Len(spans') = Len(spans) + 1
          /\ Chain(spans', Stretched(spans, reach, Len(new.data)))
          /\ Stretched(spans, reach, Len(new.data))[Len(spans')] = Len(new.data)
          BY <1>1, <1>4, <2>3, <2>4, <3>1, LiteralGrows
    <3>3. Len(spans') \in Nat /\ Len(spans') >= Len(spans)
          BY <1>2, <3>2
    <3>.  QED
          BY <1>1, <1>3, <2>1, <2>5, <3>2, <3>3, CreateKeeps
  <2>6. CASE delivery' = "damaged"
    <3>1. PICK b \in Seq(Nat) : spans' = Append(spans, Delta!Literal(b))
      <4>1. PICK b \in {<<>>, Append(rest, 0)} : spans' = Append(spans, Delta!Literal(b))
            BY <2>1, <2>6
      <4>2. <<>> \in Seq(Nat) /\ Append(rest, 0) \in Seq(Nat)
            BY <2>2
      <4>.  QED
            BY <4>1, <4>2
    <3>2. Delta!Literal(b) \in Delta!Spans
          BY LiteralFacts
    <3>3. spans' \in Seq(Delta!Spans) /\ Len(spans') \in Nat /\ Len(spans') >= Len(spans)
          BY <1>1, <1>2, <3>1, <3>2, AppendProperties
    <3>.  QED
          BY <1>1, <1>3, <2>1, <2>6, <3>3, CreateKeeps
  <2>.  QED
        BY <2>1, <2>5, <2>6
<1>.  QED
      BY <1>5, <1>6, <1>7 DEF Delta!Create

-----------------------------------------------------------------------------
\* A step of one applier.
Turns(a, pc, at, w) ==
  /\ applier' \in [Appliers -> ApplierType]
  /\ applier'[a] = [pc |-> pc, at |-> at, written |-> w]
  /\ \A b \in Appliers \ {a} : applier'[b] = applier[b]

LEMMA Goes ==
  ASSUME DeltaInv, NEW a \in Appliers, NEW pc \in ApplierStates,
         applier' = [applier EXCEPT ![a].pc = pc]
  PROVE  Turns(a, pc, applier[a].at, applier[a].written)
<1>1. applier \in [Appliers -> ApplierType]
      BY DEF DeltaInv, Delta!TypeOK, ApplierType, ApplierStates
<1>2. applier[a] = [pc |-> applier[a].pc, at |-> applier[a].at, written |-> applier[a].written]
      BY <1>1 DEF ApplierType
<1>3. \A b \in Appliers \ {a} : applier'[b] = applier[b]
      BY <1>1
<1>4. applier'[a] = [pc |-> pc, at |-> applier[a].at, written |-> applier[a].written]
      BY <1>1, <1>2
<1>5. [pc |-> pc, at |-> applier[a].at, written |-> applier[a].written] \in ApplierType
      BY <1>1 DEF ApplierType
<1>.  QED
      BY <1>1, <1>3, <1>4, <1>5 DEF Turns

LEMMA GoesOn ==
  ASSUME DeltaInv, NEW a \in Appliers, NEW at \in 0 .. Len(spans) + 1, NEW w \in Seq(Nat),
         applier' = [applier EXCEPT ![a].at = at, ![a].written = w]
  PROVE  Turns(a, applier[a].pc, at, w)
<1>1. applier \in [Appliers -> ApplierType]
      BY DEF DeltaInv, Delta!TypeOK, ApplierType, ApplierStates
<1>2. applier[a] = [pc |-> applier[a].pc, at |-> applier[a].at, written |-> applier[a].written]
      BY <1>1 DEF ApplierType
<1>3. \A b \in Appliers \ {a} : applier'[b] = applier[b]
      BY <1>1
<1>4. applier'[a] = [pc |-> applier[a].pc, at |-> at, written |-> w]
      BY <1>1, <1>2
<1>5. [pc |-> applier[a].pc, at |-> at, written |-> w] \in ApplierType
      BY <1>1 DEF ApplierType
<1>.  QED
      BY <1>1, <1>3, <1>4, <1>5 DEF Turns

\* The patch stays.
LEMMA ApplierMoves ==
  ASSUME DeltaInv, NEW a \in Appliers, NEW pc, NEW at, NEW w, Turns(a, pc, at, w),
         UNCHANGED <<old, new, todo, cursor, spans, delivery>>,
         Delta!IsFile(partial)', Delta!IsFile(output)', Delta!IsFile(phone)',
         script' \in 0 .. Len(spans) + 1, announced' \in BOOLEAN, faults' \in 0 .. MaxFaults
  PROVE  /\ Delta!TypeOK'
         /\ applier'[a].pc = pc /\ applier'[a].at = at /\ applier'[a].written = w
         /\ \A b \in Appliers \ {a} : applier'[b] = applier[b]
<1>1. Delta!Spans' = Delta!Spans /\ ApplierType' = ApplierType
      BY DEF Delta!Spans, ApplierType
<1>2. Delta!TypeOK'
      BY <1>1 DEF Turns, DeltaInv, Delta!TypeOK, ApplierType, ApplierStates
<1>.  QED
      BY <1>2 DEF Turns

\* An applier that stops, or goes on without having opened the part.
LEMMA ApplierStops ==
  ASSUME DeltaInv, NEW a \in Appliers, NEW pc \in ApplierStates \ Writing,
         applier' = [applier EXCEPT ![a].pc = pc], delivery # "none",
         UNCHANGED <<old, new, todo, cursor, spans, delivery, output, phone, script, announced>>,
         partial' = {} \/ (partial' = partial /\ (applier[a].pc \in Writing => pc = "killed")),
         partial' = {} => applier[a].pc \in Writing \/ partial = {},
         applier[a].pc # "killed", pc = "differs" => delivery = "damaged",
         faults' \in 0 .. MaxFaults
  PROVE  DeltaInv'
<1>0. /\ Delta!IsFile(partial)' /\ Delta!IsFile(output)' /\ Delta!IsFile(phone)'
      /\ script' \in 0 .. Len(spans) + 1 /\ announced' \in BOOLEAN
      /\ applier[a].at \in 0 .. Len(spans) + 1 /\ applier[a].written \in Seq(Nat)
      BY DEF DeltaInv, Delta!TypeOK, Delta!IsFile
<1>1. /\ Delta!TypeOK'
      /\ applier'[a].pc = pc /\ \A b \in Appliers \ {a} : applier'[b] = applier[b]
  <2>1. Turns(a, pc, applier[a].at, applier[a].written)
        BY Goes
  <2>.  QED
        BY <1>0, <2>1, ApplierMoves
<1>2. \A b \in Appliers : applier'[b].pc \in Writing => applier[b].pc \in Writing /\ b # a
      BY <1>1
<1>3. \A b \in Appliers : applier'[b].pc \in Writing => partial' = {applier'[b].written}
      BY <1>1, <1>2 DEF DeltaInv
<1>4. Delta!PartIsOwned'
      BY <1>1 DEF DeltaInv, Delta!PartIsOwned, Delta!Missing, Writing
<1>5. \A b \in Appliers : applier'[b].pc = "replace" => applier'[b].written = new'.data
      BY <1>1, <1>2 DEF DeltaInv, Writing
<1>6. \A b, c \in Appliers : applier'[b].pc \in Writing /\ applier'[c].pc \in Writing => b = c
      BY <1>2 DEF DeltaInv
<1>7. \A b \in Appliers : applier'[b].pc = "write" => applier'[b] = applier[b] /\ b # a
      BY <1>1 DEF Writing
<1>8. delivery' # "damaged" => Rebuilds'
  <2>  SUFFICES ASSUME delivery # "damaged" PROVE Rebuilds'
       OBVIOUS
  <2>1. PICK reach : /\ Chain(spans, reach) /\ reach[Len(spans)] = Len(new.data)
                     /\ \A b \in Appliers : applier[b].pc = "write" =>
                          applier[b].written = Delta!Slice(new.data, 0, reach[applier[b].at - 1])
        BY DEF DeltaInv, Rebuilds
  <2>2. Chain(spans, reach)'
        BY <2>1 DEF Chain, Delta!Data
  <2>.  QED
        BY <1>7, <2>1, <2>2 DEF Rebuilds
<1>9. Delta!GoodPatchApplies'
      BY <1>1 DEF DeltaInv, Delta!GoodPatchApplies
<1>10. \A b \in Appliers : applier'[b].pc = "write" => applier'[b].at # 0
      BY <1>7 DEF DeltaInv
<1>.  QED
      BY <1>1, <1>3, <1>4, <1>5, <1>6, <1>8, <1>9, <1>10
      DEF DeltaInv, Delta!OutputIsExact, Delta!AnnouncedIsExact, Delta!Missing

\* The whole patch rebuilds the new APK, and what is before its span "at" yields w.
Whole == \E reach : Chain(spans, reach) /\ reach[Len(spans)] = Len(new.data)
Yields(at, w) ==
  \E reach : /\ Chain(spans, reach) /\ reach[Len(spans)] = Len(new.data)
             /\ w = Delta!Slice(new.data, 0, reach[at - 1])

\* An applier that has the part, and no other has it.
LEMMA ApplierHasPart ==
  ASSUME DeltaInv, NEW a \in Appliers, NEW pc \in Writing, NEW at, NEW w \in Seq(Nat),
         Turns(a, pc, at, w),
         \A b \in Appliers \ {a} : applier[b].pc \notin Writing, delivery # "none",
         partial' = {w}, pc = "replace" => w = new.data, pc = "write" => at # 0,
         delivery # "damaged" => Whole, delivery # "damaged" /\ pc = "write" => Yields(at, w),
         UNCHANGED <<old, new, todo, cursor, spans, delivery, output, phone, script, announced,
                     faults>>
  PROVE  DeltaInv'
<1>0. /\ Delta!IsFile(partial)' /\ Delta!IsFile(output)' /\ Delta!IsFile(phone)'
      /\ script' \in 0 .. Len(spans) + 1 /\ announced' \in BOOLEAN
      /\ faults' \in 0 .. MaxFaults /\ pc \in ApplierStates
      BY DEF DeltaInv, Delta!TypeOK, Delta!IsFile, Writing, ApplierStates
<1>1. /\ Delta!TypeOK'
      /\ applier'[a].pc = pc /\ applier'[a].at = at /\ applier'[a].written = w
      /\ \A b \in Appliers \ {a} : applier'[b] = applier[b]
      BY <1>0, ApplierMoves
<1>2. \A b \in Appliers : applier'[b].pc \in Writing => b = a
      BY <1>1
<1>3. Delta!PartIsOwned'
      BY <1>1 DEF Delta!PartIsOwned, Writing
<1>4. \A b \in Appliers : applier'[b].pc = "replace" => applier'[b].written = new'.data
      BY <1>1, <1>2 DEF Writing
<1>5. delivery' # "damaged" => Rebuilds'
  <2>  SUFFICES ASSUME delivery # "damaged" PROVE Rebuilds'
       OBVIOUS
  <2>1. PICK reach : /\ Chain(spans, reach) /\ reach[Len(spans)] = Len(new.data)
                     /\ pc = "write" => w = Delta!Slice(new.data, 0, reach[at - 1])
        BY DEF Whole, Yields
  <2>2. Chain(spans, reach)'
        BY <2>1 DEF Chain, Delta!Data
  <2>3. ASSUME NEW b \in Appliers, applier'[b].pc = "write"
        PROVE  applier'[b].written = Delta!Slice(new.data, 0, reach[applier'[b].at - 1])
    <3>1. b = a
          BY <1>2, <2>3 DEF Writing
    <3>.  QED
          BY <1>1, <2>1, <2>3, <3>1
  <2>.  QED
        BY <2>1, <2>2, <2>3 DEF Rebuilds
<1>6. Delta!GoodPatchApplies'
      BY <1>1 DEF DeltaInv, Delta!GoodPatchApplies, Writing
<1>7. \A b \in Appliers : applier'[b].pc = "write" => applier'[b].at # 0
      BY <1>1, <1>2 DEF Writing
<1>8. \A b \in Appliers : applier'[b].pc \in Writing => partial' = {applier'[b].written}
      BY <1>1, <1>2
<1>9. \A b, c \in Appliers : applier'[b].pc \in Writing /\ applier'[c].pc \in Writing => b = c
      BY <1>2
<1>.  QED
      BY <1>1, <1>3, <1>4, <1>5, <1>6, <1>7, <1>8, <1>9
      DEF DeltaInv, Delta!OutputIsExact, Delta!AnnouncedIsExact, Delta!Missing

LEMMA ApplierStep == ASSUME DeltaInv, NEW a \in Appliers, Delta!Step(a) PROVE DeltaInv'
<1>0. /\ applier[a].pc \in ApplierStates /\ applier[a].at \in 0 .. Len(spans) + 1
      /\ applier[a].written \in Seq(Nat) /\ DOMAIN applier = Appliers
      /\ applier[a] = [pc |-> applier[a].pc, at |-> applier[a].at, written |-> applier[a].written]
      /\ old \in Apks /\ new \in Apks /\ spans \in Seq(Delta!Spans) /\ Len(spans) \in Nat
      /\ faults \in 0 .. MaxFaults
  <2>1. applier \in [Appliers -> ApplierType]
        BY DEF DeltaInv, Delta!TypeOK, ApplierType, ApplierStates
  <2>.  QED
        BY <2>1 DEF DeltaInv, Delta!TypeOK, ApplierType
<1>1. applier[a].pc # "idle" => delivery # "none"
      BY DEF DeltaInv
<1>2. delivery \notin {"none", "damaged"} =>
        \E reach : /\ Chain(spans, reach) /\ reach[Len(spans)] = Len(new.data)
                   /\ \A b \in Appliers : applier[b].pc = "write" =>
                        applier[b].written = Delta!Slice(new.data, 0, reach[applier[b].at - 1])
      BY DEF DeltaInv, Rebuilds
<1>3. CASE Delta!Refuse(a)
  <2>  DEFINE pc == IF output = {} THEN "open" ELSE "refused"
  <2>1. /\ applier[a].pc = "idle" /\ applier' = [applier EXCEPT ![a].pc = pc]
        /\ delivery # "none"
        /\ UNCHANGED <<old, new, todo, cursor, spans, delivery, partial, output, phone, script,
                       announced, faults>>
        BY <1>3 DEF Delta!Refuse, Delta!Goes, Delta!patch, Delta!device, Delta!Missing
  <2>2. pc \in ApplierStates \ Writing /\ pc # "differs"
        BY DEF Writing, ApplierStates
  <2>   HIDE DEF pc
  <2>3. applier[a].pc \notin Writing
        BY <2>1 DEF Writing
  <2>.  QED
        BY <1>0, <2>1, <2>2, <2>3, ApplierStops
<1>4. CASE Delta!Open(a)
  <2>1. /\ applier[a].pc = "open"
        /\ UNCHANGED <<old, new, todo, cursor, spans, delivery, output, phone, script, announced,
                       faults>>
        BY <1>4 DEF Delta!Open, Delta!patch, Delta!device
  <2>2. /\ applier[a].pc \notin Writing /\ "refused" \in ApplierStates \ Writing
        /\ "write" \in Writing
        BY <2>1 DEF Writing, ApplierStates
  <2>3. CASE partial # {}
    <3>1. applier' = [applier EXCEPT ![a].pc = "refused"] /\ partial' = partial
          BY <1>4, <2>3 DEF Delta!Open, Delta!Goes, Delta!Missing
    <3>.  QED
          BY <1>0, <1>1, <2>1, <2>2, <3>1, <2>3, ApplierStops
  <2>4. CASE partial = {}
    <3>1. /\ applier' = [applier EXCEPT ![a] = [pc |-> "write", at |-> 1, written |-> <<>>]]
          /\ partial' = {<<>>}
          BY <1>4, <2>4 DEF Delta!Open, Delta!Missing
    <3>2. \A b \in Appliers : applier[b].pc \notin Writing
          BY <2>4 DEF DeltaInv
    <3>3. 1 \in 0 .. Len(spans) + 1 /\ <<>> \in Seq(Nat)
          BY <1>0
    <3>4. delivery # "damaged" => Whole /\ Yields(1, <<>>)
      <4>1. <<>> = Delta!Slice(new.data, 0, 0)
            BY SubSeqEmpty DEF Delta!Slice
      <4>.  QED
            BY <1>1, <1>2, <2>1, <4>1 DEF Chain, Whole, Yields
    <3>5. Turns(a, "write", 1, <<>>)
      <4>1. applier \in [Appliers -> ApplierType]
            BY DEF DeltaInv, Delta!TypeOK, ApplierType, ApplierStates
      <4>2. [pc |-> "write", at |-> 1, written |-> <<>>] \in ApplierType
            BY <3>3 DEF ApplierType, ApplierStates
      <4>.  QED
            BY <3>1, <4>1, <4>2 DEF Turns
    <3>   DEFINE w == <<>>
    <3>6. /\ partial' = {w} /\ w \in Seq(Nat) /\ Turns(a, "write", 1, w)
          /\ delivery # "damaged" => Whole /\ Yields(1, w)
          BY <3>1, <3>3, <3>4, <3>5
    <3>   HIDE DEF w
    <3>.  QED
          BY <1>1, <2>1, <2>2, <3>2, <3>6, ApplierHasPart
  <2>.  QED
        BY <2>3, <2>4
<1>5. CASE Delta!WriteSpan(a)
  <2>  DEFINE k == applier[a].at
              w == applier[a].written \o Delta!Data(spans[k])
  <2>1. /\ applier[a].pc = "write" /\ k <= Len(spans)
        /\ UNCHANGED <<old, new, todo, cursor, spans, delivery, output, phone, script, announced,
                       faults>>
        BY <1>5 DEF Delta!WriteSpan, Delta!patch, Delta!device
  <2>2. k \in 1 .. Len(spans) /\ k + 1 \in 0 .. Len(spans) + 1 /\ k + 1 # 0
        BY <1>0, <2>1 DEF DeltaInv
  <2>3. w \in Seq(Nat) /\ Len(w) \in Nat
    <3>1. spans[k] \in Delta!Spans
          BY <1>0, <2>2
    <3>2. Delta!Data(spans[k]) \in Seq(Nat)
          BY <3>1, DataType DEF DeltaInv
    <3>   HIDE DEF k
    <3>.  QED
          BY <1>0, <3>2
  <2>4. /\ partial = {applier[a].written} /\ "write" \in Writing
        /\ \A b \in Appliers \ {a} : applier[b].pc \notin Writing
        BY <2>1 DEF DeltaInv, Writing
  <2>5. delivery # "damaged" => Whole /\ Yields(k + 1, w) /\ Len(w) <= Len(new.data)
    <3>   SUFFICES ASSUME delivery # "damaged"
                   PROVE  Whole /\ Yields(k + 1, w) /\ Len(w) <= Len(new.data)
          OBVIOUS
    <3>1. PICK reach : /\ Chain(spans, reach) /\ reach[Len(spans)] = Len(new.data)
                       /\ applier[a].written = Delta!Slice(new.data, 0, reach[k - 1])
          BY <1>1, <1>2, <2>1
    <3>   HIDE DEF k
    <3>2. /\ Delta!Data(spans[k]) = Delta!Slice(new.data, reach[k - 1], reach[k])
          /\ reach[k - 1] <= reach[k]
          BY <2>2, <3>1 DEF Chain
    <3>3. new.data \in Seq(Nat) /\ Len(new.data) \in Nat
          BY <1>0, ApkFacts
    <3>4. k - 1 \in 0 .. Len(spans) /\ k \in 0 .. Len(spans) /\ (k + 1) - 1 = k
          BY <1>0, <2>2
    <3>5. reach[k - 1] \in 0 .. Len(new.data) /\ reach[k] \in 0 .. Len(new.data)
          BY <3>1, <3>4 DEF Chain
    <3>6. reach[k] \in reach[k - 1] .. Len(new.data)
          BY <3>2, <3>3, <3>5
    <3>7. Delta!Slice(new.data, 0, reach[k - 1]) \o Delta!Slice(new.data, reach[k - 1], reach[k])
            = Delta!Slice(new.data, 0, reach[k])
          BY <3>3, <3>5, <3>6, SliceFacts
    <3>8. Len(Delta!Slice(new.data, 0, reach[k])) = reach[k]
      <4>1. 0 \in 0 .. Len(new.data) /\ reach[k] - 0 = reach[k]
            BY <3>3, <3>5
      <4>.  QED
            BY <3>3, <3>5, <4>1, SliceFacts
    <3>9. w = Delta!Slice(new.data, 0, reach[k])
          BY <3>1, <3>2, <3>7
    <3>   HIDE DEF w
    <3>.  QED
          BY <3>1, <3>3, <3>4, <3>5, <3>8, <3>9 DEF Whole, Yields
  <2>6. CASE Len(w) > Len(new.data)
    <3>1. applier' = [applier EXCEPT ![a].pc = "differs"] /\ partial' = {}
          BY <1>5, <2>6 DEF Delta!WriteSpan, Delta!Abandon, Delta!Goes, Delta!Missing
    <3>2. "differs" \in ApplierStates \ Writing /\ applier[a].pc \in Writing
          /\ applier[a].pc # "killed"
          BY <2>1 DEF Writing, ApplierStates
    <3>3. delivery = "damaged"
      <4>1. Len(new.data) \in Nat
            BY <1>0, ApkFacts
      <4>   HIDE DEF w
      <4>.  QED
            BY <2>3, <2>5, <2>6, <4>1
    <3>   HIDE DEF w, k
    <3>.  QED
          BY <1>0, <1>1, <2>1, <3>1, <3>2, <3>3, ApplierStops
  <2>7. CASE ~(Len(w) > Len(new.data))
    <3>1. /\ partial' = {b \o Delta!Data(spans[k]) : b \in partial}
          /\ applier' = [applier EXCEPT ![a].at = k + 1, ![a].written = w]
          BY <1>0, <1>5, <2>7 DEF Delta!WriteSpan
    <3>2. Turns(a, "write", k + 1, w)
      <4>   DEFINE at == k + 1
      <4>1. at \in 0 .. Len(spans) + 1 /\ applier' = [applier EXCEPT ![a].at = at, ![a].written = w]
            BY <2>2, <3>1
      <4>   HIDE DEF at, w
      <4>2. Turns(a, applier[a].pc, at, w)
            BY <2>3, <4>1, GoesOn
      <4>.  QED
            BY <2>1, <4>2 DEF at
    <3>3. partial' = {w}
          BY <2>4, <3>1
    <3>   HIDE DEF k, w
    <3>.  QED
          BY <1>1, <2>1, <2>2, <2>3, <2>4, <2>5, <3>2, <3>3, ApplierHasPart
  <2>.  QED
        BY <2>6, <2>7
<1>6. CASE Delta!WriteFails(a)
  <2>1. /\ applier[a].pc = "write" /\ applier' = [applier EXCEPT ![a].pc = "failed"]
        /\ partial' = {}
        /\ UNCHANGED <<old, new, todo, cursor, spans, delivery, output, phone, script, announced>>
        /\ faults < MaxFaults /\ faults' = faults + 1
        BY <1>6
        DEF Delta!WriteFails, Delta!Abandon, Delta!Goes, Delta!Missing, Delta!patch,
            Delta!device, Delta!Fault
  <2>2. "failed" \in ApplierStates \ Writing /\ applier[a].pc \in Writing
        BY <2>1 DEF Writing, ApplierStates
  <2>3. faults' \in 0 .. MaxFaults
        BY <1>0, <2>1, InputsAssumption
  <2>.  QED
        BY <1>1, <2>1, <2>2, <2>3, ApplierStops
<1>7. CASE Delta!Reconstructed(a)
  <2>1. /\ applier[a].pc = "write" /\ applier[a].at > Len(spans)
        /\ UNCHANGED <<old, new, todo, cursor, spans, delivery, output, phone, script, announced,
                       faults>>
        BY <1>7 DEF Delta!Reconstructed, Delta!patch, Delta!device
  <2>2. partial = {applier[a].written} /\ \A b \in Appliers \ {a} : applier[b].pc \notin Writing
        BY <2>1 DEF DeltaInv, Writing
  <2>3. /\ "replace" \in Writing /\ "differs" \in ApplierStates \ Writing
        /\ applier[a].pc \in Writing
        BY <2>1 DEF Writing, ApplierStates
  <2>4. CASE applier[a].written = new.data
    <3>1. applier' = [applier EXCEPT ![a].pc = "replace"] /\ partial' = partial
          BY <1>7, <2>4 DEF Delta!Reconstructed, Delta!Goes
    <3>2. delivery # "damaged" => Whole
          BY <1>1, <1>2, <2>1 DEF Whole
    <3>3. Turns(a, "replace", applier[a].at, applier[a].written)
          BY <3>1, Goes DEF ApplierStates
    <3>.  QED
          BY <1>0, <1>1, <2>1, <2>2, <2>3, <2>4, <3>1, <3>2, <3>3, ApplierHasPart
  <2>5. CASE applier[a].written # new.data
    <3>1. applier' = [applier EXCEPT ![a].pc = "differs"] /\ partial' = {}
          BY <1>7, <2>5 DEF Delta!Reconstructed, Delta!Abandon, Delta!Goes, Delta!Missing
    <3>2. applier[a].at - 1 = Len(spans)
          BY <1>0, <2>1
    <3>3. Delta!Slice(new.data, 0, Len(new.data)) = new.data
      <4>1. new.data \in Seq(Nat) /\ 0 \in 0 .. Len(new.data)
            BY <1>0, ApkFacts
      <4>.  QED
            BY <4>1, SubSeqFull DEF Delta!Slice
    <3>4. delivery = "damaged"
          BY <1>1, <1>2, <2>1, <2>5, <3>2, <3>3
    <3>.  QED
          BY <1>0, <1>1, <2>1, <2>3, <3>1, <3>4, ApplierStops
  <2>.  QED
        BY <2>4, <2>5
<1>8. CASE Delta!Replace(a)
  <2>1. /\ applier[a].pc = "replace" /\ applier' = [applier EXCEPT ![a].pc = "done"]
        /\ partial' = {} /\ output' = partial
        /\ UNCHANGED <<old, new, todo, cursor, spans, delivery, phone, script, announced, faults>>
        BY <1>8 DEF Delta!Replace, Delta!Goes, Delta!Missing, Delta!patch, Delta!device
  <2>2. /\ Delta!IsFile(partial)' /\ Delta!IsFile(output)' /\ Delta!IsFile(phone)'
        /\ script' \in 0 .. Len(spans) + 1 /\ announced' \in BOOLEAN /\ "done" \in ApplierStates
        /\ faults' \in 0 .. MaxFaults
        BY <2>1 DEF DeltaInv, Delta!TypeOK, Delta!IsFile, ApplierStates
  <2>3. /\ Delta!TypeOK'
        /\ applier'[a].pc = "done" /\ \A b \in Appliers \ {a} : applier'[b] = applier[b]
    <3>1. Turns(a, "done", applier[a].at, applier[a].written)
          BY <2>1, <2>2, Goes
    <3>.  QED
          BY <2>1, <2>2, <3>1, ApplierMoves
  <2>4. partial = {new.data} /\ \A b \in Appliers \ {a} : applier[b].pc \notin Writing
        BY <2>1 DEF DeltaInv, Writing
  <2>5. \A b \in Appliers : applier'[b].pc \notin Writing
        BY <2>3, <2>4 DEF Writing
  <2>6. delivery' # "damaged" => Rebuilds'
    <3>1. \A b \in Appliers : applier'[b].pc # "write"
          BY <2>5 DEF Writing
    <3>2. \A reach : Chain(spans, reach) => Chain(spans, reach)'
          BY <2>1 DEF Chain, Delta!Data
    <3>.  QED
          BY <1>1, <1>2, <2>1, <3>1, <3>2 DEF Rebuilds, DeltaInv
  <2>7. Delta!OutputIsExact' /\ Delta!GoodPatchApplies'
        BY <2>1, <2>3, <2>4 DEF Delta!OutputIsExact, Delta!GoodPatchApplies, DeltaInv
  <2>.  QED
        BY <1>1, <2>1, <2>3, <2>5, <2>6, <2>7
        DEF DeltaInv, Writing, Delta!AnnouncedIsExact, Delta!PartIsOwned, Delta!Missing
<1>9. CASE Delta!Kill(a)
  <2>1. /\ applier[a].pc \in {"open", "write", "replace"}
        /\ applier' = [applier EXCEPT ![a].pc = "killed"]
        /\ UNCHANGED <<old, new, todo, cursor, spans, delivery, partial, output, phone, script,
                       announced>>
        /\ faults < MaxFaults /\ faults' = faults + 1
        BY <1>9 DEF Delta!Kill, Delta!Goes, Delta!patch, Delta!device, Delta!Fault
  <2>2. "killed" \in ApplierStates \ Writing /\ applier[a].pc # "killed"
        BY <2>1 DEF Writing, ApplierStates
  <2>3. faults' \in 0 .. MaxFaults
        BY <1>0, <2>1, InputsAssumption
  <2>.  QED
        BY <1>1, <2>1, <2>2, <2>3, ApplierStops
<1>.  QED
      BY <1>3, <1>4, <1>5, <1>6, <1>7, <1>8, <1>9 DEF Delta!Step

\* What the phone does leaves the appliers alone.
LEMMA DeviceStep ==
  ASSUME DeltaInv,
         Delta!Run \/ Delta!Dd \/ Delta!Announce \/ Delta!Interrupt \/ UNCHANGED <<deltaVars, faults>>
  PROVE  DeltaInv'
<1>1. UNCHANGED <<old, new, todo, cursor, spans, delivery, partial, output, applier>>
      BY DEF Delta!Run, Delta!Dd, Delta!Announce, Delta!Interrupt, Delta!patch, Delta!host, deltaVars
<1>2. /\ Len(spans) \in Nat /\ script \in 0 .. Len(spans) + 1 /\ announced \in BOOLEAN
      /\ faults \in 0 .. MaxFaults /\ Delta!IsFile(phone) /\ new \in Apks
      /\ spans \in Seq(Delta!Spans)
      BY DEF DeltaInv, Delta!TypeOK
<1>3. /\ (script' # 0 => ~announced') /\ Delta!AnnouncedIsExact'
      /\ (delivery = "none" => script' = 0)
      /\ script' \in 0 .. Len(spans) + 1 /\ announced' \in BOOLEAN /\ faults' \in 0 .. MaxFaults
      /\ Delta!IsFile(phone')
  <2>1. CASE Delta!Run
    <3>1. Delta!IsFile(phone')
          BY <2>1 DEF Delta!Run, Delta!IsFile
    <3>.  QED
          BY <1>2, <2>1, <3>1
          DEF Delta!Run, Delta!Missing, DeltaInv, Delta!AnnouncedIsExact, Delta!host
  <2>2. CASE Delta!Dd
    <3>1. script \in 1 .. Len(spans) /\ script' = script + 1 /\ UNCHANGED <<announced, faults>>
          /\ phone' = {b \o Delta!Data(spans[script]) : b \in phone}
          BY <2>2 DEF Delta!Dd
    <3>2. Delta!Data(spans[script]) \in Seq(Nat)
      <4>1. spans[script] \in Delta!Spans
            BY <1>2, <3>1
      <4>.  QED
            BY <4>1, DataType DEF DeltaInv
    <3>3. Delta!IsFile(phone')
      <4>   DEFINE d == Delta!Data(spans[script])
      <4>1. phone \subseteq Seq(Nat) /\ (\A b, c \in phone : b = c)
            BY <1>2 DEF Delta!IsFile
      <4>2. phone' = {b \o d : b \in phone} /\ d \in Seq(Nat)
            BY <3>1, <3>2
      <4>   HIDE DEF d
      <4>3. phone' \subseteq Seq(Nat)
            BY <4>1, <4>2, ConcatProperties
      <4>4. \A b, c \in phone' : b = c
            BY <4>1, <4>2
      <4>.  QED
            BY <4>3, <4>4 DEF Delta!IsFile
    <3>.  QED
          BY <1>2, <3>1, <3>3 DEF DeltaInv, Delta!AnnouncedIsExact
  <2>3. CASE Delta!Announce
    <3>1. /\ script = Len(spans) + 1 /\ script' = 0 /\ UNCHANGED <<phone, faults>>
          /\ announced' = (announced \/ phone = {new.data})
          BY <2>3 DEF Delta!Announce
    <3>.  QED
          BY <1>1, <1>2, <3>1 DEF DeltaInv, Delta!AnnouncedIsExact
  <2>4. CASE Delta!Interrupt
    <3>1. /\ script' = 0 /\ UNCHANGED <<phone, announced>>
          /\ faults < MaxFaults /\ faults' = faults + 1
          BY <2>4 DEF Delta!Interrupt, Delta!Fault
    <3>2. faults' \in 0 .. MaxFaults
          BY <1>2, <3>1, InputsAssumption
    <3>.  QED
          BY <1>1, <1>2, <3>1, <3>2 DEF DeltaInv, Delta!AnnouncedIsExact
  <2>5. CASE UNCHANGED <<deltaVars, faults>>
        BY <1>2, <2>5 DEF deltaVars, DeltaInv, Delta!AnnouncedIsExact
  <2>.  QED
        BY <2>1, <2>2, <2>3, <2>4, <2>5
<1>4. Delta!TypeOK'
  <2>1. Delta!Spans' = Delta!Spans /\ Delta!IsFile(phone)'
        BY <1>1, <1>3 DEF Delta!Spans, Delta!IsFile
  <2>2. Delta!IsFile(partial)' /\ Delta!IsFile(output)'
        BY <1>1 DEF DeltaInv, Delta!TypeOK, Delta!IsFile
  <2>.  QED
        BY <1>1, <1>3, <2>1, <2>2 DEF DeltaInv, Delta!TypeOK
<1>5. delivery' # "damaged" => Rebuilds'
  <2>1. \A reach : Chain(spans, reach) => Chain(spans, reach)'
        BY <1>1 DEF Chain, Delta!Data
  <2>.  QED
        BY <1>1, <2>1 DEF DeltaInv, Rebuilds
<1>.  QED
      BY <1>1, <1>3, <1>4, <1>5
      DEF DeltaInv, Delta!OutputIsExact, Delta!PartIsOwned, Delta!Missing, Delta!GoodPatchApplies

LEMMA DeltaStep == DeltaInv /\ [Delta!Next]_(<<deltaVars, faults>>) => DeltaInv'
  BY CreateStep, ApplierStep, DeviceStep DEF Delta!Next

-----------------------------------------------------------------------------
\* The inputs of the runtime: what a file can hold, whoever is killed. A file of the
\* patched PRoot never holds another build, nor a notice of the repository nothing.
Assets == {"asset-fedora", "asset-opencode", "asset-overlay", "asset-dnfast"}
Patched == {"proot-json", "proot-archive", "build", "build-report"}
Revised == {"ui-index", "ui-script", "ui-manifest"} \cup Records \cup Packaged.crates \cup Packaged.rpms
Derived == {"cargo-archive", "cargo-report", "cargo-notices", "rpm-notices", "rpm-report", "carried-notices"}

Held(f) ==
  IF f \in Assets THEN {"absent", "good"}
  ELSE IF f \in Patched THEN {"absent", "torn", "patched"}
  ELSE IF f \in Revised THEN {"old", "torn", "good"}
  ELSE IF f \in Derived THEN {"absent", "torn", "good"}
  ELSE Contents

\* The files that may hold anything.
Loose ==
  {"report", "manifest", "checksum", "keyring", "pgp", "image", "api", "opencode-upstream",
   "rootfs", "opencode", "opencode-manifest", "source-proot", "source-deps", "recipes",
   "evidence", "old-tree", "old-build", "old-report", "tree", "packages", "dnfast-overlay",
   "dnfast-manifest", "dnfast-archive", "crate", "source-rpm", "lib-tracer", "lib-deps",
   "asset-notices"}

LEMMA RevisedFiles ==
  Revised = {"ui-index", "ui-script", "ui-manifest", "export-record", "cargo-record",
             "notices-record", "rpm-record", "source-notices-record", "asset-dnfast-license",
             "asset-cargo-notices", "asset-rpm-1", "asset-rpm-2", "asset-source-notice"}
<1>1. /\ Packaged.crates = {"asset-dnfast-license", "asset-cargo-notices"}
      /\ Packaged.rpms = {"asset-rpm-1", "asset-rpm-2", "asset-source-notice"}
      BY DEF Packaged
<1>.  QED
      BY <1>1 DEF Revised, Records

LEMMA HeldFacts ==
  /\ \A f \in Assets : Held(f) = {"absent", "good"}
  /\ \A f \in Patched : Held(f) = {"absent", "torn", "patched"}
  /\ \A f \in Revised : Held(f) = {"old", "torn", "good"}
  /\ \A f \in Derived : Held(f) = {"absent", "torn", "good"}
  /\ \A f \in Loose : Held(f) = Contents
  BY RevisedFiles DEF Held, Assets, Patched, Derived, Loose

LEMMA PackagedFiles ==
  /\ Packaged["upstream"] = {"asset-fedora", "asset-opencode"}
  /\ Packaged["proot"] = {"lib-tracer", "lib-deps", "asset-notices"}
  /\ Packaged["candidate"] = {"lib-tracer", "lib-deps", "asset-notices"}
  /\ Packaged["gui"] = {"asset-overlay", "asset-dnfast", "ui-index", "ui-script", "ui-manifest"}
  /\ Packaged["crates"] = {"asset-dnfast-license", "asset-cargo-notices"}
  /\ Packaged["rpms"] = {"asset-rpm-1", "asset-rpm-2", "asset-source-notice"}
  BY DEF Packaged

LEMMA FileKinds == Files = Assets \cup Patched \cup Revised \cup Derived \cup Loose
<1>1. UNION {Packaged[c] : c \in Chains} =
        Packaged["upstream"] \cup Packaged["proot"] \cup Packaged["candidate"] \cup Packaged["gui"]
          \cup Packaged["crates"] \cup Packaged["rpms"]
      BY DEF Chains
<1>2. UNION {Packaged[c] : c \in Chains} =
        {"asset-fedora", "asset-opencode", "lib-tracer", "lib-deps", "asset-notices",
         "asset-overlay", "asset-dnfast", "ui-index", "ui-script", "ui-manifest",
         "asset-dnfast-license", "asset-cargo-notices", "asset-rpm-1", "asset-rpm-2",
         "asset-source-notice"}
  <2>.  HIDE DEF Packaged
  <2>.  QED
        BY <1>1, PackagedFiles
<1>.  QED
      BY <1>2, RevisedFiles DEF Files, Records, Assets, Patched, Derived, Loose

LEMMA HeldContents == \A f \in Files : Held(f) \subseteq Contents
  BY HeldFacts, FileKinds DEF Contents

\* Steps that change no reported file, and the report only to what it does not claim.
Reported == {"checksum", "keyring", "image", "api", "opencode-upstream"}
Untold == Files \ (Reported \cup {"report"})

Flows(g, f) == g \in Files /\ Held(g) \ {"absent", "torn"} \subseteq Held(f)

Needs == [op : {"need"}, f : Files, v : {{c} : c \in Contents}]
Puts == UNION {[op : {"put"}, f : {f}, v : {{c} : c \in Held(f) \ {"absent"}}] : f \in Untold}
Reports == [op : {"put"}, f : {"report"}, v : {{"torn"}, {"failed"}}]
Copies == UNION {[op : {"copy"}, f : {f}, v : {{g} : g \in {g \in Files : Flows(g, f)}}] : f \in Untold}
Matches == [op : {"match"}, f : Files, v : {{g} : g \in Files}]
Stages == [op : {"stage"}, f : Assets, v : {{g} : g \in Files}]
Fetches == [op : {"fetch", "cache"}, f : Loose \cap Untold, v : {{"good"}}]

Tame == Needs \cup Puts \cup Reports \cup Copies \cup Matches \cup Stages \cup Fetches

LEMMA Joined ==
  ASSUME NEW S, NEW s \in Seq(S), NEW t \in Seq(S)
  PROVE  /\ s \o t \in Seq(S) /\ Len(s \o t) = Len(s) + Len(t)
         /\ \A i \in 1 .. Len(s) : (s \o t)[i] = s[i]
         /\ \A i \in Len(s) + 1 .. Len(s) + Len(t) : (s \o t)[i] = t[i - Len(s)]
  OBVIOUS

LEMMA Single == ASSUME NEW S, NEW e \in S PROVE <<e>> \in Seq(S) /\ Len(<<e>>) = 1 /\ <<e>>[1] = e
  OBVIOUS

LEMMA TameEffects ==
  /\ \A f \in Files, c \in Contents : Need(f, {c}) \in Seq(Tame)
  /\ \A f \in Untold : \A c \in Held(f) \ {"absent"} : Put(f, c) \in Seq(Tame)
  /\ \A c \in {"torn", "failed"} : Put("report", c) \in Seq(Tame)
  /\ \A f \in Untold : \A g \in Files : Flows(g, f) => Copy(f, g) \in Seq(Tame)
  /\ \A f \in Files, g \in Files : Match(f, g) \in Seq(Tame)
  /\ \A f \in Assets, g \in Files : Stage(f, g) \in Seq(Tame)
  /\ \A f \in Loose \cap Untold : Fetch(f) \in Seq(Tame) /\ Cache(f) \in Seq(Tame)
<1>1. ASSUME NEW e \in Tame PROVE << e >> \in Seq(Tame)
      OBVIOUS
<1>2. ASSUME NEW f \in Files, NEW c \in Contents PROVE Need(f, {c}) \in Seq(Tame)
  <2>1. [op |-> "need", f |-> f, v |-> {c}] \in Needs
        BY DEF Needs
  <2>.  QED
        BY <1>1, <2>1 DEF Tame, Need
<1>3. ASSUME NEW f \in Untold, NEW c \in Held(f) \ {"absent"} PROVE Put(f, c) \in Seq(Tame)
  <2>1. [op |-> "put", f |-> f, v |-> {c}] \in Puts
        BY DEF Puts
  <2>.  QED
        BY <1>1, <2>1 DEF Tame, Put
<1>4. ASSUME NEW c \in {"torn", "failed"} PROVE Put("report", c) \in Seq(Tame)
  <2>1. [op |-> "put", f |-> "report", v |-> {c}] \in Reports
        BY DEF Reports
  <2>.  QED
        BY <1>1, <2>1 DEF Tame, Put
<1>5. ASSUME NEW f \in Untold, NEW g \in Files, Flows(g, f) PROVE Copy(f, g) \in Seq(Tame)
  <2>1. [op |-> "copy", f |-> f, v |-> {g}] \in Copies
        BY <1>5 DEF Copies
  <2>.  QED
        BY <1>1, <2>1 DEF Tame, Copy
<1>6. ASSUME NEW f \in Files, NEW g \in Files PROVE Match(f, g) \in Seq(Tame)
  <2>1. [op |-> "match", f |-> f, v |-> {g}] \in Matches
        BY DEF Matches
  <2>.  QED
        BY <1>1, <2>1 DEF Tame, Match
<1>7. ASSUME NEW f \in Assets, NEW g \in Files PROVE Stage(f, g) \in Seq(Tame)
  <2>1. [op |-> "stage", f |-> f, v |-> {g}] \in Stages
        BY DEF Stages
  <2>.  QED
        BY <1>1, <2>1 DEF Tame, Stage
<1>8. ASSUME NEW f \in Loose \cap Untold PROVE Fetch(f) \in Seq(Tame) /\ Cache(f) \in Seq(Tame)
  <2>1. /\ [op |-> "fetch", f |-> f, v |-> {"good"}] \in Fetches
        /\ [op |-> "cache", f |-> f, v |-> {"good"}] \in Fetches
        BY DEF Fetches
  <2>.  QED
        BY <1>1, <2>1 DEF Tame, Fetch, Cache
<1>.  QED
      BY <1>2, <1>3, <1>4, <1>5, <1>6, <1>7, <1>8

LEMMA TameFacts ==
  ASSUME NEW e \in Tame
  PROVE  /\ e.op \in {"need", "put", "copy", "match", "stage", "fetch", "cache"} /\ e.f \in Files
         /\ e.op = "put" =>
              \/ e.f \in Untold /\ \E c \in Held(e.f) \ {"absent"} : e.v = {c}
              \/ e.f = "report" /\ \E c \in {"torn", "failed"} : e.v = {c}
         /\ e.op = "copy" => e.f \in Untold /\ \E g \in Files : e.v = {g} /\ Flows(g, e.f)
         /\ e.op = "stage" => e.f \in Assets /\ \E g \in Files : e.v = {g}
         /\ e.op \in {"fetch", "cache"} => e.f \in Loose \cap Untold
<1>1. Untold \subseteq Files /\ Assets \subseteq Files /\ "report" \in Files
      BY FileKinds DEF Untold, Loose
<1>2. CASE e \in Puts
  <2>1. PICK f \in Untold : e \in [op : {"put"}, f : {f}, v : {{c} : c \in Held(f) \ {"absent"}}]
        BY <1>2 DEF Puts
  <2>2. e.op = "put" /\ e.f = f /\ \E c \in Held(f) \ {"absent"} : e.v = {c}
        BY <2>1
  <2>.  QED
        BY <1>1, <2>2
<1>3. CASE e \in Copies
  <2>1. PICK f \in Untold :
          e \in [op : {"copy"}, f : {f}, v : {{g} : g \in {g \in Files : Flows(g, f)}}]
        BY <1>3 DEF Copies
  <2>2. e.op = "copy" /\ e.f = f /\ \E g \in Files : Flows(g, f) /\ e.v = {g}
        BY <2>1
  <2>.  QED
        BY <1>1, <2>2
<1>4. CASE e \in Needs
      BY <1>4 DEF Needs
<1>5. CASE e \in Reports
      BY <1>1, <1>5 DEF Reports
<1>6. CASE e \in Matches
      BY <1>6 DEF Matches
<1>7. CASE e \in Stages
      BY <1>1, <1>7 DEF Stages
<1>8. CASE e \in Fetches
      BY <1>1, <1>8 DEF Fetches
<1>.  QED
      BY <1>2, <1>3, <1>4, <1>5, <1>6, <1>7, <1>8 DEF Tame

LEMMA TameJoined ==
  ASSUME NEW s \in Seq(Tame), NEW t \in Seq(Tame) PROVE s \o t \in Seq(Tame)
  OBVIOUS

LEMMA TameWrites ==
  /\ \A f \in Untold : \A c \in Held(f) \ {"absent"} : "torn" \in Held(f) => Write(f, c) \in Seq(Tame)
  /\ \A f \in Untold : \A g \in Files :
       "torn" \in Held(f) /\ Flows(g, f) => WriteFrom(f, g) \in Seq(Tame)
<1>1. ASSUME NEW f \in Untold, NEW c \in Held(f) \ {"absent"}, "torn" \in Held(f)
      PROVE  Write(f, c) \in Seq(Tame)
  <2>1. Put(f, "torn") \in Seq(Tame) /\ Put(f, c) \in Seq(Tame)
        BY <1>1, TameEffects
  <2>.  QED
        BY <2>1, TameJoined DEF Write
<1>2. ASSUME NEW f \in Untold, NEW g \in Files, "torn" \in Held(f), Flows(g, f)
      PROVE  WriteFrom(f, g) \in Seq(Tame)
  <2>1. Put(f, "torn") \in Seq(Tame) /\ Copy(f, g) \in Seq(Tame)
        BY <1>2, TameEffects
  <2>.  QED
        BY <2>1, TameJoined DEF WriteFrom
<1>.  QED
      BY <1>1, <1>2

\* Writing and copying, by the kinds of the files.
LEMMA TameKinds ==
  /\ \A f \in Loose \cap Untold :
       /\ \A c \in Contents \ {"absent"} : Write(f, c) \in Seq(Tame) /\ Put(f, c) \in Seq(Tame)
       /\ \A g \in Files : WriteFrom(f, g) \in Seq(Tame)
  /\ \A f \in Patched :
       /\ Put(f, "torn") \in Seq(Tame)
       /\ \A g \in Patched : WriteFrom(f, g) \in Seq(Tame) /\ Copy(f, g) \in Seq(Tame)
  /\ \A f \in Revised \cup Derived :
       /\ Write(f, "good") \in Seq(Tame) /\ Put(f, "good") \in Seq(Tame)
       /\ \A g \in Derived : WriteFrom(f, g) \in Seq(Tame) /\ Copy(f, g) \in Seq(Tame)
<1>1. /\ \A f \in Patched \cup Revised \cup Derived : f \in Untold
      /\ Untold \subseteq Files /\ Patched \cup Derived \subseteq Files
      BY FileKinds, RevisedFiles DEF Untold, Patched, Derived, Reported
<1>2. "torn" \in Contents
      BY DEF Contents
<1>3. ASSUME NEW f \in Loose, NEW g \in Files PROVE Flows(g, f)
      BY HeldFacts, HeldContents DEF Flows
<1>4. ASSUME NEW f \in Patched, NEW g \in Patched PROVE Flows(g, f)
      BY <1>1, HeldFacts DEF Flows
<1>5. ASSUME NEW f \in Revised \cup Derived, NEW g \in Derived PROVE Flows(g, f)
      BY <1>1, HeldFacts DEF Flows
<1>6. ASSUME NEW f \in Loose \cap Untold
      PROVE  /\ \A c \in Contents \ {"absent"} : Write(f, c) \in Seq(Tame) /\ Put(f, c) \in Seq(Tame)
             /\ \A g \in Files : WriteFrom(f, g) \in Seq(Tame)
  <2>1. Held(f) = Contents
        BY HeldFacts
  <2>.  QED
        BY <1>2, <1>3, <2>1, TameWrites, TameEffects
<1>7. ASSUME NEW f \in Patched
      PROVE  /\ Put(f, "torn") \in Seq(Tame)
             /\ \A g \in Patched : WriteFrom(f, g) \in Seq(Tame) /\ Copy(f, g) \in Seq(Tame)
  <2>1. Held(f) = {"absent", "torn", "patched"} /\ f \in Untold
        BY <1>1, HeldFacts
  <2>.  QED
        BY <1>1, <1>4, <2>1, TameWrites, TameEffects
<1>8. ASSUME NEW f \in Revised \cup Derived
      PROVE  /\ Write(f, "good") \in Seq(Tame) /\ Put(f, "good") \in Seq(Tame)
             /\ \A g \in Derived : WriteFrom(f, g) \in Seq(Tame) /\ Copy(f, g) \in Seq(Tame)
  <2>1. "good" \in Held(f) /\ "torn" \in Held(f) /\ f \in Untold
        BY <1>1, HeldFacts
  <2>.  QED
        BY <1>1, <1>5, <2>1, TameWrites, TameEffects
<1>.  QED
      BY <1>6, <1>7, <1>8

\* Every script but the collector and the build of the patched PRoot is tame.
Free == {"manifest", "rootfs", "opencode", "opencode-manifest", "source-proot", "source-deps",
         "recipes", "evidence", "old-tree", "old-build", "old-report", "tree", "packages",
         "dnfast-archive", "crate", "lib-tracer", "lib-deps", "asset-notices"}

LEMMA FreeFiles ==
  /\ Free \subseteq Loose \cap Untold
  /\ Free \cup Loose \cup Patched \cup Revised \cup Derived \cup Assets \subseteq Files
  BY FileKinds DEF Free, Untold, Reported, Loose

LEMMA Written ==
  /\ \A f \in Free, c \in {"torn", "good", "termux", "pristine", "exitkill", "patched", "failed"} :
       Write(f, c) \in Seq(Tame) /\ Put(f, c) \in Seq(Tame)
  /\ \A f \in Free, g \in Files : WriteFrom(f, g) \in Seq(Tame)
  /\ \A f \in Files, c \in {"good", "pristine", "exitkill", "patched"} : Need(f, {c}) \in Seq(Tame)
<1>1. {"torn", "good", "termux", "pristine", "exitkill", "patched", "failed"} \subseteq Contents \ {"absent"}
      BY DEF Contents
<1>.  QED
      BY <1>1, FreeFiles, TameKinds, TameEffects

LEMMA CollectFailedTame == CollectFailed \in Seq(Tame)
<1>1. Write("manifest", "failed") \in Seq(Tame)
      BY Written, TameKinds, TameEffects, FreeFiles, RevisedFiles
      DEF Free, Patched, Derived, Assets, Loose
<1>2. Write("report", "failed") \in Seq(Tame)
      BY TameEffects, TameJoined DEF Write
<1>.  QED
      BY <1>1, <1>2, TameJoined DEF CollectFailed

LEMMA PrepareFedoraTame == PrepareFedora \in Seq(Tame)
<1>1. Need("image", {"good"}) \in Seq(Tame)
      BY Written, TameKinds, TameEffects, FreeFiles, RevisedFiles
      DEF Free, Patched, Derived, Assets, Loose
<1>2. Write("rootfs", "good") \in Seq(Tame)
      BY Written, TameKinds, TameEffects, FreeFiles, RevisedFiles
      DEF Free, Patched, Derived, Assets, Loose
<1>.  QED
      BY <1>1, <1>2, TameJoined DEF PrepareFedora

LEMMA PackageOpencodeTame == PackageOpencode \in Seq(Tame)
<1>1. Need("opencode-manifest", {"good"}) \in Seq(Tame)
      BY Written, TameKinds, TameEffects, FreeFiles, RevisedFiles
      DEF Free, Patched, Derived, Assets, Loose
<1>2. Put("opencode", "good") \in Seq(Tame)
      BY Written, TameKinds, TameEffects, FreeFiles, RevisedFiles
      DEF Free, Patched, Derived, Assets, Loose
<1>3. Write("opencode-manifest", "good") \in Seq(Tame)
      BY Written, TameKinds, TameEffects, FreeFiles, RevisedFiles
      DEF Free, Patched, Derived, Assets, Loose
<1>4. Need("opencode-manifest", {"good"}) \o Put("opencode", "good") \in Seq(Tame)
      BY <1>1, <1>2, TameJoined
<1>.  QED
      BY <1>4, <1>3, TameJoined DEF PackageOpencode

LEMMA StageRuntimeAssetsTame == StageRuntimeAssets \in Seq(Tame)
<1>1. Stage("asset-fedora", "rootfs") \in Seq(Tame)
      BY Written, TameKinds, TameEffects, FreeFiles, RevisedFiles
      DEF Free, Patched, Derived, Assets, Loose
<1>2. Stage("asset-opencode", "opencode") \in Seq(Tame)
      BY Written, TameKinds, TameEffects, FreeFiles, RevisedFiles
      DEF Free, Patched, Derived, Assets, Loose
<1>.  QED
      BY <1>1, <1>2, TameJoined DEF StageRuntimeAssets

LEMMA CollectProotSourcesTame == CollectProotSources \in Seq(Tame)
<1>1. Fetch("source-proot") \in Seq(Tame)
      BY Written, TameKinds, TameEffects, FreeFiles, RevisedFiles
      DEF Free, Patched, Derived, Assets, Loose
<1>2. Fetch("source-deps") \in Seq(Tame)
      BY Written, TameKinds, TameEffects, FreeFiles, RevisedFiles
      DEF Free, Patched, Derived, Assets, Loose
<1>3. Write("asset-notices", "good") \in Seq(Tame)
      BY Written, TameKinds, TameEffects, FreeFiles, RevisedFiles
      DEF Free, Patched, Derived, Assets, Loose
<1>4. Fetch("recipes") \in Seq(Tame)
      BY Written, TameKinds, TameEffects, FreeFiles, RevisedFiles
      DEF Free, Patched, Derived, Assets, Loose
<1>5. Write("evidence", "good") \in Seq(Tame)
      BY Written, TameKinds, TameEffects, FreeFiles, RevisedFiles
      DEF Free, Patched, Derived, Assets, Loose
<1>6. Fetch("source-proot") \o Fetch("source-deps") \in Seq(Tame)
      BY <1>1, <1>2, TameJoined
<1>7. Fetch("source-proot") \o Fetch("source-deps") \o Write("asset-notices", "good") \in Seq(Tame)
      BY <1>6, <1>3, TameJoined
<1>8. Fetch("source-proot") \o
       Fetch("source-deps") \o Write("asset-notices", "good") \o Fetch("recipes") \in Seq(Tame)
      BY <1>7, <1>4, TameJoined
<1>.  QED
      BY <1>8, <1>5, TameJoined DEF CollectProotSources

LEMMA PackageProotTame == PackageProot \in Seq(Tame)
<1>1. Match("build-report", "build-report") \in Seq(Tame)
      BY Written, TameKinds, TameEffects, FreeFiles, RevisedFiles
      DEF Free, Patched, Derived, Assets, Loose
<1>2. Put("proot-archive", "torn") \in Seq(Tame)
      BY Written, TameKinds, TameEffects, FreeFiles, RevisedFiles
      DEF Free, Patched, Derived, Assets, Loose
<1>3. Match("build", "build-report") \in Seq(Tame)
      BY Written, TameKinds, TameEffects, FreeFiles, RevisedFiles
      DEF Free, Patched, Derived, Assets, Loose
<1>4. Copy("proot-archive", "build") \in Seq(Tame)
      BY Written, TameKinds, TameEffects, FreeFiles, RevisedFiles
      DEF Free, Patched, Derived, Assets, Loose
<1>5. WriteFrom("proot-json", "build-report") \in Seq(Tame)
      BY Written, TameKinds, TameEffects, FreeFiles, RevisedFiles
      DEF Free, Patched, Derived, Assets, Loose
<1>6. Match("build-report", "build-report") \o Put("proot-archive", "torn") \in Seq(Tame)
      BY <1>1, <1>2, TameJoined
<1>7. Match("build-report", "build-report") \o
       Put("proot-archive", "torn") \o Match("build", "build-report") \in Seq(Tame)
      BY <1>6, <1>3, TameJoined
<1>8. Match("build-report", "build-report") \o
       Put("proot-archive", "torn") \o Match("build", "build-report") \o Copy("proot-archive", "build") \in Seq(Tame)
      BY <1>7, <1>4, TameJoined
<1>.  QED
      BY <1>8, <1>5, TameJoined DEF PackageProot

LEMMA StageProotTame == StageProot \in Seq(Tame)
<1>1. Cache("packages") \in Seq(Tame)
      BY Written, TameKinds, TameEffects, FreeFiles, RevisedFiles
      DEF Free, Patched, Derived, Assets, Loose
<1>2. Write("lib-tracer", "termux") \in Seq(Tame)
      BY Written, TameKinds, TameEffects, FreeFiles, RevisedFiles
      DEF Free, Patched, Derived, Assets, Loose
<1>3. Write("lib-deps", "good") \in Seq(Tame)
      BY Written, TameKinds, TameEffects, FreeFiles, RevisedFiles
      DEF Free, Patched, Derived, Assets, Loose
<1>4. Match("proot-archive", "proot-json") \in Seq(Tame)
      BY Written, TameKinds, TameEffects, FreeFiles, RevisedFiles
      DEF Free, Patched, Derived, Assets, Loose
<1>5. WriteFrom("lib-tracer", "proot-archive") \in Seq(Tame)
      BY Written, TameKinds, TameEffects, FreeFiles, RevisedFiles
      DEF Free, Patched, Derived, Assets, Loose
<1>6. Cache("packages") \o Write("lib-tracer", "termux") \in Seq(Tame)
      BY <1>1, <1>2, TameJoined
<1>7. Cache("packages") \o Write("lib-tracer", "termux") \o Write("lib-deps", "good") \in Seq(Tame)
      BY <1>6, <1>3, TameJoined
<1>8. Cache("packages") \o
       Write("lib-tracer", "termux") \o Write("lib-deps", "good") \o Match("proot-archive", "proot-json") \in Seq(Tame)
      BY <1>7, <1>4, TameJoined
<1>.  QED
      BY <1>8, <1>5, TameJoined DEF StageProot

LEMMA StageDnfastTame == StageDnfast \in Seq(Tame)
<1>1. Stage("asset-overlay", "dnfast-overlay") \in Seq(Tame)
      BY Written, TameKinds, TameEffects, FreeFiles, RevisedFiles
      DEF Free, Patched, Derived, Assets, Loose
<1>2. Stage("asset-dnfast", "dnfast-manifest") \in Seq(Tame)
      BY Written, TameKinds, TameEffects, FreeFiles, RevisedFiles
      DEF Free, Patched, Derived, Assets, Loose
<1>.  QED
      BY <1>1, <1>2, TameJoined DEF StageDnfast

LEMMA StageWebUiTame == StageWebUi \in Seq(Tame)
<1>1. Write("ui-index", "good") \in Seq(Tame)
      BY Written, TameKinds, TameEffects, FreeFiles, RevisedFiles
      DEF Free, Patched, Derived, Assets, Loose
<1>2. Write("ui-script", "good") \in Seq(Tame)
      BY Written, TameKinds, TameEffects, FreeFiles, RevisedFiles
      DEF Free, Patched, Derived, Assets, Loose
<1>3. Write("ui-manifest", "good") \in Seq(Tame)
      BY Written, TameKinds, TameEffects, FreeFiles, RevisedFiles
      DEF Free, Patched, Derived, Assets, Loose
<1>4. Write("ui-index", "good") \o Write("ui-script", "good") \in Seq(Tame)
      BY <1>1, <1>2, TameJoined
<1>.  QED
      BY <1>4, <1>3, TameJoined DEF StageWebUi

LEMMA CollectDnfastSourcesTame == CollectDnfastSources \in Seq(Tame)
<1>1. Put("dnfast-archive", "good") \in Seq(Tame)
      BY Written, TameKinds, TameEffects, FreeFiles, RevisedFiles
      DEF Free, Patched, Derived, Assets, Loose
<1>2. Write("asset-dnfast-license", "good") \in Seq(Tame)
      BY Written, TameKinds, TameEffects, FreeFiles, RevisedFiles
      DEF Free, Patched, Derived, Assets, Loose
<1>3. Write("export-record", "good") \in Seq(Tame)
      BY Written, TameKinds, TameEffects, FreeFiles, RevisedFiles
      DEF Free, Patched, Derived, Assets, Loose
<1>4. Put("dnfast-archive", "good") \o Write("asset-dnfast-license", "good") \in Seq(Tame)
      BY <1>1, <1>2, TameJoined
<1>.  QED
      BY <1>4, <1>3, TameJoined DEF CollectDnfastSources

LEMMA CollectCargoSourcesTame == CollectCargoSources \in Seq(Tame)
<1>1. Cache("crate") \in Seq(Tame)
      BY Written, TameKinds, TameEffects, FreeFiles, RevisedFiles
      DEF Free, Patched, Derived, Assets, Loose
<1>2. Put("cargo-archive", "good") \in Seq(Tame)
      BY Written, TameKinds, TameEffects, FreeFiles, RevisedFiles
      DEF Free, Patched, Derived, Assets, Loose
<1>3. Write("cargo-report", "good") \in Seq(Tame)
      BY Written, TameKinds, TameEffects, FreeFiles, RevisedFiles
      DEF Free, Patched, Derived, Assets, Loose
<1>4. Cache("crate") \o Put("cargo-archive", "good") \in Seq(Tame)
      BY <1>1, <1>2, TameJoined
<1>.  QED
      BY <1>4, <1>3, TameJoined DEF CollectCargoSources

LEMMA CollectCargoNoticesTame == CollectCargoNotices \in Seq(Tame)
<1>1. Match("cargo-archive", "cargo-record") \in Seq(Tame)
      BY Written, TameKinds, TameEffects, FreeFiles, RevisedFiles
      DEF Free, Patched, Derived, Assets, Loose
<1>2. Copy("cargo-notices", "cargo-archive") \in Seq(Tame)
      BY Written, TameKinds, TameEffects, FreeFiles, RevisedFiles
      DEF Free, Patched, Derived, Assets, Loose
<1>3. WriteFrom("notices-record", "cargo-notices") \in Seq(Tame)
      BY Written, TameKinds, TameEffects, FreeFiles, RevisedFiles
      DEF Free, Patched, Derived, Assets, Loose
<1>4. Match("cargo-archive", "cargo-record") \o
       Copy("cargo-notices", "cargo-archive") \in Seq(Tame)
      BY <1>1, <1>2, TameJoined
<1>.  QED
      BY <1>4, <1>3, TameJoined DEF CollectCargoNotices

LEMMA CollectRpmNoticesTame == CollectRpmNotices \in Seq(Tame)
<1>1. Write("rpm-notices", "good") \in Seq(Tame)
      BY Written, TameKinds, TameEffects, FreeFiles, RevisedFiles
      DEF Free, Patched, Derived, Assets, Loose
<1>2. WriteFrom("rpm-report", "rpm-notices") \in Seq(Tame)
      BY Written, TameKinds, TameEffects, FreeFiles, RevisedFiles
      DEF Free, Patched, Derived, Assets, Loose
<1>.  QED
      BY <1>1, <1>2, TameJoined DEF CollectRpmNotices

LEMMA StageRpmNoticesTame == StageRpmNotices \in Seq(Tame)
<1>1. Match("carried-notices", "rpm-record") \in Seq(Tame)
      BY Written, TameKinds, TameEffects, FreeFiles, RevisedFiles
      DEF Free, Patched, Derived, Assets, Loose
<1>2. WriteFrom("asset-rpm-1", "carried-notices") \in Seq(Tame)
      BY Written, TameKinds, TameEffects, FreeFiles, RevisedFiles
      DEF Free, Patched, Derived, Assets, Loose
<1>3. WriteFrom("asset-rpm-2", "carried-notices") \in Seq(Tame)
      BY Written, TameKinds, TameEffects, FreeFiles, RevisedFiles
      DEF Free, Patched, Derived, Assets, Loose
<1>4. Match("carried-notices", "rpm-record") \o
       WriteFrom("asset-rpm-1", "carried-notices") \in Seq(Tame)
      BY <1>1, <1>2, TameJoined
<1>.  QED
      BY <1>4, <1>3, TameJoined DEF StageRpmNotices

LEMMA StageSourceNoticesTame == StageSourceNotices \in Seq(Tame)
<1>1. Need("source-rpm", {"good"}) \in Seq(Tame)
      BY Written, TameKinds, TameEffects, FreeFiles, RevisedFiles
      DEF Free, Patched, Derived, Assets, Loose
<1>2. Write("asset-source-notice", "good") \in Seq(Tame)
      BY Written, TameKinds, TameEffects, FreeFiles, RevisedFiles
      DEF Free, Patched, Derived, Assets, Loose
<1>3. Write("source-notices-record", "good") \in Seq(Tame)
      BY Written, TameKinds, TameEffects, FreeFiles, RevisedFiles
      DEF Free, Patched, Derived, Assets, Loose
<1>4. Need("source-rpm", {"good"}) \o Write("asset-source-notice", "good") \in Seq(Tame)
      BY <1>1, <1>2, TameJoined
<1>.  QED
      BY <1>4, <1>3, TameJoined DEF StageSourceNotices

LEMMA CarryCargoTame == CarryCargo \in Seq(Tame)
<1>1. WriteFrom("cargo-record", "cargo-report") \in Seq(Tame)
      BY Written, TameKinds, TameEffects, FreeFiles, RevisedFiles
      DEF Free, Patched, Derived, Assets, Loose
<1>2. Need("cargo-notices", {"good"}) \in Seq(Tame)
      BY Written, TameKinds, TameEffects, FreeFiles, RevisedFiles
      DEF Free, Patched, Derived, Assets, Loose
<1>3. WriteFrom("asset-cargo-notices", "cargo-notices") \in Seq(Tame)
      BY Written, TameKinds, TameEffects, FreeFiles, RevisedFiles
      DEF Free, Patched, Derived, Assets, Loose
<1>4. WriteFrom("cargo-record", "cargo-report") \o Need("cargo-notices", {"good"}) \in Seq(Tame)
      BY <1>1, <1>2, TameJoined
<1>.  QED
      BY <1>4, <1>3, TameJoined DEF CarryCargo

LEMMA CarryRpmsTame == CarryRpms \in Seq(Tame)
<1>1. WriteFrom("rpm-record", "rpm-report") \in Seq(Tame)
      BY Written, TameKinds, TameEffects, FreeFiles, RevisedFiles
      DEF Free, Patched, Derived, Assets, Loose
<1>2. WriteFrom("carried-notices", "rpm-notices") \in Seq(Tame)
      BY Written, TameKinds, TameEffects, FreeFiles, RevisedFiles
      DEF Free, Patched, Derived, Assets, Loose
<1>.  QED
      BY <1>1, <1>2, TameJoined DEF CarryRpms

LEMMA PatchTame ==
  ASSUME NEW f \in Free, NEW a \in {"pristine", "exitkill"}, NEW b \in {"exitkill", "patched"}
  PROVE  Patch(f, a, b) \in Seq(Tame)
<1>1. Need(f, {a}) \in Seq(Tame) /\ Write(f, b) \in Seq(Tame)
      BY Written, FreeFiles
<1>.  QED
      BY <1>1, TameJoined DEF Patch

LEMMA BuildProotCandidateTame == BuildProotCandidate \in Seq(Tame)
<1>1. /\ Need("source-proot", {"good"}) \in Seq(Tame) /\ Write("old-tree", "pristine") \in Seq(Tame)
      /\ Patch("old-tree", "pristine", "exitkill") \in Seq(Tame)
      BY Written, PatchTame, FreeFiles DEF Free
<1>2. /\ Need("source-deps", {"good"}) \in Seq(Tame) /\ Need("lib-deps", {"good"}) \in Seq(Tame)
      /\ WriteFrom("old-build", "old-tree") \in Seq(Tame)
      /\ WriteFrom("old-report", "old-build") \in Seq(Tame)
      BY Written, FreeFiles DEF Free
<1>3. Need("source-deps", {"good"}) \o Need("lib-deps", {"good"}) \in Seq(Tame)
      BY <1>2, TameJoined
<1>4. Need("source-deps", {"good"}) \o Need("lib-deps", {"good"})
        \o WriteFrom("old-build", "old-tree") \in Seq(Tame)
      BY <1>2, <1>3, TameJoined
<1>5. Compile("old-tree", "old-build", "old-report") \in Seq(Tame)
      BY <1>2, <1>4, TameJoined DEF Compile
<1>6. Need("source-proot", {"good"}) \o Write("old-tree", "pristine") \in Seq(Tame)
      BY <1>1, TameJoined
<1>7. Need("source-proot", {"good"}) \o Write("old-tree", "pristine")
        \o Patch("old-tree", "pristine", "exitkill") \in Seq(Tame)
      BY <1>1, <1>6, TameJoined
<1>.  QED
      BY <1>5, <1>7, TameJoined DEF BuildProotCandidate

\* What a script does at each of its places.
Does(o, f, c) == [op |-> o, f |-> f, v |-> {c}]

LEMMA Effects ==
  ASSUME NEW S
  PROVE  /\ \A f, c : Does("need", f, c) \in S =>
              Need(f, {c}) \in Seq(S) /\ Len(Need(f, {c})) = 1 /\ Need(f, {c})[1] = Does("need", f, c)
         /\ \A f, c : Does("put", f, c) \in S =>
              Put(f, c) \in Seq(S) /\ Len(Put(f, c)) = 1 /\ Put(f, c)[1] = Does("put", f, c)
         /\ \A f, c : Does("copy", f, c) \in S =>
              Copy(f, c) \in Seq(S) /\ Len(Copy(f, c)) = 1 /\ Copy(f, c)[1] = Does("copy", f, c)
<1>1. ASSUME NEW e \in S PROVE <<e>> \in Seq(S) /\ Len(<<e>>) = 1 /\ <<e>>[1] = e
      OBVIOUS
<1>2. ASSUME NEW f, NEW c, Does("need", f, c) \in S
      PROVE  Need(f, {c}) \in Seq(S) /\ Len(Need(f, {c})) = 1 /\ Need(f, {c})[1] = Does("need", f, c)
  <2>1. Need(f, {c}) = << Does("need", f, c) >>
        BY DEF Need, Does
  <2>.  QED
        BY <1>1, <1>2, <2>1
<1>3. ASSUME NEW f, NEW c, Does("put", f, c) \in S
      PROVE  Put(f, c) \in Seq(S) /\ Len(Put(f, c)) = 1 /\ Put(f, c)[1] = Does("put", f, c)
  <2>1. Put(f, c) = << Does("put", f, c) >>
        BY DEF Put, Does
  <2>.  QED
        BY <1>1, <1>3, <2>1
<1>4. ASSUME NEW f, NEW c, Does("copy", f, c) \in S
      PROVE  Copy(f, c) \in Seq(S) /\ Len(Copy(f, c)) = 1 /\ Copy(f, c)[1] = Does("copy", f, c)
  <2>1. Copy(f, c) = << Does("copy", f, c) >>
        BY DEF Copy, Does
  <2>.  QED
        BY <1>1, <1>4, <2>1
<1>.  QED
      BY <1>2, <1>3, <1>4

LEMMA WrittenAt ==
  ASSUME NEW S, NEW f, NEW c, Does("put", f, "torn") \in S, Does("put", f, c) \in S
  PROVE  /\ Write(f, c) \in Seq(S) /\ Len(Write(f, c)) = 2
         /\ Write(f, c)[1] = Does("put", f, "torn") /\ Write(f, c)[2] = Does("put", f, c)
<1>  DEFINE a == Put(f, "torn")
            b == Put(f, c)
<1>1. /\ a \in Seq(S) /\ Len(a) = 1 /\ a[1] = Does("put", f, "torn")
      /\ b \in Seq(S) /\ Len(b) = 1 /\ b[1] = Does("put", f, c)
      BY Effects
<1>2. Write(f, c) = a \o b
      BY DEF Write
<1>   HIDE DEF a, b
<1>3. a \in Seq(S) /\ b \in Seq(S)
      BY <1>1
<1>4. /\ a \o b \in Seq(S) /\ Len(a \o b) = Len(a) + Len(b)
      /\ \A i \in 1 .. Len(a) : (a \o b)[i] = a[i]
      /\ \A i \in Len(a) + 1 .. Len(a) + Len(b) : (a \o b)[i] = b[i - Len(a)]
      BY <1>3, Joined
<1>   HIDE DEF Does
<1>.  QED
      BY <1>1, <1>2, <1>4

LEMMA PatchedAt ==
  ASSUME NEW f \in Free, NEW a \in {"pristine", "exitkill"}, NEW b \in {"exitkill", "patched"}
  PROVE  /\ Patch(f, a, b) \in Seq(Tame) /\ Len(Patch(f, a, b)) = 3
         /\ Patch(f, a, b)[3] = Does("put", f, b)
<1>  DEFINE s == Need(f, {a})
            t == Write(f, b)
<1>1. /\ Does("need", f, a) \in Tame /\ Does("put", f, "torn") \in Tame /\ Does("put", f, b) \in Tame
  <2>1. a \in Contents /\ b \in Contents \ {"absent"} /\ "torn" \in Contents \ {"absent"}
        BY DEF Contents
  <2>2. f \in Files /\ f \in Untold /\ Held(f) = Contents
        BY FreeFiles, HeldFacts
  <2>3. Does("need", f, a) \in Needs
        BY <2>1, <2>2 DEF Needs, Does
  <2>4. Does("put", f, "torn") \in Puts /\ Does("put", f, b) \in Puts
        BY <2>1, <2>2 DEF Puts, Does
  <2>.  QED
        BY <2>3, <2>4 DEF Tame
<1>2. s \in Seq(Tame) /\ Len(s) = 1
      BY <1>1, Effects
<1>3. t \in Seq(Tame) /\ Len(t) = 2 /\ t[2] = Does("put", f, b)
      BY <1>1, WrittenAt
<1>4. Patch(f, a, b) = s \o t
      BY DEF Patch
<1>   HIDE DEF s, t
<1>5. s \in Seq(Tame) /\ t \in Seq(Tame)
      BY <1>2, <1>3
<1>6. /\ s \o t \in Seq(Tame) /\ Len(s \o t) = Len(s) + Len(t)
      /\ \A i \in Len(s) + 1 .. Len(s) + Len(t) : (s \o t)[i] = t[i - Len(s)]
      BY <1>5, Joined
<1>   HIDE DEF Does
<1>.  QED
      BY <1>2, <1>3, <1>4, <1>6

\* The build of the patched PRoot: the place at which it copies its tree, and those before.
BuildCopy == Does("copy", "build", "tree")

LEMMA BuildPlaces ==
  /\ Len(BuildProot) = 15 /\ BuildProot \in Seq(Tame \cup {BuildCopy})
  /\ \A i \in 1 .. 15 : i # 13 => BuildProot[i] \in Tame
  /\ BuildProot[9] = Does("put", "tree", "patched")
  /\ BuildProot[10].op = "need" /\ BuildProot[11].op = "need"
  /\ BuildProot[12] = Does("put", "build", "torn") /\ BuildProot[13] = BuildCopy
<1>  DEFINE S == Tame \cup {BuildCopy}
            a1 == Need("source-proot", {"good"})
            a2 == Write("tree", "pristine")
            a3 == Patch("tree", "pristine", "exitkill")
            a4 == Patch("tree", "exitkill", "patched")
            c1 == Need("source-deps", {"good"})
            c2 == Need("lib-deps", {"good"})
            c3 == Put("build", "torn")
            c4 == Copy("build", "tree")
            c5 == WriteFrom("build-report", "build")
<1>1. /\ \A f \in {"source-proot", "source-deps", "lib-deps"} : Does("need", f, "good") \in Tame
      /\ Does("put", "tree", "torn") \in Tame /\ Does("put", "tree", "pristine") \in Tame
      /\ Does("put", "build", "torn") \in Tame
      /\ Does("put", "build-report", "torn") \in Tame /\ Does("copy", "build-report", "build") \in Tame
  <2>1. {"good", "torn", "pristine"} \subseteq Contents \ {"absent"}
        BY DEF Contents
  <2>2. /\ {"source-proot", "source-deps", "lib-deps", "build"} \subseteq Files
        /\ {"tree", "build", "build-report"} \subseteq Untold
        /\ Held("tree") = Contents /\ Held("build") = {"absent", "torn", "patched"}
        /\ Held("build-report") = {"absent", "torn", "patched"}
        BY FileKinds, HeldFacts, RevisedFiles DEF Untold, Reported, Loose, Patched
  <2>3. \A f \in {"source-proot", "source-deps", "lib-deps"} : Does("need", f, "good") \in Needs
        BY <2>1, <2>2 DEF Needs, Does
  <2>4. /\ Does("put", "tree", "torn") \in Puts /\ Does("put", "tree", "pristine") \in Puts
        /\ Does("put", "build", "torn") \in Puts /\ Does("put", "build-report", "torn") \in Puts
        BY <2>1, <2>2 DEF Puts, Does
  <2>5. Flows("build", "build-report")
        BY <2>2 DEF Flows
  <2>6. Does("copy", "build-report", "build") \in Copies
        BY <2>2, <2>5 DEF Copies, Does
  <2>.  QED
        BY <2>3, <2>4, <2>6 DEF Tame
<1>2. /\ a1 \in Seq(Tame) /\ Len(a1) = 1
      /\ c1 \in Seq(Tame) /\ Len(c1) = 1 /\ c1[1] = Does("need", "source-deps", "good")
      /\ c2 \in Seq(Tame) /\ Len(c2) = 1 /\ c2[1] = Does("need", "lib-deps", "good")
      BY <1>1, Effects
<1>3. a2 \in Seq(Tame) /\ Len(a2) = 2
      BY <1>1, WrittenAt
<1>4. /\ a3 \in Seq(Tame) /\ Len(a3) = 3
      /\ a4 \in Seq(Tame) /\ Len(a4) = 3 /\ a4[3] = Does("put", "tree", "patched")
      BY PatchedAt DEF Free
<1>5. c3 \in Seq(Tame) /\ Len(c3) = 1 /\ c3[1] = Does("put", "build", "torn")
      BY <1>1, Effects
<1>6. c4 \in Seq(S) /\ Len(c4) = 1 /\ c4[1] = BuildCopy
      BY Effects DEF BuildCopy
<1>7. c5 \in Seq(Tame) /\ Len(c5) = 2
  <2>1. /\ Put("build-report", "torn") \in Seq(Tame) /\ Len(Put("build-report", "torn")) = 1
        /\ Copy("build-report", "build") \in Seq(Tame) /\ Len(Copy("build-report", "build")) = 1
        BY <1>1, Effects
  <2>.  QED
        BY <2>1, Joined DEF WriteFrom
<1>8. BuildProot = (((a1 \o a2) \o a3) \o a4) \o (((c1 \o c2) \o (c3 \o c4)) \o c5)
      BY DEF BuildProot, Compile, WriteFrom
<1>   HIDE DEF a1, a2, a3, a4, c1, c2, c3, c4, c5
<1>9. Tame \subseteq S /\ Seq(Tame) \subseteq Seq(S)
      OBVIOUS
<1>   HIDE DEF S, Does
<1>   DEFINE p == ((a1 \o a2) \o a3) \o a4
             q == ((c1 \o c2) \o (c3 \o c4)) \o c5
<1>10. p \in Seq(Tame) /\ Len(p) = 9 /\ p[9] = a4[3]
  <2>  DEFINE p1 == a1 \o a2
              p2 == p1 \o a3
  <2>1. p1 \in Seq(Tame) /\ Len(p1) = Len(a1) + Len(a2)
        BY <1>2, <1>3, Joined
  <2>   HIDE DEF p1
  <2>2. p1 \in Seq(Tame) /\ a3 \in Seq(Tame) /\ a4 \in Seq(Tame)
        BY <1>4, <2>1
  <2>3. p2 \in Seq(Tame) /\ Len(p2) = Len(p1) + Len(a3)
        BY <2>2, Joined
  <2>   HIDE DEF p2
  <2>4. p2 \in Seq(Tame)
        BY <2>3
  <2>5. /\ p2 \o a4 \in Seq(Tame) /\ Len(p2 \o a4) = Len(p2) + Len(a4)
        /\ \A i \in Len(p2) + 1 .. Len(p2) + Len(a4) : (p2 \o a4)[i] = a4[i - Len(p2)]
        BY <2>2, <2>4, Joined
  <2>6. Len(p2) = 6 /\ p = p2 \o a4
        BY <1>2, <1>3, <1>4, <2>1, <2>3 DEF p1, p2
  <2>.  QED
        BY <1>4, <2>5, <2>6
<1>11. /\ q \in Seq(S) /\ Len(q) = 6 /\ q[1] = c1[1] /\ q[2] = c2[1] /\ q[3] = c3[1] /\ q[4] = c4[1]
       /\ q[5] = c5[1] /\ q[6] = c5[2]
  <2>  DEFINE q1 == c1 \o c2
              q2 == c3 \o c4
              q3 == q1 \o q2
  <2>0. /\ c1 \in Seq(S) /\ c2 \in Seq(S) /\ c3 \in Seq(S) /\ c4 \in Seq(S) /\ c5 \in Seq(S)
        BY <1>2, <1>5, <1>6, <1>7, <1>9
  <2>1. /\ q1 \in Seq(S) /\ Len(q1) = Len(c1) + Len(c2) /\ \A i \in 1 .. Len(c1) : q1[i] = c1[i]
        /\ \A i \in Len(c1) + 1 .. Len(c1) + Len(c2) : q1[i] = c2[i - Len(c1)]
        BY <2>0, Joined
  <2>2. /\ q2 \in Seq(S) /\ Len(q2) = Len(c3) + Len(c4) /\ \A i \in 1 .. Len(c3) : q2[i] = c3[i]
        /\ \A i \in Len(c3) + 1 .. Len(c3) + Len(c4) : q2[i] = c4[i - Len(c3)]
        BY <2>0, Joined
  <2>   HIDE DEF q1, q2
  <2>9. q1 \in Seq(S) /\ q2 \in Seq(S)
        BY <2>1, <2>2
  <2>3. /\ q3 \in Seq(S) /\ Len(q3) = Len(q1) + Len(q2) /\ \A i \in 1 .. Len(q1) : q3[i] = q1[i]
        /\ \A i \in Len(q1) + 1 .. Len(q1) + Len(q2) : q3[i] = q2[i - Len(q1)]
        BY <2>9, Joined
  <2>   HIDE DEF q3
  <2>10. q3 \in Seq(S)
        BY <2>3
  <2>4. /\ q3 \o c5 \in Seq(S) /\ Len(q3 \o c5) = Len(q3) + Len(c5)
        /\ \A i \in 1 .. Len(q3) : (q3 \o c5)[i] = q3[i]
        /\ \A i \in Len(q3) + 1 .. Len(q3) + Len(c5) : (q3 \o c5)[i] = c5[i - Len(q3)]
        BY <2>0, <2>10, Joined
  <2>5. Len(q1) = 2 /\ Len(q2) = 2 /\ Len(q3) = 4
        BY <1>2, <1>5, <1>6, <2>1, <2>2, <2>3
  <2>6. q1[1] = c1[1] /\ q1[2] = c2[1] /\ q2[1] = c3[1] /\ q2[2] = c4[1]
        BY <1>2, <1>5, <1>6, <2>1, <2>2
  <2>7. q3[1] = c1[1] /\ q3[2] = c2[1] /\ q3[3] = c3[1] /\ q3[4] = c4[1]
        BY <2>3, <2>5, <2>6
  <2>8. q = q3 \o c5
        BY DEF q1, q2, q3
  <2>   HIDE DEF q
  <2>.  QED
        BY <1>7, <2>4, <2>5, <2>7, <2>8
<1>12. \A i \in 1 .. 9 : p[i] \in Tame
       BY <1>10
<1>13. c5[1] \in Tame /\ c5[2] \in Tame
       BY <1>7
<1>14. p \in Seq(S) /\ q \in Seq(S)
       BY <1>9, <1>10, <1>11
<1>15. BuildProot = p \o q
       BY <1>8
<1>    HIDE DEF p, q
<1>16. /\ p \o q \in Seq(S) /\ Len(p \o q) = Len(p) + Len(q)
       /\ \A i \in 1 .. Len(p) : (p \o q)[i] = p[i]
       /\ \A i \in Len(p) + 1 .. Len(p) + Len(q) : (p \o q)[i] = q[i - Len(p)]
       BY <1>14, Joined
<1>17. Len(p) = 9 /\ Len(q) = 6
       BY <1>10, <1>11
<1>18. /\ Len(BuildProot) = 15 /\ \A i \in 1 .. 9 : BuildProot[i] = p[i]
       /\ \A i \in 10 .. 15 : BuildProot[i] = q[i - 9]
  <2>1. \A i \in 1 .. 9 : (p \o q)[i] = p[i]
        BY <1>16, <1>17
  <2>2. \A i \in 10 .. 15 : (p \o q)[i] = q[i - 9]
    <3>1. \A i \in 9 + 1 .. 9 + 6 : (p \o q)[i] = q[i - 9]
          BY <1>16, <1>17
    <3>.  HIDE DEF p, q
    <3>2. 9 + 1 = 10 /\ 9 + 6 = 15
          OBVIOUS
    <3>.  QED
          BY <3>1, <3>2
  <2>3. Len(p \o q) = 15
        BY <1>16, <1>17
  <2>.  QED
        BY <1>15, <2>1, <2>2, <2>3
<1>19. /\ BuildProot[9] = p[9] /\ BuildProot[10] = q[1] /\ BuildProot[11] = q[2]
       /\ BuildProot[12] = q[3] /\ BuildProot[13] = q[4] /\ BuildProot[14] = q[5] /\ BuildProot[15] = q[6]
       BY <1>18
<1>20. /\ BuildProot[10] \in Tame /\ BuildProot[11] \in Tame /\ BuildProot[12] \in Tame
       /\ BuildProot[14] \in Tame /\ BuildProot[15] \in Tame
       BY <1>1, <1>2, <1>5, <1>11, <1>13, <1>19
<1>21. \A i \in 1 .. 15 : i # 13 => BuildProot[i] \in Tame
       BY <1>12, <1>18, <1>20
<1>22. BuildProot[10].op = "need" /\ BuildProot[11].op = "need"
       BY <1>2, <1>11, <1>19 DEF Does
<1>23. BuildProot \in Seq(S)
       BY <1>15, <1>16
<1>.   QED
       BY <1>4, <1>5, <1>6, <1>10, <1>11, <1>18, <1>19, <1>21, <1>22, <1>23 DEF S

\* The collector, place by place.
LEMMA Grown ==
  ASSUME NEW S, NEW s \in Seq(S), NEW e \in S
  PROVE  /\ s \o <<e>> \in Seq(S) /\ Len(s \o <<e>>) = Len(s) + 1
         /\ (s \o <<e>>)[Len(s) + 1] = e /\ \A i \in 1 .. Len(s) : (s \o <<e>>)[i] = s[i]
<1>  DEFINE t == <<e>>
<1>1. t \in Seq(S) /\ Len(t) = 1 /\ t[1] = e
      OBVIOUS
<1>   HIDE DEF t
<1>2. t \in Seq(S)
      BY <1>1
<1>3. /\ s \o t \in Seq(S) /\ Len(s \o t) = Len(s) + Len(t)
      /\ \A i \in 1 .. Len(s) : (s \o t)[i] = s[i]
      /\ \A i \in Len(s) + 1 .. Len(s) + Len(t) : (s \o t)[i] = t[i - Len(s)]
      BY <1>2, Joined
<1>4. Len(s) \in Nat
      OBVIOUS
<1>5. Len(s) + 1 \in Len(s) + 1 .. Len(s) + Len(t) /\ (Len(s) + 1) - Len(s) = 1
      BY <1>1, <1>4
<1>6. (s \o t)[Len(s) + 1] = e
      BY <1>1, <1>3, <1>5
<1>7. Len(s \o t) = Len(s) + 1
      BY <1>1, <1>3
<1>.  QED
      BY <1>3, <1>6, <1>7 DEF t

CollectFiles == {"report", "manifest", "checksum", "keyring", "pgp", "image", "api", "opencode-upstream"}

LEMMA CollectPlaces ==
  /\ Len(CollectUpstream) = 15
  /\ CollectUpstream[1] = Does("put", "report", "torn")
  /\ CollectUpstream[2] = Does("put", "report", "collecting")
  /\ CollectUpstream[3] = Does("download", "checksum", "unpinned")
  /\ CollectUpstream[4] = Does("download", "keyring", "unpinned")
  /\ CollectUpstream[5] = Does("download", "pgp", "unpinned")
  /\ CollectUpstream[6] = Does("need", "checksum", "good")
  /\ CollectUpstream[7] = Does("need", "keyring", "good")
  /\ CollectUpstream[8] = Does("download", "image", "pinned")
  /\ CollectUpstream[9] = Does("download", "api", "refreshed")
  /\ CollectUpstream[10] = Does("need", "api", "good")
  /\ CollectUpstream[11] = Does("download", "opencode-upstream", "pinned")
  /\ CollectUpstream[12] = Does("put", "manifest", "torn")
  /\ CollectUpstream[13] = Does("put", "manifest", "verified")
  /\ CollectUpstream[14] = Does("put", "report", "torn")
  /\ CollectUpstream[15] = Does("put", "report", "verified")
<1>  DEFINE S == {Does(o, f, c) : o \in {"put", "need", "download"}, f \in CollectFiles,
                   c \in {"torn", "collecting", "unpinned", "good", "pinned", "refreshed", "verified"}}
<1>1. Does("put", "report", "torn") \in S
      BY DEF CollectFiles
<1>2. Does("put", "report", "collecting") \in S
      BY DEF CollectFiles
<1>3. Does("download", "checksum", "unpinned") \in S
      BY DEF CollectFiles
<1>4. Does("download", "keyring", "unpinned") \in S
      BY DEF CollectFiles
<1>5. Does("download", "pgp", "unpinned") \in S
      BY DEF CollectFiles
<1>6. Does("need", "checksum", "good") \in S
      BY DEF CollectFiles
<1>7. Does("need", "keyring", "good") \in S
      BY DEF CollectFiles
<1>8. Does("download", "image", "pinned") \in S
      BY DEF CollectFiles
<1>9. Does("download", "api", "refreshed") \in S
      BY DEF CollectFiles
<1>10. Does("need", "api", "good") \in S
      BY DEF CollectFiles
<1>11. Does("download", "opencode-upstream", "pinned") \in S
      BY DEF CollectFiles
<1>12. Does("put", "manifest", "torn") \in S
      BY DEF CollectFiles
<1>13. Does("put", "manifest", "verified") \in S
      BY DEF CollectFiles
<1>14. Does("put", "report", "torn") \in S
      BY DEF CollectFiles
<1>15. Does("put", "report", "verified") \in S
      BY DEF CollectFiles
<1>   HIDE DEF S
<1>16. /\ Write("report", "collecting") \in Seq(S) /\ Len(Write("report", "collecting")) = 2
      /\ Write("report", "collecting")[1] = Does("put", "report", "torn") /\ Write("report", "collecting")[2] = Does("put", "report", "collecting")
      BY <1>1, <1>2, WrittenAt
<1>17. /\ Write("manifest", "verified") \in Seq(S) /\ Len(Write("manifest", "verified")) = 2
      /\ Write("manifest", "verified")[1] = Does("put", "manifest", "torn") /\ Write("manifest", "verified")[2] = Does("put", "manifest", "verified")
      BY <1>12, <1>13, WrittenAt
<1>18. /\ Write("report", "verified") \in Seq(S) /\ Len(Write("report", "verified")) = 2
      /\ Write("report", "verified")[1] = Does("put", "report", "torn") /\ Write("report", "verified")[2] = Does("put", "report", "verified")
      BY <1>14, <1>15, WrittenAt
<1>   DEFINE p2 == Write("report", "collecting")
             m == Write("manifest", "verified")
             r == Write("report", "verified")
             p3 == p2 \o <<Does("download", "checksum", "unpinned")>>
             p4 == p3 \o <<Does("download", "keyring", "unpinned")>>
             p5 == p4 \o <<Does("download", "pgp", "unpinned")>>
             p6 == p5 \o <<Does("need", "checksum", "good")>>
             p7 == p6 \o <<Does("need", "keyring", "good")>>
             p8 == p7 \o <<Does("download", "image", "pinned")>>
             p9 == p8 \o <<Does("download", "api", "refreshed")>>
             p10 == p9 \o <<Does("need", "api", "good")>>
             p11 == p10 \o <<Does("download", "opencode-upstream", "pinned")>>
             p13 == p11 \o m
             p15 == p13 \o r
<1>19. CollectUpstream = p15
      BY DEF CollectUpstream, Does, Unpinned, Pinned, Refreshed, Need
<1>   HIDE DEF Does, p2, m, r, p15, p13, p3, p4, p5, p6, p7, p8, p9, p10, p11
<1>20. p2 \in Seq(S) /\ m \in Seq(S) /\ r \in Seq(S)
      BY <1>16, <1>17, <1>18 DEF p2, m, r
<1>21. Len(p2) = 2 /\ Len(m) = 2 /\ Len(r) = 2
      BY <1>16, <1>17, <1>18 DEF p2, m, r
<1>22. p3 \in Seq(S)
      BY <1>20, <1>3, Grown DEF p3
<1>23. /\ Len(p3) = Len(p2) + 1 /\ p3[Len(p2) + 1] = Does("download", "checksum", "unpinned")
      /\ \A i \in 1 .. Len(p2) : p3[i] = p2[i]
      BY <1>20, <1>3, Grown DEF p3
<1>24. p4 \in Seq(S)
      BY <1>22, <1>4, Grown DEF p4
<1>25. /\ Len(p4) = Len(p3) + 1 /\ p4[Len(p3) + 1] = Does("download", "keyring", "unpinned")
      /\ \A i \in 1 .. Len(p3) : p4[i] = p3[i]
      BY <1>22, <1>4, Grown DEF p4
<1>26. p5 \in Seq(S)
      BY <1>24, <1>5, Grown DEF p5
<1>27. /\ Len(p5) = Len(p4) + 1 /\ p5[Len(p4) + 1] = Does("download", "pgp", "unpinned")
      /\ \A i \in 1 .. Len(p4) : p5[i] = p4[i]
      BY <1>24, <1>5, Grown DEF p5
<1>28. p6 \in Seq(S)
      BY <1>26, <1>6, Grown DEF p6
<1>29. /\ Len(p6) = Len(p5) + 1 /\ p6[Len(p5) + 1] = Does("need", "checksum", "good")
      /\ \A i \in 1 .. Len(p5) : p6[i] = p5[i]
      BY <1>26, <1>6, Grown DEF p6
<1>30. p7 \in Seq(S)
      BY <1>28, <1>7, Grown DEF p7
<1>31. /\ Len(p7) = Len(p6) + 1 /\ p7[Len(p6) + 1] = Does("need", "keyring", "good")
      /\ \A i \in 1 .. Len(p6) : p7[i] = p6[i]
      BY <1>28, <1>7, Grown DEF p7
<1>32. p8 \in Seq(S)
      BY <1>30, <1>8, Grown DEF p8
<1>33. /\ Len(p8) = Len(p7) + 1 /\ p8[Len(p7) + 1] = Does("download", "image", "pinned")
      /\ \A i \in 1 .. Len(p7) : p8[i] = p7[i]
      BY <1>30, <1>8, Grown DEF p8
<1>34. p9 \in Seq(S)
      BY <1>32, <1>9, Grown DEF p9
<1>35. /\ Len(p9) = Len(p8) + 1 /\ p9[Len(p8) + 1] = Does("download", "api", "refreshed")
      /\ \A i \in 1 .. Len(p8) : p9[i] = p8[i]
      BY <1>32, <1>9, Grown DEF p9
<1>36. p10 \in Seq(S)
      BY <1>34, <1>10, Grown DEF p10
<1>37. /\ Len(p10) = Len(p9) + 1 /\ p10[Len(p9) + 1] = Does("need", "api", "good")
      /\ \A i \in 1 .. Len(p9) : p10[i] = p9[i]
      BY <1>34, <1>10, Grown DEF p10
<1>38. p11 \in Seq(S)
      BY <1>36, <1>11, Grown DEF p11
<1>39. /\ Len(p11) = Len(p10) + 1 /\ p11[Len(p10) + 1] = Does("download", "opencode-upstream", "pinned")
      /\ \A i \in 1 .. Len(p10) : p11[i] = p10[i]
      BY <1>36, <1>11, Grown DEF p11
<1>40. p13 \in Seq(S)
      BY <1>38, <1>20, Joined DEF p13
<1>41. /\ Len(p13) = Len(p11) + Len(m) /\ \A i \in 1 .. Len(p11) : p13[i] = p11[i]
      /\ \A i \in Len(p11) + 1 .. Len(p11) + Len(m) : p13[i] = m[i - Len(p11)]
      BY <1>38, <1>20, Joined DEF p13
<1>42. p15 \in Seq(S)
      BY <1>40, <1>20, Joined DEF p15
<1>43. /\ Len(p15) = Len(p13) + Len(r) /\ \A i \in 1 .. Len(p13) : p15[i] = p13[i]
      /\ \A i \in Len(p13) + 1 .. Len(p13) + Len(r) : p15[i] = r[i - Len(p13)]
      BY <1>40, <1>20, Joined DEF p15
<1>44. Len(p3) = 3
      BY <1>21, <1>23
<1>45. Len(p4) = 4
      BY <1>44, <1>25
<1>46. Len(p5) = 5
      BY <1>45, <1>27
<1>47. Len(p6) = 6
      BY <1>46, <1>29
<1>48. Len(p7) = 7
      BY <1>47, <1>31
<1>49. Len(p8) = 8
      BY <1>48, <1>33
<1>50. Len(p9) = 9
      BY <1>49, <1>35
<1>51. Len(p10) = 10
      BY <1>50, <1>37
<1>52. Len(p11) = 11
      BY <1>51, <1>39
<1>53. Len(p13) = 13
      BY <1>21, <1>52, <1>41
<1>54. Len(p15) = 15
      BY <1>21, <1>53, <1>43
<1>55. \A i \in 1 .. 2 : p3[i] = p2[i]
      BY <1>23, <1>21
<1>56. \A i \in 1 .. 3 : p4[i] = p3[i]
      BY <1>25, <1>44
<1>57. \A i \in 1 .. 4 : p5[i] = p4[i]
      BY <1>27, <1>45
<1>58. \A i \in 1 .. 5 : p6[i] = p5[i]
      BY <1>29, <1>46
<1>59. \A i \in 1 .. 6 : p7[i] = p6[i]
      BY <1>31, <1>47
<1>60. \A i \in 1 .. 7 : p8[i] = p7[i]
      BY <1>33, <1>48
<1>61. \A i \in 1 .. 8 : p9[i] = p8[i]
      BY <1>35, <1>49
<1>62. \A i \in 1 .. 9 : p10[i] = p9[i]
      BY <1>37, <1>50
<1>63. \A i \in 1 .. 10 : p11[i] = p10[i]
      BY <1>39, <1>51
<1>64. \A i \in 1 .. 11 : p13[i] = p11[i]
      BY <1>41, <1>52
<1>65. \A i \in 1 .. 13 : p15[i] = p13[i]
      BY <1>43, <1>53
<1>66. p2[1] = Does("put", "report", "torn") /\ p2[2] = Does("put", "report", "collecting")
      BY <1>16 DEF p2
<1>67. p3[3] = Does("download", "checksum", "unpinned")
      BY <1>23, <1>21
<1>68. p4[4] = Does("download", "keyring", "unpinned")
      BY <1>25, <1>44
<1>69. p5[5] = Does("download", "pgp", "unpinned")
      BY <1>27, <1>45
<1>70. p6[6] = Does("need", "checksum", "good")
      BY <1>29, <1>46
<1>71. p7[7] = Does("need", "keyring", "good")
      BY <1>31, <1>47
<1>72. p8[8] = Does("download", "image", "pinned")
      BY <1>33, <1>48
<1>73. p9[9] = Does("download", "api", "refreshed")
      BY <1>35, <1>49
<1>74. p10[10] = Does("need", "api", "good")
      BY <1>37, <1>50
<1>75. p11[11] = Does("download", "opencode-upstream", "pinned")
      BY <1>39, <1>51
<1>76. p13[12] = Does("put", "manifest", "torn") /\ p13[13] = Does("put", "manifest", "verified")
  <2>1. m[1] = Does("put", "manifest", "torn") /\ m[2] = Does("put", "manifest", "verified")
        BY <1>17 DEF m
  <2>2. \A i \in 12 .. 13 : p13[i] = m[i - 11]
    <3>1. \A i \in 11 + 1 .. 11 + 2 : p13[i] = m[i - 11]
          BY <1>41, <1>21, <1>52
    <3>.  QED
          BY <3>1
  <2>3. p13[12] = m[1] /\ p13[13] = m[2]
        BY <2>2
  <2>.  QED
        BY <2>1, <2>3
<1>77. p15[14] = Does("put", "report", "torn") /\ p15[15] = Does("put", "report", "verified")
  <2>1. r[1] = Does("put", "report", "torn") /\ r[2] = Does("put", "report", "verified")
        BY <1>18 DEF r
  <2>2. \A i \in 14 .. 15 : p15[i] = r[i - 13]
    <3>1. \A i \in 13 + 1 .. 13 + 2 : p15[i] = r[i - 13]
          BY <1>43, <1>21, <1>53
    <3>.  QED
          BY <3>1
  <2>3. p15[14] = r[1] /\ p15[15] = r[2]
        BY <2>2
  <2>.  QED
        BY <2>1, <2>3
<1>78. CollectUpstream[1] = Does("put", "report", "torn")
      BY <1>19, <1>66, <1>55, <1>56, <1>57, <1>58, <1>59, <1>60, <1>61, <1>62, <1>63, <1>64, <1>65
<1>79. CollectUpstream[2] = Does("put", "report", "collecting")
      BY <1>19, <1>66, <1>55, <1>56, <1>57, <1>58, <1>59, <1>60, <1>61, <1>62, <1>63, <1>64, <1>65
<1>80. CollectUpstream[3] = Does("download", "checksum", "unpinned")
      BY <1>19, <1>67, <1>56, <1>57, <1>58, <1>59, <1>60, <1>61, <1>62, <1>63, <1>64, <1>65
<1>81. CollectUpstream[4] = Does("download", "keyring", "unpinned")
      BY <1>19, <1>68, <1>57, <1>58, <1>59, <1>60, <1>61, <1>62, <1>63, <1>64, <1>65
<1>82. CollectUpstream[5] = Does("download", "pgp", "unpinned")
      BY <1>19, <1>69, <1>58, <1>59, <1>60, <1>61, <1>62, <1>63, <1>64, <1>65
<1>83. CollectUpstream[6] = Does("need", "checksum", "good")
      BY <1>19, <1>70, <1>59, <1>60, <1>61, <1>62, <1>63, <1>64, <1>65
<1>84. CollectUpstream[7] = Does("need", "keyring", "good")
      BY <1>19, <1>71, <1>60, <1>61, <1>62, <1>63, <1>64, <1>65
<1>85. CollectUpstream[8] = Does("download", "image", "pinned")
      BY <1>19, <1>72, <1>61, <1>62, <1>63, <1>64, <1>65
<1>86. CollectUpstream[9] = Does("download", "api", "refreshed")
      BY <1>19, <1>73, <1>62, <1>63, <1>64, <1>65
<1>87. CollectUpstream[10] = Does("need", "api", "good")
      BY <1>19, <1>74, <1>63, <1>64, <1>65
<1>88. CollectUpstream[11] = Does("download", "opencode-upstream", "pinned")
      BY <1>19, <1>75, <1>64, <1>65
<1>89. CollectUpstream[12] = Does("put", "manifest", "torn")
      BY <1>19, <1>76, <1>65
<1>90. CollectUpstream[13] = Does("put", "manifest", "verified")
      BY <1>19, <1>76, <1>65
<1>91. CollectUpstream[14] = Does("put", "report", "torn")
      BY <1>19, <1>77
<1>92. CollectUpstream[15] = Does("put", "report", "verified")
      BY <1>19, <1>77
<1>.  QED
      BY <1>19, <1>54, <1>78, <1>79, <1>80, <1>81, <1>82, <1>83, <1>84, <1>85, <1>86, <1>87,
         <1>88, <1>89, <1>90, <1>91, <1>92

\* The invariant of the inputs, in parts: files, the script, the report, the assembly.
CollectedAt(f) ==
  IF f = "checksum" THEN 6 ELSE IF f = "keyring" THEN 7 ELSE IF f = "image" THEN 8
  ELSE IF f = "api" THEN 10 ELSE 11

FilesInv ==
  /\ file \in [Files -> Contents] /\ file["proot-json"] # "absent"
  /\ \A f \in Files : file[f] \in Held(f)

RunInv ==
  /\ run \in [script : DOMAIN Steps \cup {"none"}, at : Nat \ {0}, tries : Nat]
  /\ run.script \in {Scripts[chain][n] : n \in DOMAIN Scripts[chain]} \cup {"none", "failed"}
  /\ run.script # "none" => run.at \in 1 .. Len(Steps[run.script]) + 1
  /\ run.tries \in 0 .. Attempts - 1
  /\ Now("fetch") /\ run.tries # 0 => Here = "torn"

\* What the collector reports it has found, in this run and before this step; and the tree
\* that the build copies has both patches.
PlacesInv ==
  /\ ReportIsTrue
  /\ run.script = "collect" =>
       /\ run.at \in 2 .. 15 => file["report"] # "verified"
       /\ \A f \in Reported : run.at > CollectedAt(f) => file[f] = "good"
  /\ run.script = "build" /\ run.at \in 10 .. 13 => file["tree"] = "patched"

AssemblyInv ==
  /\ assembly \in {"none", "packed", "checked"} /\ accepted \in BOOLEAN
  /\ DOMAIN apk \subseteq Packaged[chain] /\ \A f \in DOMAIN apk : apk[f] \in Held(f)
  /\ assembly = "checked" => DOMAIN apk = Packaged[chain]
  /\ assembly = "packed" => DOMAIN apk # Packaged[chain]
  /\ assembly # "none" => ~accepted
  /\ accepted => DOMAIN apk = Packaged[chain]
  /\ AcceptedIsPinned

InputsInv ==
  /\ chain \in Chains /\ faults \in 0 .. MaxFaults
  /\ FilesInv /\ RunInv /\ PlacesInv /\ AssemblyInv

-----------------------------------------------------------------------------
LEMMA StepsOfScripts ==
  /\ DOMAIN Steps = {"collect", "failed", "fedora", "opencode", "assets", "sources", "candidate",
       "build", "package", "stage", "dnfast", "ui", "dnfastSources", "crates", "crateNotices",
       "carryCargo", "rpmNotices", "carryRpms", "stageRpms", "stageSources"}
  /\ Steps["collect"] = CollectUpstream /\ Steps["build"] = BuildProot
  /\ \A s \in DOMAIN Steps \ {"collect", "build"} : Steps[s] \in Seq(Tame)
<1>1. DOMAIN Steps = {"collect", "failed", "fedora", "opencode", "assets", "sources", "candidate",
       "build", "package", "stage", "dnfast", "ui", "dnfastSources", "crates", "crateNotices",
       "carryCargo", "rpmNotices", "carryRpms", "stageRpms", "stageSources"}
      BY DEF Steps
<1>2. Steps["collect"] = CollectUpstream /\ Steps["build"] = BuildProot
      BY DEF Steps
<1>3. /\ Steps["failed"] = CollectFailed /\ Steps["fedora"] = PrepareFedora
      /\ Steps["opencode"] = PackageOpencode /\ Steps["assets"] = StageRuntimeAssets
      /\ Steps["sources"] = CollectProotSources /\ Steps["candidate"] = BuildProotCandidate
      /\ Steps["package"] = PackageProot /\ Steps["stage"] = StageProot
      /\ Steps["dnfast"] = StageDnfast /\ Steps["ui"] = StageWebUi
      /\ Steps["dnfastSources"] = CollectDnfastSources /\ Steps["crates"] = CollectCargoSources
      /\ Steps["crateNotices"] = CollectCargoNotices /\ Steps["carryCargo"] = CarryCargo
      /\ Steps["rpmNotices"] = CollectRpmNotices /\ Steps["carryRpms"] = CarryRpms
      /\ Steps["stageRpms"] = StageRpmNotices /\ Steps["stageSources"] = StageSourceNotices
      BY DEF Steps
<1>4. \A s \in DOMAIN Steps \ {"collect", "build"} : Steps[s] \in Seq(Tame)
      BY <1>1, <1>3, CollectFailedTame, PrepareFedoraTame, PackageOpencodeTame,
         StageRuntimeAssetsTame, CollectProotSourcesTame, BuildProotCandidateTame,
         PackageProotTame, StageProotTame, StageDnfastTame, StageWebUiTame,
         CollectDnfastSourcesTame, CollectCargoSourcesTame, CollectCargoNoticesTame,
         CarryCargoTame, CollectRpmNoticesTame, CarryRpmsTame, StageRpmNoticesTame,
         StageSourceNoticesTame
<1>.  QED
      BY <1>1, <1>2, <1>4

LEMMA ScriptsOfChains ==
  \A c \in Chains : \A n \in DOMAIN Scripts[c] :
    Scripts[c][n] \in DOMAIN Steps \ {"failed"} /\ n \in 1 .. 4
<1>1. /\ Scripts["upstream"] = << "collect", "fedora", "opencode", "assets" >>
      /\ Scripts["proot"] = << "sources", "build", "package", "stage" >>
      /\ Scripts["candidate"] = << "candidate", "stage" >>
      /\ Scripts["gui"] = << "dnfast", "ui" >>
      /\ Scripts["crates"] = << "dnfastSources", "crates", "crateNotices", "carryCargo" >>
      /\ Scripts["rpms"] = << "rpmNotices", "carryRpms", "stageRpms", "stageSources" >>
      BY DEF Scripts
<1>2. \A c \in {"upstream", "proot", "crates", "rpms"} : DOMAIN Scripts[c] = 1 .. 4
      BY <1>1
<1>3. \A c \in {"candidate", "gui"} : DOMAIN Scripts[c] = 1 .. 2
      BY <1>1
<1>4. ASSUME NEW c \in Chains, NEW n \in DOMAIN Scripts[c]
      PROVE  Scripts[c][n] \in DOMAIN Steps \ {"failed"} /\ n \in 1 .. 4
  <2>1. CASE c \in {"upstream", "proot", "crates", "rpms"}
    <3>1. n \in {1, 2, 3, 4}
          BY <1>2, <2>1
    <3>.  QED
          BY <1>1, <2>1, <3>1, StepsOfScripts
  <2>2. CASE c \in {"candidate", "gui"}
    <3>1. n \in {1, 2}
          BY <1>3, <2>2
    <3>.  QED
          BY <1>1, <2>2, <3>1, StepsOfScripts
  <2>.  QED
        BY <2>1, <2>2 DEF Chains
<1>.  QED
      BY <1>4

LEMMA LengthsOfScripts == \A s \in DOMAIN Steps : Len(Steps[s]) \in Nat
<1>1. Len(CollectUpstream) \in Nat /\ Len(BuildProot) \in Nat
      BY CollectPlaces, BuildPlaces
<1>.  QED
      BY <1>1, StepsOfScripts

LEMMA InputsInit == Init => InputsInv
<1>.  SUFFICES ASSUME Init PROVE InputsInv
      OBVIOUS
<1>1. /\ chain \in Chains /\ run = Off /\ assembly = "none" /\ apk = <<>> /\ accepted = FALSE
      /\ faults = 0
      /\ file = [f \in Files |-> IF chain = "candidate" /\ f \in Collected THEN "good" ELSE Versioned(f)]
      BY DEF Init
<1>2. \A f \in Collected : Held(f) = Contents
      BY HeldFacts DEF Collected, Loose
<1>3. \A f \in Files : Versioned(f) \in Held(f)
  <2>1. ASSUME NEW f \in {"opencode-manifest", "dnfast-overlay", "dnfast-manifest", "source-rpm"}
        PROVE  Versioned(f) \in Held(f)
    <3>1. Versioned(f) = "good"
          BY RevisedFiles DEF Versioned, Revised
    <3>.  QED
          BY <3>1, HeldFacts DEF Loose, Contents
  <2>2. ASSUME NEW f \in {"proot-archive", "proot-json"} PROVE Versioned(f) \in Held(f)
    <3>1. Versioned(f) = "patched"
          BY RevisedFiles DEF Versioned, Revised
    <3>.  QED
          BY <3>1, HeldFacts DEF Patched
  <2>3. ASSUME NEW f \in Revised PROVE Versioned(f) \in Held(f)
    <3>1. Versioned(f) = "old"
          BY RevisedFiles DEF Versioned, Revised
    <3>.  QED
          BY <3>1, HeldFacts
  <2>4. ASSUME NEW f \in Files \ (Revised \cup {"opencode-manifest", "dnfast-overlay",
                 "dnfast-manifest", "source-rpm", "proot-archive", "proot-json"})
        PROVE  Versioned(f) \in Held(f)
    <3>1. Versioned(f) = "absent"
          BY DEF Versioned, Revised
    <3>2. "absent" \in Held(f)
          BY FileKinds, HeldFacts DEF Contents
    <3>.  QED
          BY <3>1, <3>2
  <2>.  QED
        BY <2>1, <2>2, <2>3, <2>4
<1>4. "good" \in Contents
      BY DEF Contents
<1>5. \A f \in Files : file[f] \in Held(f)
      BY <1>1, <1>2, <1>3, <1>4
<1>6. file \in [Files -> Contents]
      BY <1>1, <1>2, <1>3, <1>4, HeldContents
<1>7. file["proot-json"] = "patched" /\ file["report"] = "absent"
  <2>1. Versioned("proot-json") = "patched" /\ Versioned("report") = "absent"
        BY RevisedFiles DEF Versioned, Revised
  <2>2. "proot-json" \in Files \ Collected /\ "report" \in Files \ Collected
        BY FileKinds DEF Patched, Loose, Collected
  <2>.  QED
        BY <1>1, <2>1, <2>2
<1>8. FilesInv
      BY <1>5, <1>6, <1>7 DEF FilesInv
<1>9. RunInv
  <2>1. run = [script |-> "none", at |-> 1, tries |-> 0]
        BY <1>1 DEF Off
  <2>.  QED
        BY <2>1, InputsAssumption DEF RunInv, Now
<1>10. PlacesInv
  <2>1. run.script = "none"
        BY <1>1 DEF Off
  <2>.  QED
        BY <1>7, <2>1 DEF PlacesInv, ReportIsTrue
<1>11. AssemblyInv
  <2>1. DOMAIN apk = {}
        BY <1>1
  <2>.  QED
        BY <1>1, <2>1 DEF AssemblyInv, AcceptedIsPinned
<1>12. faults \in 0 .. MaxFaults
      BY <1>1, InputsAssumption
<1>.  QED
      BY <1>1, <1>8, <1>9, <1>10, <1>11, <1>12 DEF InputsInv

LEMMA InputsImply == InputsInv => TypeOK /\ StagedIsPinned /\ AcceptedIsPinned /\ ReportIsTrue
<1>.  SUFFICES ASSUME InputsInv PROVE TypeOK /\ StagedIsPinned /\ AcceptedIsPinned /\ ReportIsTrue
      OBVIOUS
<1>1. TypeOK
      BY DEF InputsInv, FilesInv, RunInv, AssemblyInv, TypeOK
<1>2. StagedIsPinned
      BY HeldFacts, FileKinds DEF InputsInv, FilesInv, StagedIsPinned, Assets
<1>.  QED
      BY <1>1, <1>2 DEF InputsInv, PlacesInv, AssemblyInv

LEMMA OnlyMember == ASSUME NEW c, NEW S, S = {c} PROVE (CHOOSE x \in S : TRUE) = c
  OBVIOUS

\* A file that changes, and a script that goes on, tries again or ends.
Changes(f) ==
  \E c \in Held(f) \ {"absent"} :
    file' = [file EXCEPT ![f] = c] /\ (f = "report" => c # "verified")

LEMMA FileChanges ==
  ASSUME FilesInv, NEW f \in Files, NEW c \in Held(f) \ {"absent"}, file' = [file EXCEPT ![f] = c]
  PROVE  FilesInv' /\ file'[f] = c /\ \A g \in Files \ {f} : file'[g] = file[g]
<1>1. file \in [Files -> Contents] /\ c \in Contents
      BY HeldContents DEF FilesInv
<1>2. file' \in [Files -> Contents] /\ file'[f] = c /\ \A g \in Files \ {f} : file'[g] = file[g]
      BY <1>1
<1>3. \A g \in Files : file'[g] \in Held(g)'
      BY <1>2 DEF FilesInv, Held
<1>4. file'["proot-json"] # "absent"
      BY <1>2, FileKinds DEF FilesInv, Patched
<1>.  QED
      BY <1>2, <1>3, <1>4 DEF FilesInv

InScript == run.script # "none" /\ run.at <= Len(Steps[run.script])

LEMMA RunDone ==
  ASSUME RunInv, InScript, Done, UNCHANGED chain
  PROVE  RunInv' /\ run'.script = run.script /\ run'.at = run.at + 1 /\ run'.tries = 0
<1>1. run' = [run EXCEPT !.at = run.at + 1, !.tries = 0]
      BY DEF Done
<1>2. /\ run \in [script : DOMAIN Steps \cup {"none"}, at : Nat \ {0}, tries : Nat]
      /\ run.script \in DOMAIN Steps /\ run.script # "none"
      BY DEF RunInv, InScript
<1>3. run'.script = run.script /\ run'.at = run.at + 1 /\ run'.tries = 0
      BY <1>1, <1>2
<1>4. run' \in [script : DOMAIN Steps \cup {"none"}, at : Nat \ {0}, tries : Nat]
  <2>1. run.at + 1 \in Nat \ {0}
        BY <1>2
  <2>.  QED
        BY <1>1, <1>2, <2>1
<1>5. run.at + 1 \in 1 .. Len(Steps[run.script]) + 1
      BY <1>2, LengthsOfScripts DEF InScript
<1>6. 0 \in 0 .. Attempts - 1
      BY InputsAssumption
<1>.  QED
      BY <1>2, <1>3, <1>4, <1>5, <1>6 DEF RunInv, Now, Scripts, Steps

LEMMA RunEnds ==
  ASSUME RunInv, Fails \/ run' = Off, UNCHANGED chain
  PROVE  RunInv' /\ run'.script \in {"none", "failed"}
<1>1. \/ run' = [script |-> "none", at |-> 1, tries |-> 0]
      \/ run' = [script |-> "failed", at |-> 1, tries |-> 0]
      BY DEF Fails, Off
<1>2. "failed" \in DOMAIN Steps /\ Len(Steps["failed"]) \in Nat
      BY StepsOfScripts, LengthsOfScripts
<1>3. run' \in [script : DOMAIN Steps \cup {"none"}, at : Nat \ {0}, tries : Nat]
      BY <1>1, <1>2
<1>4. /\ run'.script \in {"none", "failed"} /\ run'.at = 1 /\ run'.tries = 0
      BY <1>1
<1>5. 0 \in 0 .. Attempts - 1
      BY InputsAssumption
<1>6. run'.script # "none" => run'.at \in 1 .. Len(Steps[run'.script]) + 1
      BY <1>2, <1>4
<1>.  QED
      BY <1>3, <1>4, <1>5, <1>6 DEF RunInv

LEMMA RunAgain ==
  ASSUME RunInv, InScript, Again, UNCHANGED chain, run.tries + 1 < Attempts,
         Now("fetch") => file'[This.f] = "torn"
  PROVE  RunInv' /\ run'.script = run.script /\ run'.at = run.at
<1>1. run' = [run EXCEPT !.tries = run.tries + 1]
      BY DEF Again
<1>2. run \in [script : DOMAIN Steps \cup {"none"}, at : Nat \ {0}, tries : Nat]
      BY DEF RunInv
<1>3. run'.script = run.script /\ run'.at = run.at /\ run'.tries = run.tries + 1
      BY <1>1, <1>2
<1>4. run' \in [script : DOMAIN Steps \cup {"none"}, at : Nat \ {0}, tries : Nat]
      BY <1>1, <1>2
<1>5. run.tries + 1 \in 0 .. Attempts - 1
      BY <1>2, InputsAssumption
<1>6. Now("fetch")' => Here' = "torn"
      BY <1>3 DEF Now, Here, This
<1>.  QED
      BY <1>3, <1>4, <1>5, <1>6 DEF RunInv

\* What a step of a script does, at a tame place.
TameOutcome ==
  \/ UNCHANGED file /\ (Done \/ Fails)
  \/ This.f \in Files \ Reported /\ Changes(This.f) /\ Done
  \/ /\ This.f \in Files \ Reported /\ Changes(This.f) /\ file'[This.f] = "torn"
     /\ Again /\ run.tries = 0 /\ This.op \in {"fetch", "cache"}

LEMMA TameSteps ==
  ASSUME InputsInv, This \in Tame,
         NeedStep \/ PutStep \/ CopyStep \/ MatchStep \/ StageStep \/ FetchStep \/ CacheStep
  PROVE  TameOutcome
<1>1. FilesInv /\ file \in [Files -> Contents] /\ RunInv
      BY DEF InputsInv, FilesInv
<1>2. Untold \subseteq Files /\ Untold \cap Reported = {} /\ "report" \in Files \ Reported
      BY FileKinds DEF Untold, Reported, Loose
<1>3. CASE NeedStep
      BY <1>3 DEF NeedStep, TameOutcome
<1>4. CASE MatchStep
      BY <1>4 DEF MatchStep, TameOutcome
<1>5. CASE PutStep
  <2>1. This.op = "put" /\ file' = [file EXCEPT ![This.f] = Given] /\ Done
        BY <1>5 DEF PutStep, Now, This, Becomes
  <2>2. CASE This.f \in Untold /\ \E c \in Held(This.f) \ {"absent"} : This.v = {c}
    <3>1. PICK c \in Held(This.f) \ {"absent"} : This.v = {c}
          BY <2>2
    <3>2. Given = c
          BY <3>1, OnlyMember DEF Given
    <3>3. This.f # "report"
          BY <2>2 DEF Untold
    <3>.  QED
          BY <1>2, <2>1, <2>2, <3>2, <3>3 DEF TameOutcome, Changes
  <2>3. CASE This.f = "report" /\ \E c \in {"torn", "failed"} : This.v = {c}
    <3>1. PICK c \in {"torn", "failed"} : This.v = {c}
          BY <2>3
    <3>2. Given = c
          BY <3>1, OnlyMember DEF Given
    <3>3. c \in Held(This.f) \ {"absent"}
          BY <2>3, HeldFacts DEF Loose, Contents
    <3>.  QED
          BY <1>2, <2>1, <2>3, <3>2, <3>3 DEF TameOutcome, Changes
  <2>.  QED
        BY <2>1, <2>2, <2>3, TameFacts
<1>6. CASE CopyStep
  <2>1. This.op = "copy"
        BY <1>6 DEF CopyStep, Now, This
  <2>2. PICK g \in Files : This.v = {g} /\ Flows(g, This.f)
        BY <2>1, TameFacts
  <2>3. Given = g /\ This.f \in Untold
        BY <2>1, <2>2, OnlyMember, TameFacts DEF Given
  <2>4. CASE file[g] \in {"absent", "torn"}
        BY <1>6, <2>3, <2>4 DEF CopyStep, TameOutcome
  <2>5. CASE file[g] \notin {"absent", "torn"}
    <3>1. file' = [file EXCEPT ![This.f] = file[g]] /\ Done
          BY <1>6, <2>3, <2>5 DEF CopyStep, Becomes
    <3>2. file[g] \in Held(This.f) \ {"absent"} /\ This.f # "report"
          BY <1>1, <2>2, <2>3, <2>5 DEF FilesInv, Flows, Untold
    <3>.  QED
          BY <1>2, <2>3, <3>1, <3>2 DEF TameOutcome, Changes
  <2>.  QED
        BY <2>4, <2>5
<1>7. CASE StageStep
  <2>1. This.op = "stage"
        BY <1>7 DEF StageStep, Now, This
  <2>2. This.f \in Assets /\ This.f \in Files \ Reported /\ This.f # "report"
        BY <2>1, TameFacts DEF Assets, Reported
  <2>3. "good" \in Held(This.f) \ {"absent"}
        BY <2>2, HeldFacts
  <2>.  QED
        BY <1>7, <2>2, <2>3 DEF StageStep, Becomes, TameOutcome, Changes
<1>8. ASSUME This.op \in {"fetch", "cache"}
      PROVE  /\ This.f \in Files \ Reported /\ This.f # "report"
             /\ "good" \in Held(This.f) \ {"absent"} /\ "torn" \in Held(This.f) \ {"absent"}
  <2>1. This.f \in Loose \cap Untold
        BY <1>8, TameFacts
  <2>2. Held(This.f) = Contents /\ {"good", "torn"} \subseteq Contents \ {"absent"}
        BY <2>1, HeldFacts DEF Contents
  <2>.  QED
        BY <1>2, <2>1, <2>2 DEF Untold
<1>9. CASE FetchStep
  <2>1. This.op = "fetch" /\ Now("fetch")
        BY <1>9 DEF FetchStep, Now, This
  <2>2. CASE Here = "absent" /\ Becomes("torn") /\ Again
    <3>1. run.tries = 0
          BY <1>1, <2>1, <2>2 DEF RunInv
    <3>2. file'[This.f] = "torn"
          BY <1>1, <1>8, <2>1, <2>2, FileChanges DEF Becomes
    <3>.  QED
          BY <1>8, <2>1, <2>2, <3>1, <3>2 DEF TameOutcome, Changes, Becomes
  <2>3. CASE Becomes("good") /\ Done
        BY <1>8, <2>1, <2>3 DEF TameOutcome, Changes, Becomes
  <2>4. CASE UNCHANGED file /\ (Done \/ Fails)
        BY <2>4 DEF TameOutcome
  <2>.  QED
        BY <1>9, <2>2, <2>3, <2>4 DEF FetchStep
<1>10. CASE CacheStep
  <2>1. This.op = "cache"
        BY <1>10 DEF CacheStep, Now, This
  <2>2. CASE run.tries = 0 /\ Becomes("torn") /\ Again
    <3>1. file'[This.f] = "torn"
          BY <1>1, <1>8, <2>1, <2>2, FileChanges DEF Becomes
    <3>.  QED
          BY <1>8, <2>1, <2>2, <3>1 DEF TameOutcome, Changes, Becomes
  <2>3. CASE Becomes("good") /\ Done
        BY <1>8, <2>1, <2>3 DEF TameOutcome, Changes, Becomes
  <2>4. CASE UNCHANGED file /\ (Done \/ Fails)
        BY <2>4 DEF TameOutcome
  <2>.  QED
        BY <1>10, <2>2, <2>3, <2>4 DEF CacheStep
<1>.  QED
      BY <1>3, <1>4, <1>5, <1>6, <1>7, <1>9, <1>10

\* Such a step leaves what is reported alone.
LEMMA TameKeeps ==
  ASSUME InputsInv, InScript, TameOutcome, UNCHANGED <<chain, assembly, apk, accepted>>
  PROVE  /\ FilesInv' /\ RunInv' /\ ReportIsTrue'
         /\ \/ UNCHANGED file
            \/ \A g \in Files \ {This.f} : file'[g] = file[g]
         /\ \/ run'.script = run.script /\ run'.at = run.at + 1
            \/ run'.script \in {"none", "failed"}
            \/ run'.script = run.script /\ run'.at = run.at /\ This.op \in {"fetch", "cache"}
<1>1. FilesInv /\ RunInv /\ ReportIsTrue
      BY DEF InputsInv, PlacesInv
<1>2. \A f \in Reported \cup {"report"} : f \in Files
      BY FileKinds DEF Reported, Loose
<1>3. CASE UNCHANGED file
  <2>1. FilesInv' /\ ReportIsTrue'
        BY <1>1, <1>3 DEF FilesInv, Held, ReportIsTrue
  <2>2. CASE Done
        BY <1>1, <1>3, <2>1, <2>2, RunDone
  <2>3. CASE Fails
        BY <1>1, <1>3, <2>1, <2>3, RunEnds
  <2>4. CASE Again /\ run.tries = 0 /\ file'[This.f] = "torn" /\ This.op \in {"fetch", "cache"}
    <3>1. run.tries + 1 < Attempts
          BY <2>4, InputsAssumption
    <3>.  QED
          BY <1>1, <1>3, <2>1, <2>4, <3>1, RunAgain
  <2>.  QED
        BY <2>2, <2>3, <2>4 DEF TameOutcome
<1>4. CASE This.f \in Files \ Reported /\ Changes(This.f)
  <2>1. PICK c \in Held(This.f) \ {"absent"} :
          file' = [file EXCEPT ![This.f] = c] /\ (This.f = "report" => c # "verified")
        BY <1>4 DEF Changes
  <2>2. /\ FilesInv' /\ file'[This.f] = c /\ \A g \in Files \ {This.f} : file'[g] = file[g]
        BY <1>1, <1>4, <2>1, FileChanges
  <2>3. ReportIsTrue'
        BY <1>1, <1>2, <1>4, <2>1, <2>2 DEF ReportIsTrue, Reported
  <2>4. CASE Done
        BY <1>1, <2>2, <2>3, <2>4, RunDone
  <2>5. CASE Again /\ run.tries = 0 /\ file'[This.f] = "torn" /\ This.op \in {"fetch", "cache"}
    <3>1. run.tries + 1 < Attempts
          BY <2>5, InputsAssumption
    <3>.  QED
          BY <1>1, <2>2, <2>3, <2>5, <3>1, RunAgain
  <2>6. CASE Fails
        BY <1>1, <2>2, <2>3, <2>6, RunEnds
  <2>.  QED
        BY <2>4, <2>5, <2>6 DEF TameOutcome
<1>.  QED
      BY <1>3, <1>4 DEF TameOutcome

\* The collector's places, as its invariant needs them.
LEMMA CollectFacts ==
  ASSUME NEW i \in 1 .. 15, NEW e, e = CollectUpstream[i]
  PROVE  /\ e.f \in CollectFiles /\ e.op \in {"put", "need", "download"} /\ (i = 1 => e.op = "put")
         /\ e.op = "put" =>
              /\ e.f \in {"report", "manifest"} /\ (i = 1 => e.f = "report")
              /\ \E c \in {"torn", "collecting", "verified"} :
                   e.v = {c} /\ (e.f = "report" /\ c = "verified" => i = 15)
         /\ e.op # "put" => e.f # "report"
         /\ e.op = "need" => e.v = {"good"}
         /\ e.op = "download" => \E c \in {"pinned", "unpinned", "refreshed"} : e.v = {c}
         /\ \A f \in Reported :
              /\ CollectedAt(f) \in 6 .. 11 /\ (e.f = f => i <= CollectedAt(f))
              /\ i = CollectedAt(f) =>
                   e.f = f /\ (e.op = "need" \/ (e.op = "download" /\ e.v = {"pinned"}))
<1>1. i \in {1, 2, 3, 4, 5, 6, 7, 8, 9, 10, 11, 12, 13, 14, 15}
      OBVIOUS
<1>2. \A f \in Reported : CollectedAt(f) \in 6 .. 11
      BY DEF Reported, CollectedAt
<1>3. CASE i \in {1, 2, 12, 13, 14, 15}
  <2>1. \/ i = 1 /\ e = Does("put", "report", "torn")
        \/ i = 2 /\ e = Does("put", "report", "collecting")
        \/ i = 12 /\ e = Does("put", "manifest", "torn")
        \/ i = 13 /\ e = Does("put", "manifest", "verified")
        \/ i = 14 /\ e = Does("put", "report", "torn")
        \/ i = 15 /\ e = Does("put", "report", "verified")
        BY <1>3, CollectPlaces
  <2>2. /\ e.op = "put" /\ e.f \in {"report", "manifest"} /\ (i = 1 => e.f = "report")
        /\ \E c \in {"torn", "collecting", "verified"} :
             e.v = {c} /\ (e.f = "report" /\ c = "verified" => i = 15)
        BY <2>1 DEF Does
  <2>3. \A f \in Reported : e.f # f /\ i # CollectedAt(f)
        BY <1>2, <1>3, <2>2 DEF Reported
  <2>.  QED
        BY <1>2, <2>2, <2>3 DEF CollectFiles
<1>4. CASE i \in {3, 4, 5, 8, 9, 11}
  <2>1. \/ i = 3 /\ e = Does("download", "checksum", "unpinned")
        \/ i = 4 /\ e = Does("download", "keyring", "unpinned")
        \/ i = 5 /\ e = Does("download", "pgp", "unpinned")
        \/ i = 8 /\ e = Does("download", "image", "pinned")
        \/ i = 9 /\ e = Does("download", "api", "refreshed")
        \/ i = 11 /\ e = Does("download", "opencode-upstream", "pinned")
        BY <1>4, CollectPlaces
  <2>2. /\ e.op = "download" /\ e.f \in CollectFiles \ {"report", "manifest"}
        /\ \E c \in {"pinned", "unpinned", "refreshed"} : e.v = {c}
        BY <2>1 DEF Does, CollectFiles
  <2>3. \A f \in Reported : /\ e.f = f => i <= CollectedAt(f)
                            /\ i = CollectedAt(f) => e.f = f /\ e.v = {"pinned"}
        BY <2>1 DEF Does, Reported, CollectedAt
  <2>.  QED
        BY <1>2, <1>4, <2>2, <2>3
<1>5. CASE i \in {6, 7, 10}
  <2>1. \/ i = 6 /\ e = Does("need", "checksum", "good")
        \/ i = 7 /\ e = Does("need", "keyring", "good")
        \/ i = 10 /\ e = Does("need", "api", "good")
        BY <1>5, CollectPlaces
  <2>2. e.op = "need" /\ e.f \in CollectFiles \ {"report", "manifest"} /\ e.v = {"good"}
        BY <2>1 DEF Does, CollectFiles
  <2>3. \A f \in Reported : /\ e.f = f => i <= CollectedAt(f)
                            /\ i = CollectedAt(f) => e.f = f
        BY <2>1 DEF Does, Reported, CollectedAt
  <2>.  QED
        BY <1>2, <1>5, <2>2, <2>3
<1>.  QED
      BY <1>1, <1>3, <1>4, <1>5

\* A script that ends leaves its files.
LEMMA ScriptEnds ==
  ASSUME InputsInv, UNCHANGED <<chain, file>>, Fails \/ run' = Off
  PROVE  FilesInv' /\ RunInv' /\ PlacesInv'
<1>1. RunInv' /\ run'.script \in {"none", "failed"}
      BY RunEnds DEF InputsInv
<1>.  QED
      BY <1>1 DEF InputsInv, FilesInv, Held, PlacesInv, ReportIsTrue

LEMMA CollectGoesOn ==
  ASSUME InputsInv, run.script = "collect", InScript, RunStep
  PROVE  FilesInv' /\ RunInv' /\ PlacesInv'
<1>1. /\ FilesInv /\ RunInv /\ PlacesInv /\ ReportIsTrue /\ run.at \in 1 .. 15
      /\ This = CollectUpstream[run.at]
  <2>1. FilesInv /\ RunInv /\ PlacesInv /\ ReportIsTrue
        BY DEF InputsInv, PlacesInv
  <2>2. Steps[run.script] = CollectUpstream
        BY StepsOfScripts
  <2>3. run.at \in 1 .. 15
        BY <2>1, <2>2, CollectPlaces DEF RunInv, InScript
  <2>.  QED
        BY <2>1, <2>2, <2>3 DEF This
<1>2. /\ This.f \in CollectFiles /\ This.op \in {"put", "need", "download"}
      /\ run.at = 1 => This.op = "put"
      /\ This.op = "put" =>
           /\ This.f \in {"report", "manifest"} /\ (run.at = 1 => This.f = "report")
           /\ \E c \in {"torn", "collecting", "verified"} :
                This.v = {c} /\ (This.f = "report" /\ c = "verified" => run.at = 15)
      /\ This.op # "put" => This.f # "report"
      /\ This.op = "need" => This.v = {"good"}
      /\ This.op = "download" => \E c \in {"pinned", "unpinned", "refreshed"} : This.v = {c}
      /\ \A f \in Reported :
           /\ CollectedAt(f) \in 6 .. 11 /\ (This.f = f => run.at <= CollectedAt(f))
           /\ run.at = CollectedAt(f) =>
                This.f = f /\ (This.op = "need" \/ (This.op = "download" /\ This.v = {"pinned"}))
      BY <1>1, CollectFacts
<1>3. /\ CollectFiles \subseteq Files /\ Reported \subseteq Files
      /\ \A f \in CollectFiles : Held(f) = Contents
      BY FileKinds, HeldFacts DEF CollectFiles, Reported, Loose
<1>4. chain' = chain
      BY DEF RunStep, NeedStep, PutStep, CopyStep, MatchStep, StageStep, DownloadStep, FetchStep,
             CacheStep, End, aside
<1>5. ASSUME Done, FilesInv', \A g \in Files \ {This.f} : file'[g] = file[g],
             run.at = 15 \/ file'["report"] # "verified",
             \A f \in Reported : run.at = CollectedAt(f) => file'[f] = "good"
      PROVE  FilesInv' /\ RunInv' /\ PlacesInv'
  <2>1. RunInv' /\ run'.script = "collect" /\ run'.at = run.at + 1
        BY <1>1, <1>4, <1>5, RunDone
  <2>2. ASSUME NEW f \in Reported, run'.at > CollectedAt(f) PROVE file'[f] = "good"
    <3>1. CASE run.at = CollectedAt(f)
          BY <1>5, <3>1
    <3>2. CASE run.at # CollectedAt(f)
      <4>1. run.at > CollectedAt(f)
            BY <1>1, <1>2, <2>1, <2>2, <3>2
      <4>2. This.f # f /\ f \in Files /\ file[f] = "good"
            BY <1>1, <1>2, <1>3, <4>1 DEF PlacesInv
      <4>.  QED
            BY <1>5, <4>2
    <3>.  QED
          BY <3>1, <3>2
  <2>3. run'.at \in 2 .. 15 => file'["report"] # "verified"
        BY <1>1, <1>5, <2>1
  <2>4. ReportIsTrue'
    <3>1. SUFFICES ASSUME file'["report"] = "verified" PROVE \A f \in Reported : file'[f] = "good"
          BY DEF ReportIsTrue, Reported
    <3>2. run.at = 15
          BY <1>5, <3>1
    <3>.  QED
          BY <1>2, <2>1, <2>2, <3>2
  <2>.  QED
        BY <1>5, <2>1, <2>2, <2>3, <2>4 DEF PlacesInv
<1>6. ASSUME Fails, UNCHANGED file PROVE FilesInv' /\ RunInv' /\ PlacesInv'
      BY <1>4, <1>6, ScriptEnds
<1>7. ASSUME UNCHANGED file
      PROVE  /\ FilesInv' /\ \A g \in Files \ {This.f} : file'[g] = file[g]
             /\ This.op # "put" => run.at = 15 \/ file'["report"] # "verified"
      BY <1>1, <1>2, <1>7 DEF FilesInv, Held, PlacesInv
<1>8. CASE PutStep
  <2>1. This.op = "put" /\ file' = [file EXCEPT ![This.f] = Given] /\ Done
        BY <1>8 DEF PutStep, Now, This, Becomes
  <2>2. PICK c \in {"torn", "collecting", "verified"} :
          This.v = {c} /\ (This.f = "report" /\ c = "verified" => run.at = 15)
        BY <1>2, <2>1
  <2>3. Given = c /\ c \in Held(This.f) \ {"absent"}
        BY <1>2, <1>3, <2>2, OnlyMember DEF Given, Contents
  <2>4. FilesInv' /\ file'[This.f] = c /\ \A g \in Files \ {This.f} : file'[g] = file[g]
        BY <1>1, <1>2, <1>3, <2>1, <2>3, FileChanges
  <2>5. run.at = 15 \/ file'["report"] # "verified"
    <3>1. CASE This.f = "report"
          BY <2>2, <2>4, <3>1
    <3>2. CASE This.f # "report"
      <4>1. run.at # 1 /\ "report" \in Files
            BY <1>2, <1>3, <2>1, <3>2 DEF CollectFiles
      <4>2. file["report"] # "verified"
            BY <1>1, <4>1 DEF PlacesInv
      <4>.  QED
            BY <2>4, <3>2, <4>1, <4>2
    <3>.  QED
          BY <3>1, <3>2
  <2>6. \A f \in Reported : run.at # CollectedAt(f)
        BY <1>2, <2>1
  <2>.  QED
        BY <1>5, <2>1, <2>4, <2>5, <2>6
<1>9. CASE NeedStep
  <2>1. This.op = "need" /\ This.v = {"good"} /\ UNCHANGED file
        BY <1>2, <1>9 DEF NeedStep, Now, This
  <2>2. CASE Here = "good" /\ Done
    <3>1. \A f \in Reported : run.at = CollectedAt(f) => file'[f] = "good"
          BY <1>2, <2>1, <2>2 DEF Here
    <3>.  QED
          BY <1>5, <1>7, <2>1, <2>2, <3>1
  <2>3. CASE Fails
        BY <1>6, <2>1, <2>3
  <2>.  QED
        BY <1>9, <2>1, <2>2, <2>3 DEF NeedStep
<1>10. CASE DownloadStep
  <2>1. This.op = "download" /\ This.f # "report" /\ run.at # 1
        BY <1>2, <1>10 DEF DownloadStep, Now, This
  <2>2. PICK c \in {"pinned", "unpinned", "refreshed"} : This.v = {c}
        BY <1>2, <2>1
  <2>3. Given = c
        BY <2>2, OnlyMember DEF Given
  <2>4. \A f \in Reported : run.at = CollectedAt(f) => This.f = f /\ Given = "pinned"
    <3>1. c = "pinned" \/ This.v # {"pinned"}
          BY <2>2
    <3>.  QED
          BY <1>2, <2>1, <2>3, <3>1
  <2>5. CASE Done /\ UNCHANGED file /\ (Given = "pinned" => Here = "good")
    <3>1. \A f \in Reported : run.at = CollectedAt(f) => file'[f] = "good"
          BY <2>4, <2>5 DEF Here
    <3>.  QED
          BY <1>5, <1>7, <2>1, <2>5, <3>1
  <2>6. CASE Fails /\ UNCHANGED file
        BY <1>6, <2>6
  <2>7. ASSUME NEW d \in {"good", "bad"}, Becomes(d), Done, Given = "pinned" => d = "good"
        PROVE  FilesInv' /\ RunInv' /\ PlacesInv'
    <3>1. d \in Held(This.f) \ {"absent"}
          BY <1>2, <1>3 DEF Contents
    <3>2. FilesInv' /\ file'[This.f] = d /\ \A g \in Files \ {This.f} : file'[g] = file[g]
          BY <1>1, <1>2, <1>3, <2>7, <3>1, FileChanges DEF Becomes
    <3>3. run.at = 15 \/ file'["report"] # "verified"
      <4>1. "report" \in Files
            BY <1>3 DEF CollectFiles
      <4>.  QED
            BY <1>1, <2>1, <3>2, <4>1 DEF PlacesInv
    <3>4. \A f \in Reported : run.at = CollectedAt(f) => file'[f] = "good"
          BY <2>4, <2>7, <3>2
    <3>.  QED
          BY <1>5, <2>7, <3>2, <3>3, <3>4
  <2>8. CASE Again /\ UNCHANGED file /\ run.tries + 1 < Attempts
    <3>1. ~Now("fetch")
          BY <2>1 DEF Now, This
    <3>2. RunInv' /\ run'.script = run.script /\ run'.at = run.at
          BY <1>1, <1>4, <2>8, <3>1, RunAgain
    <3>.  QED
          BY <1>1, <1>7, <2>8, <3>2 DEF PlacesInv, ReportIsTrue
  <2>9. CASE Here # "absent" /\ Given # "refreshed"
    <3>1. \/ Done /\ UNCHANGED file /\ (Given = "pinned" => Here = "good")
          \/ Fails /\ UNCHANGED file
          \/ Receive
          BY <1>10, <2>9 DEF DownloadStep
    <3>2. CASE Receive
          BY <2>6, <2>7, <2>8, <3>2 DEF Receive
    <3>.  QED
          BY <2>5, <2>6, <3>1, <3>2
  <2>10. CASE ~(Here # "absent" /\ Given # "refreshed")
    <3>1. Receive
          BY <1>10, <2>10 DEF DownloadStep
    <3>.  QED
          BY <2>6, <2>7, <2>8, <3>1 DEF Receive
  <2>.  QED
        BY <2>9, <2>10
<1>11. PutStep \/ NeedStep \/ DownloadStep
  <2>1. ~End /\ ~CopyStep /\ ~MatchStep /\ ~StageStep /\ ~FetchStep /\ ~CacheStep
    <3>1. ~End
          BY <1>1, StepsOfScripts, CollectPlaces DEF End, InScript
    <3>.  QED
          BY <1>2, <3>1 DEF CopyStep, MatchStep, StageStep, FetchStep, CacheStep, Now, This
  <2>.  QED
        BY <2>1 DEF RunStep
<1>.  QED
      BY <1>8, <1>9, <1>10, <1>11

LEMMA BuildGoesOn ==
  ASSUME InputsInv, run.script = "build", InScript, RunStep
  PROVE  FilesInv' /\ RunInv' /\ PlacesInv'
<1>1. FilesInv /\ RunInv /\ ReportIsTrue
      BY DEF InputsInv, PlacesInv
<1>2. Steps[run.script] = BuildProot
      BY StepsOfScripts
<1>3. run.at \in 1 .. 15 /\ This = BuildProot[run.at]
      BY <1>1, <1>2, BuildPlaces DEF RunInv, InScript, This
<1>4. UNCHANGED <<chain, assembly, apk, accepted>>
      BY DEF RunStep, NeedStep, PutStep, CopyStep, MatchStep, StageStep, DownloadStep, FetchStep,
             CacheStep, End, aside
<1>5. ~End
      BY <1>2, <1>3, BuildPlaces DEF End
<1>6. CASE run.at = 13
  <2>1. This.op = "copy" /\ This.f = "build" /\ This.v = {"tree"}
        BY <1>3, <1>6, BuildPlaces DEF BuildCopy, Does
  <2>2. CopyStep
        BY <1>5, <2>1 DEF RunStep, NeedStep, PutStep, MatchStep, StageStep, DownloadStep, FetchStep,
                          CacheStep, Now, This
  <2>3. Given = "tree" /\ file["tree"] = "patched"
        BY <1>6, <2>1, OnlyMember DEF Given, InputsInv, PlacesInv
  <2>4. file' = [file EXCEPT !["build"] = "patched"] /\ Done
        BY <2>1, <2>2, <2>3 DEF CopyStep, Becomes
  <2>5. "build" \in Files /\ "patched" \in Held("build") \ {"absent"}
        BY FileKinds, HeldFacts DEF Patched
  <2>6. FilesInv' /\ \A g \in Files \ {"build"} : file'[g] = file[g]
        BY <1>1, <2>4, <2>5, FileChanges
  <2>7. RunInv' /\ run'.script = "build" /\ run'.at = 14
        BY <1>1, <1>4, <1>6, <2>4, RunDone
  <2>8. Reported \cup {"report"} \subseteq Files \ {"build"}
        BY FileKinds DEF Reported, Loose
  <2>9. ReportIsTrue'
        BY <1>1, <2>6, <2>8 DEF ReportIsTrue, Reported
  <2>.  QED
        BY <2>6, <2>7, <2>9 DEF PlacesInv
<1>7. CASE run.at # 13
  <2>1. This \in Tame
        BY <1>3, <1>7, BuildPlaces
  <2>2. This.op # "download"
        BY <2>1, TameFacts
  <2>3. NeedStep \/ PutStep \/ CopyStep \/ MatchStep \/ StageStep \/ FetchStep \/ CacheStep
        BY <1>5, <2>2 DEF RunStep, DownloadStep, Now, This
  <2>4. TameOutcome
        BY <2>1, <2>3, TameSteps
  <2>5. /\ FilesInv' /\ RunInv' /\ ReportIsTrue'
        /\ \/ UNCHANGED file
           \/ \A g \in Files \ {This.f} : file'[g] = file[g]
        /\ \/ run'.script = run.script /\ run'.at = run.at + 1
           \/ run'.script \in {"none", "failed"}
           \/ run'.script = run.script /\ run'.at = run.at /\ This.op \in {"fetch", "cache"}
        BY <1>4, <2>4, TameKeeps
  <2>6. ASSUME run'.script = "build", run'.at \in 10 .. 13 PROVE file'["tree"] = "patched"
    <3>1. CASE run.at = 9 /\ run'.at = 10
      <4>1. This.op = "put" /\ This.f = "tree" /\ This.v = {"patched"}
            BY <1>3, <3>1, BuildPlaces DEF Does
      <4>2. PutStep /\ Given = "patched"
            BY <2>3, <4>1, OnlyMember
            DEF NeedStep, CopyStep, MatchStep, StageStep, FetchStep, CacheStep, Now,
                           This, Given
      <4>.  QED
            BY <1>1, <4>1, <4>2, FileKinds DEF PutStep, Becomes, FilesInv, Loose
    <3>2. CASE run.at \in {10, 11}
      <4>1. This.op = "need"
            BY <1>3, <3>2, BuildPlaces
      <4>2. NeedStep
            BY <2>3, <4>1 DEF PutStep, CopyStep, MatchStep, StageStep, FetchStep, CacheStep, Now, This
      <4>.  QED
            BY <3>2, <4>2 DEF NeedStep, InputsInv, PlacesInv
    <3>3. CASE run.at = 12
      <4>1. This.f = "build" /\ "tree" \in Files
            BY <1>3, <3>3, BuildPlaces, FileKinds DEF Does, Loose
      <4>.  QED
            BY <2>5, <3>3, <4>1 DEF InputsInv, PlacesInv
    <3>4. run.at \in {9, 10, 11, 12}
      <4>1. CASE run'.at = run.at + 1
            BY <1>3, <2>6, <4>1
      <4>2. CASE run'.at = run.at /\ This.op \in {"fetch", "cache"}
        <5>1. run.at \in {10, 11, 12}
              BY <1>3, <1>7, <2>6, <4>2
        <5>.  QED
              BY <5>1
      <4>.  QED
            BY <2>5, <2>6, <4>1, <4>2
    <3>5. run.at = 9 => run'.at = 10
          BY <1>3, <2>5, <2>6
    <3>.  QED
          BY <3>1, <3>2, <3>3, <3>4, <3>5
  <2>7. run'.script # "collect"
        BY <2>5
  <2>.  QED
        BY <2>5, <2>6, <2>7 DEF PlacesInv
<1>.  QED
      BY <1>6, <1>7

LEMMA OtherGoesOn ==
  ASSUME InputsInv, run.script \notin {"collect", "build"}, InScript, RunStep
  PROVE  FilesInv' /\ RunInv' /\ PlacesInv'
<1>1. RunInv /\ run.script \in DOMAIN Steps \ {"collect", "build"}
      BY DEF InputsInv, RunInv, InScript
<1>2. Steps[run.script] \in Seq(Tame) /\ run.at \in 1 .. Len(Steps[run.script])
  <2>1. Steps[run.script] \in Seq(Tame)
        BY <1>1, StepsOfScripts
  <2>2. Len(Steps[run.script]) \in Nat /\ run.at \in Nat \ {0}
        BY <1>1, LengthsOfScripts DEF RunInv
  <2>.  QED
        BY <2>1, <2>2 DEF InScript
<1>3. This \in Tame
      BY <1>2 DEF This
<1>4. UNCHANGED <<chain, assembly, apk, accepted>>
      BY DEF RunStep, NeedStep, PutStep, CopyStep, MatchStep, StageStep, DownloadStep, FetchStep,
             CacheStep, End, aside
<1>5. NeedStep \/ PutStep \/ CopyStep \/ MatchStep \/ StageStep \/ FetchStep \/ CacheStep
  <2>1. ~End
        BY <1>1, LengthsOfScripts DEF End, InScript, RunInv
  <2>2. This.op # "download"
        BY <1>3, TameFacts
  <2>.  QED
        BY <2>1, <2>2 DEF RunStep, DownloadStep, Now, This
<1>6. TameOutcome
      BY <1>3, <1>5, TameSteps
<1>7. FilesInv' /\ RunInv' /\ ReportIsTrue' /\ run'.script \in {run.script, "none", "failed"}
      BY <1>4, <1>6, TameKeeps
<1>.  QED
      BY <1>1, <1>7 DEF PlacesInv

\* The assembly takes what it finds, and the check lets nothing through but what is whole.
LEMMA AssemblyStays ==
  ASSUME InputsInv, UNCHANGED <<chain, assembly, apk, accepted>> PROVE AssemblyInv'
  BY DEF InputsInv, AssemblyInv, AcceptedIsPinned, Packaged, Held

LEMMA RunStays == ASSUME InputsInv, UNCHANGED <<chain, file, run>> PROVE FilesInv' /\ RunInv' /\ PlacesInv'
  BY DEF InputsInv, FilesInv, Held, RunInv, Now, Here, This, PlacesInv, ReportIsTrue

LEMMA PackKeeps == ASSUME InputsInv, Pack PROVE AssemblyInv'
<1>  DEFINE f == CHOOSE f \in Packaged[chain] \ DOMAIN apk : TRUE
<1>1. /\ assembly = "packed" /\ ~accepted /\ DOMAIN apk \subseteq Packaged[chain]
      /\ DOMAIN apk # Packaged[chain] /\ \A g \in DOMAIN apk : apk[g] \in Held(g)
      BY DEF Pack, InputsInv, AssemblyInv
<1>2. f \in Packaged[chain] \ DOMAIN apk
      BY <1>1
<1>3. /\ apk' = [g \in DOMAIN apk \cup {f} |-> IF g = f THEN file[f] ELSE apk[g]]
      /\ assembly' = (IF DOMAIN apk' = Packaged[chain] THEN "checked" ELSE "packed")
      /\ chain' = chain /\ accepted' = accepted
      BY DEF Pack
<1>   HIDE DEF f
<1>4. f \in Files
  <2>1. chain \in Chains
        BY DEF InputsInv
  <2>.  QED
        BY <1>2, <2>1 DEF Files
<1>5. file[f] \in Held(f)
      BY <1>4 DEF InputsInv, FilesInv
<1>6. DOMAIN apk' = DOMAIN apk \cup {f} /\ \A g \in DOMAIN apk' : apk'[g] \in Held(g)
      BY <1>1, <1>3, <1>5
<1>7. DOMAIN apk' \subseteq Packaged[chain] /\ Packaged[chain]' = Packaged[chain]
      BY <1>1, <1>2, <1>3, <1>6 DEF Packaged
<1>8. \A g \in DOMAIN apk' : apk'[g] \in Held(g)'
      BY <1>6 DEF Held
<1>9. assembly' \in {"packed", "checked"} /\ accepted' = FALSE
      /\ (assembly' = "checked" <=> DOMAIN apk' = Packaged[chain]')
  <2>1. accepted = FALSE
        BY <1>1 DEF InputsInv, AssemblyInv
  <2>2. CASE DOMAIN apk' = Packaged[chain]
        BY <1>3, <1>7, <2>1, <2>2
  <2>3. CASE DOMAIN apk' # Packaged[chain]
        BY <1>3, <1>7, <2>1, <2>3
  <2>.  QED
        BY <2>2, <2>3
<1>   HIDE DEF Packaged
<1>.  QED
      BY <1>3, <1>7, <1>8, <1>9 DEF AssemblyInv, AcceptedIsPinned

\* What an APK that is accepted holds.
LEMMA AcceptedFacts ==
  ASSUME InputsInv, assembly = "checked", Accepts
  PROVE  /\ chain \in {"proot", "candidate"} => apk["lib-tracer"] = "patched" /\ apk["lib-deps"] = "good"
         /\ chain = "upstream" => apk["asset-fedora"] = "good" /\ apk["asset-opencode"] = "good"
         /\ chain = "gui" => \E v \in {"old", "good"} :
              \A f \in {"ui-index", "ui-script", "ui-manifest"} : apk[f] = v
         /\ chain \in {"crates", "rpms"} => \A f \in Packaged[chain] : apk[f] \in {"old", "good"}
         /\ chain = "rpms" => apk["asset-rpm-1"] = apk["asset-rpm-2"]
<1>1. /\ DOMAIN apk = Packaged[chain] /\ \A f \in Packaged[chain] : apk[f] \in Held(f)
      /\ file \in [Files -> Contents] /\ \A f \in Files : file[f] \in Held(f)
      /\ file["proot-json"] # "absent"
      BY DEF InputsInv, AssemblyInv, FilesInv
<1>2. CASE chain \in {"proot", "candidate"}
  <2>1. apk["lib-tracer"] = file["proot-json"] /\ file["proot-json"] # "torn" /\ apk["lib-deps"] = "good"
        BY <1>2 DEF Accepts, TracerPin
  <2>2. file["proot-json"] \in {"absent", "torn", "patched"}
    <3>1. "proot-json" \in Files /\ Held("proot-json") = {"absent", "torn", "patched"}
          BY FileKinds, HeldFacts DEF Patched
    <3>.  QED
          BY <1>1, <3>1
  <2>.  QED
        BY <1>1, <1>2, <2>1, <2>2
<1>3. CASE chain = "upstream"
      BY <1>3, PackagedFiles DEF Accepts
<1>4. CASE chain = "gui"
  <2>1. apk["ui-manifest"] # "torn" /\ \A f \in {"ui-index", "ui-script"} : apk[f] = apk["ui-manifest"]
        BY <1>4 DEF Accepts
  <2>2. apk["ui-manifest"] \in {"old", "torn", "good"}
        BY <1>1, <1>4, PackagedFiles, RevisedFiles, HeldFacts
  <2>.  QED
        BY <1>4, <2>1, <2>2
<1>5. CASE chain \in {"crates", "rpms"}
  <2>1. \A f \in Packaged[chain] : apk[f] = file[RecordOf[f]] /\ apk[f] # "torn"
        BY <1>5 DEF Accepts
  <2>2. ASSUME NEW f \in Packaged[chain] PROVE apk[f] \in {"old", "good"}
    <3>1. f \in Revised
          BY <1>5, <2>2, PackagedFiles, RevisedFiles
    <3>2. Held(f) = {"old", "torn", "good"}
          BY <3>1, HeldFacts
    <3>.  QED
          BY <1>1, <2>1, <2>2, <3>2
  <2>3. CASE chain = "rpms"
    <3>1. RecordOf["asset-rpm-1"] = "rpm-record" /\ RecordOf["asset-rpm-2"] = "rpm-record"
          BY PackagedFiles DEF RecordOf
    <3>2. "asset-rpm-1" \in Packaged[chain] /\ "asset-rpm-2" \in Packaged[chain]
          BY <2>3, PackagedFiles
    <3>.  QED
          BY <2>1, <2>2, <2>3, <3>1, <3>2
  <2>.  QED
        BY <1>5, <2>2, <2>3
<1>.  QED
      BY <1>2, <1>3, <1>4, <1>5 DEF InputsInv, Chains

LEMMA CheckKeeps == ASSUME InputsInv, Check PROVE AssemblyInv'
<1>1. assembly = "checked" /\ assembly' = "none" /\ accepted' = Accepts /\ chain' = chain
      /\ apk' = (IF Accepts THEN apk ELSE <<>>)
      BY DEF Check
<1>2. DOMAIN apk = Packaged[chain] /\ \A f \in DOMAIN apk : apk[f] \in Held(f)
      BY <1>1 DEF InputsInv, AssemblyInv
<1>3. Packaged[chain]' = Packaged[chain] /\ accepted' \in BOOLEAN
  <2>1. Packaged[chain]' = Packaged[chain]
        BY <1>1 DEF Packaged
  <2>2. CASE chain = "upstream"
        BY <1>1, <2>1, <2>2 DEF Accepts
  <2>3. CASE chain \in {"proot", "candidate"}
        BY <1>1, <2>1, <2>3 DEF Accepts
  <2>4. CASE chain = "gui"
        BY <1>1, <2>1, <2>4 DEF Accepts
  <2>5. CASE chain \in {"crates", "rpms"}
        BY <1>1, <2>1, <2>5 DEF Accepts
  <2>.  QED
        BY <2>1, <2>2, <2>3, <2>4, <2>5 DEF InputsInv, Chains
<1>4. CASE Accepts
  <2>1. AcceptedIsPinned'
        BY <1>1, <1>2, <1>4, AcceptedFacts DEF AcceptedIsPinned
  <2>2. \A f \in DOMAIN apk' : apk'[f] \in Held(f)'
        BY <1>1, <1>2, <1>4 DEF Held
  <2>.  QED
        BY <1>1, <1>2, <1>3, <1>4, <2>1, <2>2 DEF AssemblyInv
<1>5. CASE ~Accepts
  <2>1. DOMAIN apk' = {}
        BY <1>1, <1>5
  <2>.  QED
        BY <1>1, <1>3, <1>5, <2>1 DEF AssemblyInv, AcceptedIsPinned
<1>.  QED
      BY <1>4, <1>5

LEMMA InputsStep == InputsInv /\ [Next]_(<<inputVars, faults>>) => InputsInv'
<1>.  SUFFICES ASSUME InputsInv, [Next]_(<<inputVars, faults>>) PROVE InputsInv'
      OBVIOUS
<1>1. ASSUME NEW n \in 1 .. 4, Begin(n) PROVE InputsInv'
  <2>1. /\ run' = [script |-> Scripts[chain][n], at |-> 1, tries |-> 0]
        /\ n \in DOMAIN Scripts[chain] /\ UNCHANGED <<chain, file, assembly, apk, accepted, faults>>
        BY <1>1 DEF Begin, Off
  <2>2. Scripts[chain][n] \in DOMAIN Steps \ {"failed"}
        BY <2>1, ScriptsOfChains DEF InputsInv
  <2>3. run'.script = Scripts[chain][n] /\ run'.at = 1 /\ run'.tries = 0
        BY <2>1
  <2>4. RunInv'
    <3>1. run' \in [script : DOMAIN Steps \cup {"none"}, at : Nat \ {0}, tries : Nat]
          BY <2>1, <2>2
    <3>2. 1 \in 1 .. Len(Steps[run'.script]) + 1 /\ 0 \in 0 .. Attempts - 1
          BY <2>2, <2>3, LengthsOfScripts, InputsAssumption
    <3>3. run'.script \in {Scripts[chain][k] : k \in DOMAIN Scripts[chain]} \cup {"none", "failed"}
          BY <2>1, <2>3
    <3>.  HIDE DEF Scripts, Steps
    <3>.  QED
          BY <2>1, <2>3, <3>1, <3>2, <3>3 DEF RunInv
  <2>5. FilesInv' /\ PlacesInv'
    <3>1. \A f \in Reported : ~(1 > CollectedAt(f))
          BY DEF Reported, CollectedAt
    <3>.  QED
          BY <2>1, <2>3, <3>1 DEF InputsInv, FilesInv, Held, PlacesInv, ReportIsTrue
  <2>.  QED
        BY <2>1, <2>4, <2>5, AssemblyStays DEF InputsInv
<1>2. CASE RunStep
  <2>1. UNCHANGED <<chain, assembly, apk, accepted>> /\ AssemblyInv'
    <3>1. UNCHANGED <<chain, assembly, apk, accepted>>
          BY <1>2 DEF RunStep, NeedStep, PutStep, CopyStep, MatchStep, StageStep, DownloadStep,
                      FetchStep, CacheStep, End, aside
    <3>.  QED
          BY <3>1, AssemblyStays
  <2>2. faults' \in 0 .. MaxFaults
    <3>1. faults' = faults \/ (faults < MaxFaults /\ faults' = faults + 1)
          BY <1>2 DEF RunStep, NeedStep, PutStep, CopyStep, MatchStep, StageStep, DownloadStep,
                      Receive, FetchStep, CacheStep, End, Fault
    <3>.  QED
          BY <3>1, InputsAssumption DEF InputsInv
  <2>3. FilesInv' /\ RunInv' /\ PlacesInv'
    <3>1. CASE End
          BY <2>1, <3>1, ScriptEnds DEF End
    <3>2. CASE ~End
      <4>1. InScript
            BY <1>2, <3>2 DEF RunStep, NeedStep, PutStep, CopyStep, MatchStep, StageStep, DownloadStep,
                              FetchStep, CacheStep, Now, InScript
      <4>.  QED
            BY <1>2, <4>1, CollectGoesOn, BuildGoesOn, OtherGoesOn
    <3>.  QED
          BY <3>1, <3>2
  <2>.  QED
        BY <2>1, <2>2, <2>3 DEF InputsInv
<1>3. CASE Kill
  <2>1. /\ UNCHANGED <<chain, file, assembly, apk, accepted>> /\ run' = Off
        /\ faults' = faults + 1 /\ faults < MaxFaults
        BY <1>3 DEF Kill, Fault, aside
  <2>2. faults' \in 0 .. MaxFaults
        BY <2>1, InputsAssumption DEF InputsInv
  <2>.  QED
        BY <2>1, <2>2, ScriptEnds, AssemblyStays DEF InputsInv
<1>4. CASE Assemble
  <2>1. /\ UNCHANGED <<chain, file, run, faults>> /\ assembly' = "packed" /\ accepted' = FALSE
        /\ DOMAIN apk' = {}
        BY <1>4 DEF Assemble
  <2>2. Packaged[chain] # {} /\ Packaged[chain]' = Packaged[chain]
    <3>1. chain \in Chains
          BY DEF InputsInv
    <3>2. Packaged[chain] # {}
          BY <3>1, PackagedFiles DEF Chains
    <3>.  QED
          BY <2>1, <3>2 DEF Packaged
  <2>3. AssemblyInv'
        BY <2>1, <2>2 DEF AssemblyInv, AcceptedIsPinned
  <2>.  QED
        BY <2>1, <2>3, RunStays DEF InputsInv
<1>5. CASE Pack \/ Check
  <2>1. UNCHANGED <<chain, file, run, faults>>
        BY <1>5 DEF Pack, Check
  <2>.  QED
        BY <1>5, <2>1, PackKeeps, CheckKeeps, RunStays DEF InputsInv
<1>6. CASE UNCHANGED <<inputVars, faults>>
  <2>1. UNCHANGED <<chain, file, run, assembly, apk, accepted, faults>>
        BY <1>6 DEF inputVars
  <2>.  QED
        BY <2>1, RunStays, AssemblyStays DEF InputsInv
<1>.  QED
      BY <1>1, <1>2, <1>3, <1>4, <1>5, <1>6 DEF Next

-----------------------------------------------------------------------------
\* The build: whichever part it is in, that part's invariant.
BuildInv ==
  /\ part \in Parts
  /\ part = "sdk" => SdkInv
  /\ part = "library" => LibraryInv
  /\ part = "signing" => SignerInv
  /\ part = "export" => ExportInv
  /\ part = "delta" => DeltaInv
  /\ part = "evidence" => EvidenceInv
  /\ part = "inputs" => InputsInv

LEMMA BuildStarts == BuildInit => BuildInv
  BY SdkInit, LibraryInit, SignerInit, ExportInit, DeltaInit, EvidenceInit, InputsInit
  DEF BuildInit, BuildInv, Parts

LEMMA BuildSteps == BuildInv /\ [BuildNext]_buildVars => BuildInv'
<1>.  SUFFICES ASSUME BuildInv, [BuildNext]_buildVars PROVE BuildInv'
      OBVIOUS
<1>1. CASE PrepareSdk
      BY <1>1, SdkStep DEF PrepareSdk, BuildInv
<1>2. CASE PrepareInputs
      BY <1>2, InputsStep DEF PrepareInputs, BuildInv
<1>3. CASE SendDelta
      BY <1>3, DeltaStep DEF SendDelta, BuildInv
<1>4. CASE ExportSource
      BY <1>4, ExportStep DEF ExportSource, BuildInv
<1>5. CASE CollectEvidence
      BY <1>5, EvidenceStep DEF CollectEvidence, BuildInv
<1>6. CASE MakeSigners
      BY <1>6, SignerStep DEF MakeSigners, BuildInv
<1>7. CASE CollectLibraries
      BY <1>7, LibraryStep DEF CollectLibraries, BuildInv
<1>8. CASE UNCHANGED buildVars
  <2>1. /\ part' = part /\ UNCHANGED <<sdkVars, faults>> /\ UNCHANGED <<libraryVars, faults>>
        /\ UNCHANGED <<signingVars, faults>> /\ UNCHANGED <<exportVars, faults>>
        /\ UNCHANGED <<deltaVars, faults>> /\ UNCHANGED evidenceVars
        /\ UNCHANGED <<inputVars, faults>>
        BY <1>8 DEF buildVars
  <2>.  QED
        BY <2>1, SdkStep, LibraryStep, SignerStep, ExportStep, DeltaStep, EvidenceStep, InputsStep
        DEF BuildInv
<1>.  QED
      BY <1>1, <1>2, <1>3, <1>4, <1>5, <1>6, <1>7, <1>8 DEF BuildNext

LEMMA BuildHolds == BuildSpec => []BuildInv
  BY BuildStarts, BuildSteps, PTL DEF BuildSpec

\* An SDK that the build is told of is the pinned one, whole, and linked before its aidl;
\* nothing but pinned bytes is staged below assets, an APK that passes the check holds
\* nothing else whichever script was killed or at work when it was assembled, and the report
\* on the upstream archives and the receipt of the library sources are true while they are
\* there: for any number of archives, builds, libraries, attempts, faults and changes of the
\* upstream (prepare-phone-sdk.sh, collect_upstream.py, stage-proot.py, stage-web-ui.py,
\* stage-runtime-assets.py, check-packaged-runtime.py, collect_library_sources.py).
THEOREM InputsPinned == BuildSpec => []InputsArePinned
<1>1. BuildInv => InputsArePinned
      BY SdkImplies, LibraryImplies, InputsImply DEF BuildInv, InputsArePinned
<1>.  QED
      BY <1>1, BuildHolds, PTL

\* The output of a delta is the sender's APK or is not there, a part left behind is a killed
\* process's, and what the phone has announced stays so; an archive that verifies is whole,
\* and an undisturbed export a copy of the source; a signer's metadata come last, and the
\* phone gets the key that was sent: for any number of appliers, files, makers and faults
\* (apk-delta.py, apk-delta-android.py, export-private-source.py, signing.py).
THEOREM HandedOverExactly == BuildSpec => []HandedOverIsExact
<1>1. BuildInv => HandedOverIsExact
      BY SignerImplies, ExportImplies DEF BuildInv, DeltaInv, HandedOverIsExact
<1>.  QED
      BY <1>1, BuildHolds, PTL

\* A release comes to its verdict only when the last three rounds passed, on the APK that is
\* on disk, with their own logs: for any number of rounds, rebuilds and journeys
\* (check-release.py, 86-157).
THEOREM RoundsInARow == BuildSpec => ThreeRoundsInARow
<1>1. BuildInv /\ [BuildNext]_buildVars =>
        [part = "evidence" /\ ~complete /\ complete' => Evidence!InARowOnDisk]_buildVars
  <2>.  SUFFICES ASSUME BuildInv, BuildNext, part = "evidence", ~complete, complete'
                 PROVE  Evidence!InARowOnDisk
        OBVIOUS
  <2>1. CollectEvidence
        BY DEF BuildNext, PrepareSdk, PrepareInputs, SendDelta, ExportSource, MakeSigners,
               CollectLibraries
  <2>2. EvidenceInv /\ [Evidence!Next]_evidenceVars
        BY <2>1 DEF CollectEvidence, BuildInv
  <2>.  QED
        BY <2>2, VerdictStep
<1>.  QED
      BY <1>1, BuildHolds, PTL DEF BuildSpec, ThreeRoundsInARow

\* A delta that arrives as it was made rebuilds the sender's APK, whatever the two APKs have
\* in common, in whatever order, and however large a payload must be to be looked for: no
\* applier comes to a file that differs (apk-delta.py, 26-40 and 43-63).
THEOREM DeltasRebuild == BuildSpec => []DeltasApply
<1>1. BuildInv => DeltasApply
      BY DEF BuildInv, DeltaInv, DeltasApply
<1>.  QED
      BY <1>1, BuildHolds, PTL

\* Every part of the build keeps its types, whatever the constants are; of a delta this says
\* that a span that copies lies within the receiver's APK, which apply() asserts.
THEOREM BuildTyped == BuildSpec => []BuildTypeOK
<1>1. BuildInv => BuildTypeOK
      BY SdkImplies, LibraryImplies, SignerImplies, ExportImplies, InputsImply
      DEF BuildInv, EvidenceInv, DeltaInv, BuildTypeOK, Parts
<1>.  QED
      BY <1>1, BuildHolds, PTL
=============================================================================
