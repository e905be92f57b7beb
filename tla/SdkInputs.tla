------------------------------ MODULE SdkInputs ------------------------------
(***************************************************************************)
(* The Android SDK of a build on the phone. prepare-android-sdk-fedora.py  *)
(* fetches and unpacks the pinned archives under a flock;                  *)
(* configure-android-sdk-fedora.py links them and hands over to            *)
(* configure-arm-aidl.py, neither of which takes a lock. Several builds    *)
(* may prepare at once, and any of them may be killed.                     *)
(***************************************************************************)
EXTENDS Naturals

CONSTANTS Builds,     \* processes that prepare
          Archives,   \* the pins
          Tools,      \* installed build-tools versions with an aidl
          MaxFaults,  \* kills and bad transfers
          Nobody, Nothing

VARIABLES archive,    \* by pin: "absent", "pinned" or "wrong"
          part,       \* its ".part"
          tree,       \* its ".unpacked"
          provenance, \* what provenance.json stands for: archives
          link,       \* the SDK directory linked to each tree
          config,     \* android-build.json: "absent", "torn" or "whole"
          aidl,       \* what each aidl resolves to: "x86" or "arm"
          next,       \* ".aidl-arm64-next" exists
          lock, build, faults

vars == <<archive, part, tree, provenance, link, config, aidl, next, lock, build, faults>>
inputs == <<archive, part, tree, provenance>>
sdk == <<link, config, aidl, next>>

Idle == [pc |-> "idle", todo |-> {}, at |-> Nothing]

Init ==
  /\ archive = [n \in Archives |-> "absent"]
  /\ part = [n \in Archives |-> "absent"]
  /\ tree = [n \in Archives |-> "absent"]
  /\ provenance = {}
  /\ link = [n \in Archives |-> FALSE]
  /\ config = "absent"
  /\ aidl = [t \in Tools |-> "x86"]
  /\ next = [t \in Tools |-> FALSE]
  /\ lock = Nobody
  /\ build = [b \in Builds |-> Idle]
  /\ faults = 0

-----------------------------------------------------------------------------
Goes(b, pc) == build' = [build EXCEPT ![b].pc = pc]
Turns(b, pc, x) == build' = [build EXCEPT ![b].pc = pc, ![b].at = x]
Does(b, pc, s) == build' = [build EXCEPT ![b].pc = pc, ![b].todo = s, ![b].at = Nothing]

\* An assertion or an OSError: the process ends, and its lock with it.
Fails(b) ==
  /\ build' = [build EXCEPT ![b] = Idle]
  /\ lock' = IF lock = b THEN Nobody ELSE lock

Fault == faults < MaxFaults /\ faults' = faults + 1

Start(b) ==
  /\ build[b].pc = "idle" /\ Goes(b, "lock")
  /\ UNCHANGED <<inputs, sdk, lock, faults>>

Lock(b) ==
  /\ build[b].pc = "lock" /\ lock = Nobody
  /\ lock' = b
  /\ Does(b, "pins", Archives)
  /\ UNCHANGED <<inputs, sdk, faults>>

\* An archive under its own name is not fetched again, but is always verified.
Pin(b) ==
  /\ build[b].pc = "pins" /\ build[b].todo # {}
  /\ \E n \in build[b].todo : Turns(b, IF archive[n] = "absent" THEN "fetch" ELSE "verify", n)
  /\ UNCHANGED <<inputs, sdk, lock, faults>>

\* A transfer opens the part anew: it is whole, has other bytes, or breaks off.
Fetch(b) ==
  LET n == build[b].at IN
  /\ build[b].pc = "fetch"
  /\ \/ /\ part' = [part EXCEPT ![n] = "pinned"]
        /\ Goes(b, "place") /\ UNCHANGED <<lock, faults>>
     \/ /\ Fault /\ part' = [part EXCEPT ![n] = "wrong"]
        /\ Goes(b, "place") /\ UNCHANGED lock
     \/ /\ Fault /\ part' = [part EXCEPT ![n] = "cut"]
        /\ Fails(b)
  /\ UNCHANGED <<archive, tree, provenance, sdk>>

Place(b) ==
  LET n == build[b].at IN
  /\ build[b].pc = "place"
  /\ IF part[n] = "pinned"
       THEN /\ archive' = [archive EXCEPT ![n] = "pinned"]
            /\ part' = [part EXCEPT ![n] = "absent"]
            /\ Goes(b, "verify") /\ UNCHANGED lock
       ELSE Fails(b) /\ UNCHANGED <<archive, part>>
  /\ UNCHANGED <<tree, provenance, sdk, faults>>

Verify(b) ==
  /\ build[b].pc = "verify"
  /\ IF archive[build[b].at] = "pinned" THEN Goes(b, "open") /\ UNCHANGED lock ELSE Fails(b)
  /\ UNCHANGED <<inputs, sdk, faults>>

Rest(b) == build[b].todo \ {build[b].at}

\* unpack() trusts a tree that is there, and extracts into a directory of its own.
Open(b) ==
  /\ build[b].pc = "open"
  /\ IF tree[build[b].at] = "absent" THEN Goes(b, "extract") ELSE Does(b, "pins", Rest(b))
  /\ UNCHANGED <<inputs, sdk, lock, faults>>

Extract(b) ==
  LET n == build[b].at IN
  /\ build[b].pc = "extract"
  /\ tree' = [tree EXCEPT ![n] = archive[n]]
  /\ Does(b, "pins", Rest(b))
  /\ UNCHANGED <<archive, part, provenance, sdk, lock, faults>>

Record(b) ==
  /\ build[b].pc = "pins" /\ build[b].todo = {}
  /\ provenance' = Archives
  /\ lock' = Nobody
  /\ Does(b, "links", Archives)
  /\ UNCHANGED <<archive, part, tree, sdk, faults>>

-----------------------------------------------------------------------------
\* From here on nothing is locked.
LinkLook(b) ==
  /\ build[b].pc = "links" /\ build[b].todo # {}
  /\ \E n \in build[b].todo :
       IF link[n] THEN Does(b, "links", build[b].todo \ {n}) ELSE Turns(b, "link", n)
  /\ UNCHANGED <<inputs, sdk, lock, faults>>

\* symlink_to() refuses a link that another build has made since.
LinkMake(b) ==
  /\ build[b].pc = "link"
  /\ IF link[build[b].at]
       THEN Fails(b) /\ UNCHANGED link
       ELSE link' = [link EXCEPT ![build[b].at] = TRUE] /\ Does(b, "links", Rest(b)) /\ UNCHANGED lock
  /\ UNCHANGED <<inputs, config, aidl, next, faults>>

\* write_text() empties the file before it writes it.
ConfigOpen(b) ==
  /\ build[b].pc = "links" /\ build[b].todo = {}
  /\ config' = "torn" /\ Goes(b, "config")
  /\ UNCHANGED <<inputs, link, aidl, next, lock, faults>>

ConfigWrite(b) ==
  /\ build[b].pc = "config"
  /\ config' = "whole" /\ Goes(b, "compile")
  /\ UNCHANGED <<inputs, link, aidl, next, lock, faults>>

\* configure-arm-aidl.py reads it back and compiles an interface with the tree's aidl.
Compile(b) ==
  /\ build[b].pc = "compile"
  /\ IF config = "whole" THEN Does(b, "tools", Tools) /\ UNCHANGED lock ELSE Fails(b)
  /\ UNCHANGED <<inputs, sdk, faults>>

AidlLook(b) ==
  /\ build[b].pc = "tools" /\ build[b].todo # {}
  /\ \E t \in build[b].todo :
       IF aidl[t] = "arm" THEN Does(b, "tools", build[b].todo \ {t}) /\ UNCHANGED next
       ELSE next' = [next EXCEPT ![t] = FALSE] /\ Turns(b, "symlink", t)
  /\ UNCHANGED <<inputs, link, config, aidl, lock, faults>>

AidlLink(b) ==
  /\ build[b].pc = "symlink"
  /\ IF next[build[b].at]
       THEN Fails(b) /\ UNCHANGED next
       ELSE next' = [next EXCEPT ![build[b].at] = TRUE] /\ Goes(b, "replace") /\ UNCHANGED lock
  /\ UNCHANGED <<inputs, link, config, aidl, faults>>

AidlReplace(b) ==
  /\ build[b].pc = "replace"
  /\ IF next[build[b].at]
       THEN /\ aidl' = [aidl EXCEPT ![build[b].at] = "arm"]
            /\ next' = [next EXCEPT ![build[b].at] = FALSE]
            /\ Does(b, "tools", Rest(b)) /\ UNCHANGED lock
       ELSE Fails(b) /\ UNCHANGED <<aidl, next>>
  /\ UNCHANGED <<inputs, link, config, faults>>

Finish(b) ==
  /\ build[b].pc = "tools" /\ build[b].todo = {}
  /\ Goes(b, "done")
  /\ UNCHANGED <<inputs, sdk, lock, faults>>

Kill(b) ==
  /\ build[b].pc \notin {"idle", "done"} /\ Fault
  /\ Fails(b)
  /\ UNCHANGED <<inputs, sdk>>

Step(b) ==
  \/ Start(b) \/ Lock(b) \/ Pin(b) \/ Fetch(b) \/ Place(b) \/ Verify(b) \/ Open(b) \/ Extract(b)
  \/ Record(b) \/ LinkLook(b) \/ LinkMake(b) \/ ConfigOpen(b) \/ ConfigWrite(b) \/ Compile(b)
  \/ AidlLook(b) \/ AidlLink(b) \/ AidlReplace(b) \/ Finish(b)

Next == \E b \in Builds : Step(b) \/ Kill(b)

Spec == Init /\ [][Next]_vars

-----------------------------------------------------------------------------
TypeOK ==
  /\ archive \in [Archives -> {"absent", "pinned", "wrong"}]
  /\ part \in [Archives -> {"absent", "pinned", "wrong", "cut"}]
  /\ tree \in [Archives -> {"absent", "pinned", "wrong"}]
  /\ provenance \in SUBSET Archives
  /\ link \in [Archives -> BOOLEAN]
  /\ config \in {"absent", "torn", "whole"}
  /\ aidl \in [Tools -> {"x86", "arm"}]
  /\ next \in [Tools -> BOOLEAN]
  /\ lock \in {Nobody} \cup Builds
  /\ build \in [Builds ->
       [pc : {"idle", "lock", "pins", "fetch", "place", "verify", "open", "extract", "links",
              "link", "config", "compile", "tools", "symlink", "replace", "done"},
        todo : SUBSET (Archives \cup Tools), at : {Nothing} \cup Archives \cup Tools]]
  /\ faults \in 0 .. MaxFaults

\* Whatever is interrupted, an SDK link leads to a complete tree of a pinned archive,
\* and provenance.json lists nothing else (prepare-android-sdk-fedora.py, lines 42-79).
LinkedTreesArePinned ==
  \A n \in Archives : link[n] \/ n \in provenance => tree[n] = "pinned" /\ archive[n] = "pinned"

\* A build that reports success has an ARM64 aidl in every version, although another
\* build may pull its link away at any step (configure-arm-aidl.py, lines 10-26).
DoneIsConfigured ==
  \A b \in Builds : build[b].pc = "done" =>
    /\ \A t \in Tools : aidl[t] = "arm"
    /\ \A n \in Archives : link[n]
=============================================================================
