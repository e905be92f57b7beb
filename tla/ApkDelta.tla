------------------------------- MODULE ApkDelta -------------------------------
(***************************************************************************)
(* An APK sent as the difference to the one the receiver has: apk-delta.py *)
(* finds the ZIP payloads both have, and rebuilds the new file from them,  *)
(* on a host in several processes that may fail or be killed; the shell    *)
(* script that apk-delta-android.py exports does it on the phone.          *)
(***************************************************************************)
EXTENDS Naturals, Sequences

CONSTANTS Archives,   \* APKs: the bytes of a file and the entries of its central directory
          Least,      \* payloads below this size are not looked for
          Appliers,   \* processes of "apk-delta.py apply"
          MaxFaults

VARIABLES old, new,   \* the receiver's APK and the sender's
          todo, cursor, \* entries that create() has yet to look at, and its cursor
          spans,      \* the patch
          delivery,   \* of the patch: "none" before it is written, "intact" or "damaged"
          part, output, \* contents of the ".part" and of the output
          applier,
          phone,      \* contents of the file below /data/local/tmp
          script,     \* the shell script's next span; 0 when it is not running
          announced,  \* it has printed "Verified exact signed APK"
          faults

patch == <<old, new, todo, cursor, spans, delivery>>
host == <<part, output, applier>>
device == <<phone, script, announced>>
vars == <<patch, host, device, faults>>

\* A file is the set of its contents: none, if there is no such file.
Missing == {}

\* A local header is a mark, the length of its name and extra field, and these.
Mark == 0
Fixed == 2
Start(a, e) == e.offset + Fixed + a.data[e.offset + Fixed]
End(a, e) == Start(a, e) + e.size

\* What a ZIP file is: entries of their own, one behind the other.
WellFormed(a) ==
  /\ a.data \in Seq(Nat)
  /\ \A e \in a.entries :
       /\ e.offset \in Nat /\ e.size \in Nat /\ e.offset + Fixed <= Len(a.data)
       /\ a.data[e.offset + 1] = Mark /\ End(a, e) <= Len(a.data)
  /\ \A e, f \in a.entries : e # f => End(a, e) <= f.offset \/ End(a, f) <= e.offset

Slice(b, from, to) == SubSeq(b, from + 1, to)

Idle == [pc |-> "idle", at |-> 0, written |-> <<>>]

Init ==
  /\ old \in Archives /\ new \in Archives
  /\ todo = new.entries /\ cursor = 0 /\ spans = <<>> /\ delivery = "none"
  /\ part = Missing /\ output = Missing
  /\ applier = [a \in Appliers |-> Idle]
  /\ phone = Missing /\ script = 0 /\ announced = FALSE
  /\ faults = 0

-----------------------------------------------------------------------------
Literal(b) == [copy |-> FALSE, data |-> b]
Reuse(p) == [copy |-> TRUE, start |-> Start(old, p), size |-> p.size]

\* Of the old entries of one name, the one with the last header.
Previous(e) ==
  {p \in old.entries :
     p.name = e.name /\ \A q \in old.entries : q.name = e.name => q.offset <= p.offset}

Same(e, p) ==
  /\ e.size >= Least /\ e.size = p.size
  /\ Slice(old.data, Start(old, p), End(old, p)) = Slice(new.data, Start(new, e), End(new, e))

\* A bug for NextHeader: the order of the central directory.
AnyEntry(e) == e \in todo

\* payloads() sorts by the place of the local header.
NextHeader(e) == e \in todo /\ \A f \in todo : e.offset <= f.offset

Look(e) ==
  /\ delivery = "none" /\ NextHeader(e)
  /\ todo' = todo \ {e}
  /\ UNCHANGED <<old, new, delivery, host, device, faults>>

Skip(e) ==
  /\ Look(e) /\ \A p \in Previous(e) : ~Same(e, p)
  /\ UNCHANGED <<cursor, spans>>

Gap(to) == IF to > cursor THEN <<Literal(Slice(new.data, cursor, to))>> ELSE <<>>

Share(e) ==
  /\ Look(e)
  /\ \E p \in Previous(e) : Same(e, p) /\ spans' = spans \o Gap(Start(new, e)) \o <<Reuse(p)>>
  /\ cursor' = End(new, e)

\* The last span is cut off or has a byte more.
Damage(b) == {<<>>, Append(b, Mark)}

Send ==
  LET rest == Slice(new.data, cursor, Len(new.data)) IN
  /\ delivery = "none" /\ todo = {}
  /\ \/ spans' = Append(spans, Literal(rest)) /\ delivery' = "intact"
     \/ delivery' = "damaged" /\ \E b \in Damage(rest) : spans' = Append(spans, Literal(b))
  /\ UNCHANGED <<old, new, todo, cursor, host, device, faults>>

Create == (\E e \in todo : Skip(e) \/ Share(e)) \/ Send

-----------------------------------------------------------------------------
Data(s) == IF s.copy THEN Slice(old.data, s.start, s.start + s.size) ELSE s.data

Fault == faults < MaxFaults /\ faults' = faults + 1
Goes(a, pc) == applier' = [applier EXCEPT ![a].pc = pc]

Refuse(a) ==
  /\ delivery # "none" /\ applier[a].pc = "idle"
  /\ Goes(a, IF output = Missing THEN "open" ELSE "refused")
  /\ UNCHANGED <<patch, part, output, device, faults>>

\* A bug for Open: mode "wb".
OpenOver(a) ==
  /\ applier[a].pc = "open"
  /\ part' = {<<>>} /\ applier' = [applier EXCEPT ![a] = [pc |-> "write", at |-> 1, written |-> <<>>]]
  /\ UNCHANGED <<patch, output, device, faults>>

\* Mode "xb": the part of another process, or of a killed one, is left alone.
Open(a) ==
  /\ applier[a].pc = "open"
  /\ IF part # Missing
       THEN Goes(a, "refused") /\ UNCHANGED part
       ELSE /\ part' = {<<>>}
            /\ applier' = [applier EXCEPT ![a] = [pc |-> "write", at |-> 1, written |-> <<>>]]
  /\ UNCHANGED <<patch, output, device, faults>>

\* except BaseException: close and unlink.
Abandon(a, pc) == Goes(a, pc) /\ part' = Missing

\* The checksum is taken of what is written, not of the file.
WriteSpan(a) ==
  LET written == applier[a].written \o Data(spans[applier[a].at]) IN
  /\ applier[a].pc = "write" /\ applier[a].at <= Len(spans)
  /\ IF Len(written) > Len(new.data) THEN Abandon(a, "differs")
     ELSE /\ part' = {b \o Data(spans[applier[a].at]) : b \in part}
          /\ applier' = [applier EXCEPT ![a].at = @ + 1, ![a].written = written]
  /\ UNCHANGED <<patch, output, device, faults>>

WriteFails(a) ==
  /\ applier[a].pc = "write" /\ Fault
  /\ Abandon(a, "failed")
  /\ UNCHANGED <<patch, output, device>>

Reconstructed(a) ==
  /\ applier[a].pc = "write" /\ applier[a].at > Len(spans)
  /\ IF applier[a].written = new.data
       THEN Goes(a, "replace") /\ UNCHANGED part
       ELSE Abandon(a, "differs")
  /\ UNCHANGED <<patch, output, device, faults>>

Replace(a) ==
  /\ applier[a].pc = "replace"
  /\ output' = part /\ part' = Missing
  /\ Goes(a, "done")
  /\ UNCHANGED <<patch, device, faults>>

Kill(a) ==
  /\ applier[a].pc \in {"open", "write", "replace"} /\ Fault
  /\ Goes(a, "killed")
  /\ UNCHANGED <<patch, part, output, device>>

-----------------------------------------------------------------------------
\* The exported script: [ ! -e ], the digests of both inputs, and : > output.
Run ==
  /\ delivery # "none" /\ script = 0 /\ phone = Missing
  /\ phone' = {<<>>} /\ script' = 1
  /\ UNCHANGED <<patch, host, announced, faults>>

\* dd, at the position that the spans before it have reached.
Dd ==
  /\ script \in 1 .. Len(spans)
  /\ phone' = {b \o Data(spans[script]) : b \in phone} /\ script' = script + 1
  /\ UNCHANGED <<patch, host, announced, faults>>

Announce ==
  /\ script = Len(spans) + 1
  /\ announced' = (announced \/ phone = {new.data})
  /\ script' = 0
  /\ UNCHANGED <<patch, host, phone, faults>>

Interrupt ==
  /\ script # 0 /\ Fault
  /\ script' = 0
  /\ UNCHANGED <<patch, host, phone, announced>>

Step(a) ==
  Refuse(a) \/ Open(a) \/ WriteSpan(a) \/ WriteFails(a) \/ Reconstructed(a) \/ Replace(a) \/ Kill(a)

Next == Create \/ (\E a \in Appliers : Step(a)) \/ Run \/ Dd \/ Announce \/ Interrupt

Spec == Init /\ [][Next]_vars

-----------------------------------------------------------------------------
\* A span that copies lies within the old APK, as apply() asserts.
Spans ==
  [copy : {FALSE}, data : Seq(Nat)] \cup
  {s \in [copy : {TRUE}, start : Nat, size : Nat] : s.start + s.size <= Len(old.data)}

IsFile(f) == f \subseteq Seq(Nat) /\ \A b, c \in f : b = c

TypeOK ==
  /\ old \in Archives /\ new \in Archives
  /\ todo \subseteq new.entries /\ cursor \in 0 .. Len(new.data)
  /\ spans \in Seq(Spans) /\ delivery \in {"none", "intact", "damaged"}
  /\ IsFile(part) /\ IsFile(output) /\ IsFile(phone)
  /\ applier \in [Appliers -> [pc : {"idle", "open", "write", "replace", "done", "refused",
                                     "failed", "differs", "killed"},
                               at : 0 .. Len(spans) + 1, written : Seq(Nat)]]
  /\ script \in 0 .. Len(spans) + 1
  /\ announced \in BOOLEAN
  /\ faults \in 0 .. MaxFaults

\* A patch that arrives as it was made rebuilds the sender's APK, whatever the two have in
\* common: the final comparison never fails on it (apk-delta.py, lines 26-40).
GoodPatchApplies == \A a \in Appliers : applier[a].pc = "differs" => delivery = "damaged"

\* The output is the exact APK or is not there, whoever else applies, fails or is killed
\* (apk-delta.py, lines 43-70).
OutputIsExact == output # Missing => output = {new.data}

\* A part that stays behind is a killed process's: one that fails takes its own away, and
\* never another's.
PartIsOwned ==
  part # Missing =>
    \/ \E a \in Appliers : applier[a].pc \in {"write", "replace"}
    \/ \E a \in Appliers : applier[a].pc = "killed"

\* What the script has announced stays so, however often it is started again.
AnnouncedIsExact == announced => phone = {new.data}
=============================================================================
