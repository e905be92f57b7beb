---------------------------- MODULE ReleaseEvidence ----------------------------
(***************************************************************************)
(* The evidence of a release candidate. Rounds of journeys are run on the  *)
(* APK of the day and their logs written to disk, where a later round may  *)
(* write over them; somebody selects rounds for candidate.json, and        *)
(* check-release.py says whether that is three complete rounds in a row.   *)
(***************************************************************************)
EXTENDS Naturals, Sequences

CONSTANTS Journeys, Passed,
          MaxApks, MaxRounds

VARIABLES apk,        \* the candidate's APK on disk, by the number of its build
          rounds,     \* the rounds that were run, by their number
          disk,       \* by path: the number of the round whose logs are there
          candidate,  \* candidate.json: the APK's digest and the rounds selected
          complete    \* the verdict: "evidence_complete"

vars == <<apk, rounds, disk, candidate, complete>>

Init ==
  /\ apk = 1
  /\ rounds = <<>>
  /\ disk = <<>>
  /\ candidate = [apk |-> apk, rounds |-> <<>>]
  /\ complete = FALSE

Rebuild ==
  /\ apk < MaxApks /\ apk' = apk + 1
  /\ UNCHANGED <<rounds, disk, candidate, complete>>

\* A round records its number, the APK it ran on, the journey that failed, and its logs:
\* in a place of their own, or where an earlier round has put its.
Round(failed, log) ==
  /\ Len(rounds) < MaxRounds
  /\ rounds' = Append(rounds, [apk |-> apk, failed |-> failed, log |-> log])
  /\ disk' = [l \in DOMAIN disk \cup {log} |-> IF l = log THEN Len(rounds) + 1 ELSE disk[l]]
  /\ UNCHANGED <<apk, candidate, complete>>

Select(s) ==
  /\ candidate' = [apk |-> apk, rounds |-> s] /\ complete' = FALSE
  /\ UNCHANGED <<apk, rounds, disk>>

-----------------------------------------------------------------------------
Last == Len(candidate.rounds)
Final == {candidate.rounds[i] : i \in (Last - 2) .. Last}

\* A bug for InARow: the numbers only have to increase.
InARowIncreasing == \A i \in (Last - 1) .. Last : candidate.rounds[i] > candidate.rounds[i - 1]
InARow == \A i \in (Last - 1) .. Last : candidate.rounds[i] = candidate.rounds[i - 1] + 1

\* checked_file() on every log, and a log of its own for every round.
LogsMatch ==
  /\ \A n \in Final : disk[rounds[n].log] = n
  /\ \A m, n \in Final : m # n => rounds[m].log # rounds[n].log

Complete ==
  /\ candidate.apk = apk
  /\ Last >= 3 /\ InARow
  /\ \A n \in Final : rounds[n].apk = candidate.apk /\ rounds[n].failed = Passed
  /\ LogsMatch

Check == complete' = Complete /\ UNCHANGED <<apk, rounds, disk, candidate>>

\* Selected rounds are listed in the order of their numbers; only the last three matter.
Selections == {s \in [1 .. 3 -> 1 .. Len(rounds)] : s[1] < s[2] /\ s[2] < s[3]}

Next ==
  \/ Rebuild
  \/ \E f \in Journeys \cup {Passed}, l \in 1 .. Len(disk) + 1 : Round(f, l)
  \/ \E s \in Selections : Select(s)
  \/ Check

Spec == Init /\ [][Next]_vars

-----------------------------------------------------------------------------
TypeOK ==
  /\ apk \in 1 .. MaxApks
  /\ rounds \in Seq([apk : 1 .. MaxApks, failed : Journeys \cup {Passed}, log : 1 .. MaxRounds])
  /\ disk \in Seq(DOMAIN rounds)
  /\ candidate.apk \in 1 .. MaxApks /\ \A i \in DOMAIN candidate.rounds : candidate.rounds[i] \in DOMAIN rounds
  /\ complete \in BOOLEAN

\* What a step to the verdict relies on: three rounds that followed one another, all on the
\* APK that is on disk, without a failed journey in or between them, each with its logs.
InARowOnDisk ==
  \E n \in 3 .. Len(rounds) : \A i \in n - 2 .. n :
    /\ rounds[i].failed = Passed /\ rounds[i].apk = apk
    /\ disk[rounds[i].log] = i

\* Evidence is called complete for nothing else (check-release.py, lines 57-85: "not three
\* selected successes with failures silently omitted between them").
ThreeRoundsInARow == [][~complete /\ complete' => InARowOnDisk]_vars
=============================================================================
