----------------------------- MODULE GuestClient -----------------------------
(***************************************************************************)
(* tinyagent-packages.py and tinyagent-android.py: the commands in Fedora  *)
(* that submit a job to the bridge under an identifier of their own, print *)
(* it, and poll until the job has ended. The bridge may refuse, or be lost *)
(* before it has read a request or after it has acted on it; it is modelled*)
(* by what its two services promise a client: one job per identifier, and  *)
(* one status that follows the other.                                      *)
(***************************************************************************)
EXTENDS Naturals

CONSTANTS Runs,         \* of a client
          Jobs,         \* identifiers
          MaxLost       \* bound on lost requests and answers

VARIABLES job,          \* the jobs of the bridge
          client,       \* every run of a client
          printed,      \* identifiers that its user can read
          lost

clientVars == <<job, client, printed, lost>>

Kinds == {"packages", "android"}
Operations == {"submit", "status", "cancel"}

Unborn == [kind |-> "packages", operation |-> "submit", id |-> 0, pc |-> "none",
           row |-> "absent", exit |-> 9]

Init ==
  /\ job = [j \in Jobs |-> "absent"]
  /\ client = [r \in Runs |-> Unborn]
  /\ printed = {} /\ lost = 0

Ended == {"completed", "failed", "cancelled"}

\* A bug for Transient: a request to cancel is taken for its success.
TransientRunning(kind) == {"queued", "running"}

\* The statuses a client waits behind.
Transient(kind) ==
  {"running", "cancel_requested"} \cup (IF kind = "android" THEN {"queued", "starting", "checking"} ELSE {})

-----------------------------------------------------------------------------
\* A new identifier, or one that somebody can read with --id.
Command(r) ==
  /\ client[r].pc = "none"
  /\ \E kind \in Kinds, operation \in Operations, id \in Jobs :
       /\ \/ id \in printed
          \/ operation = "submit" /\ \A s \in Runs : client[s].id # id
       /\ \A s \in Runs : client[s].id = id => client[s].kind = kind
       /\ client' = [client EXCEPT ![r] = [Unborn EXCEPT
            !.kind = kind, !.operation = operation, !.id = id, !.pc = "request"]]
  /\ UNCHANGED <<job, printed, lost>>

\* The package client prints it when it submits, the Android client always.
Shows(r) == client[r].operation = "submit" \/ client[r].kind = "android"

\* Status answers are rows; package status is a GET, Android status an inspect.
Answer(c, row, pc) == [c EXCEPT !.row = row, !.pc = pc]
Exit(c, code) == [c EXCEPT !.pc = "done", !.exit = code]

\* What the bridge makes of a request, and whether it refuses it.
Refuses(c) ==
  \/ c.operation # "submit" /\ job[c.id] = "absent"
  \/ c.operation = "submit" /\ job[c.id] = "absent" /\ c.kind = "packages"
     /\ \E j \in Jobs : job[j] \in Transient("packages")

Effect(c) ==
  CASE c.operation = "submit" /\ job[c.id] = "absent" -> IF c.kind = "android" THEN "queued" ELSE "running"
    [] c.operation = "cancel" /\ job[c.id] \notin Ended -> "cancel_requested"
    [] OTHER -> job[c.id]

Lose == lost < MaxLost /\ lost' = lost + 1

\* A single request, never repeated. Exit 2 says that the outcome is unknown.
Request(r) ==
  LET c == client[r] IN
  /\ client[r].pc = "request"
  /\ printed' = IF Shows(r) THEN printed \cup {c.id} ELSE printed
  /\ \/ /\ Refuses(c)
        /\ client' = [client EXCEPT ![r] = Exit(c, 2)] /\ UNCHANGED <<job, lost>>
     \/ /\ ~Refuses(c)
        /\ job' = [job EXCEPT ![c.id] = Effect(c)]
        /\ \/ client' = [client EXCEPT ![r] = Answer(c, Effect(c), "answered")] /\ UNCHANGED lost
           \/ client' = [client EXCEPT ![r] = Exit(c, 2)] /\ Lose
     \/ Lose /\ client' = [client EXCEPT ![r] = Exit(c, 2)] /\ UNCHANGED job

\* Package status and cancel print the row they got.
Polls(c) == c.row \in Transient(c.kind) /\ (c.kind = "android" \/ c.operation = "submit")

Poll(r) ==
  LET c == client[r] IN
  /\ c.pc = "answered" /\ Polls(c)
  /\ \/ client' = [client EXCEPT ![r] = Answer(c, job[c.id], "answered")] /\ UNCHANGED lost
     \/ Lose /\ client' = [client EXCEPT ![r] = Exit(c, 2)]
  /\ UNCHANGED <<job, printed>>

Return(r) ==
  LET c == client[r] IN
  /\ c.pc = "answered" /\ ~Polls(c)
  /\ client' = [client EXCEPT ![r] = Exit(c, IF c.row = "completed" THEN 0 ELSE 1)]
  /\ UNCHANGED <<job, printed, lost>>

\* Interrupting a client does not cancel its job.
Interrupt(r) ==
  /\ client[r].pc \in {"request", "answered"} /\ Lose
  /\ client' = [client EXCEPT ![r] = Exit(@, 3)]
  /\ UNCHANGED <<job, printed>>

\* The services take a job through its statuses.
Follow(status) ==
  CASE status = "queued" -> {"starting"}
    [] status = "starting" -> {"checking", "failed"}
    [] status = "checking" -> {"running", "failed"}
    [] status = "running" -> {"completed", "failed"}
    [] status = "cancel_requested" -> {"cancelled"}
    [] OTHER -> {}

Work(j) ==
  /\ \E status \in Follow(job[j]) : job' = [job EXCEPT ![j] = status]
  /\ UNCHANGED <<client, printed, lost>>

ClientNext ==
  \/ \E r \in Runs : Command(r) \/ Request(r) \/ Poll(r) \/ Return(r) \/ Interrupt(r)
  \/ \E j \in Jobs : Work(j)

ClientSpec == Init /\ [][ClientNext]_clientVars

-----------------------------------------------------------------------------
TypeOK ==
  /\ job \in [Jobs -> {"absent"} \cup Transient("android") \cup Ended]
  /\ client \in [Runs ->
       [kind : Kinds, operation : Operations, id : Jobs \cup {0},
        pc : {"none", "request", "answered", "done"},
        row : {"absent"} \cup Transient("android") \cup Ended, exit : {0, 1, 2, 3, 9}]]
  /\ printed \subseteq Jobs /\ lost \in 0 .. MaxLost

\* The exit code of a client tells its caller the truth, and what it cannot tell can be
\* asked for: 0 means that the job is completed; 1 from a submission that it has ended
\* otherwise; and every job that exists has an identifier somebody could read, so that
\* after 2 nobody need submit it again (tinyagent-packages.py, 45-62; check-package-client.py).
ClientIsTrue ==
  /\ \A r \in Runs :
       /\ client[r].exit = 0 => job[client[r].id] = "completed"
       /\ client[r].exit = 1 /\ client[r].operation = "submit" => job[client[r].id] \in {"failed", "cancelled"}
       /\ client[r].exit = 2 /\ client[r].operation = "submit" => client[r].id \in printed
  /\ \A j \in Jobs : job[j] # "absent" => j \in printed
=============================================================================
