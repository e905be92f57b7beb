--------------------------- MODULE MCService_proofs ---------------------------
(***************************************************************************)
(* What holds of the guest clients for any number of them and of jobs; of  *)
(* the service, whoever drives it; and of the scripts that check it.       *)
(***************************************************************************)
EXTENDS MCService, RuntimeService_proofs

InPackages == {"absent"} \cup Guest!Transient("packages") \cup Guest!Ended

\* What a client knows when it has come as far as it is. The answer it holds is no older
\* than a final status of its job.
GuestAt(r) ==
  LET c == client[r] IN
  /\ c.pc # "done" => c.exit = 9
  /\ c.pc # "none" => c.id \in Identifiers
  /\ c.pc # "none" /\ c.kind = "packages" => job[c.id] \in InPackages
  /\ c.pc = "answered" =>
       /\ c.row # "absent" /\ job[c.id] # "absent"
       /\ c.row \in Guest!Ended => job[c.id] = c.row
       /\ c.kind = "packages" => c.row \in InPackages
       /\ c.operation = "submit" => c.id \in printed

\* An identifier belongs to one kind of job, and every job to a client that asked for it.
GuestInv ==
  /\ Guest!TypeOK
  /\ \A r \in Clients : GuestAt(r)
  /\ \A r, s \in Clients :
       client[r].pc # "none" /\ client[s].pc # "none" /\ client[r].id = client[s].id
         => client[r].kind = client[s].kind
  /\ \A j \in Identifiers :
       job[j] # "absent" => \E r \in Clients : client[r].pc # "none" /\ client[r].id = j
  /\ Guest!ClientIsTrue

-----------------------------------------------------------------------------
USE DEF InPackages, Guest!Transient, Guest!Ended

ClientType ==
  [kind : Guest!Kinds, operation : Guest!Operations, id : Identifiers \cup {0},
   pc : {"none", "request", "answered", "done"},
   row : {"absent"} \cup Guest!Transient("android") \cup Guest!Ended, exit : {0, 1, 2, 3, 9}]

LEMMA GuestInit == Guest!Init => GuestInv
  BY GuestAssumption
  DEF Guest!Init, Guest!Unborn, Guest!Kinds, Guest!Operations, GuestInv, GuestAt, Guest!TypeOK,
      Guest!ClientIsTrue

LEMMA AnswerFacts ==
  ASSUME NEW c \in ClientType,
         NEW row \in {"absent"} \cup Guest!Transient("android") \cup Guest!Ended
  PROVE  LET d == Guest!Answer(c, row, "answered")
         IN  /\ d \in ClientType
             /\ d.kind = c.kind /\ d.operation = c.operation /\ d.id = c.id /\ d.exit = c.exit
             /\ d.pc = "answered" /\ d.row = row
  BY DEF Guest!Answer, ClientType, Guest!Kinds, Guest!Operations

LEMMA ExitFacts ==
  ASSUME NEW c \in ClientType, NEW code \in {0, 1, 2, 3}
  PROVE  LET d == Guest!Exit(c, code)
         IN  /\ d \in ClientType
             /\ d.kind = c.kind /\ d.operation = c.operation /\ d.id = c.id /\ d.row = c.row
             /\ d.pc = "done" /\ d.exit = code
  BY DEF Guest!Exit, ClientType, Guest!Kinds, Guest!Operations

\* What the jobs do at any step: a final status stays, no job disappears, and each has an
\* identifier that somebody can read and a client that asked for it.
JobsMove ==
  /\ job' \in [Identifiers -> {"absent"} \cup Guest!Transient("android") \cup Guest!Ended]
  /\ \A j \in Identifiers :
       /\ job[j] \in Guest!Ended => job'[j] = job[j]
       /\ job[j] # "absent" => job'[j] # "absent"
       /\ job'[j] # "absent" =>
            j \in printed' /\ \E s \in Clients : client[s].pc # "none" /\ client[s].id = j
  /\ \A s \in Clients :
       client[s].pc # "none" /\ client[s].kind = "packages" => job'[client[s].id] \in InPackages
  /\ printed \subseteq printed' /\ printed' \subseteq Identifiers
  /\ lost' \in 0 .. MaxLost

LEMMA JobsKept ==
  ASSUME GuestInv, job' = job, printed \subseteq printed', printed' \subseteq Identifiers,
         lost' \in 0 .. MaxLost
  PROVE  JobsMove
  BY DEF JobsMove, GuestInv, GuestAt, Guest!TypeOK, Guest!ClientIsTrue

LEMMA GuestAtKept ==
  ASSUME GuestInv, JobsMove, NEW s \in Clients, client'[s] = client[s]
  PROVE  GuestAt(s)'
<1>1. GuestAt(s)
      BY DEF GuestInv
<1>2. client[s].pc # "none" => client[s].id \in Identifiers
      BY <1>1 DEF GuestAt
<1>.  QED
      BY <1>1, <1>2 DEF GuestAt, JobsMove

LEMMA TruthKept ==
  ASSUME GuestInv, JobsMove, NEW s \in Clients, client'[s] = client[s]
  PROVE  /\ client'[s].exit = 0 => job'[client'[s].id] = "completed"
         /\ client'[s].exit = 1 /\ client'[s].operation = "submit" =>
              job'[client'[s].id] \in {"failed", "cancelled"}
         /\ client'[s].exit = 2 /\ client'[s].operation = "submit" => client'[s].id \in printed'
<1>1. GuestAt(s)
      BY DEF GuestInv
<1>2. client[s].exit # 9 => client[s].id \in Identifiers
      BY <1>1 DEF GuestAt
<1>3. /\ client[s].exit = 0 => job[client[s].id] = "completed"
      /\ client[s].exit = 1 /\ client[s].operation = "submit" =>
           job[client[s].id] \in {"failed", "cancelled"}
      /\ client[s].exit = 2 /\ client[s].operation = "submit" => client[s].id \in printed
      BY DEF GuestInv, Guest!ClientIsTrue
<1>.  QED
      BY <1>2, <1>3 DEF JobsMove

\* One client has become d, and the jobs have moved with it.
LEMMA ClientMoves ==
  ASSUME GuestInv, JobsMove, NEW r \in Clients, NEW d \in ClientType,
         client' = [client EXCEPT ![r] = d],
         GuestAt(r)',
         client[r].pc # "none" => d.kind = client[r].kind /\ d.id = client[r].id,
         client[r].pc = "none" =>
           \A s \in Clients : client[s].id = d.id => client[s].kind = d.kind,
         d.pc # "none",
         d.exit = 0 => job'[d.id] = "completed",
         d.exit = 1 /\ d.operation = "submit" => job'[d.id] \in {"failed", "cancelled"},
         d.exit = 2 /\ d.operation = "submit" => d.id \in printed'
  PROVE  GuestInv'
<1>1. client'[r] = d /\ \A s \in Clients \ {r} : client'[s] = client[s]
      BY DEF GuestInv, Guest!TypeOK
<1>2. Guest!TypeOK'
      BY DEF GuestInv, Guest!TypeOK, ClientType, JobsMove
<1>3. ASSUME NEW s \in Clients PROVE GuestAt(s)'
      BY <1>1, GuestAtKept
<1>4. ASSUME NEW s \in Clients, NEW t \in Clients,
             client'[s].pc # "none", client'[t].pc # "none", client'[s].id = client'[t].id
      PROVE  client'[s].kind = client'[t].kind
      BY <1>1, <1>4 DEF GuestInv
<1>5. ASSUME NEW j \in Identifiers, job'[j] # "absent"
      PROVE  \E s \in Clients : client'[s].pc # "none" /\ client'[s].id = j
  <2>1. PICK s \in Clients : client[s].pc # "none" /\ client[s].id = j
        BY <1>5 DEF JobsMove
  <2>.  QED
        BY <1>1, <2>1
<1>6. Guest!ClientIsTrue'
  <2>1. ASSUME NEW s \in Clients
        PROVE  /\ client'[s].exit = 0 => job'[client'[s].id] = "completed"
               /\ client'[s].exit = 1 /\ client'[s].operation = "submit" =>
                    job'[client'[s].id] \in {"failed", "cancelled"}
               /\ client'[s].exit = 2 /\ client'[s].operation = "submit" => client'[s].id \in printed'
        BY <1>1, TruthKept
  <2>2. \A j \in Identifiers : job'[j] # "absent" => j \in printed'
        BY DEF JobsMove
  <2>.  QED
        BY <2>1, <2>2 DEF Guest!ClientIsTrue
<1>.  QED
      BY <1>2, <1>3, <1>4, <1>5, <1>6 DEF GuestInv

\* One client has become d, for the jobs that there are.
LEMMA OneClient ==
  ASSUME GuestInv, NEW r \in Clients, NEW d \in ClientType,
         client' = [client EXCEPT ![r] = d],
         UNCHANGED job, printed \subseteq printed', printed' \subseteq Identifiers,
         lost' \in 0 .. MaxLost,
         GuestAt(r)',
         client[r].pc # "none" => d.kind = client[r].kind /\ d.id = client[r].id,
         client[r].pc = "none" =>
           \A s \in Clients : client[s].id = d.id => client[s].kind = d.kind,
         d.pc # "none",
         d.exit = 0 => job[d.id] = "completed",
         d.exit = 1 /\ d.operation = "submit" => job[d.id] \in {"failed", "cancelled"},
         d.exit = 2 /\ d.operation = "submit" => d.id \in printed'
  PROVE  GuestInv'
<1>1. job' = job
      OBVIOUS
<1>2. JobsMove
      BY <1>1, JobsKept
<1>.  QED
      BY <1>1, <1>2, ClientMoves

LEMMA ClientTypes ==
  ASSUME GuestInv, NEW r \in Clients
  PROVE  client[r] \in ClientType
  BY DEF GuestInv, Guest!TypeOK, ClientType

LEMMA CommandStep ==
  ASSUME GuestInv, NEW r \in Clients, Guest!Command(r)
  PROVE  GuestInv'
<1>1. PICK kind \in Guest!Kinds, operation \in Guest!Operations, id \in Identifiers :
        /\ \A s \in Clients : client[s].id = id => client[s].kind = kind
        /\ client' = [client EXCEPT ![r] = [Guest!Unborn EXCEPT
             !.kind = kind, !.operation = operation, !.id = id, !.pc = "request"]]
      BY DEF Guest!Command
<1>  DEFINE d == [Guest!Unborn EXCEPT !.kind = kind, !.operation = operation, !.id = id,
                                      !.pc = "request"]
<1>2. /\ d \in ClientType /\ client' = [client EXCEPT ![r] = d]
      /\ d.kind = kind /\ d.operation = operation /\ d.id = id /\ d.pc = "request" /\ d.exit = 9
      BY <1>1 DEF Guest!Unborn, ClientType, Guest!Kinds, Guest!Operations
<1>  HIDE DEF d
<1>3. client[r].pc = "none" /\ UNCHANGED <<job, printed, lost>>
      BY DEF Guest!Command
<1>4. client'[r] = d
      BY <1>2 DEF GuestInv, Guest!TypeOK
<1>5. kind = "packages" => job[id] \in InPackages
  <2>1. CASE job[id] = "absent"
        BY <2>1
  <2>2. CASE job[id] # "absent"
    <3>1. PICK s \in Clients : client[s].pc # "none" /\ client[s].id = id
          BY <2>2 DEF GuestInv
    <3>2. kind = client[s].kind
          BY <1>1, <3>1
    <3>.  QED
          BY <3>1, <3>2 DEF GuestInv, GuestAt
  <2>.  QED
        BY <2>1, <2>2
<1>6. GuestAt(r)'
      BY <1>2, <1>3, <1>4, <1>5 DEF GuestAt
<1>.  QED
  <2>1. printed \subseteq Identifiers /\ lost \in 0 .. MaxLost
        BY DEF GuestInv, Guest!TypeOK
  <2>2. d.exit # 0 /\ d.exit # 1 /\ d.exit # 2 /\ d.pc # "none"
        BY <1>2
  <2>3. \A s \in Clients : client[s].id = d.id => client[s].kind = d.kind
        BY <1>1, <1>2
  <2>4. job' = job /\ printed' = printed /\ lost' = lost
        BY <1>3
  <2>.  QED
        BY <1>2, <1>3, <1>6, <2>1, <2>2, <2>3, <2>4, OneClient

\* A request that goes wrong, an answer too many, or the end.
LEMMA ExitStep ==
  ASSUME GuestInv, NEW r \in Clients, NEW code \in {0, 1, 2, 3},
         client' = [client EXCEPT ![r] = Guest!Exit(client[r], code)],
         UNCHANGED job, printed \subseteq printed', printed' \subseteq Identifiers,
         lost' \in 0 .. MaxLost,
         client[r].pc # "none",
         code = 0 => job[client[r].id] = "completed",
         code = 1 /\ client[r].operation = "submit" => job[client[r].id] \in {"failed", "cancelled"},
         code = 2 /\ client[r].operation = "submit" => client[r].id \in printed'
  PROVE  GuestInv'
<1>1. PICK d \in ClientType :
        /\ client' = [client EXCEPT ![r] = d]
        /\ d.kind = client[r].kind /\ d.operation = client[r].operation /\ d.id = client[r].id
        /\ d.pc = "done" /\ d.exit = code
      BY ClientTypes, ExitFacts
<1>2. client'[r] = d
      BY <1>1 DEF GuestInv, Guest!TypeOK
<1>3. GuestAt(r)'
      BY <1>1, <1>2 DEF GuestInv, GuestAt
<1>.  QED
      BY <1>1, <1>3, OneClient

\* A client that cannot tell, or has been told not to wait.
LEMMA LostStep ==
  ASSUME GuestInv, NEW r \in Clients, NEW code \in {2, 3},
         client' = [client EXCEPT ![r] = Guest!Exit(client[r], code)],
         UNCHANGED job, printed \subseteq printed', printed' \subseteq Identifiers,
         lost' \in 0 .. MaxLost,
         client[r].pc # "none",
         client[r].operation = "submit" /\ code = 2 => client[r].id \in printed'
  PROVE  GuestInv'
<1>1. code \in {0, 1, 2, 3} /\ code # 0 /\ code # 1
      OBVIOUS
<1>.  QED
      BY <1>1, ExitStep

LEMMA PollStep ==
  ASSUME GuestInv, NEW r \in Clients, Guest!Poll(r)
  PROVE  GuestInv'
<1>1. /\ client[r].pc = "answered" /\ UNCHANGED <<job, printed>>
      /\ \/ /\ client' = [client EXCEPT ![r] = Guest!Answer(client[r], job[client[r].id], "answered")]
            /\ UNCHANGED lost
         \/ Guest!Lose /\ client' = [client EXCEPT ![r] = Guest!Exit(client[r], 2)]
      BY DEF Guest!Poll
<1>2. client[r].id \in Identifiers /\ GuestAt(r)
      BY <1>1 DEF GuestInv, GuestAt
<1>3. printed \subseteq Identifiers /\ lost \in 0 .. MaxLost
      BY DEF GuestInv, Guest!TypeOK
<1>4. CASE Guest!Lose /\ client' = [client EXCEPT ![r] = Guest!Exit(client[r], 2)]
  <2>1. lost' \in 0 .. MaxLost
        BY <1>3, <1>4, GuestAssumption DEF Guest!Lose
  <2>.  QED
        BY <1>1, <1>2, <1>3, <1>4, <2>1, LostStep DEF GuestAt
<1>5. CASE /\ client' = [client EXCEPT ![r] = Guest!Answer(client[r], job[client[r].id], "answered")]
           /\ UNCHANGED lost
  <2>1. job[client[r].id] \in {"absent"} \cup Guest!Transient("android") \cup Guest!Ended
        BY <1>2 DEF GuestInv, Guest!TypeOK
  <2>2. PICK d \in ClientType :
          /\ client' = [client EXCEPT ![r] = d]
          /\ d.kind = client[r].kind /\ d.operation = client[r].operation /\ d.id = client[r].id
          /\ d.pc = "answered" /\ d.exit = client[r].exit /\ d.row = job[client[r].id]
        BY <1>5, <2>1, ClientTypes, AnswerFacts
  <2>3. client'[r] = d
        BY <2>2 DEF GuestInv, Guest!TypeOK
  <2>4. GuestAt(r)'
        BY <1>1, <1>2, <2>2, <2>3 DEF GuestAt
  <2>5. d.exit = 9
        BY <1>1, <1>2, <2>2 DEF GuestAt
  <2>6. d.exit # 0 /\ d.exit # 1 /\ d.exit # 2 /\ d.pc # "none" /\ client[r].pc # "none"
        BY <1>1, <2>2, <2>5
  <2>7. job' = job /\ printed' = printed /\ lost' = lost
        BY <1>1, <1>5
  <2>.  QED
        BY <1>3, <2>2, <2>4, <2>6, <2>7, OneClient
<1>.  QED
      BY <1>1, <1>4, <1>5

LEMMA ReturnStep ==
  ASSUME GuestInv, NEW r \in Clients, Guest!Return(r)
  PROVE  GuestInv'
<1> DEFINE c == client[r]
           code == IF c.row = "completed" THEN 0 ELSE 1
<1>1. /\ c.pc = "answered" /\ ~Guest!Polls(c) /\ UNCHANGED <<job, printed, lost>>
      /\ client' = [client EXCEPT ![r] = Guest!Exit(c, code)]
      BY DEF Guest!Return
<1>2. GuestAt(r) /\ c \in ClientType
      BY ClientTypes DEF GuestInv
<1>3. c.row = "completed" => job[c.id] = "completed"
      BY <1>1, <1>2 DEF GuestAt
<1>4. c.operation = "submit" /\ c.row # "completed" => job[c.id] \in {"failed", "cancelled"}
      BY <1>1, <1>2 DEF GuestAt, Guest!Polls, ClientType, Guest!Kinds
<1>5. printed \subseteq Identifiers /\ lost \in 0 .. MaxLost
      BY DEF GuestInv, Guest!TypeOK
<1>6. /\ code \in {0, 1, 2, 3} /\ code # 2
      /\ code = 0 => c.row = "completed"
      /\ code = 1 => c.row # "completed"
      OBVIOUS
<1>.  HIDE DEF code
<1>.  QED
      BY <1>1, <1>3, <1>4, <1>5, <1>6, ExitStep

LEMMA InterruptStep ==
  ASSUME GuestInv, NEW r \in Clients, Guest!Interrupt(r)
  PROVE  GuestInv'
<1>1. /\ client[r].pc # "none" /\ UNCHANGED <<job, printed>>
      /\ client' = [client EXCEPT ![r] = Guest!Exit(client[r], 3)]
      BY DEF Guest!Interrupt
<1>2. printed \subseteq Identifiers /\ lost' \in 0 .. MaxLost
      BY GuestAssumption DEF Guest!Interrupt, Guest!Lose, GuestInv, Guest!TypeOK
<1>.  QED
  <2>1. 3 \in {2, 3} /\ 3 # 2 /\ job' = job /\ printed \subseteq printed'
        BY <1>1
  <2>.  QED
        BY <1>1, <1>2, <2>1, LostStep

\* What the bridge does with a request that it takes: the job's status follows or stays.
LEMMA EffectFacts ==
  ASSUME GuestInv, NEW r \in Clients, client[r].pc # "none", ~Guest!Refuses(client[r])
  PROVE  LET c == client[r]  e == Guest!Effect(c)
         IN  /\ e \in Guest!Transient("android") \cup Guest!Ended
             /\ job[c.id] \in Guest!Ended => e = job[c.id]
             /\ c.kind = "packages" => e \in InPackages
<1>1. /\ client[r] \in ClientType /\ client[r].id \in Identifiers
      /\ client[r].kind = "packages" => job[client[r].id] \in InPackages
      /\ job[client[r].id] \in {"absent"} \cup Guest!Transient("android") \cup Guest!Ended
      BY ClientTypes DEF GuestInv, GuestAt, Guest!TypeOK
<1>2. client[r].operation \in {"submit", "status", "cancel"} /\ client[r].kind \in {"packages", "android"}
      BY <1>1 DEF ClientType, Guest!Kinds, Guest!Operations
<1>.  QED
      BY <1>1, <1>2 DEF Guest!Effect, Guest!Refuses

LEMMA EffectMoves ==
  ASSUME GuestInv, NEW r \in Clients, client[r].pc # "none", ~Guest!Refuses(client[r]),
         job' = [job EXCEPT ![client[r].id] = Guest!Effect(client[r])],
         printed \subseteq printed', printed' \subseteq Identifiers, lost' \in 0 .. MaxLost,
         client[r].operation = "submit" => client[r].id \in printed'
  PROVE  JobsMove
<1> DEFINE e == Guest!Effect(client[r])
           id == client[r].id
<1>1. /\ e \in Guest!Transient("android") \cup Guest!Ended
      /\ job[id] \in Guest!Ended => e = job[id]
      /\ client[r].kind = "packages" => e \in InPackages
      BY EffectFacts
<1>2. id \in Identifiers /\ job \in [Identifiers -> {"absent"} \cup Guest!Transient("android") \cup Guest!Ended]
      BY DEF GuestInv, GuestAt, Guest!TypeOK
<1>3. job[id] = "absent" => client[r].operation = "submit"
      BY DEF Guest!Refuses
<1>4. job' = [job EXCEPT ![id] = e]
      OBVIOUS
<1>.  HIDE DEF e
<1>5. job'[id] = e /\ \A j \in Identifiers \ {id} : job'[j] = job[j]
      BY <1>2, <1>4
<1>6. job' \in [Identifiers -> {"absent"} \cup Guest!Transient("android") \cup Guest!Ended]
      BY <1>1, <1>2, <1>4
<1>7. id \in printed'
      BY <1>2, <1>3 DEF GuestInv, Guest!ClientIsTrue
<1>8. ASSUME NEW j \in Identifiers
      PROVE  /\ job[j] \in Guest!Ended => job'[j] = job[j]
             /\ job[j] # "absent" => job'[j] # "absent"
             /\ job'[j] # "absent" =>
                  j \in printed' /\ \E s \in Clients : client[s].pc # "none" /\ client[s].id = j
  <2>1. CASE j = id
        BY <1>1, <1>5, <1>7, <2>1
  <2>2. CASE j # id
        BY <1>5, <2>2 DEF GuestInv, Guest!ClientIsTrue
  <2>.  QED
        BY <2>1, <2>2
<1>9. ASSUME NEW s \in Clients, client[s].pc # "none", client[s].kind = "packages"
      PROVE  job'[client[s].id] \in InPackages
  <2>1. GuestAt(s) /\ client[s].id \in Identifiers /\ job[client[s].id] \in InPackages
        BY <1>9 DEF GuestInv, GuestAt
  <2>2. CASE client[s].id = id
    <3>1. client[r].kind = "packages"
          BY <1>9, <2>2 DEF GuestInv
    <3>.  QED
          BY <1>1, <1>5, <2>2, <3>1
  <2>3. CASE client[s].id # id
        BY <1>5, <2>1, <2>3
  <2>.  QED
        BY <2>2, <2>3
<1>.  QED
      BY <1>6, <1>8, <1>9 DEF JobsMove

LEMMA RequestStep ==
  ASSUME GuestInv, NEW r \in Clients, Guest!Request(r)
  PROVE  GuestInv'
<1> DEFINE c == client[r]
<1>1. /\ c.pc = "request"
      /\ printed' = IF Guest!Shows(r) THEN printed \cup {c.id} ELSE printed
      /\ \/ /\ client' = [client EXCEPT ![r] = Guest!Exit(c, 2)] /\ UNCHANGED job
            /\ UNCHANGED lost \/ Guest!Lose
         \/ /\ ~Guest!Refuses(c)
            /\ job' = [job EXCEPT ![c.id] = Guest!Effect(c)]
            /\ client' = [client EXCEPT ![r] = Guest!Answer(c, Guest!Effect(c), "answered")]
            /\ UNCHANGED lost
         \/ /\ ~Guest!Refuses(c)
            /\ job' = [job EXCEPT ![c.id] = Guest!Effect(c)]
            /\ client' = [client EXCEPT ![r] = Guest!Exit(c, 2)] /\ Guest!Lose
      BY DEF Guest!Request
<1>2. GuestAt(r) /\ c \in ClientType /\ c.id \in Identifiers /\ c.pc # "none" /\ c.exit = 9
      BY <1>1, ClientTypes DEF GuestInv, GuestAt
<1>3. /\ printed \subseteq printed' /\ printed' \subseteq Identifiers
      /\ c.operation = "submit" => c.id \in printed'
      BY <1>1, <1>2 DEF Guest!Shows, GuestInv, Guest!TypeOK
<1>4. UNCHANGED lost \/ Guest!Lose => lost' \in 0 .. MaxLost
      BY GuestAssumption DEF Guest!Lose, GuestInv, Guest!TypeOK
<1>5. CASE /\ client' = [client EXCEPT ![r] = Guest!Exit(c, 2)] /\ UNCHANGED job
           /\ UNCHANGED lost \/ Guest!Lose
  <2>1. 2 \in {2, 3} /\ job' = job
        BY <1>5
  <2>.  QED
        BY <1>2, <1>3, <1>4, <1>5, <2>1, LostStep
<1>6. CASE /\ ~Guest!Refuses(c)
           /\ job' = [job EXCEPT ![c.id] = Guest!Effect(c)]
           /\ client' = [client EXCEPT ![r] = Guest!Answer(c, Guest!Effect(c), "answered")]
           /\ UNCHANGED lost
  <2>1. JobsMove
        BY <1>2, <1>3, <1>4, <1>6, EffectMoves
  <2>2. /\ Guest!Effect(c) \in Guest!Transient("android") \cup Guest!Ended
        /\ c.kind = "packages" => Guest!Effect(c) \in InPackages
        BY <1>2, <1>6, EffectFacts
  <2>3. PICK d \in ClientType :
          /\ client' = [client EXCEPT ![r] = d]
          /\ d.kind = c.kind /\ d.operation = c.operation /\ d.id = c.id /\ d.exit = c.exit
          /\ d.pc = "answered" /\ d.row = Guest!Effect(c)
        BY <1>2, <1>6, <2>2, AnswerFacts
  <2>4. client'[r] = d /\ job'[c.id] = Guest!Effect(c)
        BY <1>2, <1>6, <2>3 DEF GuestInv, Guest!TypeOK
  <2>5. GuestAt(r)'
        BY <1>2, <1>3, <2>2, <2>3, <2>4 DEF GuestAt
  <2>6. d.exit # 0 /\ d.exit # 1 /\ d.exit # 2 /\ d.pc # "none"
        BY <1>2, <2>3
  <2>.  QED
        BY <1>2, <2>1, <2>3, <2>5, <2>6, ClientMoves
<1>7. CASE /\ ~Guest!Refuses(c)
           /\ job' = [job EXCEPT ![c.id] = Guest!Effect(c)]
           /\ client' = [client EXCEPT ![r] = Guest!Exit(c, 2)] /\ Guest!Lose
  <2>1. JobsMove
        BY <1>2, <1>3, <1>4, <1>7, EffectMoves
  <2>2. /\ Guest!Effect(c) \in Guest!Transient("android") \cup Guest!Ended
        /\ c.kind = "packages" => Guest!Effect(c) \in InPackages
        BY <1>2, <1>7, EffectFacts
  <2>3. PICK d \in ClientType :
          /\ client' = [client EXCEPT ![r] = d]
          /\ d.kind = c.kind /\ d.operation = c.operation /\ d.id = c.id
          /\ d.pc = "done" /\ d.exit = 2
        BY <1>2, <1>7, ExitFacts
  <2>4. client'[r] = d /\ job'[c.id] = Guest!Effect(c)
        BY <1>2, <1>7, <2>3 DEF GuestInv, Guest!TypeOK
  <2>5. GuestAt(r)'
        BY <1>2, <2>2, <2>3, <2>4 DEF GuestAt
  <2>6. d.exit # 0 /\ d.exit # 1 /\ d.pc # "none" /\ (d.operation = "submit" => d.id \in printed')
        BY <1>3, <2>3
  <2>.  QED
        BY <1>2, <2>1, <2>3, <2>5, <2>6, ClientMoves
<1>.  QED
      BY <1>1, <1>5, <1>6, <1>7

\* The services take a job on: never from its end, and never back to nothing.
LEMMA WorkStep ==
  ASSUME GuestInv, NEW j \in Identifiers, Guest!Work(j)
  PROVE  GuestInv'
<1>1. PICK next \in Guest!Follow(job[j]) : job' = [job EXCEPT ![j] = next]
      BY DEF Guest!Work
<1>2. client' = client /\ printed' = printed /\ lost' = lost
      BY DEF Guest!Work
<1>3. job \in [Identifiers -> {"absent"} \cup Guest!Transient("android") \cup Guest!Ended]
      BY DEF GuestInv, Guest!TypeOK
<1>4. /\ job[j] \notin Guest!Ended /\ job[j] # "absent"
      /\ next \in Guest!Transient("android") \cup Guest!Ended
      /\ job[j] \in InPackages => next \in InPackages
      BY <1>1, <1>3 DEF Guest!Follow
<1>5. job'[j] = next /\ \A i \in Identifiers \ {j} : job'[i] = job[i]
      BY <1>1, <1>3
<1>6. JobsMove
  <2>1. job' \in [Identifiers -> {"absent"} \cup Guest!Transient("android") \cup Guest!Ended]
        BY <1>1, <1>3, <1>4
  <2>2. ASSUME NEW i \in Identifiers
        PROVE  /\ job[i] \in Guest!Ended => job'[i] = job[i]
               /\ job[i] # "absent" => job'[i] # "absent"
               /\ job'[i] # "absent" =>
                    i \in printed' /\ \E s \in Clients : client[s].pc # "none" /\ client[s].id = i
    <3>1. job'[i] # "absent" => job[i] # "absent"
          BY <1>4, <1>5
    <3>2. job[i] # "absent" =>
            i \in printed /\ \E s \in Clients : client[s].pc # "none" /\ client[s].id = i
          BY DEF GuestInv, Guest!ClientIsTrue
    <3>3. (job[i] \in Guest!Ended => job'[i] = job[i]) /\ (job[i] # "absent" => job'[i] # "absent")
          BY <1>4, <1>5
    <3>.  QED
          BY <1>2, <3>1, <3>2, <3>3
  <2>3. ASSUME NEW s \in Clients, client[s].pc # "none", client[s].kind = "packages"
        PROVE  job'[client[s].id] \in InPackages
    <3>1. client[s].id \in Identifiers /\ job[client[s].id] \in InPackages
          BY <2>3 DEF GuestInv, GuestAt
    <3>.  QED
          BY <1>4, <1>5, <3>1
  <2>4. printed \subseteq Identifiers /\ lost \in 0 .. MaxLost
        BY DEF GuestInv, Guest!TypeOK
  <2>.  QED
        BY <1>2, <2>1, <2>2, <2>3, <2>4 DEF JobsMove
<1>7. Guest!TypeOK'
      BY <1>2, <1>6 DEF JobsMove, GuestInv, Guest!TypeOK
<1>8. ASSUME NEW s \in Clients PROVE GuestAt(s)'
      BY <1>2, <1>6, GuestAtKept
<1>9. Guest!ClientIsTrue'
      BY <1>2, <1>6, TruthKept DEF Guest!ClientIsTrue, JobsMove
<1>.  QED
  <2>1. \A i \in Identifiers :
          job'[i] # "absent" => \E s \in Clients : client[s].pc # "none" /\ client[s].id = i
        BY <1>6 DEF JobsMove
  <2>.  QED
        BY <1>2, <1>7, <1>8, <1>9, <2>1 DEF GuestInv

LEMMA GuestStep ==
  ASSUME GuestInv, Guest!ClientNext
  PROVE  GuestInv'
  BY CommandStep, RequestStep, PollStep, ReturnStep, InterruptStep, WorkStep DEF Guest!ClientNext

-----------------------------------------------------------------------------
(* The service below a user, a session, or a check script.                 *)

DrillType == [name : DOMAIN Drill, round : 1 .. Rounds, at : Nat, failed : BOOLEAN]

DrillInv == drill \in DrillType /\ drill.at \in 1 .. Len(Script(drill)) + 1

LEMMA SameScript ==
  ASSUME NEW d, NEW e, d.name = e.name, d.round = e.round
  PROVE  Script(d) = Script(e)
  BY DEF Script

Isolated == {"candidate", "crash"}
ServiceOps == {"force", "open", "start", "ready", "one", "stop", "stopped", "empty", "session",
               "call", "exited", "recovered", "abort", "answer", "childless"}
IsolatedOps == {"serve", "healthy", "call", "kill", "orphan", "abort", "answer", "childless",
                "settled", "term", "exited"}

\* A script is a sequence over the operations that its rounds have.
LEMMA ScriptOver ==
  ASSUME NEW S, NEW d, Drill[d.name].first \in Seq(S), Drill[d.name].round \in Seq(S),
         Drill[d.name].last \in Seq(S)
  PROVE  Script(d) \in Seq(S)
<1>  DEFINE before == IF d.round = 1 THEN Drill[d.name].first ELSE << >>
            after == IF d.round = Rounds THEN Drill[d.name].last ELSE << >>
<1>1. before \in Seq(S) /\ after \in Seq(S)
      OBVIOUS
<1>2. Script(d) = before \o Drill[d.name].round \o after
      BY DEF Script
<1>.  HIDE DEF before, after
<1>.  QED
      BY <1>1, <1>2

\* The order of the operations that matters: an abort is waited for, a backend is served
\* when the one before it has been killed or has ended.
ScriptAt(d) ==
  LET s == Script(d) IN
  /\ Len(s) \in Nat
  /\ \A k \in 1 .. Len(s) :
       /\ d.name \notin Isolated => s[k] \in ServiceOps
       /\ d.name \in Isolated => s[k] \in IsolatedOps
       /\ s[k] = "abort" => k < Len(s) /\ s[k + 1] = "answer"
       /\ k < Len(s) /\ s[k + 1] = "serve" => s[k] = "kill"
  /\ d.name \in Isolated => s[Len(s)] = "exited"

LEMMA QuietScripts ==
  ASSUME NEW d, d.name \in {"stock", "native"}
  PROVE  ScriptAt(d)
<1>1. /\ StockRestart.first \in Seq(ServiceOps \ {"abort"})
      /\ StockRestart.round \in Seq(ServiceOps \ {"abort"})
      /\ StockRestart.last \in Seq(ServiceOps \ {"abort"})
      BY DEF StockRestart, Cycle, ServiceOps
<1>2. /\ NativeStop.first \in Seq(ServiceOps \ {"abort"})
      /\ NativeStop.round \in Seq(ServiceOps \ {"abort"})
      /\ NativeStop.last \in Seq(ServiceOps \ {"abort"})
      BY DEF NativeStop, Cycle, ServiceOps
<1>3. Drill["stock"] = StockRestart /\ Drill["native"] = NativeStop
      BY DEF Drill
<1>4. Script(d) \in Seq(ServiceOps \ {"abort"})
      BY <1>1, <1>2, <1>3, ScriptOver
<1>5. Len(Script(d)) \in Nat /\ \A k \in 1 .. Len(Script(d)) : Script(d)[k] \in ServiceOps \ {"abort"}
      BY <1>4
<1>.  QED
      BY <1>5 DEF ScriptAt, Isolated, ServiceOps

LEMMA AbortScript ==
  ASSUME NEW d, d.name = "abort"
  PROVE  ScriptAt(d)
<1>  DEFINE first == << "start", "ready" >>
            round == << "session", "call", "abort", "answer", "childless" >>
            s == Script(d)
<1>1. first \in Seq(ServiceOps) /\ round \in Seq(ServiceOps)
      BY DEF ServiceOps
<1>2. Len(first) = 2 /\ Len(round) = 5
      OBVIOUS
<1>3. Drill[d.name] = Cycle(first, round, << >>)
      BY DEF JobAbort, Drill
<1>.  HIDE DEF first, round
<1>4. CASE d.round = 1
  <2>1. s = first \o round \o << >>
        BY <1>3, <1>4 DEF Script, Cycle
  <2>2. s = first \o round
        BY <1>1, <2>1
  <2>.  HIDE DEF s
  <2>3. /\ Len(s) = Len(first) + Len(round)
        /\ \A k \in 1 .. Len(first) + Len(round) :
             s[k] = IF k <= Len(first) THEN first[k] ELSE round[k - Len(first)]
        BY <1>1, <2>2
  <2>4. /\ Len(s) = 7
        /\ s[1] = "start" /\ s[2] = "ready" /\ s[3] = "session" /\ s[4] = "call" /\ s[5] = "abort"
        /\ s[6] = "answer" /\ s[7] = "childless"
        BY <1>2, <2>3 DEF first, round
  <2>.  QED
        BY <2>4 DEF ScriptAt, Isolated, ServiceOps, s
<1>5. CASE d.round # 1
  <2>1. s = << >> \o round \o << >>
        BY <1>3, <1>5 DEF Script, Cycle
  <2>2. s = round
        BY <1>1, <2>1
  <2>.  HIDE DEF s
  <2>3. /\ Len(s) = 5 /\ s[1] = "session" /\ s[2] = "call" /\ s[3] = "abort" /\ s[4] = "answer"
        /\ s[5] = "childless"
        BY <1>2, <2>2 DEF round
  <2>.  QED
        BY <2>3 DEF ScriptAt, Isolated, ServiceOps, s
<1>.  QED
      BY <1>4, <1>5

LEMMA CandidateScript ==
  ASSUME NEW d, d.name = "candidate"
  PROVE  ScriptAt(d)
<1>  DEFINE round == << "serve", "healthy", "call", "abort", "answer", "childless", "settled",
                         "term", "exited" >>
            s == Script(d)
<1>1. round \in Seq(IsolatedOps) /\ Len(round) = 9
      BY DEF IsolatedOps
<1>2. Drill[d.name] = Cycle(<< >>, round, << >>)
      BY DEF Candidate, Drill
<1>.  HIDE DEF round
<1>3. s = << >> \o round \o << >>
      BY <1>2 DEF Script, Cycle
<1>4. s = round
      BY <1>1, <1>3
<1>.  HIDE DEF s
<1>5. /\ Len(s) = 9
      /\ s[1] = "serve" /\ s[2] = "healthy" /\ s[3] = "call" /\ s[4] = "abort"
      /\ s[5] = "answer" /\ s[6] = "childless" /\ s[7] = "settled" /\ s[8] = "term"
      /\ s[9] = "exited"
      BY <1>1, <1>4 DEF round
<1>.  QED
      BY <1>5 DEF ScriptAt, Isolated, IsolatedOps, s

LEMMA CrashScript ==
  ASSUME NEW d, d.name = "crash"
  PROVE  ScriptAt(d)
<1>  DEFINE round == << "serve", "healthy", "call", "kill", "serve", "healthy", "orphan",
                         "abort", "answer", "childless", "settled", "term", "exited" >>
            s == Script(d)
<1>1. round \in Seq(IsolatedOps) /\ Len(round) = 13
      BY DEF IsolatedOps
<1>2. Drill[d.name] = Cycle(<< >>, round, << >>)
      BY DEF CandidateCrash, Drill
<1>.  HIDE DEF round
<1>3. s = << >> \o round \o << >>
      BY <1>2 DEF Script, Cycle
<1>4. s = round
      BY <1>1, <1>3
<1>.  HIDE DEF s
<1>5. /\ Len(s) = 13
      /\ s[1] = "serve" /\ s[2] = "healthy" /\ s[3] = "call" /\ s[4] = "kill" /\ s[5] = "serve"
      /\ s[6] = "healthy" /\ s[7] = "orphan" /\ s[8] = "abort" /\ s[9] = "answer"
      /\ s[10] = "childless" /\ s[11] = "settled" /\ s[12] = "term" /\ s[13] = "exited"
      BY <1>1, <1>4 DEF round
<1>.  QED
      BY <1>5 DEF ScriptAt, Isolated, IsolatedOps, s

LEMMA ScriptFacts ==
  ASSUME NEW d \in DrillType
  PROVE  ScriptAt(d)
<1>1. d.name \in {"stock", "native", "abort", "candidate", "crash"}
      BY DEF DrillType, Drill
<1>.  QED
      BY <1>1, QuietScripts, AbortScript, CandidateScript, CrashScript

LEMMA DrillStart == drill \in [name : DOMAIN Drill, round : {1}, at : {1}, failed : {FALSE}] => DrillInv
<1>.  SUFFICES ASSUME drill \in [name : DOMAIN Drill, round : {1}, at : {1}, failed : {FALSE}]
               PROVE  DrillInv
      OBVIOUS
<1>1. 1 \in 1 .. Rounds /\ 1 \in Nat
      BY DrillAssumption
<1>2. /\ drill.name \in DOMAIN Drill /\ drill.round = 1 /\ drill.at = 1 /\ drill.failed = FALSE
      /\ drill = [name |-> drill.name, round |-> drill.round, at |-> drill.at, failed |-> drill.failed]
      OBVIOUS
<1>3. drill \in DrillType
      BY <1>1, <1>2, Zenon DEF DrillType
<1>.  QED
      BY <1>2, <1>3, ScriptFacts DEF ScriptAt, DrillInv

\* Every operation of a script moves it on, or ends it.
LEMMA DrillMoves ==
  ASSUME DrillInv, Fails \/ (Advance /\ drill.at <= Len(Script(drill)))
  PROVE  DrillInv'
<1>1. drill \in DrillType /\ Len(Script(drill)) \in Nat /\ drill.at \in Nat /\ drill.round \in 1 .. Rounds
      BY ScriptFacts DEF ScriptAt, DrillInv, DrillType
<1>2. CASE Fails
  <2>  DEFINE d == [drill EXCEPT !.failed = TRUE]
  <2>1. d \in DrillType /\ d.name = drill.name /\ d.round = drill.round /\ d.at = drill.at
        BY <1>1 DEF DrillType
  <2>2. drill' = d
        BY <1>2 DEF Fails
  <2>.  HIDE DEF d
  <2>3. Script(d) = Script(drill)
        BY <2>1, SameScript
  <2>.  QED
        BY <2>1, <2>2, <2>3 DEF DrillInv
<1>3. CASE Advance /\ drill.at = Len(Script(drill)) /\ drill.round < Rounds
  <2>  DEFINE d == [drill EXCEPT !.round = drill.round + 1, !.at = 1]
  <2>1. drill.round + 1 \in 1 .. Rounds
        BY <1>1, <1>3, DrillAssumption
  <2>2. d \in DrillType /\ d.at = 1
        BY <1>1, <2>1 DEF DrillType
  <2>3. drill' = d
        BY <1>3 DEF Advance
  <2>.  HIDE DEF d
  <2>4. Len(Script(d)) \in Nat
        BY <2>2, ScriptFacts DEF ScriptAt
  <2>.  QED
        BY <2>2, <2>3, <2>4 DEF DrillInv
<1>4. CASE /\ Advance /\ drill.at <= Len(Script(drill))
           /\ ~(drill.at = Len(Script(drill)) /\ drill.round < Rounds)
  <2>  DEFINE d == [drill EXCEPT !.at = drill.at + 1]
  <2>1. /\ d \in DrillType /\ d.name = drill.name /\ d.round = drill.round
        /\ d.at = drill.at + 1
        BY <1>1 DEF DrillType
  <2>2. drill' = d
        BY <1>4 DEF Advance
  <2>.  HIDE DEF d
  <2>3. Script(d) = Script(drill)
        BY <2>1, SameScript
  <2>4. drill.at + 1 \in 1 .. Len(Script(drill)) + 1
        BY <1>1, <1>4
  <2>.  QED
        BY <2>1, <2>2, <2>3, <2>4 DEF DrillInv
<1>.  QED
      BY <1>2, <1>3, <1>4

\* Where no script drives it, every step is a step of the service.
LEMMA FreeSteps ==
  ASSUME TypeOK, Tapped \/ InSession
  PROVE  [Next]_serviceVars
<1>1. CASE Tapped
      BY <1>1 DEF Tapped, Next, System
<1>2. ASSUME NEW t \in {1, 2}, CallBegins(t) \/ CallEnds(t)
      PROVE  [Next]_serviceVars
  <2>1. CASE t \in Tools
        BY <1>2, <2>1 DEF Next, System, Session
  <2>2. CASE t \notin Tools
    <3>1. tool' = tool
          BY <1>2, <2>2 DEF CallBegins, CallEnds, TypeOK
    <3>.  QED
          BY <1>2, <3>1 DEF CallBegins, CallEnds, Untouched, Prefs, serviceVars
  <2>.  QED
        BY <2>1, <2>2
<1>3. CASE InSession
      BY <1>2, <1>3 DEF InSession, Next, System, Session, Abort
<1>.  QED
      BY <1>1, <1>3

\* A script's operations respect the types, also those that the service does not have.
LEMMA DrillTypes ==
  ASSUME TypeOK, InstanceInv, DrillStep
  PROVE  TypeOK' /\ InstanceInv'
<1>.  USE DEF Prefs, Calls, Untouched
<1>1. CASE DrillTaps
  <2>1. PICK i \in Instances : StartCommand(i) \/ StopCommand(i)
        BY <1>1 DEF DrillTaps
  <2>2. taps' \in 0 .. MaxTaps /\ faults' \in 0 .. MaxFaults
        BY <1>1 DEF DrillTaps, TypeOK
  <2>.  QED
        BY <2>1, <2>2, CommandTypes, CommandInstance
<1>2. CASE DrillForces
  <2>1. KillApp(TRUE) /\ faults' \in 0 .. MaxFaults /\ TRUE \in BOOLEAN
        BY <1>2 DEF DrillForces, TypeOK
  <2>2. TypeOK'
        BY <2>1, KillTypes
  <2>3. InstanceInv'
        BY <2>1 DEF KillApp, Idle, InstanceInv, InstanceAt
  <2>.  QED
        BY <2>2, <2>3
<1>3. CASE DrillOpens
  <2>1. Next
        BY <1>3 DEF DrillOpens, Next
  <2>.  QED
        BY <2>1, TypeStep, InstanceStep, NextMoves
<1>4. CASE UNCHANGED serviceVars
      BY <1>4, TypeStep, InstanceStep
<1>5. CASE DrillCalls
  <2>1. UNCHANGED <<app, bound, service>>
        BY <1>5 DEF DrillCalls, CallBegins, AbortReads
  <2>2. InstanceInv'
        BY <2>1 DEF InstanceInv, InstanceAt
  <2>3. CASE /\ tool' = [t \in Tools |-> NoCall]
             /\ UNCHANGED <<wanted, status, app, bound, main, service, taps, process, captured, abort, faults>>
    <3>1. NoCall \in CallType
          BY DEF NoCall, CallType
    <3>2. TypeOK'
          BY <2>3, <3>1 DEF TypeOK
    <3>.  QED
          BY <2>2, <3>2
  <2>4. CASE Session
        BY <2>2, <2>4, SessionTypes
  <2>.  QED
        BY <1>5, <2>3, <2>4 DEF DrillCalls, Session
<1>6. CASE DrillServes
  <2>  DEFINE r == [Gone EXCEPT !.st = "proot"]
  <2>1. r \in ProcessType
        BY GoneType DEF ProcessType
  <2>2. process' = [process EXCEPT ![NewProcess] = r]
        BY <1>6 DEF DrillServes
  <2>.  HIDE DEF r
  <2>3. process' \in [Processes -> ProcessType]
        BY <2>1, <2>2 DEF TypeOK
  <2>4. UNCHANGED <<wanted, status, app, bound, main, service, taps, tool, captured, abort, faults>>
        BY <1>6 DEF DrillServes
  <2>5. TypeOK'
        BY <2>3, <2>4 DEF TypeOK
  <2>6. InstanceInv'
        BY <2>4 DEF InstanceInv, InstanceAt
  <2>.  QED
        BY <2>5, <2>6
<1>7. CASE DrillKills
  <2>1. UNCHANGED <<wanted, status, app, bound, main, service, taps, faults>>
        BY <1>7 DEF DrillKills
  <2>2. InstanceInv'
        BY <2>1 DEF InstanceInv, InstanceAt
  <2>3. /\ process' \in [Processes -> ProcessType] /\ tool' \in [Tools -> CallType]
        /\ captured' \subseteq Tools /\ abort' \in {"none", "cancel", "mark"}
    <3>1. ASSUME NEW p \in Listening, Die(p)
          PROVE  /\ process' \in [Processes -> ProcessType] /\ tool' \in [Tools -> CallType]
                 /\ captured' \subseteq Tools /\ abort' \in {"none", "cancel", "mark"}
          BY <3>1, DieFacts DEF Listening, Live, ProcessMoves, TypeOK
    <3>2. CASE process' = Quit(Live) /\ UNCHANGED <<tool, captured, abort>>
          BY <3>2, QuitFacts DEF TypeOK
    <3>.  QED
          BY <1>7, <3>1, <3>2 DEF DrillKills
  <2>4. TypeOK'
        BY <2>1, <2>3 DEF TypeOK
  <2>.  QED
        BY <2>2, <2>4
<1>.  QED
      BY <1>1, <1>2, <1>3, <1>4, <1>5, <1>6, <1>7 DEF DrillStep, DrillWaits, DrillAsserts

\* What a script knows at its place: the isolated backend has no service beside it and is
\* started when no other one lives, and an abort is under way only while it is waited for.
Ahead(op) == drill.at <= Len(Script(drill)) /\ Script(drill)[drill.at] = op

PlaceInv ==
  /\ drill.name \in Isolated => bound = 0 /\ Clean
  /\ Ahead("serve") => Live = {}
  /\ abort # "none" => Ahead("answer")

LEMMA AheadFacts ==
  ASSUME DrillInv, NEW op, Ahead(op)
  PROVE  /\ drill.name \notin Isolated => op \in ServiceOps
         /\ drill.name \in Isolated => op \in IsolatedOps
<1>1. ScriptAt(drill) /\ drill.at \in 1 .. Len(Script(drill))
      BY ScriptFacts DEF DrillInv, ScriptAt, Ahead
<1>.  QED
      BY <1>1 DEF ScriptAt, Ahead

LEMMA Arrives ==
  ASSUME DrillInv, DrillInv', NEW op, Ahead(op), Advance
  PROVE  /\ drill'.name = drill.name
         /\ op = "abort" => Ahead("answer")'
         /\ Ahead("serve")' => op \in {"kill", "exited"}
<1>1. /\ ScriptAt(drill) /\ drill.at \in 1 .. Len(Script(drill))
      /\ ScriptAt(drill') /\ drill \in DrillType
      BY ScriptFacts DEF DrillInv, ScriptAt, Ahead
<1>2. CASE drill.at = Len(Script(drill)) /\ drill.round < Rounds
  <2>1. drill' = [drill EXCEPT !.round = drill.round + 1, !.at = 1]
        BY <1>2 DEF Advance
  <2>2. drill'.name = drill.name /\ drill'.at = 1
        BY <1>1, <2>1 DEF DrillType
  <2>3. op # "abort"
        BY <1>1, <1>2 DEF ScriptAt, Ahead
  <2>4. ASSUME Ahead("serve")' PROVE drill.name \in Isolated
        BY <1>1, <2>2, <2>4 DEF ScriptAt, Ahead, ServiceOps
  <2>5. drill.name \in Isolated => op = "exited"
        BY <1>1, <1>2 DEF ScriptAt, Ahead
  <2>.  QED
        BY <2>2, <2>3, <2>4, <2>5
<1>3. CASE ~(drill.at = Len(Script(drill)) /\ drill.round < Rounds)
  <2>1. drill' = [drill EXCEPT !.at = drill.at + 1]
        BY <1>3 DEF Advance
  <2>2. drill'.name = drill.name /\ drill'.round = drill.round /\ drill'.at = drill.at + 1
        BY <1>1, <2>1 DEF DrillType
  <2>3. Script(drill') = Script(drill)
        BY <2>2, SameScript
  <2>.  QED
        BY <1>1, <2>2, <2>3 DEF ScriptAt, Ahead
<1>.  QED
      BY <1>2, <1>3

LEMMA Halts ==
  ASSUME DrillInv, NEW op, Fails
  PROVE  drill'.name = drill.name /\ (Ahead(op)' <=> Ahead(op))
<1>1. drill'.name = drill.name /\ drill'.round = drill.round /\ drill'.at = drill.at
      BY DEF DrillInv, DrillType, Fails
<1>2. Script(drill') = Script(drill)
      BY <1>1, SameScript
<1>.  QED
      BY <1>1, <1>2 DEF Ahead

\* An operation that knows what it needs leaves what the next one needs.
LEMMA PlaceKept ==
  ASSUME DrillInv, DrillInv', PlaceInv, NEW op, Ahead(op),
         Advance \/ (Fails /\ op # "serve"),
         drill.name \in Isolated => bound' = 0 /\ Clean',
         op \in {"kill", "exited"} => Live' = {},
         abort' # "none" => op = "abort" /\ Advance
  PROVE  PlaceInv'
<1>1. CASE Advance
  <2>1. /\ drill'.name = drill.name
        /\ op = "abort" => Ahead("answer")'
        /\ Ahead("serve")' => op \in {"kill", "exited"}
        BY <1>1, Arrives
  <2>.  QED
        BY <2>1 DEF PlaceInv
<1>2. CASE Fails /\ op # "serve" /\ ~Advance
  <2>1. drill'.name = drill.name /\ (Ahead("serve")' <=> Ahead("serve"))
        BY <1>2, Halts
  <2>2. ~Ahead("serve")
        BY <1>2 DEF Ahead
  <2>.  QED
        BY <1>2, <2>1, <2>2 DEF PlaceInv
<1>.  QED
      BY <1>1, <1>2

\* What an operation finds.
LEMMA PlaceFacts ==
  ASSUME Invariant, DrillInv, PlaceInv, NEW op, Ahead(op)
  PROVE  /\ op # "answer" => abort = "none" /\ captured = {}
         /\ op = "serve" => Live = {}
         /\ op \in {"serve", "kill", "term"} => drill.name \in Isolated
         /\ op \in {"start", "stop", "force", "open", "session"} => drill.name \notin Isolated
<1>1. /\ drill.name \notin Isolated => op \in ServiceOps
      /\ drill.name \in Isolated => op \in IsolatedOps
      BY AheadFacts
<1>2. op # "answer" => abort = "none" /\ captured = {}
      BY DEF PlaceInv, Ahead, Invariant, CallInv
<1>.  QED
      BY <1>1, <1>2 DEF PlaceInv, ServiceOps, IsolatedOps

LEMMA MovesInvariant ==
  ASSUME Invariant, TypeOK', [Moves]_serviceVars
  PROVE  Invariant'
  BY InstanceStep, BackendStep, CallStep DEF Invariant

LEMMA TapsKeep ==
  ASSUME Invariant, TypeOK', DrillInv, DrillInv', PlaceInv,
         DrillTaps \/ DrillForces \/ DrillOpens
  PROVE  Invariant' /\ PlaceInv'
<1>1. PICK op \in {"start", "stop", "force", "open"} : Ahead(op) /\ Advance
      BY DEF DrillTaps, DrillForces, DrillOpens, Now, Ahead
<1>2. [Moves]_serviceVars
      BY DEF DrillTaps, DrillForces, DrillOpens, Moves
<1>3. Invariant'
      BY <1>2, MovesInvariant
<1>4. abort = "none" /\ drill.name \notin Isolated
      BY <1>1, PlaceFacts
<1>5. abort' = "none"
      BY <1>4 DEF DrillTaps, DrillForces, DrillOpens, StartCommand, StopCommand, KillApp, Reopen, Calls
<1>6. op \notin {"kill", "exited", "abort", "serve"}
      BY <1>1
<1>.  QED
      BY <1>1, <1>3, <1>4, <1>5, <1>6, PlaceKept

LEMMA LooksKeep ==
  ASSUME Invariant, TypeOK', DrillInv, DrillInv', PlaceInv, DrillWaits \/ DrillAsserts
  PROVE  Invariant' /\ PlaceInv'
<1>1. UNCHANGED serviceVars
      BY DEF DrillWaits, DrillAsserts
<1>2. Invariant'
      BY <1>1, MovesInvariant
<1>3. PICK op : /\ Ahead(op) /\ (Advance \/ Fails)
                /\ op \notin {"serve", "kill", "abort"}
                /\ op = "answer" => abort = "none"
                /\ op = "exited" => Live = {}
  <2>1. CASE DrillWaits
    <3>1. PICK op \in {"ready", "stopped", "exited", "healthy", "answer"} :
            /\ Now(op) /\ (Advance \/ Fails)
            /\ op = "answer" => abort = "none"
            /\ op = "exited" => Live = {}
          BY <2>1 DEF DrillWaits
    <3>.  QED
          BY <3>1 DEF Now, Ahead
  <2>2. CASE DrillAsserts
    <3>1. PICK a \in DOMAIN Asserted : Now(a) /\ (Advance \/ Fails)
          BY <2>2 DEF DrillAsserts
    <3>2. a \in {"one", "empty", "recovered", "childless", "orphan", "settled"}
          BY DEF Asserted
    <3>.  QED
          BY <3>1, <3>2 DEF Now, Ahead
  <2>.  QED
        BY <2>1, <2>2
<1>4. abort' = "none"
      BY <1>1, <1>3, PlaceFacts DEF serviceVars
<1>5. /\ drill.name \in Isolated => bound' = 0 /\ Clean'
      /\ op = "exited" => Live' = {}
      BY <1>1, <1>3 DEF serviceVars, PlaceInv, Clean, Live
<1>.  QED
      BY <1>2, <1>3, <1>4, <1>5, PlaceKept

LEMMA CallsKeep ==
  ASSUME Invariant, TypeOK', DrillInv, DrillInv', PlaceInv, DrillCalls
  PROVE  Invariant' /\ PlaceInv'
<1>1. PICK op \in {"session", "call", "abort"} :
        /\ Ahead(op) /\ Advance
        /\ \/ op = "session" /\ tool' = [t \in Tools |-> NoCall] /\ Untouched
              /\ UNCHANGED <<process, captured, abort, faults>>
           \/ op = "call" /\ \E t \in Tools : CallBegins(t)
           \/ op = "abort" /\ AbortReads
      BY DEF DrillCalls, Now, Ahead
<1>2. UNCHANGED <<app, bound, service, process>>
      BY <1>1 DEF CallBegins, AbortReads, Untouched
<1>3. abort = "none" /\ captured = {}
      BY <1>1, PlaceFacts
<1>4. Invariant'
  <2>1. CASE op # "session"
    <3>1. [Moves]_serviceVars
          BY <1>1, <2>1 DEF Moves, System, Session
    <3>.  QED
          BY <3>1, MovesInvariant
  <2>2. CASE op = "session"
    <3>1. tool' = [t \in Tools |-> NoCall] /\ captured' = {} /\ abort' = "none"
          BY <1>1, <1>3, <2>2
    <3>2. /\ UNCHANGED <<app, bound, service, process>>
          /\ TypeOK /\ InstanceInv /\ BackendInv /\ CallInv
          BY <1>2 DEF Invariant
    <3>3. InstanceInv'
          BY <3>2 DEF InstanceInv, InstanceAt
    <3>4. BackendInv'
          BY <3>2, SameFewer, Stays
    <3>5. CallInv'
          BY <3>1, <3>2 DEF CallInv, CallAt, TrueAt, NoCall, Listening, Live
    <3>.  QED
          BY <3>3, <3>4, <3>5 DEF Invariant
  <2>.  QED
        BY <2>1, <2>2
<1>5. abort' # "none" => op = "abort"
      BY <1>1, <1>3 DEF CallBegins
<1>6. drill.name \in Isolated => bound' = 0 /\ Clean'
      BY <1>2 DEF PlaceInv, Clean
<1>7. op \notin {"kill", "exited", "serve"}
      BY <1>1
<1>.  QED
      BY <1>1, <1>4, <1>5, <1>6, <1>7, PlaceKept

LEMMA ServesKeep ==
  ASSUME Invariant, TypeOK', DrillInv, DrillInv', PlaceInv, DrillServes
  PROVE  Invariant' /\ PlaceInv'
<1>1. Ahead("serve") /\ Advance
      BY DEF DrillServes, Now, Ahead
<1>2. Live = {} /\ abort = "none" /\ captured = {} /\ drill.name \in Isolated
      BY <1>1, PlaceFacts
<1>3. bound = 0 /\ Clean
      BY <1>2 DEF PlaceInv
<1>4. UNCHANGED <<app, bound, service, tool, captured, abort>>
      BY DEF DrillServes, Untouched, Calls
<1>5. /\ TypeOK /\ InstanceInv /\ BackendInv /\ CallInv
      BY DEF Invariant
<1>6. \A p \in Processes :
        \/ process'[p] = process[p]
        \/ p = NewProcess /\ process'[p] = [Gone EXCEPT !.st = "proot"]
      BY <1>5 DEF DrillServes, TypeOK
<1>7. /\ [Gone EXCEPT !.st = "proot"].st = "proot" /\ [Gone EXCEPT !.st = "proot"].by = 0
      /\ ~[Gone EXCEPT !.st = "proot"].recover
      /\ ~[Gone EXCEPT !.st = "proot"].late /\ ~[Gone EXCEPT !.st = "proot"].orphan
      BY DEF Gone
<1>8. /\ \A p \in Processes :
           process'[p].st = "gone" \/ (p = NewProcess /\ process'[p].st = "proot" /\ process'[p].by = 0)
      /\ Clean'
      BY <1>2, <1>3, <1>6, <1>7 DEF Live, Clean
<1>9. InstanceInv'
      BY <1>4, <1>5 DEF InstanceInv, InstanceAt
<1>10. BackendInv'
      BY <1>3, <1>4, <1>8 DEF BackendInv, Ours, Live, Owned, Unrecorded
<1>11. CallInv'
  <2>1. \A t \in Tools : tool[t].by = 0 /\ ~tool[t].child
        BY <1>2, <1>5 DEF CallInv, CallAt, Live, TypeOK, CallType
  <2>.  QED
        BY <1>2, <1>4, <1>8, <2>1 DEF CallInv, CallAt, TrueAt, Listening, Live
<1>12. Invariant'
      BY <1>9, <1>10, <1>11 DEF Invariant
<1>.  QED
      BY <1>1, <1>2, <1>3, <1>4, <1>8, <1>12, PlaceKept

LEMMA KillsKeep ==
  ASSUME Invariant, TypeOK', DrillInv, DrillInv', PlaceInv, DrillKills
  PROVE  Invariant' /\ PlaceInv'
<1>1. PICK op \in {"kill", "term"} :
        /\ Ahead(op) /\ Advance
        /\ \/ op = "kill" /\ \E p \in Listening : Die(p)
           \/ op = "term" /\ process' = Quit(Live) /\ UNCHANGED Calls
      BY DEF DrillKills, Now, Ahead
<1>2. UNCHANGED <<app, bound, service>> /\ bound' = bound
      BY DEF DrillKills, Untouched
<1>3. abort = "none" /\ drill.name \in Isolated
      BY <1>1, PlaceFacts
<1>4. bound = 0 /\ Clean
      BY <1>3 DEF PlaceInv
<1>5. /\ TypeOK /\ InstanceInv /\ BackendInv /\ CallInv
      BY DEF Invariant
<1>6. InstanceInv'
      BY <1>2, <1>5 DEF InstanceInv, InstanceAt
<1>7. CASE op = "kill"
  <2>1. PICK p \in Listening : Die(p)
        BY <1>1, <1>7
  <2>2. p \in Processes /\ p \in Live
        BY DEF Listening, Live
  <2>3. ProcessMoves(p, "gone")
        BY <1>5, <2>1, <2>2, DieFacts
  <2>4. Live' = {}
        BY <1>4, <1>5, <2>2, <2>3, OnlyOne DEF Live, ProcessMoves
  <2>5. Clean' /\ abort' = "none"
        BY <1>3, <1>4, <2>1, <2>3 DEF Clean, ProcessMoves, Die
  <2>6. BackendInv'
        BY <2>4 DEF BackendInv, Ours
  <2>7. CallInv'
        BY <1>5, <2>1, <2>2, CallsDie
  <2>8. Invariant'
        BY <1>6, <2>6, <2>7 DEF Invariant
  <2>.  QED
        BY <1>1, <1>2, <1>4, <1>7, <2>4, <2>5, <2>8, PlaceKept
<1>8. CASE op = "term"
  <2>1. process' = Quit(Live) /\ UNCHANGED <<tool, captured, abort>>
        BY <1>1, <1>8 DEF Calls
  <2>2. Clean'
        BY <1>4, <1>5, <2>1, QuitFacts DEF Clean
  <2>3. BackendInv'
        BY <1>2, <1>5, <2>1, QuitsFewer, Stays
  <2>4. CallInv'
        BY <1>5, <2>1, QuitFacts, CallsStay
  <2>5. Invariant'
        BY <1>6, <2>3, <2>4 DEF Invariant
  <2>.  QED
        BY <1>1, <1>2, <1>3, <1>4, <1>8, <2>1, <2>2, <2>5, PlaceKept
<1>.  QED
      BY <1>1, <1>7, <1>8

\* Below an isolated backend nothing is bound, so that no service starts another one.
LEMMA Alone ==
  ASSUME TypeOK, InstanceInv, DrilledStep
  PROVE  /\ abort' # "none" => abort # "none"
         /\ bound = 0 => bound' = 0 /\ (Live = {} => Live' = {}) /\ (Clean => Clean')
<1>  DEFINE Calm == /\ abort' # "none" => abort # "none"
                    /\ bound = 0 => bound' = 0 /\ (Live = {} => Live' = {}) /\ (Clean => Clean')
<1>1. ASSUME bound = 0 => bound' = 0, abort' # "none" => abort # "none",
             bound = 0 => process' = process \/ \E ps : process' = Quit(ps)
      PROVE  Calm
      BY <1>1, QuitFacts DEF Live, Clean
<1>2. CASE MainThread
      BY <1>1, <1>2 DEF MainThread, StopRuntime, DestroyBegins, DestroyEnds, Calls
<1>3. CASE Abort \/ \E t \in Tools : CallEnds(t)
      BY <1>1, <1>3 DEF Abort, AbortCancels, AbortMarks, CallEnds, Untouched
<1>4. ASSUME NEW i \in Instances, Worker(i) PROVE Calm
  <2>1. UNCHANGED <<bound, abort>>
        BY <1>4, WorkerSteps DEF Calls
  <2>2. bound = 0 => service[i].runtime # "open" /\ service[i].pc # "recording"
        BY ServiceAssumption DEF InstanceInv, InstanceAt
  <2>3. bound = 0 => process' = process \/ \E ps : process' = Quit(ps)
        BY <1>4, <2>2, WorkerSteps DEF Started, At, Reap, Finish
  <2>.  QED
        BY <1>1, <2>1, <2>3
<1>5. ASSUME NEW p \in Processes, Backend(p) PROVE Calm
  <2>1. UNCHANGED bound
        BY <1>5 DEF Backend, Record, Recover, Listen, Dies, Untouched
  <2>2. PICK st \in {"proot", "recovered", "listening", "gone"} :
          process[p].st # "gone" /\ ProcessMoves(p, st)
    <3>1. CASE Record(p)
          BY <3>1, ProcessFacts DEF Record
    <3>2. CASE Recover(p)
          BY <3>2, RecoverFacts
    <3>3. CASE Listen(p)
          BY <3>3, ProcessFacts, DieFacts DEF Listen
    <3>4. CASE Dies(p)
          BY <3>4, DieFacts DEF Dies, Live
    <3>.  QED
          BY <1>5, <3>1, <3>2, <3>3, <3>4 DEF Backend
  <2>3. abort' # "none" => abort # "none"
        BY <1>5 DEF Backend, Record, Recover, Listen, Dies, Die, Calls
  <2>.  QED
        BY <2>1, <2>2, <2>3 DEF Live, Clean, ProcessMoves
<1>.  QED
      BY <1>2, <1>3, <1>4, <1>5 DEF DrilledStep

LEMMA DrillKeeps ==
  ASSUME Invariant, DrillInv, PlaceInv, DrillNext
  PROVE  Invariant' /\ DrillInv' /\ PlaceInv'
<1>1. TypeOK /\ InstanceInv
      BY DEF Invariant
<1>2. CASE DrillStep
  <2>1. Fails \/ (Advance /\ drill.at <= Len(Script(drill)))
        BY <1>2
        DEF DrillStep, DrillTaps, DrillForces, DrillOpens, DrillWaits, DrillCalls, DrillServes,
            DrillKills, DrillAsserts, Now
  <2>2. DrillInv' /\ TypeOK'
        BY <1>1, <1>2, <2>1, DrillMoves, DrillTypes
  <2>.  QED
        BY <1>2, <2>2, TapsKeep, LooksKeep, CallsKeep, ServesKeep, KillsKeep DEF DrillStep
<1>3. CASE DrilledStep
  <2>1. Next /\ drill' = drill
        BY <1>3 DEF DrilledStep, Next, System, Session
  <2>2. Invariant'
        BY <1>1, <2>1, TypeStep, NextMoves, MovesInvariant
  <2>3. DrillInv'
        BY <2>1 DEF DrillInv
  <2>4. Ahead("serve") => drill.name \in Isolated
        BY AheadFacts DEF ServiceOps
  <2>5. PlaceInv'
        BY <1>1, <1>3, <2>1, <2>4, Alone DEF PlaceInv, Ahead
  <2>.  QED
        BY <2>2, <2>3, <2>5
<1>.  QED
      BY <1>2, <1>3 DEF DrillNext

-----------------------------------------------------------------------------
(* What a script asserts holds, unless something fails that it does not do *)
(* itself: from its place follows the phase that the service is in.        *)

\* The operations that a script has one after the other.
Follows(a, b) ==
  \/ a \in {"force"} /\ b \in {"open"}
  \/ a \in {"open"} /\ b \in {"start", "ready"}
  \/ a \in {"start"} /\ b \in {"ready"}
  \/ a \in {"ready"} /\ b \in {"one", "session", "recovered", "force"}
  \/ a \in {"one"} /\ b \in {"stop"}
  \/ a \in {"stop"} /\ b \in {"stopped", "exited"}
  \/ a \in {"stopped"} /\ b \in {"empty"}
  \/ a \in {"empty", "exited"} /\ b \in {"start", "serve"}
  \/ a \in {"recovered"} /\ b \in {"session"}
  \/ a \in {"childless"} /\ b \in {"session", "settled"}
  \/ a \in {"session", "healthy"} /\ b \in {"call", "orphan"}
  \/ a \in {"call"} /\ b \in {"stop", "abort", "kill"}
  \/ a \in {"orphan"} /\ b \in {"abort"}
  \/ a \in {"abort"} /\ b \in {"answer"}
  \/ a \in {"answer"} /\ b \in {"childless"}
  \/ a \in {"kill"} /\ b \in {"serve"}
  \/ a \in {"serve"} /\ b \in {"healthy"}
  \/ a \in {"settled"} /\ b \in {"term"}
  \/ a \in {"term"} /\ b \in {"exited"}

Opening == [stock |-> "start", native |-> "session", abort |-> "session",
            candidate |-> "serve", crash |-> "serve"]

OrderAt(d) ==
  LET s == Script(d) IN
  /\ Len(s) \in Nat \ {0}
  /\ \A k \in 1 .. Len(s) :
       /\ k < Len(s) => Follows(s[k], s[k + 1])
       /\ s[k] = "open" => k < Len(s) /\ s[k + 1] = IF k = 2 THEN "start" ELSE "ready"
       /\ s[k] = "kill" <=> d.name = "crash" /\ k = 4
       /\ s[k] = "orphan" <=> d.name = "crash" /\ k = 7
       /\ s[k] = "recovered" => d.name = "native"
       /\ d.name = "native" =>
            s[k] \in {"start", "ready", "session", "call", "stop", "exited", "recovered"}
       /\ d.name = "crash" /\ k \in 5 .. 6 => s[k] \in {"serve", "healthy"}
  /\ d.round < Rounds => Follows(s[Len(s)], Opening[d.name])
  /\ IF d.round = 1 THEN s[1] \in {"force", "start", "serve"} ELSE s[1] = Opening[d.name]

Ops == ServiceOps \cup IsolatedOps

\* A script is the operations before its rounds, of a round, and after its rounds.
LEMMA Concatenated ==
  ASSUME NEW a \in Seq(Ops), NEW b \in Seq(Ops), NEW c \in Seq(Ops),
         NEW s, s = a \o b \o c
  PROVE  /\ Len(s) = Len(a) + Len(b) + Len(c)
         /\ \A k \in 1 .. Len(a) + Len(b) + Len(c) :
              s[k] = IF k <= Len(a) THEN a[k]
                     ELSE IF k <= Len(a) + Len(b) THEN b[k - Len(a)] ELSE c[k - (Len(a) + Len(b))]
<1>  DEFINE ab == a \o b
<1>1. ab \in Seq(Ops) /\ Len(a) \in Nat /\ Len(b) \in Nat /\ Len(c) \in Nat
      OBVIOUS
<1>2. /\ Len(ab) = Len(a) + Len(b)
      /\ \A k \in 1 .. Len(a) + Len(b) : ab[k] = IF k <= Len(a) THEN a[k] ELSE b[k - Len(a)]
      OBVIOUS
<1>3. s = ab \o c
      OBVIOUS
<1>.  HIDE DEF ab
<1>4. /\ Len(s) = Len(ab) + Len(c)
      /\ \A k \in 1 .. Len(ab) + Len(c) : s[k] = IF k <= Len(ab) THEN ab[k] ELSE c[k - Len(ab)]
      BY <1>1, <1>3
<1>  DEFINE m == Len(a)
            r == Len(b)
            n == Len(c)
<1>5. /\ m \in Nat /\ r \in Nat /\ n \in Nat /\ Len(s) = m + r + n
      /\ \A k \in 1 .. m + r : ab[k] = IF k <= m THEN a[k] ELSE b[k - m]
      /\ \A k \in 1 .. m + r + n : s[k] = IF k <= m + r THEN ab[k] ELSE c[k - (m + r)]
      BY <1>1, <1>2, <1>4
<1>.  HIDE DEF m, r, n
<1>6. ASSUME NEW k \in 1 .. m + r + n
      PROVE  s[k] = IF k <= m THEN a[k] ELSE IF k <= m + r THEN b[k - m] ELSE c[k - (m + r)]
      BY <1>5
<1>.  QED
      BY <1>5, <1>6 DEF m, r, n

Before(d, first) == IF d.round = 1 THEN Len(first) ELSE 0
Beyond(d, last) == IF d.round = Rounds THEN Len(last) ELSE 0

LEMMA ScriptIs ==
  ASSUME NEW d, NEW first \in Seq(Ops), NEW b \in Seq(Ops), NEW last \in Seq(Ops),
         Drill[d.name] = Cycle(first, b, last)
  PROVE  /\ Len(Script(d)) = Before(d, first) + Len(b) + Beyond(d, last)
         /\ \A k \in 1 .. Before(d, first) + Len(b) + Beyond(d, last) :
              Script(d)[k] = IF k <= Before(d, first) THEN first[k]
                             ELSE IF k <= Before(d, first) + Len(b) THEN b[k - Before(d, first)]
                             ELSE last[k - (Before(d, first) + Len(b))]
<1>  DEFINE a == IF d.round = 1 THEN first ELSE << >>
            c == IF d.round = Rounds THEN last ELSE << >>
            s == Script(d)
            m == Before(d, first)
            r == Len(b)
            n == Beyond(d, last)
<1>1. s = a \o b \o c
  <2>1. /\ Drill[d.name].first = first /\ Drill[d.name].round = b /\ Drill[d.name].last = last
        BY DEF Cycle
  <2>.  QED
        BY <2>1 DEF Script
<1>2. a \in Seq(Ops) /\ c \in Seq(Ops)
      OBVIOUS
<1>3. /\ Len(a) = m /\ Len(b) = r /\ Len(c) = n
      /\ m \in Nat /\ r \in Nat /\ n \in Nat
      BY DEF Before, Beyond
<1>4. /\ \A k \in 1 .. m : a[k] = first[k]
      /\ \A k \in 1 .. n : c[k] = last[k]
      BY DEF Before, Beyond
<1>.  HIDE DEF a, c, s, m, r, n
<1>5. /\ Len(s) = Len(a) + Len(b) + Len(c)
      /\ \A k \in 1 .. Len(a) + Len(b) + Len(c) :
           s[k] = IF k <= Len(a) THEN a[k]
                  ELSE IF k <= Len(a) + Len(b) THEN b[k - Len(a)] ELSE c[k - (Len(a) + Len(b))]
      BY <1>1, <1>2, Concatenated
<1>6. /\ Len(s) = m + r + n
      /\ \A k \in 1 .. m + r + n :
           s[k] = IF k <= m THEN a[k] ELSE IF k <= m + r THEN b[k - m] ELSE c[k - (m + r)]
      BY <1>3, <1>5
<1>7. ASSUME NEW k \in 1 .. m + r + n
      PROVE  s[k] = IF k <= m THEN first[k] ELSE IF k <= m + r THEN b[k - m] ELSE last[k - (m + r)]
      BY <1>3, <1>4, <1>6
<1>.  QED
      BY <1>6, <1>7 DEF s, m, r, n

LEMMA StockOrder ==
  ASSUME NEW d \in DrillType, d.name = "stock"
  PROVE  OrderAt(d)
<1>  DEFINE first == << "force", "open" >>
            b == << "start", "ready", "one", "stop", "stopped", "empty" >>
            last == << "start", "ready", "force", "open", "ready", "one" >>
            s == Script(d)
            m == IF d.round = 1 THEN 2 ELSE 0
            n == IF d.round = Rounds THEN 6 ELSE 0
<1>1. first \in Seq(Ops) /\ b \in Seq(Ops) /\ last \in Seq(Ops)
      BY DEF Ops, ServiceOps
<1>2. Len(first) = 2 /\ Len(b) = 6 /\ Len(last) = 6
      OBVIOUS
<1>3. Drill[d.name] = Cycle(first, b, last) /\ Opening[d.name] = "start"
      BY DEF StockRestart, Drill, Opening
<1>.  HIDE DEF first, b, last, s
<1>4. /\ Len(s) = m + 6 + n
      /\ \A k \in 1 .. m + 6 + n :
           s[k] = IF k <= m THEN first[k] ELSE IF k <= m + 6 THEN b[k - m] ELSE last[k - (m + 6)]
  <2>1. m = Before(d, first) /\ n = Beyond(d, last)
        BY <1>2 DEF Before, Beyond
  <2>.  HIDE DEF m, n
  <2>2. /\ Len(s) = Before(d, first) + Len(b) + Beyond(d, last)
        /\ \A k \in 1 .. Before(d, first) + Len(b) + Beyond(d, last) :
             s[k] = IF k <= Before(d, first) THEN first[k]
                    ELSE IF k <= Before(d, first) + Len(b) THEN b[k - Before(d, first)]
                    ELSE last[k - (Before(d, first) + Len(b))]
        BY <1>1, <1>3, ScriptIs DEF s
  <2>.  QED
        BY <1>2, <2>1, <2>2
<1>5. /\ m = 2 => s[1] = "force" /\ s[2] = "open"
      /\ s[m + 1] = "start" /\ s[m + 2] = "ready" /\ s[m + 3] = "one"
      /\ s[m + 4] = "stop" /\ s[m + 5] = "stopped" /\ s[m + 6] = "empty"
      /\ n = 6 =>
           /\ s[m + 7] = "start" /\ s[m + 8] = "ready" /\ s[m + 9] = "force"
           /\ s[m + 10] = "open" /\ s[m + 11] = "ready" /\ s[m + 12] = "one"
      BY <1>4 DEF first, b, last
<1>6. /\ m \in {0, 2} /\ (m = 2 <=> d.round = 1) /\ n \in {0, 6}
      /\ d.round < Rounds => n = 0
      BY DrillAssumption DEF DrillType
<1>.  HIDE DEF m, n
<1>7. Len(s) \in Nat \ {0}
      BY <1>4, <1>6
<1>8. CASE m = 2 /\ n = 6
      BY <1>3, <1>4, <1>5, <1>6, <1>7, <1>8 DEF OrderAt, Follows, s
<1>9. CASE m = 2 /\ n = 0
      BY <1>3, <1>4, <1>5, <1>6, <1>7, <1>9 DEF OrderAt, Follows, s
<1>10. CASE m = 0 /\ n = 6
      BY <1>3, <1>4, <1>5, <1>6, <1>7, <1>10 DEF OrderAt, Follows, s
<1>11. CASE m = 0 /\ n = 0
      BY <1>3, <1>4, <1>5, <1>6, <1>7, <1>11 DEF OrderAt, Follows, s
<1>.  QED
      BY <1>6, <1>8, <1>9, <1>10, <1>11

LEMMA NativeOrder ==
  ASSUME NEW d \in DrillType, d.name = "native"
  PROVE  OrderAt(d)
<1>  DEFINE first == << "start", "ready" >>
            b == << "session", "call", "stop", "exited", "start", "ready", "recovered" >>
            last == << >>
            s == Script(d)
            m == Before(d, first)
<1>1. first \in Seq(Ops) /\ b \in Seq(Ops) /\ last \in Seq(Ops)
      BY DEF Ops, ServiceOps
<1>2. Len(first) = 2 /\ Len(b) = 7 /\ Len(last) = 0
      OBVIOUS
<1>3. Drill[d.name] = Cycle(first, b, last) /\ Opening[d.name] = "session"
      BY DEF NativeStop, Drill, Opening
<1>.  HIDE DEF first, b, last, s
<1>4. /\ Len(s) = Before(d, first) + Len(b) + Beyond(d, last)
      /\ \A k \in 1 .. Before(d, first) + Len(b) + Beyond(d, last) :
           s[k] = IF k <= Before(d, first) THEN first[k]
                  ELSE IF k <= Before(d, first) + Len(b) THEN b[k - Before(d, first)]
                  ELSE last[k - (Before(d, first) + Len(b))]
      BY <1>1, <1>3, ScriptIs DEF s
<1>5. m \in {0, 2} /\ (m = 2 <=> d.round = 1) /\ Beyond(d, last) = 0
      BY <1>2 DEF Before, Beyond
<1>6. /\ Len(s) = m + 7
      /\ \A k \in 1 .. m + 7 : s[k] = IF k <= m THEN first[k] ELSE b[k - m]
      BY <1>2, <1>4, <1>5
<1>.  HIDE DEF m
<1>7. /\ m = 2 => s[1] = "start" /\ s[2] = "ready"
      /\ s[m + 1] = "session" /\ s[m + 2] = "call" /\ s[m + 3] = "stop" /\ s[m + 4] = "exited"
      /\ s[m + 5] = "start" /\ s[m + 6] = "ready" /\ s[m + 7] = "recovered"
      BY <1>5, <1>6 DEF first, b
<1>8. Len(s) \in Nat \ {0}
      BY <1>5, <1>6
<1>9. CASE m = 2
      BY <1>3, <1>5, <1>6, <1>7, <1>8, <1>9 DEF OrderAt, Follows, s
<1>10. CASE m = 0
      BY <1>3, <1>5, <1>6, <1>7, <1>8, <1>10 DEF OrderAt, Follows, s
<1>.  QED
      BY <1>5, <1>9, <1>10

LEMMA AbortOrder ==
  ASSUME NEW d \in DrillType, d.name = "abort"
  PROVE  OrderAt(d)
<1>  DEFINE first == << "start", "ready" >>
            b == << "session", "call", "abort", "answer", "childless" >>
            last == << >>
            s == Script(d)
            m == Before(d, first)
<1>1. first \in Seq(Ops) /\ b \in Seq(Ops) /\ last \in Seq(Ops)
      BY DEF Ops, ServiceOps
<1>2. Len(first) = 2 /\ Len(b) = 5 /\ Len(last) = 0
      OBVIOUS
<1>3. Drill[d.name] = Cycle(first, b, last) /\ Opening[d.name] = "session"
      BY DEF JobAbort, Drill, Opening
<1>.  HIDE DEF first, b, last, s
<1>4. /\ Len(s) = Before(d, first) + Len(b) + Beyond(d, last)
      /\ \A k \in 1 .. Before(d, first) + Len(b) + Beyond(d, last) :
           s[k] = IF k <= Before(d, first) THEN first[k]
                  ELSE IF k <= Before(d, first) + Len(b) THEN b[k - Before(d, first)]
                  ELSE last[k - (Before(d, first) + Len(b))]
      BY <1>1, <1>3, ScriptIs DEF s
<1>5. m \in {0, 2} /\ (m = 2 <=> d.round = 1) /\ Beyond(d, last) = 0
      BY <1>2 DEF Before, Beyond
<1>6. /\ Len(s) = m + 5
      /\ \A k \in 1 .. m + 5 : s[k] = IF k <= m THEN first[k] ELSE b[k - m]
      BY <1>2, <1>4, <1>5
<1>.  HIDE DEF m
<1>7. /\ m = 2 => s[1] = "start" /\ s[2] = "ready"
      /\ s[m + 1] = "session" /\ s[m + 2] = "call" /\ s[m + 3] = "abort"
      /\ s[m + 4] = "answer" /\ s[m + 5] = "childless"
      BY <1>5, <1>6 DEF first, b
<1>8. Len(s) \in Nat \ {0}
      BY <1>5, <1>6
<1>9. CASE m = 2
      BY <1>3, <1>5, <1>6, <1>7, <1>8, <1>9 DEF OrderAt, Follows, s
<1>10. CASE m = 0
      BY <1>3, <1>5, <1>6, <1>7, <1>8, <1>10 DEF OrderAt, Follows, s
<1>.  QED
      BY <1>5, <1>9, <1>10

LEMMA CandidateOrder ==
  ASSUME NEW d \in DrillType, d.name = "candidate"
  PROVE  OrderAt(d)
<1>  DEFINE first == << >>
            b == << "serve", "healthy", "call", "abort", "answer", "childless", "settled",
                     "term", "exited" >>
            last == << >>
            s == Script(d)
            m == Before(d, first)
<1>1. first \in Seq(Ops) /\ b \in Seq(Ops) /\ last \in Seq(Ops)
      BY DEF Ops, IsolatedOps
<1>2. Len(first) = 0 /\ Len(b) = 9 /\ Len(last) = 0
      OBVIOUS
<1>3. Drill[d.name] = Cycle(first, b, last) /\ Opening[d.name] = "serve"
      BY DEF Candidate, Drill, Opening
<1>.  HIDE DEF first, b, last, s
<1>4. /\ Len(s) = Before(d, first) + Len(b) + Beyond(d, last)
      /\ \A k \in 1 .. Before(d, first) + Len(b) + Beyond(d, last) :
           s[k] = IF k <= Before(d, first) THEN first[k]
                  ELSE IF k <= Before(d, first) + Len(b) THEN b[k - Before(d, first)]
                  ELSE last[k - (Before(d, first) + Len(b))]
      BY <1>1, <1>3, ScriptIs DEF s
<1>5. m = 0 /\ Beyond(d, last) = 0
      BY <1>2 DEF Before, Beyond
<1>6. /\ Len(s) = m + 9
      /\ \A k \in 1 .. m + 9 : s[k] = IF k <= m THEN first[k] ELSE b[k - m]
      BY <1>2, <1>4, <1>5
<1>.  HIDE DEF m
<1>7. /\ s[m + 1] = "serve" /\ s[m + 2] = "healthy" /\ s[m + 3] = "call" /\ s[m + 4] = "abort"
      /\ s[m + 5] = "answer" /\ s[m + 6] = "childless" /\ s[m + 7] = "settled"
      /\ s[m + 8] = "term" /\ s[m + 9] = "exited"
      BY <1>5, <1>6 DEF first, b
<1>8. Len(s) \in Nat \ {0}
      BY <1>5, <1>6
<1>.  QED
      BY <1>3, <1>5, <1>6, <1>7, <1>8 DEF OrderAt, Follows, s

LEMMA CrashOrder ==
  ASSUME NEW d \in DrillType, d.name = "crash"
  PROVE  OrderAt(d)
<1>  DEFINE first == << >>
            b == << "serve", "healthy", "call", "kill", "serve", "healthy", "orphan",
                     "abort", "answer", "childless", "settled", "term", "exited" >>
            last == << >>
            s == Script(d)
            m == Before(d, first)
<1>1. first \in Seq(Ops) /\ b \in Seq(Ops) /\ last \in Seq(Ops)
      BY DEF Ops, IsolatedOps
<1>2. Len(first) = 0 /\ Len(b) = 13 /\ Len(last) = 0
      OBVIOUS
<1>3. Drill[d.name] = Cycle(first, b, last) /\ Opening[d.name] = "serve"
      BY DEF CandidateCrash, Drill, Opening
<1>.  HIDE DEF first, b, last, s
<1>4. /\ Len(s) = Before(d, first) + Len(b) + Beyond(d, last)
      /\ \A k \in 1 .. Before(d, first) + Len(b) + Beyond(d, last) :
           s[k] = IF k <= Before(d, first) THEN first[k]
                  ELSE IF k <= Before(d, first) + Len(b) THEN b[k - Before(d, first)]
                  ELSE last[k - (Before(d, first) + Len(b))]
      BY <1>1, <1>3, ScriptIs DEF s
<1>5. m = 0 /\ Beyond(d, last) = 0
      BY <1>2 DEF Before, Beyond
<1>6. /\ Len(s) = m + 13
      /\ \A k \in 1 .. m + 13 : s[k] = IF k <= m THEN first[k] ELSE b[k - m]
      BY <1>2, <1>4, <1>5
<1>.  HIDE DEF m
<1>7. /\ s[m + 1] = "serve" /\ s[m + 2] = "healthy" /\ s[m + 3] = "call" /\ s[m + 4] = "kill"
      /\ s[m + 5] = "serve" /\ s[m + 6] = "healthy" /\ s[m + 7] = "orphan" /\ s[m + 8] = "abort"
      /\ s[m + 9] = "answer" /\ s[m + 10] = "childless" /\ s[m + 11] = "settled"
      /\ s[m + 12] = "term" /\ s[m + 13] = "exited"
      BY <1>5, <1>6 DEF first, b
<1>8. Len(s) \in Nat \ {0}
      BY <1>5, <1>6
<1>.  QED
      BY <1>3, <1>5, <1>6, <1>7, <1>8 DEF OrderAt, Follows, s

LEMMA OrderFacts ==
  ASSUME NEW d \in DrillType
  PROVE  OrderAt(d)
<1>1. d.name \in {"stock", "native", "abort", "candidate", "crash"}
      BY DEF DrillType, Drill
<1>.  QED
      BY <1>1, StockOrder, NativeOrder, AbortOrder, CandidateOrder, CrashOrder

\* Where a script is after an operation.
LEMMA Moved ==
  ASSUME DrillInv, DrillInv', NEW op, Ahead(op), Advance
  PROVE  /\ drill'.name = drill.name /\ drill'.failed = drill.failed
         /\ \/ drill.at = Len(Script(drill)) /\ drill'.at = 1 /\ op # "open"
               /\ Script(drill')[1] = Opening[drill.name] /\ Follows(op, Opening[drill.name])
            \/ drill'.at = drill.at + 1 /\ Script(drill') = Script(drill)
         /\ drill.name = "crash" /\ drill'.at \in 5 .. 7 =>
              op = "kill" \/ (op \in {"serve", "healthy"} /\ drill.at \in 5 .. 6)
<1>1. /\ OrderAt(drill) /\ drill.at \in 1 .. Len(Script(drill))
      /\ OrderAt(drill') /\ drill \in DrillType /\ drill' \in DrillType
      BY OrderFacts DEF DrillInv, OrderAt, Ahead
<1>2. CASE drill.at = Len(Script(drill)) /\ drill.round < Rounds
  <2>1. drill' = [drill EXCEPT !.round = drill.round + 1, !.at = 1]
        BY <1>2 DEF Advance
  <2>2. /\ drill'.name = drill.name /\ drill'.failed = drill.failed
        /\ drill'.at = 1 /\ drill'.round = drill.round + 1
        BY <1>1, <2>1 DEF DrillType
  <2>3. drill'.round # 1
        BY <1>1, <2>2, DrillAssumption DEF DrillType
  <2>4. Follows(op, Opening[drill.name]) /\ op # "open"
        BY <1>1, <1>2 DEF OrderAt, Ahead
  <2>5. Script(drill')[1] = Opening[drill.name]
        BY <1>1, <2>2, <2>3 DEF OrderAt
  <2>.  QED
        BY <1>2, <2>2, <2>4, <2>5
<1>3. CASE ~(drill.at = Len(Script(drill)) /\ drill.round < Rounds)
  <2>1. drill' = [drill EXCEPT !.at = drill.at + 1]
        BY <1>3 DEF Advance
  <2>2. /\ drill'.name = drill.name /\ drill'.round = drill.round /\ drill'.at = drill.at + 1
        /\ drill'.failed = drill.failed
        BY <1>1, <2>1 DEF DrillType
  <2>3. Script(drill') = Script(drill)
        BY <2>2, SameScript
  <2>4. drill.name = "crash" /\ drill'.at \in 5 .. 7 =>
          op = "kill" \/ (op \in {"serve", "healthy"} /\ drill.at \in 5 .. 6)
        BY <1>1, <2>2 DEF OrderAt, Ahead
  <2>.  QED
        BY <2>2, <2>3, <2>4
<1>.  QED
      BY <1>2, <1>3

LEMMA Leads ==
  ASSUME DrillInv, DrillInv', NEW op, Ahead(op), Advance, NEW x, Ahead(x)'
  PROVE  /\ Follows(op, x)
         /\ op = "open" => x = IF drill.at = 2 THEN "start" ELSE "ready"
         /\ x = "open" => drill'.at = drill.at + 1
         /\ x = "force" => drill'.at # 1
<1>1. OrderAt(drill) /\ drill.at \in 1 .. Len(Script(drill)) /\ Script(drill)[drill.at] = op
      /\ drill'.at <= Len(Script(drill')) /\ Script(drill')[drill'.at] = x
      /\ drill \in DrillType
      BY OrderFacts DEF DrillInv, OrderAt, Ahead
<1>2. CASE /\ drill.at = Len(Script(drill)) /\ drill'.at = 1 /\ op # "open"
           /\ Script(drill')[1] = Opening[drill.name] /\ Follows(op, Opening[drill.name])
  <2>1. Opening[drill.name] \in {"start", "session", "serve"}
        BY <1>1 DEF Opening, DrillType, Drill
  <2>.  QED
        BY <1>1, <1>2, <2>1
<1>3. CASE drill'.at = drill.at + 1 /\ Script(drill') = Script(drill)
  <2>1. /\ drill.at < Len(Script(drill)) /\ Script(drill)[drill.at + 1] = x
        /\ drill.at + 1 # 1
        BY <1>1, <1>3 DEF OrderAt
  <2>2. Follows(op, x) /\ (op = "open" => x = IF drill.at = 2 THEN "start" ELSE "ready")
        BY <1>1, <2>1 DEF OrderAt
  <2>.  QED
        BY <1>3, <2>1, <2>2
<1>.  QED
      BY <1>2, <1>3, Moved

\* Only the instance that commands are delivered to has a task.
Idlers == \A i \in Instances : i # bound => service[i].pc = "idle"

\* The runtime is wanted and on its way up, or up, with the backend that it started.
Up ==
  LET s == service[bound] IN
  /\ app /\ wanted /\ bound # 0 /\ main = "idle"
  /\ s.running /\ ~s.stopping /\ ~s.destroy /\ ~s.interrupted /\ s.monitor
  /\ s.runtime # "cancelled"
  /\ \/ s.pc = "idle" /\ s.queue = 1 /\ Live = {}
     \/ s.pc \in {"reap", "prepare", "look", "spawn"} /\ Live = {}
     \/ /\ s.pc \in {"recording", "await", "ready", "serving"} /\ Live = {s.backend}
        /\ ~process[s.backend].quit /\ process[s.backend].recover
        /\ s.pc \in {"ready", "serving"} => process[s.backend].st = "listening"
  /\ status = IF s.pc = "serving" THEN "ready" ELSE "starting"

\* It has been stopped: the backend ends, then the task, and the instance is destroyed.
Down ==
  LET s == service[bound] IN
  /\ bound # 0 /\ s.stopping /\ s.queue = 0
  /\ \/ /\ s.pc = "serving" /\ s.running /\ ~s.interrupted /\ ~s.destroy
        /\ status = "stopping" /\ main # "destroy" /\ Live \subseteq {s.backend}
        /\ main = "stop" => process[s.backend].st = "listening" /\ ~process[s.backend].quit
     \/ /\ s.pc \in {"finish", "close", "idle"} /\ (s.pc # "idle" => ~s.destroy /\ main = "idle")
        /\ main # "stop"
        /\ status = "stopped" /\ Live = {}

Ending == app /\ ((bound = 0 /\ Live = {}) \/ Down)

\* What the step of a worker leaves, except for the last one of a task.
Frozen(i) ==
  /\ service'[i].stopping = service[i].stopping
  /\ service'[i].destroy = service[i].destroy
  /\ service'[i].interrupted = service[i].interrupted
  /\ service'[i].monitor = service[i].monitor

LEMMA GoFreezes ==
  ASSUME TypeOK, NEW i \in Instances, NEW pc, Go(i, pc)
  PROVE  Frozen(i)
<1>1. service' = [service EXCEPT ![i] = [service[i] EXCEPT !.pc = pc]]
      BY DEF Go
<1>2. service'[i] = [service[i] EXCEPT !.pc = pc] /\ service[i] \in ServiceType
      BY <1>1 DEF TypeOK
<1>.  QED
      BY <1>2 DEF Frozen, ServiceType

LEMMA WorkerFreezes ==
  ASSUME TypeOK, NEW i \in Instances, Worker(i), service[i].pc # "close"
  PROVE  Frozen(i)
<1>1. service[i] \in ServiceType
      BY DEF TypeOK
<1>2. CASE Begin(i)
  <2>1. \/ service'[i] = [service[i] EXCEPT !.queue = service[i].queue - 1, !.pc = "finish"]
        \/ service'[i] = [service[i] EXCEPT !.queue = service[i].queue - 1, !.pc = "reap",
                                            !.runtime = "open"]
        BY <1>2 DEF Begin, TypeOK
  <2>.  QED
        BY <1>1, <2>1 DEF Frozen, ServiceType
<1>3. CASE Spawn(i) /\ service' = [service EXCEPT ![i].pc = "recording", ![i].backend = NewProcess]
  <2>1. service'[i] = [service[i] EXCEPT !.pc = "recording", !.backend = NewProcess]
        BY <1>3 DEF TypeOK
  <2>.  QED
        BY <1>1, <2>1 DEF Frozen, ServiceType
<1>4. CASE Finish(i)
  <2>1. service'[i] = [service[i] EXCEPT !.backend = 0, !.running = FALSE, !.pc = "close"]
        BY <1>4 DEF Finish, TypeOK
  <2>.  QED
        BY <1>1, <2>1 DEF Frozen, ServiceType
<1>5. CASE UNCHANGED service
      BY <1>5 DEF Frozen
<1>6. CASE \E pc : Go(i, pc)
      BY <1>6, GoFreezes
<1>.  QED
      BY <1>2, <1>3, <1>4, <1>5, <1>6
      DEF Worker, Reap, Prepare, Look, Spawn, Started, Await, Ready, Rejected, Serving, CloseTask,
          Caught, At

LEMMA IdleRests ==
  ASSUME InstanceInv, Idlers, NEW i \in Instances, i # bound
  PROVE  ~Worker(i)
<1>1. service[i].pc = "idle" /\ service[i].queue = 0
      BY DEF Idlers, InstanceInv, InstanceAt
<1>.  QED
      BY <1>1
      DEF Worker, Begin, Reap, Prepare, Look, Spawn, Started, Await, Ready, Rejected, Serving, Finish,
          CloseTask, At

\* On its way up, a worker goes through its task, and nothing but a fault keeps it from it.
LEMMA UpWorker ==
  ASSUME Invariant, Up, Worker(bound), faults' = faults
  PROVE  /\ Up' /\ bound' = bound /\ Elsewhere(bound) /\ UNCHANGED <<tool, captured, abort>>
         /\ status = "ready" => status' = "ready"
         /\ \A p \in Processes : process'[p].st \in {process[p].st, "shell"}
<1>  DEFINE i == bound
            s == service[i]
<1>1. TypeOK /\ i \in Instances /\ s.pc # "close"
      BY DEF Invariant, Up, TypeOK
<1>2. Frozen(i) /\ UNCHANGED <<wanted, app, bound, main, tool, captured, abort, taps>> /\ app
      BY <1>1, WorkerFreezes, WorkerSteps DEF Calls
<1>3. CASE Begin(i)
  <2>1. /\ Elsewhere(i) /\ s.pc = "idle" /\ service'[i].queue = 0 /\ service'[i].running
        /\ service'[i].backend = s.backend
        BY <1>1, <1>3, BeginFacts DEF Up
  <2>2. /\ service' = [service EXCEPT ![i].queue = s.queue - 1, ![i].pc = "reap", ![i].runtime = "open"]
        /\ UNCHANGED <<status, process>>
        BY <1>3 DEF Begin, Up
  <2>3. service'[i].pc = "reap" /\ service'[i].runtime = "open"
        BY <1>1, <2>2 DEF TypeOK, ServiceType
  <2>.  QED
        BY <1>2, <2>1, <2>2, <2>3 DEF Up, Frozen, Live
<1>4. CASE Reap(i)
  <2>1. s.pc = "reap" /\ Live = {}
        BY <1>4 DEF Reap, At, Up
  <2>2. Go(i, "prepare") /\ UNCHANGED <<status, process>>
        BY <1>4, <2>1 DEF Reap, Recorded
  <2>3. /\ Elsewhere(i) /\ service'[i].running /\ service'[i].pc = "prepare"
        /\ service'[i].runtime = s.runtime
        BY <1>1, <2>2, GoFacts DEF Kept, Up
  <2>.  QED
        BY <1>2, <2>1, <2>2, <2>3 DEF Up, Frozen, Live
<1>5. CASE Prepare(i)
  <2>1. s.pc = "prepare" /\ Live = {} /\ faults \in Nat
        BY <1>1, <1>5, ServiceAssumption DEF Prepare, At, Up, TypeOK
  <2>2. Go(i, "look") /\ UNCHANGED <<status, process>>
        BY <1>5, <2>1 DEF Prepare, Up, Fault
  <2>3. /\ Elsewhere(i) /\ service'[i].running /\ service'[i].pc = "look"
        /\ service'[i].runtime = s.runtime
        BY <1>1, <2>2, GoFacts DEF Kept, Up
  <2>.  QED
        BY <1>2, <2>1, <2>2, <2>3 DEF Up, Frozen, Live
<1>6. CASE Look(i)
  <2>1. s.pc = "look" /\ Live = {}
        BY <1>6 DEF Look, At, Up
  <2>2. Go(i, "spawn") /\ UNCHANGED process /\ status' = "starting" /\ status = "starting"
        BY <1>6, <2>1 DEF Look, Up
  <2>3. /\ Elsewhere(i) /\ service'[i].running /\ service'[i].pc = "spawn"
        /\ service'[i].runtime = s.runtime
        BY <1>1, <2>2, GoFacts DEF Kept, Up
  <2>.  QED
        BY <1>2, <2>1, <2>2, <2>3 DEF Up, Frozen, Live
<1>7. CASE Spawn(i)
  <2>1. s.pc = "spawn" /\ Live = {} /\ s.runtime = "open" /\ UNCHANGED status /\ status = "starting"
        BY <1>7 DEF Spawn, At, Up
  <2>2. /\ Elsewhere(i) /\ NewProcess \in Processes
        /\ service'[i].pc = "recording" /\ service'[i].backend = NewProcess
        /\ service'[i].running /\ service'[i].runtime = s.runtime
        /\ process'[NewProcess] = [Gone EXCEPT !.st = "shell", !.by = i, !.recover = TRUE]
        /\ \A p \in Processes \ {NewProcess} : process'[p] = process[p]
        BY <1>1, <1>7, <2>1, SpawnFacts DEF Up
  <2>3. /\ process'[NewProcess].st = "shell" /\ ~process'[NewProcess].quit
        /\ process'[NewProcess].recover
        BY <2>2 DEF Gone
  <2>4. Live' = {NewProcess}
    <3>1. \A p \in Processes : p # NewProcess => process'[p].st = "gone"
          BY <2>1, <2>2 DEF Live
    <3>2. process'[NewProcess].st # "gone" /\ NewProcess \in Processes
          BY <2>2, <2>3
    <3>.  QED
          BY <3>1, <3>2 DEF Live
  <2>.  QED
        BY <1>2, <2>1, <2>2, <2>3, <2>4 DEF Up, Frozen
<1>8. CASE Started(i)
  <2>1. s.pc = "recording" /\ faults \in Nat
        BY <1>1, <1>8, ServiceAssumption DEF Started, At, TypeOK
  <2>2. Go(i, "await") /\ UNCHANGED <<status, process>>
        BY <1>8, <2>1 DEF Started, Fault
  <2>3. /\ Elsewhere(i) /\ Kept(i) /\ service'[i].pc = "await" /\ service'[i].runtime = s.runtime
        BY <1>1, <2>2, GoFacts
  <2>.  QED
        BY <1>2, <2>1, <2>2, <2>3 DEF Up, Frozen, Kept, Live
<1>9. CASE Await(i)
  <2>1. /\ s.pc = "await" /\ Live = {s.backend} /\ ~s.interrupted
        BY <1>9 DEF Await, At, Up
  <2>2. process[s.backend].st # "gone"
        BY <2>1 DEF Live
  <2>3. Go(i, "ready") /\ Listening # {} /\ UNCHANGED <<status, process>>
        BY <1>9, <2>1, <2>2 DEF Await
  <2>4. process[s.backend].st = "listening"
        BY <2>1, <2>3 DEF Listening
  <2>5. /\ Elsewhere(i) /\ Kept(i) /\ service'[i].pc = "ready" /\ service'[i].runtime = s.runtime
        BY <1>1, <2>3, GoFacts
  <2>.  QED
        BY <1>2, <2>1, <2>3, <2>4, <2>5 DEF Up, Frozen, Kept, Live
<1>10. CASE Ready(i)
  <2>1. s.pc = "ready" /\ s.monitor
        BY <1>10 DEF Ready, At, Up
  <2>2. Go(i, "serving") /\ status' = "ready" /\ UNCHANGED process
        BY <1>10, <2>1 DEF Ready
  <2>3. /\ Elsewhere(i) /\ Kept(i) /\ service'[i].pc = "serving" /\ service'[i].runtime = s.runtime
        BY <1>1, <2>2, GoFacts
  <2>.  QED
        BY <1>2, <2>1, <2>2, <2>3 DEF Up, Frozen, Kept, Live
<1>11. ~Serving(i)
  <2>1. s.pc = "serving" => process[s.backend].st = "listening" /\ ~s.interrupted
        BY DEF Up
  <2>.  QED
        BY <2>1 DEF Serving, At
<1>12. ~Rejected(i) /\ ~Finish(i) /\ ~CloseTask(i)
      BY DEF Rejected, Finish, CloseTask, At, Up
<1>.  QED
      BY <1>2, <1>3, <1>4, <1>5, <1>6, <1>7, <1>8, <1>9, <1>10, <1>11, <1>12 DEF Worker

\* The steps of the processes, for whoever owns the one that lives.
LEMMA BackendMoves ==
  ASSUME TypeOK, NEW p \in Processes, Backend(p)
  PROVE  /\ p \in Live /\ UNCHANGED <<wanted, status, app, bound, main, service, taps>>
         /\ \/ process[p].st = "shell" /\ ProcessMoves(p, "proot") /\ UNCHANGED Calls
            \/ /\ process[p].st = "proot" /\ ~process[p].quit /\ ProcessMoves(p, "recovered")
               /\ Recover(p) /\ UNCHANGED <<captured, abort>>
            \/ /\ process[p].st = "recovered" /\ ~process[p].quit
               /\ ProcessMoves(p, "listening") /\ UNCHANGED Calls
            \/ ProcessMoves(p, "gone") /\ Die(p) /\ (process[p].quit \/ \E q \in Live : q # p)
<1>1. UNCHANGED <<wanted, status, app, bound, main, service, taps>>
      BY DEF Backend, Record, Recover, Listen, Dies, Untouched, Prefs
<1>2. CASE Record(p)
  <2>1. ProcessMoves(p, "proot")
        BY <1>2, ProcessFacts DEF Record
  <2>.  QED
        BY <1>1, <1>2, <2>1 DEF Record, Live
<1>3. CASE Recover(p)
  <2>1. ProcessMoves(p, "recovered")
        BY <1>3, RecoverFacts
  <2>.  QED
        BY <1>1, <1>3, <2>1 DEF Recover, Live
<1>4. CASE Listen(p) /\ Listening = {}
  <2>1. ProcessMoves(p, "listening")
        BY <1>4, ProcessFacts DEF Listen
  <2>.  QED
        BY <1>1, <1>4, <2>1 DEF Listen, Live
<1>5. CASE Listen(p) /\ Listening # {}
  <2>1. Die(p) /\ process[p].st = "recovered"
        BY <1>5 DEF Listen
  <2>2. ProcessMoves(p, "gone")
        BY <2>1, DieFacts
  <2>3. \E q \in Live : q # p
        BY <1>5, <2>1 DEF Listening, Live
  <2>.  QED
        BY <1>1, <2>1, <2>2, <2>3 DEF Live
<1>6. CASE Dies(p)
  <2>1. ProcessMoves(p, "gone")
        BY <1>6, DieFacts DEF Dies
  <2>.  QED
        BY <1>1, <1>6, <2>1 DEF Dies, Live
<1>.  QED
      BY <1>2, <1>3, <1>4, <1>5, <1>6 DEF Backend

LEMMA UpBackend ==
  ASSUME Invariant, Up, NEW p \in Processes, Backend(p)
  PROVE  /\ Up' /\ UNCHANGED <<service, bound, status>>
         /\ \/ UNCHANGED Calls
            \/ Recover(p) /\ UNCHANGED <<captured, abort>>
         /\ status # "ready"
<1>1. TypeOK /\ bound \in Instances
      BY DEF Invariant, Up, TypeOK
<1>  DEFINE b == service[bound].backend
<1>2. p = b /\ Live = {b} /\ ~process[b].quit /\ process[b].recover
      /\ service[bound].pc \in {"recording", "await", "ready", "serving"}
      /\ (service[bound].pc \in {"ready", "serving"} => process[b].st = "listening")
      BY <1>1, BackendMoves DEF Up
<1>3. PICK st \in {"proot", "recovered", "listening"} :
        /\ ProcessMoves(p, st) /\ process[p].st # "listening"
        /\ UNCHANGED Calls \/ (Recover(p) /\ UNCHANGED <<captured, abort>>)
      BY <1>1, <1>2, BackendMoves
<1>4. UNCHANGED <<wanted, status, app, bound, main, service, taps>>
      BY <1>1, BackendMoves
<1>5. Live' = Live
      BY <1>2, <1>3 DEF ProcessMoves, Live
<1>6. Up'
      BY <1>2, <1>3, <1>4, <1>5 DEF Up, ProcessMoves
<1>.  QED
      BY <1>2, <1>3, <1>4, <1>6 DEF Up

\* What a step leaves that only ends or rewrites calls.
LEMMA UpStep ==
  ASSUME Invariant, Idlers, Up, DrilledStep, faults' = faults
  PROVE  /\ Up' /\ Idlers' /\ (status = "ready" => status' = "ready")
<1>1. TypeOK /\ InstanceInv /\ bound \in Instances
      BY DEF Invariant, Up, TypeOK
<1>2. ~MainThread
      BY DEF MainThread, StopRuntime, DestroyBegins, DestroyEnds, Up
<1>3. CASE Abort \/ \E t \in Tools : CallEnds(t)
  <2>1. UNCHANGED <<wanted, status, app, bound, main, service, taps, process>>
        BY <1>3 DEF Abort, AbortCancels, AbortMarks, CallEnds, Untouched, Prefs
  <2>.  QED
        BY <2>1 DEF Up, Idlers, Live
<1>4. ASSUME NEW i \in Instances, Worker(i) PROVE Up' /\ Idlers' /\ (status = "ready" => status' = "ready")
  <2>1. i = bound
        BY <1>1, <1>4, IdleRests
  <2>2. /\ Up' /\ bound' = bound /\ Elsewhere(bound)
        /\ status = "ready" => status' = "ready"
        BY <1>4, <2>1, UpWorker
  <2>.  QED
        BY <1>1, <2>2 DEF Idlers, Elsewhere
<1>5. ASSUME NEW p \in Processes, Backend(p) PROVE Up' /\ Idlers' /\ (status = "ready" => status' = "ready")
      BY <1>5, UpBackend DEF Idlers
<1>.  QED
      BY <1>2, <1>3, <1>4, <1>5 DEF DrilledStep

LEMMA QuitLives ==
  ASSUME TypeOK, NEW ps, process' = Quit(ps)
  PROVE  Live' = Live /\ Listening' = Listening
  BY QuitFacts DEF Live, Listening

\* Of a stopped one, the backend ends first.
LEMMA DownWorker ==
  ASSUME Invariant, Down, app, Worker(bound), faults' = faults
  PROVE  /\ Down' /\ app' /\ bound' = bound /\ Elsewhere(bound) /\ UNCHANGED <<tool, captured, abort>>
         /\ Live' = Live /\ (status = "stopped" => status' = "stopped")
<1>  DEFINE i == bound
            s == service[i]
<1>1. TypeOK /\ i \in Instances
      BY DEF Invariant, Down, TypeOK
<1>2. UNCHANGED <<wanted, app, bound, main, tool, captured, abort, taps>> /\ app
      BY <1>1, WorkerSteps DEF Calls
<1>3. CASE Serving(i)
  <2>1. /\ s.pc = "serving" /\ ~s.interrupted /\ s.stopping /\ Live \subseteq {s.backend}
        /\ ~s.destroy /\ s.queue = 0 /\ status = "stopping" /\ main # "destroy"
        BY <1>3 DEF Serving, At, Down
  <2>2. /\ process[s.backend].st = "gone" /\ Go(i, "finish") /\ status' = "stopped"
        /\ UNCHANGED process
        BY <1>3, <2>1 DEF Serving
  <2>3. Live = {} /\ Live' = {}
        BY <2>1, <2>2 DEF Live
  <2>4. Frozen(i) /\ Elsewhere(i) /\ Kept(i) /\ service'[i].pc = "finish"
        BY <1>1, <2>2, GoFacts, GoFreezes
  <2>5. main = "idle"
        BY <1>1, <2>1, <2>2 DEF Down, TypeOK
  <2>.  QED
        BY <1>2, <2>1, <2>2, <2>3, <2>4, <2>5 DEF Down, Frozen, Kept
<1>4. CASE Finish(i)
  <2>1. s.pc = "finish" /\ UNCHANGED status
        BY <1>4 DEF Finish, At
  <2>2. Elsewhere(i) /\ service'[i].pc = "close" /\ service'[i].queue = s.queue
        BY <1>1, <1>4, FinishFacts
  <2>3. Frozen(i)
        BY <1>1, <1>4, <2>1, WorkerFreezes DEF Worker
  <2>4. Live' = Live
        BY <1>1, <1>4, QuitLives DEF Finish
  <2>.  QED
        BY <1>2, <2>1, <2>2, <2>3, <2>4 DEF Down, Frozen
<1>5. CASE CloseTask(i)
  <2>1. /\ Elsewhere(i) /\ Kept(i) /\ s.pc = "close" /\ service'[i].pc = "idle"
        BY <1>1, <1>5, CloseFacts
  <2>2. UNCHANGED <<status, process>> /\ Live' = Live
        BY <1>5 DEF CloseTask, Live
  <2>3. service'[i].stopping = s.stopping
    <3>  DEFINE mine == i = bound
    <3>1. service'[i] = [s EXCEPT !.monitor = FALSE, !.pc = "idle", !.interrupted = FALSE,
                                  !.destroy = mine]
          BY <1>1, <1>5 DEF CloseTask, TypeOK
    <3>.  HIDE DEF mine
    <3>.  QED
          BY <1>1, <3>1 DEF TypeOK, ServiceType
  <2>.  QED
        BY <1>2, <2>1, <2>2, <2>3 DEF Down, Kept
<1>6. s.queue = 0 /\ s.pc \in {"serving", "finish", "close", "idle"}
      BY DEF Down
<1>.  QED
      BY <1>3, <1>4, <1>5, <1>6
      DEF Worker, Begin, Reap, Prepare, Look, Spawn, Started, Await, Ready, Rejected, At

LEMMA DownMain ==
  ASSUME Invariant, Idlers, Down, app, MainThread
  PROVE  /\ app' /\ Idlers' /\ Live' = Live /\ UNCHANGED <<status, tool, captured, abort>>
         /\ Down' \/ (bound' = 0 /\ status = "stopped")
<1>  DEFINE i == bound
            s == service[i]
<1>1. TypeOK /\ i \in Instances /\ s \in ServiceType
      BY DEF Invariant, Down, TypeOK
<1>2. CASE StopRuntime
  <2>1. /\ Elsewhere(i) /\ Kept(i) /\ service'[i].pc = s.pc
        BY <1>1, <1>2, StopRuntimeFacts
  <2>2. /\ s.pc = "serving" /\ s.running /\ ~s.interrupted /\ ~s.destroy /\ s.stopping
        /\ s.queue = 0 /\ status = "stopping" /\ Live \subseteq {s.backend}
        BY <1>2 DEF StopRuntime, Down
  <2>3. /\ main' = "idle" /\ UNCHANGED <<status, app, bound, tool, captured, abort>>
        BY <1>2 DEF StopRuntime, Prefs, Calls
  <2>4. Live' = Live
        BY <1>1, <1>2, QuitLives DEF StopRuntime
  <2>5. ~service'[i].destroy /\ service'[i].stopping /\ ~service'[i].interrupted
    <3>  DEFINE runtime == CancelRuntime(i)
                destroy == s.destroy \/ ~s.running
    <3>1. service'[i] = [s EXCEPT !.runtime = runtime, !.destroy = destroy]
          BY <1>1, <1>2 DEF StopRuntime, TypeOK
    <3>2. destroy = FALSE
          BY <2>2
    <3>.  HIDE DEF runtime, destroy
    <3>.  QED
          BY <1>1, <2>2, <3>1, <3>2 DEF ServiceType
  <2>6. Idlers'
        BY <2>1, <2>3 DEF Idlers, Elsewhere
  <2>.  QED
        BY <1>1, <2>1, <2>2, <2>3, <2>4, <2>5, <2>6 DEF Down, Kept
<1>3. CASE DestroyBegins
  <2>1. /\ Elsewhere(i) /\ Kept(i) /\ bound' = i /\ service'[i].pc = s.pc
        BY <1>1, <1>3, StopFacts
  <2>2. s.destroy /\ s.pc = "idle" /\ status = "stopped" /\ Live = {} /\ s.queue = 0
        BY <1>3 DEF DestroyBegins, Down
  <2>3. /\ main' = "destroy" /\ app' /\ UNCHANGED <<status, process, tool, captured, abort>>
        BY <1>3 DEF DestroyBegins, Prefs, Calls
  <2>4. service'[i].stopping
        BY <1>1, <1>3 DEF DestroyBegins, TypeOK, ServiceType
  <2>5. Live' = Live /\ Idlers'
        BY <2>1, <2>3 DEF Idlers, Elsewhere, Live
  <2>.  QED
        BY <1>1, <2>1, <2>2, <2>3, <2>4, <2>5 DEF Down, Kept
<1>4. CASE DestroyEnds
  <2>1. /\ Elsewhere(i) /\ bound' = 0 /\ service'[i].pc = s.pc
        BY <1>1, <1>4, DestroyEndsFacts
  <2>2. s.pc = "idle" /\ status = "stopped"
        BY <1>4 DEF DestroyEnds, Down
  <2>3. app' /\ UNCHANGED <<status, tool, captured, abort>>
        BY <1>4 DEF DestroyEnds, Prefs, Calls
  <2>4. Live' = Live
        BY <1>1, <1>4, QuitLives DEF DestroyEnds
  <2>5. Idlers'
        BY <2>1, <2>2 DEF Idlers, Elsewhere
  <2>.  QED
        BY <2>1, <2>2, <2>3, <2>4, <2>5
<1>.  QED
      BY <1>2, <1>3, <1>4 DEF MainThread

LEMMA DownBackend ==
  ASSUME Invariant, Down, app, NEW p \in Processes, Backend(p)
  PROVE  /\ Down' /\ app' /\ UNCHANGED <<service, bound, status>>
         /\ Live' \subseteq Live /\ Live # {}
<1>1. TypeOK /\ bound \in Instances
      BY DEF Invariant, Down, TypeOK
<1>  DEFINE b == service[bound].backend
<1>2. /\ p = b /\ Live = {b} /\ service[bound].pc = "serving"
      /\ main = "stop" => process[b].st = "listening" /\ ~process[b].quit
      BY <1>1, BackendMoves DEF Down
<1>3. main # "stop"
      BY <1>1, <1>2, BackendMoves
<1>4. PICK st : ProcessMoves(p, st)
      BY <1>1, BackendMoves
<1>5. UNCHANGED <<wanted, status, app, bound, main, service, taps>>
      BY <1>1, BackendMoves
<1>6. Live' \subseteq Live
      BY <1>2, <1>4 DEF ProcessMoves, Live
<1>7. Down'
      BY <1>2, <1>3, <1>5, <1>6 DEF Down
<1>.  QED
      BY <1>2, <1>5, <1>6, <1>7

LEMMA EndingStep ==
  ASSUME Invariant, Idlers, Ending, DrilledStep, faults' = faults, abort = "none"
  PROVE  /\ Ending' /\ Idlers' /\ (Live = {} => Live' = {})
         /\ status = "stopped" => status' = "stopped"
         /\ status # "stopped" /\ bound # 0 => bound' # 0
<1>1. TypeOK /\ InstanceInv /\ app
      BY DEF Invariant, Ending
<1>2. CASE \E t \in Tools : CallEnds(t)
  <2>1. UNCHANGED <<wanted, status, app, bound, main, service, taps, process>>
        BY <1>2 DEF CallEnds, Untouched, Prefs
  <2>.  QED
        BY <2>1 DEF Ending, Down, Idlers, Live
<1>3. CASE bound = 0 /\ Live = {}
  <2>1. ~MainThread
        BY <1>1, <1>3 DEF TypeOK, MainThread, StopRuntime, DestroyBegins, DestroyEnds
  <2>2. ~\E i \in Instances : Worker(i)
        BY <1>1, <1>3, IdleRests, ServiceAssumption
  <2>3. ~\E p \in Processes : Backend(p)
        BY <1>1, <1>3, BackendMoves
  <2>.  QED
        BY <1>2, <2>1, <2>2, <2>3 DEF DrilledStep, Abort, AbortCancels, AbortMarks
<1>4. CASE Down
  <2>1. bound # 0 /\ bound \in Instances
        BY <1>1, <1>4 DEF Down, TypeOK
  <2>2. CASE MainThread
    <3>1. Down' => bound' # 0
          BY DEF Down
    <3>.  QED
      <4>1. /\ app' /\ Idlers' /\ Live' = Live /\ UNCHANGED <<status, tool, captured, abort>>
            /\ Down' \/ (bound' = 0 /\ status = "stopped")
            BY <1>1, <1>4, <2>2, DownMain
      <4>2. status = "stopped" => Live = {}
            BY <1>4 DEF Down
      <4>.  QED
            BY <3>1, <4>1, <4>2 DEF Ending
  <2>3. ASSUME NEW i \in Instances, Worker(i) PROVE i = bound
        BY <1>1, <2>3, IdleRests
  <2>4. CASE Worker(bound)
    <3>1. Idlers'
          BY <1>1, <1>4, <2>1, <2>4, DownWorker DEF Idlers, Elsewhere
    <3>.  QED
          BY <1>1, <1>4, <2>1, <2>4, <3>1, DownWorker DEF Ending
  <2>5. ASSUME NEW p \in Processes, Backend(p)
        PROVE  /\ Down' /\ app' /\ Live # {} /\ UNCHANGED <<service, bound, status>>
        BY <1>1, <1>4, <2>5, DownBackend
  <2>6. CASE \E p \in Processes : Backend(p)
        BY <2>5, <2>6 DEF Ending, Idlers
  <2>.  QED
        BY <1>2, <2>2, <2>3, <2>4, <2>6 DEF DrilledStep, Abort, AbortCancels, AbortMarks
<1>.  QED
      BY <1>3, <1>4 DEF Ending

\* What a script has reached, or its end.
Task == IF drill.at <= Len(Script(drill)) THEN Script(drill)[drill.at] ELSE "end"

\* The one backend that lives listens, and has not been told to end.
Steady == \E p \in Listening : Live = {p} /\ ~process[p].quit

\* Before which operations of the three scripts of the app it is in which phase.
ServiceAt ==
  /\ Task = "force" => IF drill.at = 1 THEN bound = 0 /\ Live = {} /\ ~wanted
                                       ELSE Up /\ status = "ready"
  /\ Task = "open" => ~app /\ Live = {} /\ (wanted <=> drill.at # 2)
  /\ Task = "start" => Ending /\ Live = {}
  /\ Task = "ready" => Up
  /\ Task \in {"one", "session", "call", "stop", "abort", "answer", "childless", "recovered"} =>
       Up /\ status = "ready"
  /\ Task \in {"stopped", "exited", "empty"} => Ending
  /\ Task = "stopped" /\ bound = 0 => status = "stopped"
  /\ Task = "empty" => Live = {}

\* An isolated backend listens from the moment it is healthy until it is killed or told to
\* end, and the call that outlived the first one is still listed as running.
IsolatedAt ==
  /\ Task = "healthy" =>
       \E p \in Live : Live = {p} /\ process[p].st # "shell" /\ ~process[p].quit /\ ~process[p].recover
  /\ Task \in {"call", "kill", "orphan", "abort", "answer", "childless", "settled", "term"} => Steady
  /\ Task = "kill" => \E t \in Tools : tool[t].st = "running" /\ tool[t].child
  /\ drill.name = "crash" /\ drill.at \in 5 .. 7 =>
       \E t \in Tools : tool[t].st = "running" /\ tool[t].by = 0

\* The call below which the app was stopped is running until the next backend recovers it.
NativeAt ==
  /\ Task = "call" => \A t \in Tools : tool[t].st = "none" /\ tool[t].by = 0
  /\ Task \in {"stop", "exited", "start", "ready", "recovered"} =>
       \A t \in Tools : tool[t].st \in {"none", "running", "recovered"}
  /\ Task \in {"stop", "exited"} => \A t \in Tools : tool[t].by # 0 => tool[t].child
  /\ Task \in {"start", "ready", "recovered"} =>
       \A t \in Tools : /\ tool[t].by = 0
                        /\ tool[t].st = "running" =>
                             \A p \in Processes : process[p].st \notin {"recovered", "listening"}

\* An abort leaves no command, and then no call that is listed as running.
AbortAt ==
  /\ Task = "answer" => /\ abort # "cancel" => \A t \in Tools : ~tool[t].child
                        /\ \A t \in Tools : tool[t].st = "running" => t \in captured
  /\ Task = "childless" => \A t \in Tools : ~tool[t].child
  /\ Task \in {"childless", "settled"} => \A t \in Tools : tool[t].st # "running"

Quiet ==
  /\ ~drill.failed
  /\ Task # "end" =>
       /\ Idlers /\ AbortAt
       /\ IF drill.name \in Isolated THEN IsolatedAt ELSE ServiceAt
       /\ drill.name = "native" => NativeAt

LEMMA UpSteady == Up /\ status = "ready" => Steady
<1>.  SUFFICES ASSUME Up, status = "ready" PROVE Steady
      OBVIOUS
<1>  DEFINE b == service[bound].backend
<1>1. service[bound].pc = "serving"
      BY DEF Up
<1>2. Live = {b} /\ ~process[b].quit /\ process[b].st = "listening"
      BY <1>1 DEF Up
<1>3. b \in Listening
      BY <1>2 DEF Listening
<1>.  QED
      BY <1>2, <1>3 DEF Steady

LEMMA SteadyRests ==
  ASSUME TypeOK, Steady, NEW p \in Processes
  PROVE  ~Backend(p)
<1>1. PICK q \in Listening : Live = {q} /\ ~process[q].quit
      BY DEF Steady
<1>2. process[q].st = "listening"
      BY <1>1 DEF Listening
<1>.  QED
      BY <1>1, <1>2, BackendMoves

LEMMA Unbound ==
  ASSUME TypeOK, InstanceInv, Idlers, bound = 0
  PROVE  ~MainThread /\ \A i \in Instances : ~Worker(i)
<1>1. ~MainThread
      BY DEF TypeOK, MainThread, StopRuntime, DestroyBegins, DestroyEnds
<1>.  QED
      BY <1>1, IdleRests, ServiceAssumption

\* Around a backend that listens, only the calls change.
LEMMA SteadyStep ==
  ASSUME Invariant, Idlers, DrilledStep, (bound = 0 /\ Steady) \/ (Up /\ status = "ready")
  PROVE  /\ Steady /\ UNCHANGED <<wanted, status, app, bound, main, service, process>>
         /\ Abort \/ \E t \in Tools : ~tool[t].child /\ CallEnds(t)
<1>1. TypeOK /\ InstanceInv
      BY DEF Invariant
<1>2. Steady
      BY UpSteady
<1>3. ~MainThread
      BY <1>1, Unbound DEF Up, MainThread, StopRuntime, DestroyBegins, DestroyEnds
<1>4. ASSUME NEW i \in Instances PROVE ~Worker(i)
  <2>1. CASE bound = 0
        BY <1>1, <2>1, Unbound
  <2>2. CASE i # bound
        BY <1>1, <2>2, IdleRests
  <2>3. CASE i = bound /\ bound # 0
    <3>1. /\ service[i].pc = "serving" /\ ~service[i].interrupted
          /\ process[service[i].backend].st = "listening"
          BY <2>3 DEF Up
    <3>.  QED
          BY <3>1
          DEF Worker, Begin, Reap, Prepare, Look, Spawn, Started, Await, Ready, Rejected, Serving,
              Finish, CloseTask, At
  <2>.  QED
        BY <2>1, <2>2, <2>3
<1>5. ~\E p \in Processes : Backend(p)
      BY <1>1, <1>2, SteadyRests
<1>6. Abort \/ \E t \in Tools : ~tool[t].child /\ CallEnds(t)
      BY <1>3, <1>4, <1>5 DEF DrilledStep
<1>.  QED
      BY <1>2, <1>6 DEF Abort, AbortCancels, AbortMarks, CallEnds, Untouched, Prefs

\* Where nothing lives and nothing is bound, nothing moves.
LEMMA Still ==
  ASSUME Invariant, Idlers, bound = 0, Live = {}, abort = "none"
  PROVE  ~DrilledStep
<1>1. TypeOK /\ InstanceInv
      BY DEF Invariant
<1>2. ~\E p \in Processes : Backend(p)
      BY <1>1, BackendMoves
<1>.  QED
      BY <1>1, <1>2, Unbound DEF DrilledStep, Abort, AbortCancels, AbortMarks, CallEnds, Listening

LEMMA TaskFacts ==
  ASSUME DrillInv
  PROVE  /\ Task # "end" => Ahead(Task)
         /\ \A op : Ahead(op) => Task = op
  BY DEF Task, Ahead

LEMMA TaskOps ==
  ASSUME DrillInv, Task # "end"
  PROVE  /\ drill.name \notin Isolated => Task \in ServiceOps
         /\ drill.name \in Isolated => Task \in IsolatedOps
  BY TaskFacts, AheadFacts

LEMMA NoAbort ==
  ASSUME DrillInv, PlaceInv, Task # "answer"
  PROVE  abort = "none"
  BY TaskFacts DEF PlaceInv

\* Below a script the phase stays until the script does something.
LEMMA ServicePhases ==
  ASSUME Invariant, DrillInv, PlaceInv, drill.name \notin Isolated, Task # "end",
         Idlers, ServiceAt, DrilledStep, faults' = faults
  PROVE  Idlers' /\ ServiceAt'
<1>1. Task' = Task /\ drill' = drill
      BY DEF DrilledStep, Task
<1>2. Task \in ServiceOps
      BY TaskOps
<1>3. ~app => bound = 0
      BY DEF Invariant, InstanceInv
<1>4. ~(Task = "open" \/ (Task = "force" /\ drill.at = 1))
      BY <1>3, NoAbort, Still DEF ServiceAt
<1>5. CASE Task \in {"one", "session", "call", "stop", "abort", "answer", "childless",
                     "recovered", "force"}
  <2>1. Up /\ status = "ready"
        BY <1>4, <1>5 DEF ServiceAt
  <2>2. UNCHANGED <<wanted, status, app, bound, main, service, process>>
        BY <2>1, SteadyStep
  <2>3. Up' /\ status' = "ready" /\ Idlers'
        BY <2>1, <2>2 DEF Up, Live, Idlers
  <2>.  QED
        BY <1>1, <1>4, <1>5, <2>3 DEF ServiceAt
<1>6. CASE Task = "ready"
      BY <1>1, <1>6, UpStep DEF ServiceAt
<1>7. CASE Task \in {"start", "stopped", "exited", "empty"}
  <2>1. Ending /\ abort = "none"
        BY <1>7, NoAbort DEF ServiceAt
  <2>2. /\ Ending' /\ Idlers' /\ (Live = {} => Live' = {})
        /\ status = "stopped" => status' = "stopped"
        /\ status # "stopped" /\ bound # 0 => bound' # 0
        BY <2>1, EndingStep
  <2>.  QED
        BY <1>1, <1>7, <2>2 DEF ServiceAt
<1>.  QED
      BY <1>2, <1>4, <1>5, <1>6, <1>7 DEF ServiceOps

\* The calls, while no abort is under way and no command has ended.
LEMMA CallsFreeze ==
  ASSUME Invariant, DrilledStep, abort = "none"
  PROVE  \/ UNCHANGED tool /\ UNCHANGED <<captured, abort>>
         \/ \E p \in Processes : Backend(p)
         \/ \E t \in Tools : ~tool[t].child /\ CallEnds(t)
  BY WorkerSteps
  DEF Invariant, DrilledStep, MainThread, StopRuntime, DestroyBegins, DestroyEnds, Calls, Abort,
      AbortCancels, AbortMarks

LEMMA EndsListening ==
  ASSUME Invariant, NEW t \in Tools, CallEnds(t)
  PROVE  tool[t].st = "running" /\ tool[t].by \in Listening /\ tool[t].by # 0
  BY ServiceAssumption DEF CallEnds, Listening, Live

LEMMA IsolatedPhases ==
  ASSUME Invariant, DrillInv, PlaceInv, drill.name \in Isolated, Task # "end",
         Idlers, IsolatedAt, DrilledStep
  PROVE  Idlers' /\ IsolatedAt'
<1>1. Task' = Task /\ drill' = drill
      BY DEF DrilledStep, Task
<1>2. Task \in IsolatedOps /\ bound = 0 /\ TypeOK /\ InstanceInv
      BY TaskOps DEF PlaceInv, Invariant
<1>3. /\ ~MainThread /\ \A i \in Instances : ~Worker(i)
      BY <1>2, Unbound
<1>4. UNCHANGED <<wanted, status, app, bound, main, service>>
      BY <1>2, <1>3, BackendMoves
      DEF DrilledStep, Abort, AbortCancels, AbortMarks, CallEnds, Untouched, Prefs
<1>5. Idlers'
      BY <1>4 DEF Idlers
<1>6. Task # "serve"
  <2>1. Task = "serve" => Live = {} /\ abort = "none"
        BY TaskFacts, NoAbort DEF PlaceInv
  <2>.  QED
        BY <1>2, <2>1, Still
\* What an abort, a call or a backend that is alone does to the call that outlived the first.
<1>7. drill.name = "crash" /\ drill.at \in 5 .. 7 => Task \in {"serve", "healthy", "orphan"}
      BY OrderFacts DEF OrderAt, DrillInv, Task
<1>8. ASSUME drill.name = "crash", drill.at \in 5 .. 7, abort = "none",
             NEW p \in Live, Live = {p}, ~process[p].quit, ~process[p].recover
      PROVE  (\E t \in Tools : tool[t].st = "running" /\ tool[t].by = 0)'
  <2>1. PICK t \in Tools : tool[t].st = "running" /\ tool[t].by = 0
        BY <1>8 DEF IsolatedAt
  <2>2. ASSUME NEW u \in Tools, CallEnds(u)
        PROVE  tool'[t] = tool[t]
        BY <1>2, <2>1, <2>2, EndsListening, EndsFacts
  <2>3. ASSUME NEW q \in Processes, Backend(q)
        PROVE  tool'[t].st = "running" /\ tool'[t].by = 0
    <3>1. q = p
          BY <1>2, <1>8, <2>3, BackendMoves
    <3>2. UNCHANGED tool \/ Recover(p)
          BY <1>2, <1>8, <2>3, <3>1, BackendMoves DEF Calls
    <3>3. CASE Recover(p)
          BY <1>2, <1>8, <2>1, <3>1, <3>3, RecoverFacts
    <3>.  QED
          BY <2>1, <3>2, <3>3
  <2>4. tool'[t].st = "running" /\ tool'[t].by = 0
        BY <1>8, <2>1, <2>2, <2>3, CallsFreeze
  <2>.  QED
        BY <2>4
<1>9. CASE Task = "healthy"
  <2>1. PICK p \in Live : Live = {p} /\ process[p].st # "shell" /\ ~process[p].quit /\ ~process[p].recover
        BY <1>9 DEF IsolatedAt
  <2>2. abort = "none"
        BY <1>9, NoAbort
  <2>3. (\E q \in Live : Live = {q} /\ process[q].st # "shell" /\ ~process[q].quit /\ ~process[q].recover)'
    <3>1. ASSUME NEW q \in Processes, Backend(q)
          PROVE  /\ p \in Live' /\ Live' = {p} /\ process'[p].st # "shell"
                 /\ ~process'[p].quit /\ ~process'[p].recover
      <4>1. q = p
            BY <1>2, <2>1, <3>1, BackendMoves
      <4>2. PICK st \in {"recovered", "listening"} : ProcessMoves(p, st)
            BY <1>2, <2>1, <3>1, <4>1, BackendMoves
      <4>.  QED
            BY <2>1, <4>2 DEF ProcessMoves, Live
    <3>2. CASE Abort \/ \E t \in Tools : CallEnds(t)
      <4>1. UNCHANGED process
            BY <3>2 DEF Abort, AbortCancels, AbortMarks, CallEnds, Untouched
      <4>.  QED
            BY <2>1, <4>1 DEF Live
    <3>.  QED
          BY <1>3, <3>1, <3>2 DEF DrilledStep
  <2>.  QED
        BY <1>1, <1>5, <1>8, <1>9, <2>1, <2>2, <2>3 DEF IsolatedAt
<1>10. CASE Task \in {"call", "kill", "orphan", "abort", "answer", "childless", "settled", "term"}
  <2>1. Steady
        BY <1>10 DEF IsolatedAt
  <2>2. /\ UNCHANGED process
        /\ Abort \/ \E t \in Tools : ~tool[t].child /\ CallEnds(t)
        BY <1>2, <2>1, SteadyStep
  <2>3. Steady'
        BY <2>1, <2>2 DEF Steady, Listening, Live
  <2>4. ASSUME Task = "kill" PROVE (\E t \in Tools : tool[t].st = "running" /\ tool[t].child)'
    <3>1. PICK t \in Tools : tool[t].st = "running" /\ tool[t].child
          BY <2>4 DEF IsolatedAt
    <3>2. PICK u \in Tools : ~tool[u].child /\ CallEnds(u)
          BY <2>2, <2>4, NoAbort DEF Abort, AbortCancels, AbortMarks
    <3>3. tool'[t] = tool[t]
          BY <1>2, <3>1, <3>2, EndsFacts
    <3>.  QED
          BY <3>1, <3>3
  <2>5. ASSUME drill.name = "crash", drill.at \in 5 .. 7
        PROVE  (\E t \in Tools : tool[t].st = "running" /\ tool[t].by = 0)'
    <3>1. Task \in {"serve", "healthy", "orphan"}
          BY <1>7, <2>5
    <3>2. PICK t \in Tools : tool[t].st = "running" /\ tool[t].by = 0
          BY <2>5 DEF IsolatedAt
    <3>3. PICK u \in Tools : ~tool[u].child /\ CallEnds(u)
          BY <1>10, <2>2, <3>1, NoAbort DEF Abort, AbortCancels, AbortMarks
    <3>4. tool'[t] = tool[t]
          BY <1>2, <3>2, <3>3, EndsListening, EndsFacts
    <3>.  QED
          BY <3>2, <3>4
  <2>.  QED
        BY <1>1, <1>5, <1>10, <2>3, <2>4, <2>5 DEF IsolatedAt
<1>11. CASE Task = "exited"
  <2>1. ~(drill.name = "crash" /\ drill.at \in 5 .. 7)
        BY <1>11, <1>7
  <2>.  QED
        BY <1>1, <1>5, <1>11, <2>1 DEF IsolatedAt
<1>.  QED
      BY <1>2, <1>6, <1>9, <1>10, <1>11 DEF IsolatedOps

LEMMA NativePhases ==
  ASSUME Invariant, DrillInv, PlaceInv, drill.name = "native", Task # "end",
         Idlers, ServiceAt, NativeAt, DrilledStep, faults' = faults
  PROVE  NativeAt'
<1>1. Task' = Task
      BY DEF DrilledStep, Task
<1>2. TypeOK /\ InstanceInv
      BY DEF Invariant
<1>3. CASE Task \in {"call", "stop", "recovered"}
  <2>1. Up /\ status = "ready" /\ abort = "none"
        BY <1>3, NoAbort DEF ServiceAt
  <2>2. PICK t \in Tools : ~tool[t].child /\ CallEnds(t)
        BY <2>1, SteadyStep DEF Abort, AbortCancels, AbortMarks
  <2>3. tool[t].st = "running" /\ tool[t].by # 0
        BY <2>2, EndsListening
  <2>.  QED
        BY <1>3, <2>2, <2>3 DEF NativeAt
<1>4. ASSUME Task \in {"exited", "start", "ready"}, NEW t \in Tools
      PROVE  tool[t].child \/ ~CallEnds(t)
      BY <1>4, EndsListening DEF NativeAt
<1>5. CASE Task = "exited"
  <2>1. abort = "none"
        BY <1>5, NoAbort
  <2>2. \A t \in Tools : /\ tool[t].st \in {"none", "running", "recovered"}
                         /\ tool[t].by # 0 => tool[t].child
        BY <1>5 DEF NativeAt
  <2>3. ASSUME NEW p \in Processes, Backend(p), NEW t \in Tools
        PROVE  /\ tool'[t].st \in {"none", "running", "recovered"}
               /\ tool'[t].by # 0 => tool'[t].child
    <3>1. CASE UNCHANGED Calls
          BY <2>2, <3>1 DEF Calls
    <3>2. CASE Recover(p)
          BY <1>2, <2>2, <3>2, RecoverFacts
    <3>3. CASE Die(p)
          BY <1>2, <2>2, <3>3, DieFacts
    <3>.  QED
          BY <1>2, <2>3, <3>1, <3>2, <3>3, BackendMoves
  <2>4. ASSUME NEW t \in Tools
        PROVE  /\ tool'[t].st \in {"none", "running", "recovered"}
               /\ tool'[t].by # 0 => tool'[t].child
        BY <1>4, <1>5, <2>1, <2>2, <2>3, CallsFreeze
  <2>.  QED
        BY <1>1, <1>5, <2>4 DEF NativeAt
<1>6. ASSUME Task \in {"start", "ready"}, UNCHANGED tool,
             \A p \in Processes : process'[p].st \in {process[p].st, "shell", "proot"}
      PROVE  NativeAt'
      BY <1>1, <1>6 DEF NativeAt
<1>7. CASE Task = "start"
  <2>1. Ending /\ Live = {} /\ abort = "none"
        BY <1>7, NoAbort DEF ServiceAt
  <2>2. Live' = {}
        BY <2>1, EndingStep
  <2>3. ~\E p \in Processes : Backend(p)
        BY <1>2, <2>1, BackendMoves
  <2>4. UNCHANGED tool
        BY <1>4, <1>7, <2>1, <2>3, CallsFreeze
  <2>5. \A p \in Processes : process'[p].st = process[p].st
        BY <2>1, <2>2 DEF Live
  <2>.  QED
        BY <1>6, <1>7, <2>4, <2>5
<1>8. CASE Task = "ready"
  <2>1. Up /\ abort = "none"
        BY <1>8, NoAbort DEF ServiceAt
  <2>2. ~MainThread /\ bound \in Instances
        BY <1>2, <2>1 DEF MainThread, StopRuntime, DestroyBegins, DestroyEnds, Up, TypeOK
  <2>3. ASSUME NEW i \in Instances, Worker(i) PROVE NativeAt'
    <3>1. i = bound
          BY <1>2, <2>3, IdleRests
    <3>.  QED
          BY <1>6, <1>8, <2>1, <2>3, <3>1, UpWorker
  <2>4. ASSUME NEW p \in Processes, Backend(p) PROVE NativeAt'
    <3>1. /\ \A t \in Tools : tool[t].st \in {"none", "running", "recovered"} /\ tool[t].by = 0
          /\ \A t \in Tools : tool[t].st = "running" =>
               \A q \in Processes : process[q].st \notin {"recovered", "listening"}
          BY <1>8 DEF NativeAt
    <3>2. ~(process[p].quit \/ \E q \in Live : q # p) /\ process[p].recover
      <4>1. p \in Live
            BY <1>2, <2>4, BackendMoves
      <4>2. Live = {service[bound].backend} /\ ~process[service[bound].backend].quit
            /\ process[service[bound].backend].recover
            BY <2>1, <4>1 DEF Up
      <4>.  QED
            BY <4>1, <4>2
    <3>3. CASE process[p].st = "shell" /\ ProcessMoves(p, "proot") /\ UNCHANGED Calls
          BY <1>6, <1>8, <3>3 DEF ProcessMoves, Calls
    <3>4. CASE Recover(p)
      <4>1. \A t \in Tools : /\ tool'[t].st \in {"none", "recovered"} /\ tool'[t].by = 0
            BY <1>2, <3>1, <3>2, <3>4, RecoverFacts
      <4>.  QED
            BY <1>1, <1>8, <4>1 DEF NativeAt
    <3>5. CASE process[p].st = "recovered" /\ UNCHANGED Calls
      <4>1. \A t \in Tools : tool'[t].st \in {"none", "recovered"} /\ tool'[t].by = 0
            BY <3>1, <3>5 DEF Calls
      <4>.  QED
            BY <1>1, <1>8, <4>1 DEF NativeAt
    <3>.  QED
          BY <1>2, <2>4, <3>2, <3>3, <3>4, <3>5, BackendMoves
  <2>5. ~(Abort \/ \E t \in Tools : ~tool[t].child /\ CallEnds(t))
        BY <1>4, <1>8, <2>1 DEF Abort, AbortCancels, AbortMarks
  <2>.  QED
        BY <2>2, <2>3, <2>4, <2>5 DEF DrilledStep
<1>9. CASE Task \notin {"call", "stop", "recovered", "exited", "start", "ready"}
      BY <1>1, <1>9 DEF NativeAt
<1>.  QED
      BY <1>3, <1>5, <1>7, <1>8, <1>9

\* An abort ends what it has read, and a call that has ended stays so.
LEMMA AbortPhases ==
  ASSUME Invariant, DrillInv, PlaceInv, Task # "end", Idlers, AbortAt,
         IF drill.name \in Isolated THEN IsolatedAt ELSE ServiceAt, DrilledStep
  PROVE  AbortAt'
<1>1. Task' = Task
      BY DEF DrilledStep, Task
<1>2. TypeOK /\ CallInv
      BY DEF Invariant
<1>3. CASE Task \notin {"answer", "childless", "settled"}
      BY <1>1, <1>3 DEF AbortAt
<1>4. CASE Task \in {"answer", "childless", "settled"}
  <2>1. (bound = 0 /\ Steady) \/ (Up /\ status = "ready")
    <3>1. CASE drill.name \in Isolated
          BY <1>4, <3>1 DEF IsolatedAt, PlaceInv
    <3>2. CASE drill.name \notin Isolated
      <4>1. Task # "settled"
            BY <3>2, TaskOps DEF ServiceOps
      <4>.  QED
            BY <1>4, <3>2, <4>1 DEF ServiceAt
    <3>.  QED
          BY <3>1, <3>2
  <2>2. Abort \/ \E t \in Tools : ~tool[t].child /\ CallEnds(t)
        BY <2>1, SteadyStep
  <2>3. \A t \in Tools : tool[t].child => tool[t].by \in Listening
        BY <1>2, ServiceAssumption DEF CallInv, CallAt, Listening, Live, TypeOK, CallType
  <2>4. CASE AbortCancels
    <3>1. Task = "answer" /\ captured' = captured /\ abort' = "mark"
          BY <1>4, <2>4, NoAbort DEF AbortCancels
    <3>2. \A t \in Tools : tool'[t].st = tool[t].st /\ ~tool'[t].child
          BY <1>2, <2>3, <2>4, CancelsFacts
    <3>.  QED
          BY <1>1, <3>1, <3>2 DEF AbortAt
  <2>5. CASE AbortMarks
    <3>1. Task = "answer" /\ abort = "mark"
          BY <1>4, <2>5, NoAbort DEF AbortMarks
    <3>2. ASSUME NEW t \in Tools
          PROVE  tool'[t].st # "running" /\ ~tool'[t].child
      <4>1. ~tool[t].child /\ (tool[t].st = "running" => t \in captured)
            BY <3>1 DEF AbortAt
      <4>2. tool'[t] = IF t \in captured /\ tool[t].st = "running"
                       THEN [tool[t] EXCEPT !.st = "aborted"] ELSE tool[t]
            BY <2>5 DEF AbortMarks
      <4>3. tool[t] \in CallType
            BY <1>2 DEF TypeOK
      <4>.  QED
            BY <4>1, <4>2, <4>3 DEF CallType
    <3>.  QED
          BY <1>1, <3>1, <3>2 DEF AbortAt
  <2>6. ASSUME NEW u \in Tools, CallEnds(u) PROVE AbortAt'
    <3>1. /\ tool'[u].st \in {"completed", "aborted"} /\ ~tool'[u].child
          /\ \A t \in Tools \ {u} : tool'[t] = tool[t]
          /\ captured' = captured /\ abort' = abort
          BY <1>2, <2>6, EndsFacts DEF CallEnds
    <3>.  QED
          BY <1>1, <1>4, <3>1 DEF AbortAt
  <2>.  QED
        BY <2>2, <2>4, <2>5, <2>6 DEF Abort
<1>.  QED
      BY <1>3, <1>4

\* Below a script everything stays as its place says.
LEMMA QuietPhases ==
  ASSUME Invariant, DrillInv, PlaceInv, Quiet, DrilledStep, faults' = faults
  PROVE  Quiet'
<1>1. Task' = Task /\ drill' = drill
      BY DEF DrilledStep, Task
<1>2. CASE Task = "end"
      BY <1>1, <1>2 DEF Quiet
<1>3. CASE Task # "end"
  <2>1. CASE drill.name \in Isolated
    <3>1. drill.name # "native"
          BY <2>1 DEF Isolated
    <3>.  QED
          BY <1>1, <1>3, <2>1, <3>1, IsolatedPhases, AbortPhases DEF Quiet
  <2>2. CASE drill.name \notin Isolated
        BY <1>1, <1>3, <2>2, ServicePhases, AbortPhases, NativePhases DEF Quiet
  <2>.  QED
        BY <2>1, <2>2
<1>.  QED
      BY <1>2, <1>3

LEMMA Onward ==
  ASSUME DrillInv, DrillInv', Quiet, NEW op, Ahead(op), Advance
  PROVE  /\ Task = op /\ op # "end" /\ drill'.name = drill.name /\ ~drill'.failed
         /\ Task' # "end" =>
              /\ Follows(op, Task')
              /\ op = "open" => Task' = IF drill.at = 2 THEN "start" ELSE "ready"
              /\ Task' = "open" => drill'.at = drill.at + 1
              /\ Task' = "force" => drill'.at # 1
         /\ drill.name = "crash" /\ drill'.at \in 5 .. 7 =>
              op = "kill" \/ (op \in {"serve", "healthy"} /\ drill.at \in 5 .. 6)
<1>1. Task = op /\ op # "end"
      BY TaskFacts, AheadFacts DEF ServiceOps, IsolatedOps
<1>2. ASSUME NEW x, x = Task', x # "end"
      PROVE  /\ Follows(op, x)
             /\ op = "open" => x = IF drill.at = 2 THEN "start" ELSE "ready"
             /\ x = "open" => drill'.at = drill.at + 1
             /\ x = "force" => drill'.at # 1
  <2>1. Ahead(x)'
        BY <1>2 DEF Task, Ahead
  <2>.  QED
        BY <2>1, Leads
<1>.  QED
      BY <1>1, <1>2, Moved DEF Quiet

\* What holds of the next operation is enough, whatever the script does to get there.
LEMMA Reached ==
  ASSUME DrillInv, DrillInv', Quiet, NEW op, Ahead(op), Advance,
         Idlers', drill.name \in Isolated => IsolatedAt', drill.name \notin Isolated => ServiceAt',
         drill.name = "native" => NativeAt', AbortAt'
  PROVE  Quiet'
<1>1. drill'.name = drill.name /\ ~drill'.failed
      BY Onward
<1>.  QED
      BY <1>1 DEF Quiet

LEMMA StartsQuiet ==
  ASSUME Invariant, DrillInv, DrillInv', PlaceInv, Quiet, Ahead("start"), Advance, Settled,
         NEW i \in Instances, StartCommand(i)
  PROVE  Quiet'
<1>1. /\ Task = "start" /\ Task' \in {"ready", "end"} /\ drill.name \notin Isolated
      BY Onward, PlaceFacts DEF Follows
<1>2. /\ Ending /\ Live = {} /\ Idlers /\ (drill.name = "native" => NativeAt)
      BY <1>1 DEF Quiet, ServiceAt
<1>3. bound = 0 /\ TypeOK
      BY <1>2, ServiceAssumption DEF Settled, Ending, Down, Invariant
<1>4. i # bound /\ service[i].pc = "idle" /\ Fields(i) = Idle
      BY <1>3, ServiceAssumption DEF StartCommand, Delivered, Unused, Fields
<1>5. /\ app' /\ main' = "idle" /\ bound' = i /\ wanted' /\ status' = "starting"
      /\ service' = [service EXCEPT ![i] =
           [Idle EXCEPT !.running = TRUE, !.stopping = FALSE, !.queue = 0 + 1]]
      /\ UNCHANGED <<process, tool>>
      BY <1>4 DEF StartCommand, Idle, Calls
<1>6. service'[i] = [Idle EXCEPT !.running = TRUE, !.stopping = FALSE, !.queue = 0 + 1]
      BY <1>3, <1>5 DEF TypeOK
<1>7. Up'
  <2>1. /\ service'[i].running /\ ~service'[i].stopping /\ ~service'[i].destroy
        /\ ~service'[i].interrupted /\ service'[i].monitor /\ service'[i].runtime = "none"
        /\ service'[i].pc = "idle" /\ service'[i].queue = 1
        BY <1>6 DEF Idle
  <2>2. Live' = {}
        BY <1>2, <1>5 DEF Live
  <2>.  QED
        BY <1>5, <2>1, <2>2, ServiceAssumption DEF Up
<1>8. Idlers'
      BY <1>2, <1>3, <1>5, ServiceAssumption DEF Idlers, TypeOK
<1>9. drill.name = "native" => NativeAt'
      BY <1>1, <1>2, <1>5 DEF NativeAt
<1>.  QED
      BY <1>1, <1>7, <1>8, <1>9, Reached DEF ServiceAt, AbortAt

LEMMA StopsQuiet ==
  ASSUME Invariant, DrillInv, DrillInv', PlaceInv, Quiet, Ahead("stop"), Advance,
         NEW i \in Instances, StopCommand(i)
  PROVE  Quiet'
<1>1. /\ Task = "stop" /\ Task' \in {"stopped", "exited", "end"} /\ drill.name \notin Isolated
      BY Onward, PlaceFacts DEF Follows
<1>2. /\ Up /\ status = "ready" /\ Idlers /\ (drill.name = "native" => NativeAt)
      BY <1>1 DEF Quiet, ServiceAt
<1>3. /\ TypeOK /\ InstanceInv /\ i = bound /\ bound # 0
      BY <1>2 DEF StopCommand, Delivered, Up, Invariant
<1>4. /\ app' /\ main' = "stop" /\ bound' = i /\ status' = "stopping"
      /\ service' = [service EXCEPT ![i] = [service[i] EXCEPT !.stopping = TRUE]]
      /\ UNCHANGED <<process, tool>>
      BY <1>2, <1>3 DEF StopCommand, Fields, Calls, Up
<1>5. /\ service[i].pc = "serving" /\ Live = {service[i].backend}
      /\ process[service[i].backend].st = "listening" /\ ~process[service[i].backend].quit
      /\ service[i].running /\ ~service[i].interrupted /\ ~service[i].destroy
      BY <1>2, <1>3 DEF Up
<1>6. /\ service[i].queue = 0 /\ service[i] \in ServiceType
      BY <1>3, <1>5 DEF InstanceInv, InstanceAt, TypeOK
<1>7. /\ service'[i].pc = "serving" /\ service'[i].backend = service[i].backend
      /\ service'[i].running /\ ~service'[i].interrupted /\ ~service'[i].destroy
      /\ service'[i].stopping /\ service'[i].queue = 0
  <2>1. service'[i] = [service[i] EXCEPT !.stopping = TRUE]
        BY <1>3, <1>4 DEF TypeOK
  <2>.  QED
        BY <1>5, <1>6, <2>1 DEF ServiceType
<1>8. Ending' /\ bound' # 0
      BY <1>3, <1>4, <1>5, <1>7 DEF Ending, Down, Live
<1>9. Idlers'
      BY <1>2, <1>3, <1>4 DEF Idlers, TypeOK
<1>10. drill.name = "native" => NativeAt'
      BY <1>1, <1>2, <1>4 DEF NativeAt
<1>.  QED
      BY <1>1, <1>8, <1>9, <1>10, Reached DEF ServiceAt, AbortAt

LEMMA ForcesQuiet ==
  ASSUME Invariant, DrillInv, DrillInv', PlaceInv, Quiet, DrillForces
  PROVE  Quiet'
<1>1. Ahead("force") /\ Advance /\ KillApp(TRUE)
      BY DEF DrillForces, Now, Ahead
<1>2. /\ Task = "force" /\ Task' \in {"open", "end"} /\ drill.name \notin Isolated
      /\ Task' = "open" => drill'.at = drill.at + 1
      BY <1>1, Onward, PlaceFacts DEF Follows
<1>3. IF drill.at = 1 THEN ~wanted ELSE wanted
      BY <1>2 DEF Quiet, ServiceAt, Up
<1>4. ~app' /\ Live' = {} /\ wanted' = wanted /\ Idlers'
  <2>1. /\ ~app' /\ wanted' = wanted /\ service' = [i \in Instances |-> Idle]
        /\ process' = [p \in Processes |-> Gone]
        BY <1>1 DEF KillApp, Prefs
  <2>.  QED
        BY <2>1 DEF Live, Gone, Idlers, Idle
<1>5. Task' = "open" => (wanted' <=> drill'.at # 2)
      BY <1>2, <1>3, <1>4 DEF DrillInv, DrillType
<1>6. ServiceAt' /\ NativeAt' /\ AbortAt'
      BY <1>2, <1>4, <1>5 DEF ServiceAt, NativeAt, AbortAt
<1>.  QED
      BY <1>1, <1>2, <1>4, <1>6, Reached

LEMMA OpensQuiet ==
  ASSUME Invariant, DrillInv, DrillInv', PlaceInv, Quiet, DrillOpens
  PROVE  Quiet'
<1>1. Ahead("open") /\ Advance /\ Reopen
      BY DEF DrillOpens, Now, Ahead
<1>2. /\ Task = "open" /\ drill.name \notin Isolated
      /\ Task' \in {IF drill.at = 2 THEN "start" ELSE "ready", "end"}
      BY <1>1, Onward, PlaceFacts
<1>3. ~app /\ Live = {} /\ (wanted <=> drill.at # 2) /\ Idlers
      BY <1>2 DEF Quiet, ServiceAt
<1>4. /\ TypeOK /\ bound = 0 /\ main = "idle" /\ \A i \in Instances : service[i] = Idle
      BY <1>3 DEF Invariant, InstanceInv, TypeOK
<1>5. app' /\ UNCHANGED <<main, process>> /\ Live' = {} /\ drill.name # "native"
  <2>1. OrderAt(drill) /\ drill.at \in 1 .. Len(Script(drill)) /\ Script(drill)[drill.at] = "open"
        BY <1>1, OrderFacts DEF DrillInv, Ahead, OrderAt
  <2>2. drill.name # "native"
        BY <2>1 DEF OrderAt
  <2>.  QED
        BY <1>1, <1>3, <2>2 DEF Reopen, Live
<1>6. CASE drill.at = 2
  <2>1. UNCHANGED <<bound, service>>
        BY <1>1, <1>3, <1>6 DEF Reopen
  <2>2. Ending' /\ Idlers'
        BY <1>3, <1>4, <1>5, <2>1 DEF Ending, Idlers
  <2>3. ServiceAt'
        BY <1>2, <1>5, <1>6, <2>2 DEF ServiceAt
  <2>.  QED
        BY <1>1, <1>2, <1>5, <1>6, <2>2, <2>3, Reached DEF AbortAt
<1>7. CASE drill.at # 2
  <2>1. /\ bound' = 1 /\ service' = [service EXCEPT ![1].running = TRUE, ![1].queue = 1]
        /\ status' = "starting" /\ wanted'
        BY <1>1, <1>3, <1>7 DEF Reopen
  <2>2. service'[1] = [Idle EXCEPT !.running = TRUE, !.queue = 1]
        BY <1>4, <2>1, ServiceAssumption DEF TypeOK
  <2>3. /\ service'[1].running /\ ~service'[1].stopping /\ ~service'[1].destroy
        /\ ~service'[1].interrupted /\ service'[1].monitor /\ service'[1].runtime = "none"
        /\ service'[1].pc = "idle" /\ service'[1].queue = 1
        BY <2>2 DEF Idle
  <2>4. Up'
        BY <1>4, <1>5, <2>1, <2>3 DEF Up
  <2>5. Idlers'
        BY <1>3, <1>4, <2>1, ServiceAssumption DEF Idlers, TypeOK
  <2>6. ServiceAt'
        BY <1>2, <1>7, <2>4 DEF ServiceAt
  <2>.  QED
        BY <1>1, <1>2, <1>5, <1>7, <2>5, <2>6, Reached DEF AbortAt
<1>.  QED
      BY <1>6, <1>7

\* What a script looks at, it leaves.
LEMMA Unmoved ==
  ASSUME UNCHANGED serviceVars
  PROVE  /\ Up' <=> Up
         /\ Ending' <=> Ending
         /\ Idlers' <=> Idlers
         /\ Steady' <=> Steady
         /\ Live' = Live
         /\ UNCHANGED <<wanted, status, app, bound, main, service, process, tool, captured, abort>>
<1>1. UNCHANGED <<wanted, status, app, bound, main, service, process, tool, captured, abort>>
      BY DEF serviceVars
<1>2. Live' = Live /\ Listening' = Listening
      BY <1>1 DEF Live, Listening
<1>3. Down' <=> Down
      BY <1>1, <1>2 DEF Down
<1>.  QED
      BY <1>1, <1>2, <1>3 DEF Up, Ending, Idlers, Steady

LEMMA WaitsQuiet ==
  ASSUME Invariant, DrillInv, DrillInv', PlaceInv, Quiet, DrillWaits
  PROVE  Quiet'
<1>1. UNCHANGED serviceVars
      BY DEF DrillWaits
<1>2. TypeOK /\ CallInv
      BY DEF Invariant
<1>3. ASSUME Ahead("ready"), Advance \/ Fails, status \in {"ready", "failed"},
             status = "ready" => Advance
      PROVE  Quiet'
  <2>1. Task = "ready" /\ drill.name \notin Isolated
        BY <1>3, TaskFacts, AheadFacts DEF IsolatedOps
  <2>2. Up /\ Idlers /\ (drill.name = "native" => NativeAt)
        BY <2>1 DEF Quiet, ServiceAt
  <2>3. status = "ready" /\ Advance
        BY <1>3, <2>2 DEF Up
  <2>4. Task' \in {"one", "session", "recovered", "force", "end"} /\ (Task' = "force" => drill'.at # 1)
        BY <1>3, <2>3, Onward DEF Follows
  <2>5. /\ Up' /\ status' = "ready" /\ Idlers'
        /\ UNCHANGED <<tool, process>>
        BY <1>1, <2>2, <2>3, Unmoved
  <2>6. ServiceAt'
        BY <2>4, <2>5 DEF ServiceAt
  <2>7. drill.name = "native" => NativeAt'
        BY <2>1, <2>2, <2>4, <2>5 DEF NativeAt
  <2>.  QED
        BY <1>3, <2>1, <2>3, <2>4, <2>5, <2>6, <2>7, Reached DEF AbortAt
<1>4. ASSUME Ahead("stopped"), Advance \/ Fails, status \in {"stopped", "failed"},
             status = "stopped" => Advance
      PROVE  Quiet'
  <2>1. Task = "stopped" /\ drill.name \notin Isolated
        BY <1>4, TaskFacts, AheadFacts DEF IsolatedOps
  <2>2. Ending /\ Idlers /\ (bound = 0 => status = "stopped")
        BY <2>1 DEF Quiet, ServiceAt
  <2>3. status = "stopped" /\ Advance /\ Live = {}
        BY <1>4, <2>2 DEF Ending, Down
  <2>4. Task' \in {"empty", "end"}
        BY <1>4, <2>3, Onward DEF Follows
  <2>5. Ending' /\ Live' = {} /\ Idlers'
        BY <1>1, <2>2, <2>3, Unmoved
  <2>.  QED
        BY <1>4, <2>1, <2>3, <2>4, <2>5, Reached DEF ServiceAt, NativeAt, AbortAt
<1>5. ASSUME Ahead("exited"), Advance, Live = {}
      PROVE  Quiet'
  <2>1. Task = "exited" /\ Task' \in {"start", "serve", "end"}
        BY <1>5, Onward DEF Follows
  <2>2. Idlers' /\ Live' = {} /\ UNCHANGED <<tool, process>>
        BY <1>1, <1>5, <2>1, Unmoved DEF Quiet
  <2>3. drill.name \notin Isolated => ServiceAt'
    <3>1. ASSUME drill.name \notin Isolated PROVE Ending'
          BY <1>1, <2>1, <3>1, Unmoved DEF Quiet, ServiceAt
    <3>.  QED
          BY <2>1, <2>2, <3>1 DEF ServiceAt
  <2>4. drill.name \in Isolated => IsolatedAt'
    <3>1. ~(drill.name = "crash" /\ drill'.at \in 5 .. 7)
          BY <1>5, Onward
    <3>2. drill'.name = drill.name
          BY <1>5, Onward
    <3>.  QED
          BY <2>1, <3>1, <3>2 DEF IsolatedAt
  <2>5. drill.name = "native" => NativeAt'
    <3>1. \A p \in Processes : process'[p].st = "gone"
          BY <2>2 DEF Live
    <3>2. \A t \in Tools : tool'[t].by = 0
          BY <1>2, <1>5, <2>2 DEF CallInv, CallAt, Live, TypeOK, CallType
    <3>3. drill.name = "native" => \A t \in Tools : tool'[t].st \in {"none", "running", "recovered"}
          BY <2>1, <2>2 DEF Quiet, NativeAt
    <3>.  QED
          BY <2>1, <3>1, <3>2, <3>3 DEF NativeAt
  <2>.  QED
        BY <1>5, <2>1, <2>2, <2>3, <2>4, <2>5, Reached DEF AbortAt
<1>6. ASSUME Ahead("healthy"), Advance \/ Fails, Listening # {} \/ Live = {}, Listening # {} => Advance
      PROVE  Quiet'
  <2>1. Task = "healthy" /\ drill.name \in Isolated /\ drill.name # "native"
        BY <1>6, TaskFacts, AheadFacts DEF ServiceOps, Isolated
  <2>2. PICK p \in Live : Live = {p} /\ process[p].st # "shell" /\ ~process[p].quit /\ ~process[p].recover
        BY <2>1 DEF Quiet, IsolatedAt
  <2>3. Steady /\ Advance
        BY <1>6, <2>2 DEF Steady, Listening
  <2>4. Task' \in {"call", "orphan", "end"} /\ drill'.name = drill.name
        BY <1>6, <2>3, Onward DEF Follows
  <2>5. Steady' /\ Idlers' /\ UNCHANGED tool
        BY <1>1, <2>1, <2>3, Unmoved DEF Quiet
  <2>6. drill.name = "crash" /\ drill'.at \in 5 .. 7 =>
          \E t \in Tools : tool[t].st = "running" /\ tool[t].by = 0
    <3>1. drill.name = "crash" /\ drill'.at \in 5 .. 7 => drill.at \in 5 .. 7
          BY <1>6, <2>3, Onward
    <3>.  QED
          BY <2>1, <3>1 DEF Quiet, IsolatedAt
  <2>7. IsolatedAt'
        BY <2>4, <2>5, <2>6 DEF IsolatedAt
  <2>.  QED
        BY <1>6, <2>1, <2>3, <2>4, <2>5, <2>7, Reached DEF AbortAt
<1>7. ASSUME Ahead("answer"), Advance, abort = "none"
      PROVE  Quiet'
  <2>1. Task = "answer" /\ Task' \in {"childless", "end"} /\ drill'.name = drill.name
        BY <1>7, Onward DEF Follows
  <2>2. Idlers' /\ UNCHANGED tool
        BY <1>1, <2>1, Unmoved DEF Quiet
  <2>3. drill.name \notin Isolated => ServiceAt'
    <3>1. drill.name \notin Isolated => Up' /\ status' = "ready"
          BY <1>1, <2>1, Unmoved DEF Quiet, ServiceAt
    <3>.  QED
          BY <2>1, <3>1 DEF ServiceAt
  <2>4. drill.name \in Isolated => IsolatedAt'
    <3>1. drill.name \in Isolated => Steady'
          BY <1>1, <2>1, Unmoved DEF Quiet, IsolatedAt
    <3>2. ~(drill.name = "crash" /\ drill'.at \in 5 .. 7)
          BY <1>7, Onward
    <3>.  QED
          BY <2>1, <3>1, <3>2 DEF IsolatedAt
  <2>5. AbortAt'
    <3>1. \A t \in Tools : ~tool[t].child /\ tool[t].st # "running"
          BY <1>2, <1>7, <2>1 DEF Quiet, AbortAt, CallInv
    <3>.  QED
          BY <2>1, <2>2, <3>1 DEF AbortAt
  <2>.  QED
        BY <1>7, <2>1, <2>2, <2>3, <2>4, <2>5, Reached DEF NativeAt
<1>.  QED
  <2>1. \/ Ahead("ready") /\ ((status = "ready" /\ Advance) \/ (status = "failed" /\ Fails))
        \/ Ahead("stopped") /\ ((status = "stopped" /\ Advance) \/ (status = "failed" /\ Fails))
        \/ Ahead("exited") /\ Live = {} /\ Advance
        \/ Ahead("healthy") /\ ((Listening # {} /\ Advance) \/ (Live = {} /\ Fails))
        \/ Ahead("answer") /\ abort = "none" /\ Advance
        BY DEF DrillWaits, Now, Ahead
  <2>2. Live = {} => Listening = {}
        BY DEF Listening
  <2>.  QED
        BY <1>3, <1>4, <1>5, <1>6, <1>7, <2>1, <2>2

LEMMA AssertsQuiet ==
  ASSUME Invariant, DrillInv, DrillInv', PlaceInv, Quiet, DrillAsserts
  PROVE  Quiet'
<1>1. UNCHANGED serviceVars
      BY DEF DrillAsserts
<1>2. PICK a \in {"one", "empty", "recovered", "childless", "orphan", "settled"} :
        Ahead(a) /\ IF Asserted[a] THEN Advance ELSE Fails
      BY DEF DrillAsserts, Now, Ahead, Asserted
<1>3. /\ Task = a /\ Idlers /\ AbortAt
      /\ IF drill.name \in Isolated THEN IsolatedAt ELSE ServiceAt
      /\ drill.name = "native" => NativeAt
      BY <1>2, TaskFacts DEF Quiet
<1>4. /\ drill.name \notin Isolated => a \in ServiceOps
      /\ drill.name \in Isolated => a \in IsolatedOps
      BY <1>2, AheadFacts
<1>5. /\ drill \in DrillType /\ drill.at \in 1 .. Len(Script(drill)) /\ Script(drill)[drill.at] = a
      /\ OrderAt(drill)
      BY <1>2, OrderFacts DEF DrillInv, Ahead, OrderAt
<1>6. TypeOK /\ CallInv
      BY DEF Invariant
<1>7. Asserted[a]
  <2>1. CASE a = "one"
    <3>1. Up /\ status = "ready"
          BY <1>3, <1>4, <2>1 DEF ServiceAt, IsolatedOps
    <3>2. PICK p \in Listening : Live = {p}
          BY <3>1, UpSteady DEF Steady
    <3>.  QED
          BY <2>1, <3>2 DEF Asserted, Listening
  <2>2. CASE a = "empty"
    <3>1. Live = {}
          BY <1>3, <1>4, <2>2 DEF ServiceAt, IsolatedOps
    <3>.  QED
          BY <2>2, <3>1 DEF Asserted
  <2>3. CASE a = "recovered"
    <3>1. drill.name = "native" /\ drill.name \notin Isolated
          BY <1>5, <2>3 DEF OrderAt, Isolated
    <3>2. NativeAt /\ Up /\ status = "ready"
          BY <1>3, <2>3, <3>1 DEF ServiceAt
    <3>3. PICK p \in Processes : process[p].st = "listening"
          BY <3>2, UpSteady DEF Steady, Listening, Live
    <3>4. \A t \in Tools : tool[t].st \in {"none", "recovered"}
          BY <1>3, <2>3, <3>2, <3>3 DEF NativeAt
    <3>.  QED
          BY <2>3, <3>4 DEF Asserted, Called
  <2>4. CASE a = "childless"
        BY <1>3, <2>4 DEF AbortAt, Asserted, Called
  <2>5. CASE a = "orphan"
    <3>1. drill.name = "crash" /\ drill.at = 7
          BY <1>5, <2>5 DEF OrderAt
    <3>2. \E t \in Tools : tool[t].st = "running"
          BY <1>3, <3>1 DEF IsolatedAt, Isolated
    <3>.  QED
          BY <2>5, <3>2 DEF Asserted
  <2>6. CASE a = "settled"
        BY <1>3, <2>6 DEF AbortAt, Asserted
  <2>.  QED
        BY <2>1, <2>2, <2>3, <2>4, <2>5, <2>6
<1>8. Advance
      BY <1>2, <1>7
<1>9. /\ Task' # "end" => Follows(a, Task')
      /\ ~(drill.name = "crash" /\ drill'.at \in 5 .. 7) /\ drill'.name = drill.name
      BY <1>2, <1>8, Onward
<1>10. /\ Idlers' /\ Live' = Live /\ (Up' <=> Up) /\ (Ending' <=> Ending) /\ (Steady' <=> Steady)
       /\ UNCHANGED <<tool, status>>
      BY <1>1, <1>3, Unmoved
<1>11. Task' \in {"stop", "start", "serve", "session", "settled", "abort", "term", "end"}
      BY <1>9 DEF Follows
<1>12. drill.name \notin Isolated => ServiceAt'
  <2>1. CASE a = "one" /\ drill.name \notin Isolated
    <3>1. Task' \in {"stop", "end"}
          BY <1>9, <2>1 DEF Follows
    <3>.  QED
          BY <1>3, <1>10, <2>1, <3>1 DEF ServiceAt
  <2>2. CASE a = "empty" /\ drill.name \notin Isolated
    <3>1. Task' \in {"start", "serve", "end"}
          BY <1>9, <2>2 DEF Follows
    <3>.  QED
          BY <1>3, <1>10, <2>2, <3>1 DEF ServiceAt
  <2>3. CASE a \in {"recovered", "childless"} /\ drill.name \notin Isolated
    <3>1. Task' \in {"session", "settled", "end"}
          BY <1>9, <2>3 DEF Follows
    <3>.  QED
          BY <1>3, <1>10, <2>3, <3>1 DEF ServiceAt
  <2>.  QED
        BY <1>4, <2>1, <2>2, <2>3 DEF ServiceOps
<1>13. drill.name \in Isolated => IsolatedAt'
  <2>1. drill.name \in Isolated => a \in {"orphan", "childless", "settled"}
        BY <1>4 DEF IsolatedOps
  <2>2. drill.name \in Isolated => Steady'
        BY <1>3, <1>10, <2>1 DEF IsolatedAt
  <2>3. a \in {"orphan", "childless", "settled"} => Task' \in {"abort", "session", "settled", "term", "end"}
        BY <1>9 DEF Follows
  <2>.  QED
        BY <1>9, <2>1, <2>2, <2>3 DEF IsolatedAt
<1>14. drill.name = "native" => NativeAt'
  <2>1. ASSUME drill.name = "native" PROVE a = "recovered"
        BY <1>5, <2>1 DEF OrderAt
  <2>2. a = "recovered" => Task' \notin {"call", "stop", "exited", "start", "ready", "recovered"}
        BY <1>9 DEF Follows
  <2>.  QED
        BY <2>1, <2>2 DEF NativeAt
<1>15. AbortAt'
  <2>1. Task' = "settled" => a = "childless"
        BY <1>9 DEF Follows
  <2>.  QED
        BY <1>3, <1>10, <1>11, <2>1 DEF AbortAt
<1>.  QED
      BY <1>2, <1>8, <1>10, <1>12, <1>13, <1>14, <1>15, Reached

LEMMA CallsQuiet ==
  ASSUME Invariant, DrillInv, DrillInv', PlaceInv, Quiet, DrillCalls
  PROVE  Quiet'
<1>1. PICK op \in {"session", "call", "abort"} :
        /\ Ahead(op) /\ Advance
        /\ \/ op = "session" /\ tool' = [t \in Tools |-> NoCall] /\ Untouched
              /\ UNCHANGED <<process, captured, abort, faults>>
           \/ op = "call" /\ \E t \in Tools : CallBegins(t)
           \/ op = "abort" /\ AbortReads
      BY DEF DrillCalls, Now, Ahead
<1>2. UNCHANGED <<wanted, status, app, bound, main, service, process>>
      BY <1>1 DEF CallBegins, AbortReads, Untouched, Prefs
<1>3. /\ Task = op /\ Idlers
      /\ IF drill.name \in Isolated THEN IsolatedAt ELSE ServiceAt
      /\ drill.name = "native" => NativeAt
      BY <1>1, Onward DEF Quiet
<1>4. /\ op = "session" => Task' \in {"call", "orphan", "end"}
      /\ op = "call" => Task' \in {"stop", "abort", "kill", "end"}
      /\ op = "abort" => Task' \in {"answer", "end"}
      /\ drill'.name = drill.name /\ ~(drill.name = "crash" /\ drill'.at \in 5 .. 7)
      BY <1>1, Onward DEF Follows
<1>5. TypeOK /\ CallInv
      BY DEF Invariant
<1>6. drill.name \notin Isolated => ServiceAt'
  <2>1. ASSUME drill.name \notin Isolated PROVE Up' /\ status' = "ready"
    <3>1. Up /\ status = "ready"
          BY <1>3, <2>1 DEF ServiceAt
    <3>.  QED
          BY <1>2, <3>1 DEF Up, Live
  <2>.  QED
        BY <1>4, <2>1 DEF ServiceAt
\* The call that a script has made.
<1>7. ASSUME NEW t \in Tools, CallBegins(t), op = "call"
      PROVE  /\ tool'[t].st = "running" /\ tool'[t].child
             /\ \A u \in Tools : u = t \/ tool'[u] = tool[u]
      BY <1>5, <1>7 DEF CallBegins, TypeOK
<1>8. drill.name \in Isolated => IsolatedAt'
  <2>1. ASSUME drill.name \in Isolated PROVE Steady' /\ op \in {"call", "abort"}
    <3>1. op \in {"call", "abort"}
          BY <1>1, <2>1, PlaceFacts
    <3>2. Steady
          BY <1>3, <2>1, <3>1 DEF IsolatedAt
    <3>.  QED
          BY <1>2, <3>1, <3>2 DEF Steady, Listening, Live
  <2>2. op = "call" => \E t \in Tools : tool'[t].st = "running" /\ tool'[t].child
        BY <1>1, <1>7
  <2>.  QED
        BY <1>4, <2>1, <2>2 DEF IsolatedAt
<1>9. drill.name = "native" => NativeAt'
  <2>1. CASE op = "session"
    <3>1. \A t \in Tools : tool'[t].st = "none" /\ tool'[t].by = 0
          BY <1>1, <2>1 DEF NoCall
    <3>.  QED
          BY <1>4, <2>1, <3>1 DEF NativeAt
  <2>2. CASE op = "call"
    <3>1. PICK t \in Tools : CallBegins(t)
          BY <1>1, <2>2
    <3>2. drill.name = "native" => \A u \in Tools : tool[u].st = "none" /\ tool[u].by = 0
          BY <1>3, <2>2 DEF NativeAt
    <3>3. drill.name = "native" =>
            \A u \in Tools : /\ tool'[u].st \in {"none", "running", "recovered"}
                             /\ tool'[u].by # 0 => tool'[u].child
          BY <1>7, <2>2, <3>1, <3>2
    <3>.  QED
          BY <1>4, <2>2, <3>3 DEF NativeAt
  <2>3. CASE op = "abort"
        BY <1>4, <2>3 DEF NativeAt
  <2>.  QED
        BY <2>1, <2>2, <2>3
<1>10. AbortAt'
  <2>1. op = "abort" => /\ captured' = {t \in Tools : tool[t].st = "running"} /\ abort' = "cancel"
                        /\ UNCHANGED tool
        BY <1>1 DEF AbortReads
  <2>.  QED
        BY <1>4, <2>1 DEF AbortAt
<1>11. Idlers'
      BY <1>2, <1>3 DEF Idlers
<1>.  QED
      BY <1>1, <1>6, <1>8, <1>9, <1>10, <1>11, Reached

LEMMA ServesQuiet ==
  ASSUME Invariant, DrillInv, DrillInv', PlaceInv, Quiet, DrillServes
  PROVE  Quiet'
<1>1. Ahead("serve") /\ Advance
      BY DEF DrillServes, Now, Ahead
<1>2. /\ Task = "serve" /\ Task' \in {"healthy", "end"} /\ drill.name \in Isolated
      /\ drill.name # "native" /\ drill'.name = drill.name /\ Live = {}
      /\ drill.name = "crash" /\ drill'.at \in 5 .. 7 => drill.at \in 5 .. 7
      BY <1>1, Onward, PlaceFacts DEF Follows, Isolated
<1>3. IsolatedAt /\ Idlers /\ TypeOK
      BY <1>2 DEF Quiet, Invariant
<1>4. /\ NewProcess \in Processes
      /\ process' = [process EXCEPT ![NewProcess] = [Gone EXCEPT !.st = "proot"]]
      /\ UNCHANGED <<bound, service, tool>>
  <2>1. Free # {} /\ Free \subseteq Processes
        BY DEF DrillServes, Free
  <2>.  QED
        BY <2>1 DEF DrillServes, NewProcess, Untouched, Calls
<1>5. /\ process'[NewProcess].st = "proot" /\ ~process'[NewProcess].quit
      /\ ~process'[NewProcess].recover
      /\ \A p \in Processes \ {NewProcess} : process'[p].st = "gone"
      BY <1>2, <1>3, <1>4 DEF TypeOK, Gone, Live
<1>6. NewProcess \in Live' /\ Live' = {NewProcess}
      BY <1>4, <1>5 DEF Live
<1>7. drill.name = "crash" /\ drill'.at \in 5 .. 7 =>
        (\E t \in Tools : tool[t].st = "running" /\ tool[t].by = 0)'
      BY <1>2, <1>3, <1>4 DEF IsolatedAt
<1>8. (\E p \in Live : Live = {p} /\ process[p].st # "shell" /\ ~process[p].quit /\ ~process[p].recover)'
      BY <1>5, <1>6
<1>9. IsolatedAt'
      BY <1>2, <1>7, <1>8 DEF IsolatedAt
<1>10. Idlers'
      BY <1>3, <1>4 DEF Idlers
<1>.  QED
      BY <1>1, <1>2, <1>9, <1>10, Reached DEF AbortAt

LEMMA KillsQuiet ==
  ASSUME Invariant, DrillInv, DrillInv', PlaceInv, Quiet, DrillKills
  PROVE  Quiet'
<1>1. PICK op \in {"kill", "term"} :
        Ahead(op) /\ Advance /\ (op = "kill" => \E p \in Listening : Die(p))
      BY DEF DrillKills, Now, Ahead
<1>2. /\ Task = op /\ drill.name \in Isolated /\ drill.name # "native" /\ drill'.name = drill.name
      /\ Task' \in {"serve", "exited", "end"}
      /\ drill.name = "crash" /\ drill'.at \in 5 .. 7 => op = "kill"
      BY <1>1, Onward, PlaceFacts DEF Follows, Isolated
<1>3. IsolatedAt /\ Idlers /\ TypeOK /\ CallInv
      BY <1>2 DEF Quiet, Invariant
<1>4. op = "kill" => (\E t \in Tools : tool[t].st = "running" /\ tool[t].by = 0)'
  <2>1. SUFFICES ASSUME op = "kill"
                 PROVE  (\E t \in Tools : tool[t].st = "running" /\ tool[t].by = 0)'
        OBVIOUS
  <2>2. PICK t \in Tools : tool[t].st = "running" /\ tool[t].child
        BY <1>2, <1>3, <2>1 DEF IsolatedAt
  <2>3. PICK p \in Listening : Die(p)
        BY <1>1, <2>1
  <2>4. tool[t].by \in Listening
        BY <1>3, <2>2, ServiceAssumption DEF CallInv, CallAt, Listening, Live, TypeOK, CallType
  <2>5. tool[t].by = p /\ p \in Processes
        BY <1>3, <2>3, <2>4 DEF CallInv, Listening, Live
  <2>6. tool'[t].st = "running" /\ tool'[t].by = 0
        BY <1>3, <2>2, <2>3, <2>5, DieFacts
  <2>.  QED
        BY <2>6
<1>5. IsolatedAt'
      BY <1>2, <1>4 DEF IsolatedAt
<1>6. Idlers'
      BY <1>3 DEF DrillKills, Untouched, Idlers
<1>.  QED
      BY <1>1, <1>2, <1>5, <1>6, Reached DEF AbortAt

LEMMA QuietStep ==
  ASSUME Invariant, DrillInv, DrillInv', PlaceInv, Quiet, DrillNext, faults' = faults
  PROVE  Quiet'
<1>1. CASE DrillTaps
      BY <1>1, StartsQuiet, StopsQuiet DEF DrillTaps, Now, Ahead
<1>.  QED
      BY <1>1, ForcesQuiet, OpensQuiet, WaitsQuiet, CallsQuiet, ServesQuiet, KillsQuiet,
         AssertsQuiet, QuietPhases
      DEF DrillNext, DrillStep

\* Where the scripts begin.
LEMMA QuietInit == DrillInit => Quiet
<1>.  SUFFICES ASSUME DrillInit PROVE Quiet
      OBVIOUS
<1>1. /\ wanted = FALSE /\ app /\ bound = 0 /\ Live = {} /\ Idlers
      /\ \A t \in Tools : tool[t].st = "none" /\ tool[t].by = 0
      BY DEF DrillInit, Init, Live, Gone, Idlers, Idle, NoCall
<1>2. /\ drill.at = 1 /\ drill.round = 1 /\ drill.failed = FALSE
      BY DEF DrillInit
<1>3. DrillInv
      BY DrillStart DEF DrillInit
<1>4. Ending
      BY <1>1 DEF Ending
<1>5. Task \in {"force", "start", "serve", "end"}
  <2>1. OrderAt(drill)
        BY <1>3, OrderFacts DEF DrillInv
  <2>.  QED
        BY <1>2, <2>1 DEF OrderAt, Task
<1>6. ServiceAt
      BY <1>1, <1>2, <1>4, <1>5 DEF ServiceAt
<1>7. IsolatedAt
      BY <1>2, <1>5 DEF IsolatedAt
<1>8. NativeAt
      BY <1>1, <1>5 DEF NativeAt
<1>.  QED
      BY <1>1, <1>2, <1>5, <1>6, <1>7, <1>8 DEF Quiet, AbortAt

LEMMA FaultsStay ==
  ASSUME TypeOK, DrillNext, faults' = 0
  PROVE  faults = 0
<1>1. faults' = faults \/ Fault
  <2>1. CASE DrillStep
        BY <2>1
        DEF DrillStep, DrillTaps, DrillForces, DrillOpens, Reopen, DrillWaits, DrillCalls, CallBegins,
            AbortReads, DrillServes, DrillKills, DrillAsserts, serviceVars
  <2>2. ASSUME NEW i \in Instances, Worker(i) PROVE faults' = faults \/ Fault
        BY <2>2
        DEF Worker, Begin, Reap, Prepare, Look, Spawn, Started, Await, Ready, Rejected, Serving, Finish,
            CloseTask
  <2>3. ASSUME NEW p \in Processes, Backend(p) PROVE faults' = faults
        BY <2>3 DEF Backend, Record, Recover, Listen, Dies
  <2>4. CASE MainThread \/ Abort \/ \E t \in Tools : CallEnds(t)
        BY <2>4
        DEF MainThread, StopRuntime, DestroyBegins, DestroyEnds, Abort, AbortCancels, AbortMarks, CallEnds
  <2>.  QED
        BY <2>1, <2>2, <2>3, <2>4 DEF DrillNext, DrilledStep
<1>2. faults \in Nat
      BY ServiceAssumption DEF TypeOK
<1>.  QED
      BY <1>1, <1>2 DEF Fault

LEMMA QuietRests ==
  ASSUME Quiet, UNCHANGED serviceVars, drill' = drill
  PROVE  Quiet'
<1>1. /\ Task' = Task /\ Live' = Live /\ (Up' <=> Up) /\ (Ending' <=> Ending) /\ (Idlers' <=> Idlers)
      /\ (Steady' <=> Steady)
      /\ UNCHANGED <<drill, wanted, status, app, bound, process, tool, captured, abort>>
      BY Unmoved DEF Task
<1>.  QED
      BY <1>1 DEF Quiet, ServiceAt, IsolatedAt, NativeAt, AbortAt

-----------------------------------------------------------------------------
(* Every focus together.                                                   *)

\* What holds in every focus, and in two of them. Of a script that has met a fault only its
\* place is known.
FocusInv ==
  /\ focus \in Focuses /\ Invariant
  /\ focus = "drill" => DrillInv /\ PlaceInv /\ (faults = 0 => Quiet)
  /\ focus = "client" => GuestInv

LEMMA FocusInit == ServiceInit => FocusInv
<1>.  SUFFICES ASSUME ServiceInit PROVE FocusInv
      OBVIOUS
<1>1. Init
      BY DEF ServiceInit, DrillInit
<1>2. Invariant
      BY <1>1, TypeInit, InstanceInit, BackendInit, CallInit DEF Invariant
<1>3. bound = 0 /\ Clean /\ Live = {} /\ abort = "none"
      BY <1>1 DEF Init, Clean, Live, Gone
<1>.  QED
      BY <1>2, <1>3, GuestInit, DrillStart, QuietInit DEF ServiceInit, DrillInit, FocusInv, PlaceInv

LEMMA FocusStep == FocusInv /\ [ServiceNext]_allVars => FocusInv'
<1>.  SUFFICES ASSUME FocusInv, [ServiceNext]_allVars PROVE FocusInv'
      OBVIOUS
<1>1. focus' = focus /\ focus \in Focuses /\ Invariant /\ TypeOK /\ InstanceInv
      BY DEF ServiceNext, Tapped, InSession, Drilled, Guests, allVars, FocusInv, Invariant
<1>2. ASSUME [Next]_serviceVars PROVE Invariant'
      BY <1>1, <1>2, TypeStep, NextMoves, MovesInvariant
<1>3. CASE Tapped \/ InSession
  <2>1. focus # "drill" /\ focus # "client"
        BY <1>3 DEF Tapped, InSession
  <2>.  QED
        BY <1>1, <1>2, <1>3, <2>1, FreeSteps DEF FocusInv
<1>4. CASE Drilled
  <2>1. focus = "drill" /\ DrillNext /\ DrillInv /\ PlaceInv /\ (faults = 0 => Quiet)
        BY <1>4 DEF Drilled, FocusInv
  <2>2. Invariant' /\ DrillInv' /\ PlaceInv'
        BY <1>1, <2>1, DrillKeeps
  <2>3. faults' = 0 => Quiet'
        BY <1>1, <2>1, <2>2, FaultsStay, QuietStep
  <2>.  QED
        BY <1>1, <2>1, <2>2, <2>3 DEF FocusInv
<1>5. CASE Guests
  <2>1. focus = "client" /\ Guest!ClientNext /\ UNCHANGED serviceVars
        BY <1>5 DEF Guests, drillVars
  <2>.  QED
        BY <1>1, <1>2, <2>1, GuestStep DEF FocusInv
<1>6. CASE UNCHANGED allVars
  <2>1. /\ UNCHANGED serviceVars /\ drill' = drill
        /\ job' = job /\ client' = client /\ printed' = printed /\ lost' = lost
        BY <1>6 DEF allVars, drillVars, guestVars
  <2>2. DrillInv /\ PlaceInv => DrillInv' /\ PlaceInv'
        BY <2>1 DEF serviceVars, DrillInv, PlaceInv, Ahead, Clean, Live
  <2>3. (faults = 0 => Quiet) => (faults' = 0 => Quiet')
        BY <2>1, QuietRests DEF serviceVars
  <2>4. GuestInv => GuestInv'
        BY <2>1 DEF GuestInv, GuestAt, Guest!TypeOK, Guest!ClientIsTrue
  <2>.  QED
        BY <1>1, <1>2, <2>1, <2>2, <2>3, <2>4 DEF FocusInv
<1>.  QED
      BY <1>3, <1>4, <1>5, <1>6 DEF ServiceNext

LEMMA Focused == ServiceFairSpec => []FocusInv
  BY FocusInit, FocusStep, PTL DEF ServiceFairSpec

\* The service, the check scripts above it and the clients keep their types, whatever a
\* script does to the app and the backend that the service does not do itself.
THEOREM RunTyped == ServiceFairSpec => []ServiceTypeOK
<1>1. FocusInv => ServiceTypeOK
      BY DEF FocusInv, Invariant, ServiceTypeOK, DrillTypeOK, DrillInv, DrillType, GuestInv
<1>.  QED
      BY <1>1, Focused, PTL

\* At most one backend on record is alive and not told to end, also below a script that stops
\* the app by force, resumes it, and starts and kills backends of its own
\* (check-stock-restart.py, check-runtime-candidate.py).
THEOREM RunSingleBackend == ServiceFairSpec => []OneBackend
<1>1. FocusInv => OneBackend
      BY BackendImplies DEF FocusInv, Invariant
<1>.  QED
      BY <1>1, Focused, PTL

\* A call whose stored state is final has no process left, also below a script that starts
\* calls, aborts them and kills the backend in between (check-job-abort.py,
\* check-runtime-candidate.py).
THEOREM RunStatesAreTrue == ServiceFairSpec => []ToolStateIsTrue
<1>1. FocusInv => ToolStateIsTrue
      BY CallImplies DEF FocusInv, Invariant
<1>.  QED
      BY <1>1, Focused, PTL

\* No assertion of a check script fails, for any number of rounds, of overlapping instances, of
\* processes and of calls, unless the preparation of a runtime fails or a launcher is late with
\* its record (check-stock-restart.py, check-native-stop-recovery.py, check-job-abort.py and
\* check-runtime-candidate.py): what a script has tapped, waited for, killed and aborted so far
\* determines what the service, its backend and the calls are in the middle of.
THEOREM ScriptsTrue == ServiceFairSpec => []ScriptsHold
<1>1. FocusInv => ScriptsHold
      BY DEF FocusInv, Quiet, ScriptsHold, DrillsHold
<1>.  QED
      BY <1>1, Focused, PTL

\* The exit code of a client tells its caller the truth, and every job that exists has an
\* identifier that somebody could read (tinyagent-packages.py and tinyagent-android.py), for
\* any number of runs of the clients, of identifiers and of lost requests and answers.
THEOREM ClientsTrue == ServiceFairSpec => []ClientsAreTrue
<1>1. FocusInv => ClientsAreTrue
      BY DEF FocusInv, ClientsAreTrue, GuestInv
<1>.  QED
      BY <1>1, Focused, PTL
=============================================================================
