----------------------------- MODULE UmJobsProofs -----------------------------
(* That the command of a request is started once and its result goes to the       *)
(* client that asked, for any number of clients, requests and faults.             *)
EXTENDS UmJobs, SequenceTheorems, TLAPS

Someone == Clients \cup {Nobody}

Jobs == [pc : {"input", "done", "accept", "shutdown", "ended"}, running : BOOLEAN,
         client : Someone, id : Nat, dir : Nat, listens : BOOLEAN, claimed : BOOLEAN,
         killSent : BOOLEAN, timedOut : BOOLEAN, signalled : BOOLEAN, limit : BOOLEAN]

Dirs == [request : Someone, pid : BOOLEAN, kill : BOOLEAN, status : Someone,
         done : BOOLEAN, out : BOOLEAN]

Loops == [pc : {"look", "claim", "parse", "watch", "bad", "waits"}, id : Nat, who : Someone]

Commands == [who : Someone, id : Nat,
             stage : {"none", "new", "runs", "ended", "status", "done"}]

Types ==
  /\ cl \in [Clients -> {"new", "queued", "served", "told", "gone"}]
  /\ DOMAIN got = Clients /\ fwd \subseteq Clients /\ backlog \in Seq(Clients)
  /\ d \in Jobs /\ g \in Loops /\ cmd \in Commands
  /\ DOMAIN queue \subseteq Nat /\ queue \in [DOMAIN queue -> Clients]
  /\ DOMAIN res \subseteq Nat /\ res \in [DOMAIN res -> Dirs]
  /\ ran \in [Clients -> Nat] /\ reused \in BOOLEAN

(* Where the request of a client may still be.                                   *)
Waits(c) == \E k \in DOMAIN backlog : backlog[k] = c
Asked(c) == \E i \in DOMAIN queue : queue[i] = c
Taken(c) == g.pc = "parse" /\ g.who = c
Spent(c) == cl[c] # "new" /\ ~Waits(c) /\ ~Asked(c) /\ ~Taken(c)

(* A request is in one place, and its command is not started before it left all. *)
OnePlace ==
  /\ \A k, l \in DOMAIN backlog : backlog[k] = backlog[l] => k = l
  /\ \A i, j \in DOMAIN queue : queue[i] = queue[j] => i = j
  /\ \A c \in Clients :
       /\ cl[c] = "new" => ~Waits(c)
       /\ cl[c] = "new" \/ Waits(c) => ~Asked(c)
       /\ cl[c] = "new" \/ Waits(c) \/ Asked(c) => ~Taken(c)
       /\ ~Spent(c) => ran[c] = 0
       /\ ran[c] <= 1

(* The loop of the guest has one command at a time.                              *)
OneCommand ==
  /\ g.pc = "parse" => g.who \in Clients
  /\ cmd.stage # "none" =>
       g.pc \in {"watch", "waits", "bad"} /\ cmd.id = g.id /\ cmd.who \in Clients /\ Spent(cmd.who)

(* The directory of the job the daemon has is that of its client.                *)
JobsDir ==
  d.client # Nobody =>
    /\ Has(queue, d.dir) => queue[d.dir] = d.client
    /\ Has(res, d.dir) => /\ res[d.dir].request \in {Nobody, d.client}
                          /\ res[d.dir].kill => d.timedOut \/ d.signalled

(* What is in a directory comes from the command of its request; a command without *)
(* output was killed by the daemon.                                              *)
Whole(i, c) == ran[c] = 1 => res[i].out \/ res[i].kill

DirsTrue ==
  \A i \in DOMAIN res :
    /\ Has(queue, i) => res[i].status = Nobody
    /\ res[i].status # Nobody =>
         /\ res[i].status = res[i].request /\ Spent(res[i].status)
         /\ Whole(i, res[i].status)

GuestsDir ==
  /\ cmd.stage # "none" /\ Has(res, cmd.id) =>
       /\ ~Has(queue, cmd.id) /\ res[cmd.id].request = cmd.who
       /\ cmd.stage \in {"ended", "status", "done"} => Whole(cmd.id, cmd.who)
  /\ g.pc = "parse" /\ Has(res, g.id) => ~Has(queue, g.id) /\ res[g.id].request = g.who

ToldRight ==
  \A c \in Clients : got[c] \in Clients => got[c] = c /\ Spent(c) /\ (ran[c] = 1 => c \in fwd)

IInv ==
  /\ Types /\ OnePlace /\ OneCommand
  /\ ~reused => JobsDir /\ DirsTrue /\ GuestsDir /\ ToldRight
-------------------------------------------------------------------------------
LEMMA NobodyApart == Nobody \notin Clients
BY UmJobsAssumption DEF Nobody

LEMMA InvInit == Init => IInv
<1> SUFFICES ASSUME Init PROVE IInv  OBVIOUS
<1>1. Types
  <2>1. d \in Jobs /\ g \in Loops /\ cmd \in Commands
    BY DEF Init, Someone, Jobs, Loops, Commands, NoJob, Idle, NoCmd
  <2>2. backlog \in Seq(Clients) /\ fwd \subseteq Clients /\ reused \in BOOLEAN
    <3>1. backlog = <<>> /\ <<>> \in Seq(Clients)
      BY EmptySeq DEF Init
    <3>2. fwd = {} /\ reused = FALSE
      BY DEF Init
    <3> QED BY <3>1, <3>2
  <2>3. DOMAIN queue = {} /\ queue \in [{} -> Clients] /\ DOMAIN res = {} /\ res \in [{} -> Dirs]
    BY DEF Init
  <2>4. ran \in [Clients -> Nat] /\ DOMAIN got = Clients
        /\ cl \in [Clients -> {"new", "queued", "served", "told", "gone"}]
    BY DEF Init
  <2> QED BY <2>1, <2>2, <2>3, <2>4 DEF Types
<1>2. OnePlace /\ OneCommand
  BY DEF Init, OnePlace, OneCommand, Waits, Asked, Taken, Spent, Idle, NoCmd
<1>3. JobsDir /\ DirsTrue /\ GuestsDir /\ ToldRight
  BY NobodyApart DEF Init, JobsDir, DirsTrue, GuestsDir, ToldRight, Has, NoJob, NoCmd, Idle
<1> QED BY <1>1, <1>2, <1>3 DEF IInv

(* Removing a file of the channel.                                               *)
LEMMA FileGone ==
  ASSUME NEW S, NEW f, DOMAIN f \subseteq Nat, f \in [DOMAIN f -> S], NEW i
  PROVE  /\ DOMAIN Without(f, i) = DOMAIN f \ {i}
         /\ \A j \in DOMAIN f : j # i => Without(f, i)[j] = f[j]
         /\ Without(f, i) \in [DOMAIN Without(f, i) -> S] /\ DOMAIN Without(f, i) \subseteq Nat
BY DEF Without

(* Publishing a kill changes nothing else of a directory.                        *)
LEMMA Published ==
  ASSUME Types, NEW i \in Nat, Publish(i)
  PROVE  /\ DOMAIN res' = DOMAIN res /\ DOMAIN res' \subseteq Nat /\ res' \in [DOMAIN res' -> Dirs]
         /\ \A j \in DOMAIN res :
              /\ j # i => res'[j] = res[j]
              /\ res'[j].request = res[j].request /\ res'[j].status = res[j].status
              /\ res'[j].out = res[j].out /\ (res[j].kill => res'[j].kill)
<1>1. CASE Has(res, i)
  <2>1. res' = [res EXCEPT ![i].kill = TRUE] /\ i \in DOMAIN res
    BY <1>1 DEF Publish, Has
  <2> QED BY <2>1 DEF Types, Dirs
<1>2. CASE ~Has(res, i)
  BY <1>2 DEF Publish, Types
<1> QED BY <1>1, <1>2

(* A client is told, unless it is gone.                                          *)
LEMMA ToldTypes ==
  ASSUME Types, NEW c, NEW status, Tell(c, status)
  PROVE  /\ cl' \in [Clients -> {"new", "queued", "served", "told", "gone"}] /\ DOMAIN got' = Clients
         /\ \A x \in Clients : cl'[x] = "new" => cl[x] = "new"
         /\ \A x \in Clients : x # c => got'[x] = got[x]
         /\ \A x \in Clients : got'[x] \in {got[x], status}
BY DEF Tell, Types
-------------------------------------------------------------------------------
(* Steps that move no request, or drop those that were not accepted.             *)
PlacesKept ==
  /\ \A c \in Clients : cl'[c] = "new" => cl[c] = "new"
  /\ backlog' = backlog \/ backlog' = <<>> \/ (backlog # <<>> /\ backlog' = Tail(backlog))
  /\ queue' = queue /\ ran' = ran /\ (g'.pc = "parse" => g' = g)

(* Accepting takes the connection that waits longest.                            *)
LEMMA Accepted ==
  ASSUME Types, OnePlace, backlog # <<>>
  PROVE  /\ Head(backlog) \in Clients /\ Waits(Head(backlog)) /\ Tail(backlog) \in Seq(Clients)
         /\ \A k \in DOMAIN Tail(backlog) :
              k + 1 \in DOMAIN backlog /\ k \in Nat /\ Tail(backlog)[k] = backlog[k + 1]
                /\ Tail(backlog)[k] # Head(backlog)
<1> DEFINE n == Len(backlog)
<1>1. backlog \in Seq(Clients)
  BY DEF Types
<1>2. n \in Nat \ {0} /\ DOMAIN backlog = 1 .. n
  BY <1>1, EmptySeq, LenProperties
<1>3. /\ Head(backlog) \in Clients /\ Tail(backlog) \in Seq(Clients) /\ Len(Tail(backlog)) = n - 1
      /\ \A k \in 1 .. Len(Tail(backlog)) : Tail(backlog)[k] = backlog[k + 1]
  BY <1>1, HeadTailProperties
<1>4. DOMAIN Tail(backlog) = 1 .. n - 1
  BY <1>3, LenProperties
<1>5. Head(backlog) = backlog[1] /\ 1 \in DOMAIN backlog
  BY <1>1, <1>2
<1>6. \A k \in 1 .. n - 1 : k + 1 \in DOMAIN backlog /\ k \in Nat /\ k + 1 # 1
  BY <1>2
<1>7. \A k \in 1 .. n - 1 : backlog[k + 1] # backlog[1]
  BY <1>5, <1>6 DEF OnePlace
<1> HIDE DEF n
<1> QED BY <1>3, <1>4, <1>5, <1>6, <1>7 DEF Waits

LEMMA PlacesStay ==
  ASSUME Types, OnePlace, PlacesKept
  PROVE  OnePlace' /\ \A c \in Clients : Spent(c) => Spent(c)'
<1>0. \A k \in DOMAIN backlog' :
        \/ backlog' = backlog
        \/ k + 1 \in DOMAIN backlog /\ k \in Nat /\ backlog'[k] = backlog[k + 1]
  BY Accepted DEF PlacesKept
<1>1. \A c \in Clients : /\ Waits(c)' => Waits(c)
                         /\ Asked(c)' <=> Asked(c)
                         /\ Taken(c)' => Taken(c)
  BY <1>0 DEF PlacesKept, Waits, Asked, Taken
<1>2. \A c \in Clients : Spent(c) => Spent(c)'
  BY <1>1 DEF PlacesKept, Spent
<1>3. \A k, l \in DOMAIN backlog' : backlog'[k] = backlog'[l] => k = l
  BY <1>0 DEF OnePlace
<1> QED BY <1>1, <1>2, <1>3 DEF OnePlace, PlacesKept

(* The daemon looks at its client, its job or its socket and goes on.             *)
Quiet ==
  /\ d' \in Jobs /\ d'.client \in {d.client, Nobody} /\ d'.dir = d.dir
  /\ d.timedOut \/ d.signalled => d'.timedOut \/ d'.signalled
  /\ res' = res \/ (Publish(d.dir) /\ (d'.timedOut \/ d'.signalled))
  /\ fwd \subseteq fwd' /\ fwd' \subseteq Clients
  /\ UNCHANGED <<cl, got, backlog, queue, guest, reused>>

LEMMA QuietKeeps ==
  ASSUME IInv, Quiet
  PROVE  IInv'
<1>1. OnePlace' /\ \A c \in Clients : Spent(c) => Spent(c)'
  <2>1. PlacesKept
    BY DEF Quiet, PlacesKept, guest
  <2> QED BY <2>1, PlacesStay DEF IInv
<1>2. d.dir \in Nat
  BY DEF IInv, Types, Jobs
<1>3. /\ DOMAIN res' = DOMAIN res /\ DOMAIN res' \subseteq Nat /\ res' \in [DOMAIN res' -> Dirs]
      /\ \A j \in DOMAIN res :
           /\ j # d.dir => res'[j] = res[j]
           /\ res'[j].request = res[j].request /\ res'[j].status = res[j].status
           /\ res'[j].out = res[j].out /\ (res[j].kill => res'[j].kill)
  <2>1. CASE res' = res
    BY <2>1 DEF IInv, Types
  <2>2. CASE Publish(d.dir)
    BY <2>2, <1>2, Published DEF IInv
  <2> QED BY <2>1, <2>2 DEF Quiet
<1>4. Types'
  BY <1>3 DEF IInv, Types, Quiet, guest
<1>5. OneCommand'
  BY <1>1, <1>4 DEF IInv, OneCommand, Quiet, guest
<1>6. ASSUME ~reused' PROVE JobsDir' /\ DirsTrue' /\ GuestsDir' /\ ToldRight'
  <2>1. JobsDir /\ DirsTrue /\ GuestsDir /\ ToldRight
    BY <1>6 DEF IInv, Quiet
  <2>2. JobsDir'
    <3>1. res' = res \/ d'.timedOut \/ d'.signalled
      BY DEF Quiet
    <3> QED BY <2>1, <1>3, <3>1 DEF JobsDir, Has, Quiet
  <2>3. DirsTrue'
    <3> SUFFICES ASSUME NEW i \in DOMAIN res
                 PROVE  /\ Has(queue, i) => res'[i].status = Nobody
                        /\ res'[i].status # Nobody =>
                             /\ res'[i].status = res'[i].request /\ Spent(res[i].status)'
                             /\ Whole(i, res[i].status)'
      BY <1>3 DEF DirsTrue, Has, Quiet, Whole
    <3>1. res[i].status \in Someone
      BY DEF IInv, Types, Dirs
    <3> QED BY <3>1, <2>1, <1>1, <1>3 DEF DirsTrue, Someone, Whole, Quiet, guest
  <2>4. GuestsDir'
    BY <2>1, <1>3 DEF GuestsDir, Has, Whole, Quiet, guest
  <2>5. ToldRight'
    BY <2>1, <1>1 DEF ToldRight, Quiet, guest
  <2> QED BY <2>2, <2>3, <2>4, <2>5
<1> QED BY <1>1, <1>4, <1>5, <1>6 DEF IInv
(* The daemon tells a client how its job ended and removes the directory, or tells *)
(* the client of a request it cannot serve.                                      *)
Answers(c, status) ==
  /\ d' \in Jobs /\ (d'.client = Nobody \/ (d' = [d EXCEPT !.pc = "shutdown"] /\ res' = res))
  /\ Tell(c, status)
  /\ status \in Clients /\ c \in Clients /\ ~reused =>
       c = status /\ Spent(c) /\ (ran[c] = 1 => c \in fwd')
  /\ res' = res \/ res' = Without(res, d.dir)
  /\ backlog' \in Seq(Clients) /\ fwd \subseteq fwd' /\ fwd' \subseteq Clients
  /\ UNCHANGED <<queue, guest, reused>>

LEMMA AnswersKeeps ==
  ASSUME IInv, NEW c, NEW status, Answers(c, status),
         OnePlace', \A x \in Clients : Spent(x) => Spent(x)'
  PROVE  IInv'
<1>1. /\ cl' \in [Clients -> {"new", "queued", "served", "told", "gone"}] /\ DOMAIN got' = Clients
      /\ \A x \in Clients : x # c => got'[x] = got[x]
      /\ \A x \in Clients : got'[x] \in {got[x], status}
  BY ToldTypes DEF IInv, Answers
<1>2. /\ DOMAIN res' \subseteq DOMAIN res /\ DOMAIN res' \subseteq Nat /\ res' \in [DOMAIN res' -> Dirs]
      /\ \A j \in DOMAIN res' : res'[j] = res[j]
  <2>1. CASE res' = res
    BY <2>1 DEF IInv, Types
  <2>2. CASE res' = Without(res, d.dir)
    <3>1. DOMAIN res \subseteq Nat /\ res \in [DOMAIN res -> Dirs]
      BY DEF IInv, Types
    <3> HIDE DEF IInv
    <3>2. /\ DOMAIN Without(res, d.dir) = DOMAIN res \ {d.dir}
          /\ \A j \in DOMAIN res : j # d.dir => Without(res, d.dir)[j] = res[j]
          /\ Without(res, d.dir) \in [DOMAIN Without(res, d.dir) -> Dirs]
          /\ DOMAIN Without(res, d.dir) \subseteq Nat
      BY <3>1, FileGone
    <3> QED BY <2>2, <3>2
  <2> QED BY <2>1, <2>2 DEF Answers
<1>3. Types'
  BY <1>1, <1>2 DEF IInv, Types, Answers, guest
<1>4. OneCommand'
  BY <1>3 DEF IInv, OneCommand, Answers, guest
<1>5. ASSUME ~reused' PROVE JobsDir' /\ DirsTrue' /\ GuestsDir' /\ ToldRight'
  <2>1. JobsDir /\ DirsTrue /\ GuestsDir /\ ToldRight /\ ~reused
    BY <1>5 DEF IInv, Answers
  <2>2. JobsDir'
    <3>1. d \in Jobs
      BY DEF IInv, Types
    <3>2. CASE d'.client = Nobody
      BY <3>2 DEF JobsDir
    <3>3. CASE d' = [d EXCEPT !.pc = "shutdown"] /\ res' = res
      BY <2>1, <3>1, <3>3 DEF JobsDir, Has, Jobs, Answers
    <3> QED BY <3>2, <3>3 DEF Answers
  <2>3. DirsTrue'
    <3> SUFFICES ASSUME NEW i \in DOMAIN res'
                 PROVE  /\ Has(queue, i) => res'[i].status = Nobody
                        /\ res'[i].status # Nobody =>
                             /\ res'[i].status = res'[i].request /\ Spent(res[i].status)'
                             /\ Whole(i, res[i].status)'
      BY DEF DirsTrue, Has, Answers, Whole
    <3>1. res[i].status \in Someone /\ i \in DOMAIN res
      BY <1>2 DEF IInv, Types, Dirs
    <3> QED BY <3>1, <2>1, <1>2 DEF DirsTrue, Someone, Whole, Answers, guest
  <2>4. GuestsDir'
    BY <2>1, <1>2 DEF GuestsDir, Has, Whole, Answers, guest
  <2>5. ToldRight'
    <3> SUFFICES ASSUME NEW x \in Clients, got'[x] \in Clients
                 PROVE  got'[x] = x /\ Spent(x)' /\ (ran'[x] = 1 => x \in fwd')
      BY DEF ToldRight
    <3>1. ran' = ran /\ fwd \subseteq fwd'
      BY DEF Answers, guest
    <3>2. CASE got'[x] = got[x]
      BY <3>1, <3>2, <2>1 DEF ToldRight
    <3>3. CASE got'[x] = status /\ x = c
      BY <3>1, <3>3, <2>1 DEF Answers
    <3> QED BY <3>2, <3>3, <1>1
  <2> QED BY <2>2, <2>3, <2>4, <2>5
<1> QED BY <1>3, <1>4, <1>5 DEF IInv

LEMMA EndsJob ==
  ASSUME IInv, NEW status, um_daemon_end_job(status), fwd' = Streamed,
         status \in Clients => Has(res, d.dir) /\ status = res[d.dir].status,
         UNCHANGED <<backlog, queue, guest, reused>>
  PROVE  IInv'
<1>1. OnePlace' /\ \A x \in Clients : Spent(x) => Spent(x)'
  <2>1. \A x \in Clients : cl'[x] = "new" => cl[x] = "new"
    BY ToldTypes DEF um_daemon_end_job, IInv
  <2>2. PlacesKept
    BY <2>1 DEF PlacesKept, guest
  <2> QED BY <2>2, PlacesStay DEF IInv
<1>2. d \in Jobs /\ fwd \subseteq Clients
  BY DEF IInv, Types
<1>3. d' \in Jobs /\ d'.client = Nobody
  BY <1>2 DEF um_daemon_end_job, NoJob, Jobs, Someone
<1>4. fwd \subseteq fwd' /\ fwd' \subseteq Clients
  BY <1>2 DEF Streamed, Jobs, Someone
<1>5. ASSUME EndStatus(status) \in Clients, d.client \in Clients, ~reused
      PROVE  d.client = EndStatus(status) /\ Spent(d.client) /\ (ran[d.client] = 1 => d.client \in fwd')
  <2>1. ~d.timedOut /\ ~d.signalled /\ EndStatus(status) = status
    BY <1>2, <1>5, UmJobsAssumption DEF EndStatus, Jobs
  <2>2. Has(res, d.dir) /\ status = res[d.dir].status /\ status # Nobody /\ d.client # Nobody
    BY <2>1, <1>5, NobodyApart
  <2>3. JobsDir /\ DirsTrue /\ d.dir \in DOMAIN res
    BY <1>5, <2>2 DEF IInv, Has
  <2>4. status = res[d.dir].request /\ Spent(status) /\ Whole(d.dir, status)
    BY <2>2, <2>3 DEF DirsTrue
  <2>5. status = d.client /\ ~res[d.dir].kill
    BY <2>1, <2>2, <2>3, <2>4 DEF JobsDir
  <2>6. ran[d.client] = 1 => d.client \in Streamed
    BY <2>2, <2>4, <2>5 DEF Whole, Output, Streamed
  <2> QED BY <2>1, <2>4, <2>5, <2>6
<1>6. Tell(d.client, EndStatus(status)) /\ res' = Without(res, d.dir)
  BY DEF um_daemon_end_job
<1>7. backlog' \in Seq(Clients)
  BY DEF IInv, Types
<1>8. Answers(d.client, EndStatus(status))
  BY <1>3, <1>4, <1>5, <1>6, <1>7 DEF Answers
<1> QED BY <1>1, <1>8, AnswersKeeps
LEMMA InputKeeps ==
  ASSUME IInv, Input
  PROVE  IInv'
<1>1. d \in Jobs /\ fwd \subseteq Clients
  BY DEF IInv, Types
<1>2. CASE Job /\ d.client \in sig /\ ~d.killSent
  <2>1. d' = [d EXCEPT !.killSent = TRUE, !.signalled = TRUE, !.listens = FALSE, !.pc = "done"]
        /\ Publish(d.dir)
    BY <1>2 DEF Input, um_daemon_job_input
  <2>2. d' \in Jobs /\ d'.client = d.client /\ d'.dir = d.dir /\ d'.signalled
    BY <2>1, <1>1 DEF Jobs
  <2>3. UNCHANGED <<cl, got, fwd, backlog, queue, guest, reused>>
    BY DEF Input
  <2>4. Quiet
    BY <1>1, <2>1, <2>2, <2>3 DEF Quiet
  <2> QED BY <2>4, QuietKeeps
<1>3. CASE ~(Job /\ d.client \in sig /\ ~d.killSent)
  <2>1. d' = [d EXCEPT !.pc = "done", !.listens = ~Job,
                       !.client = IF Job /\ cl[d.client] = "gone" THEN Nobody ELSE @]
        /\ res' = res
    BY <1>3 DEF Input
  <2>2. Job \in BOOLEAN
    BY <1>1 DEF Job, Jobs
  <2>3. d' \in Jobs /\ d'.client \in {d.client, Nobody} /\ d'.dir = d.dir
        /\ d'.timedOut = d.timedOut /\ d'.signalled = d.signalled
    BY <2>1, <2>2, <1>1 DEF Jobs, Someone
  <2>4. UNCHANGED <<cl, got, fwd, backlog, queue, guest, reused>>
    BY DEF Input
  <2>5. Quiet
    BY <1>1, <2>1, <2>3, <2>4 DEF Quiet
  <2> QED BY <2>5, QuietKeeps
<1> QED BY <1>2, <1>3

LEMMA PollKeeps ==
  ASSUME IInv, um_daemon_poll_job
  PROVE  IInv'
<1>1. d \in Jobs /\ fwd \subseteq Clients /\ DOMAIN res \subseteq Nat /\ res \in [DOMAIN res -> Dirs]
  BY DEF IInv, Types
<1>2. UNCHANGED <<backlog, queue, guest, reused>>
  BY DEF um_daemon_poll_job
<1>3. fwd \subseteq Streamed /\ Streamed \subseteq Clients /\ ClaimedNow \in BOOLEAN
  BY <1>1 DEF Streamed, Jobs, Someone, ClaimedNow, Has
<1>4. CASE ~d.running
  <2>1. d' = [d EXCEPT !.pc = "accept"] /\ UNCHANGED <<cl, got, fwd, res>>
    BY <1>4 DEF um_daemon_poll_job
  <2>2. Quiet
    BY <1>1, <1>2, <2>1 DEF Quiet, Jobs
  <2> QED BY <2>2, QuietKeeps
<1>5. CASE d.running
  <2>1. fwd' = Streamed /\ (JobDone \/ JobTimeout \/ JobGivenUp \/ JobGoesOn)
    BY <1>5 DEF um_daemon_poll_job
  <2>2. CASE JobDone
    <3>1. Has(res, d.dir) /\ um_daemon_end_job(IF res[d.dir].status = Nobody THEN "125" ELSE res[d.dir].status)
      BY <2>2 DEF JobDone
    <3> DEFINE status == IF res[d.dir].status = Nobody THEN "125" ELSE res[d.dir].status
    <3>2. status \in Clients => status = res[d.dir].status
      BY UmJobsAssumption
    <3>3. um_daemon_end_job(status)
      BY <3>1
    <3> HIDE DEF status
    <3> QED BY <2>1, <3>1, <3>2, <3>3, <1>2, EndsJob
  <2>3. CASE JobTimeout
    <3>1. d' = [d EXCEPT !.timedOut = TRUE, !.killSent = TRUE, !.claimed = ClaimedNow, !.pc = "accept"]
          /\ Publish(d.dir) /\ UNCHANGED <<cl, got>>
      BY <2>3 DEF JobTimeout
    <3>2. d' \in Jobs /\ d'.client = d.client /\ d'.dir = d.dir /\ d'.timedOut
      BY <3>1, <1>1, <1>3 DEF Jobs
    <3>3. Quiet
      BY <1>2, <1>3, <2>1, <3>1, <3>2 DEF Quiet
    <3> QED BY <3>3, QuietKeeps
  <2>4. CASE JobGivenUp
    <3>1. um_daemon_end_job("125") /\ "125" \notin Clients
      BY <2>4, UmJobsAssumption DEF JobGivenUp
    <3> QED BY <2>1, <3>1, <1>2, EndsJob
  <2>5. CASE JobGoesOn
    <3>1. d' = [d EXCEPT !.claimed = ClaimedNow, !.pc = "accept"] /\ UNCHANGED <<cl, got, res>>
      BY <2>5 DEF JobGoesOn
    <3>2. d' \in Jobs /\ d'.client = d.client /\ d'.dir = d.dir
          /\ d'.timedOut = d.timedOut /\ d'.signalled = d.signalled
      BY <3>1, <1>1, <1>3 DEF Jobs
    <3>3. Quiet
      BY <1>2, <1>3, <2>1, <3>1, <3>2 DEF Quiet
    <3> QED BY <3>3, QuietKeeps
  <2> QED BY <2>1, <2>2, <2>3, <2>4, <2>5
<1> QED BY <1>1, <1>4, <1>5 DEF Jobs

LEMMA ShutdownKeeps ==
  ASSUME IInv, um_daemon_shutdown
  PROVE  IInv'
<1>1. d' \in Jobs /\ d'.client = Nobody
  BY DEF um_daemon_shutdown, IInv, Types, Jobs, Someone
<1>2. /\ cl' \in [Clients -> {"new", "queued", "served", "told", "gone"}] /\ DOMAIN got' = Clients
      /\ \A x \in Clients : cl'[x] = "new" => cl[x] = "new"
      /\ \A x \in Clients : got'[x] \in {got[x], "125"}
  BY DEF um_daemon_shutdown, IInv, Types
<1>3. OnePlace' /\ \A x \in Clients : Spent(x) => Spent(x)'
  <2>1. PlacesKept
    BY <1>2 DEF PlacesKept, um_daemon_shutdown, guest
  <2> QED BY <2>1, PlacesStay DEF IInv
<1>4. backlog' = <<>> /\ UNCHANGED <<fwd, queue, res, guest, reused>>
  BY DEF um_daemon_shutdown
<1>5. Types'
  BY <1>1, <1>2, <1>4, EmptySeq DEF IInv, Types, guest
<1>6. OneCommand'
  BY <1>3, <1>4, <1>5 DEF IInv, OneCommand, guest
<1>7. ASSUME ~reused' PROVE JobsDir' /\ DirsTrue' /\ GuestsDir' /\ ToldRight'
  <2>1. JobsDir /\ DirsTrue /\ GuestsDir /\ ToldRight
    BY <1>4, <1>7 DEF IInv
  <2>2. JobsDir'
    BY <1>1 DEF JobsDir
  <2>3. GuestsDir'
    BY <2>1, <1>4 DEF GuestsDir, Has, Whole, guest
  <2>4. DirsTrue'
    <3>1. \A i \in DOMAIN res : res[i].status \in Someone
      BY DEF IInv, Types, Dirs
    <3> QED BY <2>1, <3>1, <1>3, <1>4 DEF DirsTrue, Has, Whole, Someone, guest
  <2>5. ToldRight'
    BY <2>1, <1>2, <1>3, <1>4, UmJobsAssumption DEF ToldRight, guest
  <2> QED BY <2>2, <2>3, <2>4, <2>5
<1> QED BY <1>3, <1>5, <1>6, <1>7 DEF IInv
(* A request is written: the client's turn in the backlog becomes a file.         *)
LEMMA StartMoves ==
  ASSUME IInv, backlog # <<>>, NEW c, c = Head(backlog), backlog' = Tail(backlog),
         NEW i \in Nat, queue' = With(queue, i, c),
         cl' = [cl EXCEPT ![c] = IF @ = "gone" THEN @ ELSE "served"], UNCHANGED <<g, ran>>
  PROVE  OnePlace' /\ \A x \in Clients : Spent(x) => Spent(x)'
<1>1. /\ c \in Clients /\ Waits(c) /\ Tail(backlog) \in Seq(Clients)
      /\ \A k \in DOMAIN Tail(backlog) :
           k + 1 \in DOMAIN backlog /\ k \in Nat /\ Tail(backlog)[k] = backlog[k + 1]
             /\ Tail(backlog)[k] # c
  BY Accepted DEF IInv
<1>2. DOMAIN queue \subseteq Nat /\ queue \in [DOMAIN queue -> Clients]
  BY DEF IInv, Types
<1>3. /\ DOMAIN queue' = DOMAIN queue \cup {i} /\ queue'[i] = c
      /\ \A j \in DOMAIN queue : j # i => queue'[j] = queue[j]
  <2>1. /\ DOMAIN With(queue, i, c) = DOMAIN queue \cup {i} /\ With(queue, i, c)[i] = c
        /\ \A j \in DOMAIN queue : j # i => With(queue, i, c)[j] = queue[j]
    BY <1>1, <1>2 DEF With
  <2> QED BY <2>1
<1>4. OnePlace /\ cl \in [Clients -> {"new", "queued", "served", "told", "gone"}]
  BY DEF IInv, Types
<1> HIDE DEF IInv
<1>5. \A x \in Clients : /\ Waits(x)' => Waits(x) /\ x # c
                         /\ Asked(x)' => Asked(x) \/ x = c
                         /\ Taken(x)' <=> Taken(x)
                         /\ cl'[x] = "new" => cl[x] = "new" /\ x # c
  <2>1. \A x \in Clients : Waits(x)' => Waits(x) /\ x # c
    BY <1>1 DEF Waits
  <2>2. \A x \in Clients : Asked(x)' => Asked(x) \/ x = c
    BY <1>3 DEF Asked
  <2>3. \A x \in Clients : cl'[x] = "new" => cl[x] = "new" /\ x # c
    BY <1>1, <1>4
  <2> QED BY <2>1, <2>2, <2>3 DEF Taken
<1>6. \A x \in Clients : Spent(x) => Spent(x)'
  BY <1>1, <1>5 DEF Spent
<1>7. \A k, l \in DOMAIN backlog' : backlog'[k] = backlog'[l] => k = l
  <2> SUFFICES ASSUME NEW k \in DOMAIN backlog', NEW l \in DOMAIN backlog', backlog'[k] = backlog'[l]
               PROVE  k = l
    OBVIOUS
  <2>1. backlog[k + 1] = backlog[l + 1] /\ k + 1 \in DOMAIN backlog /\ l + 1 \in DOMAIN backlog
        /\ k \in Nat /\ l \in Nat
    BY <1>1
  <2>2. k + 1 = l + 1
    BY <2>1, <1>4 DEF OnePlace
  <2> QED BY <2>1, <2>2
<1>8. \A j \in DOMAIN queue : queue[j] # c
  BY <1>1, <1>4 DEF OnePlace, Asked
<1>9. \A j, k \in DOMAIN queue' : queue'[j] = queue'[k] => j = k
  BY <1>3, <1>4, <1>8 DEF OnePlace
<1>10. ~Taken(c) /\ ~Spent(c)
  BY <1>1, <1>4 DEF OnePlace, Spent
<1> QED BY <1>4, <1>5, <1>6, <1>7, <1>9, <1>10 DEF OnePlace

LEMMA StartKeeps ==
  ASSUME IInv, backlog # <<>>, NEW c, c = Head(backlog), backlog' = Tail(backlog),
         NEW i \in Nat, i = d.id + 1, d' = StartedJob(c, i), queue' = With(queue, i, c),
         reused' = (reused \/ Has(res, i)),
         cl' = [cl EXCEPT ![c] = IF @ = "gone" THEN @ ELSE "served"],
         UNCHANGED <<got, fwd, res, guest>>
  PROVE  IInv'
<1>1. OnePlace' /\ \A x \in Clients : Spent(x) => Spent(x)'
  BY StartMoves DEF guest
<1>2. c \in Clients /\ Tail(backlog) \in Seq(Clients)
  BY Accepted DEF IInv
<1>3. DOMAIN queue \subseteq Nat /\ queue \in [DOMAIN queue -> Clients]
  BY DEF IInv, Types
<1>4. /\ DOMAIN queue' = DOMAIN queue \cup {i} /\ queue'[i] = c
      /\ \A j \in DOMAIN queue : j # i => queue'[j] = queue[j]
      /\ queue' \in [DOMAIN queue' -> Clients] /\ DOMAIN queue' \subseteq Nat
  <2>1. /\ DOMAIN With(queue, i, c) = DOMAIN queue \cup {i} /\ With(queue, i, c)[i] = c
        /\ \A j \in DOMAIN queue : j # i => With(queue, i, c)[j] = queue[j]
        /\ With(queue, i, c) \in [DOMAIN With(queue, i, c) -> Clients]
        /\ DOMAIN With(queue, i, c) \subseteq Nat
    BY <1>2, <1>3 DEF With
  <2> QED BY <2>1
<1>5. d' \in Jobs /\ d'.client = c /\ d'.dir = i
  BY <1>2 DEF StartedJob, NoJob, Jobs, Someone
<1>6. Types'
  <2>1. cl' \in [Clients -> {"new", "queued", "served", "told", "gone"}] /\ reused' \in BOOLEAN
    BY <1>2 DEF IInv, Types, Has
  <2> QED BY <2>1, <1>2, <1>4, <1>5 DEF IInv, Types, guest
<1>7. OneCommand'
  BY <1>1, <1>6 DEF IInv, OneCommand, guest
<1>8. ASSUME ~reused' PROVE JobsDir' /\ DirsTrue' /\ GuestsDir' /\ ToldRight'
  <2>1. JobsDir /\ DirsTrue /\ GuestsDir /\ ToldRight /\ i \notin DOMAIN res
    BY <1>8 DEF IInv, Has
  <2>2. JobsDir'
    BY <2>1, <1>4, <1>5 DEF JobsDir, Has
  <2>3. GuestsDir'
    BY <2>1, <1>4 DEF GuestsDir, Has, Whole, guest
  <2>4. DirsTrue'
    <3>1. \A j \in DOMAIN res : res[j].status \in Someone
      BY DEF IInv, Types, Dirs
    <3> QED BY <2>1, <3>1, <1>1, <1>4 DEF DirsTrue, Has, Whole, Someone, guest
  <2>5. ToldRight'
    BY <2>1, <1>1 DEF ToldRight, guest
  <2> QED BY <2>2, <2>3, <2>4, <2>5
<1> QED BY <1>1, <1>6, <1>7, <1>8 DEF IInv

LEMMA AcceptKeeps ==
  ASSUME IInv, Accept
  PROVE  IInv'
<1>1. d \in Jobs /\ fwd \subseteq Clients
  BY DEF IInv, Types
<1>2. UNCHANGED <<fwd, res, guest>>
  BY DEF Accept
<1>3. CASE ~d.listens \/ backlog = <<>>
  <2>1. d' = [d EXCEPT !.pc = "input"]
        /\ UNCHANGED <<cl, got, backlog, queue, reused>>
    BY <1>3 DEF Accept
  <2>2. d' \in Jobs /\ d'.client = d.client /\ d'.dir = d.dir
        /\ d'.timedOut = d.timedOut /\ d'.signalled = d.signalled
    BY <2>1, <1>1 DEF Jobs
  <2>3. Quiet
    BY <1>1, <1>2, <2>1, <2>2 DEF Quiet
  <2> QED BY <2>3, QuietKeeps
<1>4. CASE d.listens /\ backlog # <<>>
  <2> DEFINE c == Head(backlog)
  <2>1. backlog' = Tail(backlog)
        /\ IF want[c] = "stop"
           THEN Tell(c, "0") /\ d' = [d EXCEPT !.pc = "shutdown"] /\ UNCHANGED <<queue, reused>>
           ELSE um_daemon_start_job(c)
    BY <1>4 DEF Accept
  <2>2. backlog' \in Seq(Clients) /\ c \in Clients
    BY <2>1, <1>4, Accepted DEF IInv
  <2>3. ASSUME NEW status \in {"0", "125"}, Tell(c, status), UNCHANGED queue
        PROVE  OnePlace' /\ \A x \in Clients : Spent(x) => Spent(x)'
    <3>1. \A x \in Clients : cl'[x] = "new" => cl[x] = "new"
      BY <2>3, ToldTypes DEF IInv
    <3>2. PlacesKept
      BY <3>1, <2>1, <2>3, <1>2, <1>4 DEF PlacesKept, guest
    <3> QED BY <3>2, PlacesStay DEF IInv
  <2>4. CASE want[c] = "stop"
    <3>1. d' = [d EXCEPT !.pc = "shutdown"] /\ Tell(c, "0") /\ UNCHANGED <<queue, reused>>
      BY <2>1, <2>4
    <3>2. Answers(c, "0")
      <4>1. d' \in Jobs
        BY <3>1, <1>1 DEF Jobs
      <4> QED BY <4>1, <3>1, <2>2, <1>1, <1>2, UmJobsAssumption DEF Answers
    <3> HIDE DEF c
    <3> QED BY <3>1, <3>2, <2>3, AnswersKeeps
  <2>5. CASE want[c] # "stop"
    <3> DEFINE i == d.id + 1
    <3>1. um_daemon_start_job(c) /\ i \in Nat
      BY <2>1, <2>5, <1>1 DEF Jobs
    <3>2. CASE /\ d' = StartedJob(c, i) /\ queue' = With(queue, i, c)
               /\ reused' = (reused \/ Has(res, i))
               /\ cl' = [cl EXCEPT ![c] = IF @ = "gone" THEN @ ELSE "served"]
               /\ got' = got
      BY <3>1, <3>2, <2>1, <1>2, <1>4, StartKeeps
    <3>3. CASE /\ d' = [NoJob EXCEPT !.dir = i, !.running = d.running]
               /\ Tell(c, "125") /\ UNCHANGED <<queue, reused>>
      <4>1. d' \in Jobs /\ d'.client = Nobody
        BY <3>1, <3>3, <1>1 DEF NoJob, Jobs, Someone
      <4>2. Answers(c, "125")
        BY <4>1, <3>3, <2>2, <1>1, <1>2, UmJobsAssumption DEF Answers
      <4> HIDE DEF c, i
      <4> QED BY <3>3, <4>2, <2>3, AnswersKeeps
    <3> QED BY <3>1, <3>2, <3>3 DEF um_daemon_start_job
  <2> QED BY <2>4, <2>5
<1> QED BY <1>3, <1>4 DEF IInv, Types, Jobs
-------------------------------------------------------------------------------
(* What a client does itself changes neither jobs nor files.                      *)
LEMMA ClientKeeps ==
  ASSUME IInv, NEW c \in Clients,
         Connect(c) \/ Signal(c) \/ Leave(c) \/ Halt(c) \/ Resume(c)
  PROVE  IInv'
<1>1. UNCHANGED <<got, fwd, d, queue, res, guest, reused>>
  BY DEF Connect, Signal, Leave, Halt, Resume, files
<1>2. backlog \in Seq(Clients) /\ cl \in [Clients -> {"new", "queued", "served", "told", "gone"}]
  BY DEF IInv, Types
<1>3. OnePlace' /\ Types' /\ \A x \in Clients : Spent(x) => Spent(x)'
  <2>1. CASE Connect(c)
    <3> DEFINE n == Len(backlog)
    <3>1. cl[c] = "new" /\ cl' = [cl EXCEPT ![c] = "queued"] /\ backlog' = Append(backlog, c)
      BY <2>1 DEF Connect
    <3>2. /\ backlog' \in Seq(Clients) /\ n \in Nat
          /\ DOMAIN backlog' = 1 .. n + 1 /\ DOMAIN backlog = 1 .. n
          /\ backlog'[n + 1] = c /\ \A k \in 1 .. n : backlog'[k] = backlog[k]
      BY <3>1, <1>2, AppendProperties, LenProperties
    <3> HIDE DEF n
    <3>3. Types'
      BY <1>1, <1>2, <3>1, <3>2 DEF IInv, Types, guest
    <3>4. \A k \in DOMAIN backlog' : (k = n + 1 /\ backlog'[k] = c)
                                     \/ (k \in DOMAIN backlog /\ k # n + 1 /\ backlog'[k] = backlog[k])
      BY <3>2
    <3>5. OnePlace
      BY DEF IInv
    <3>6. ~Waits(c) /\ ~Asked(c) /\ ~Taken(c) /\ ~Spent(c)
      BY <3>1, <3>5 DEF OnePlace, Spent
    <3>7. \A x \in Clients : /\ Waits(x)' => Waits(x) \/ x = c
                             /\ Asked(x)' <=> Asked(x)
                             /\ Taken(x)' <=> Taken(x)
                             /\ cl'[x] = "new" => cl[x] = "new" /\ x # c
      <4>1. \A x \in Clients : Waits(x)' => Waits(x) \/ x = c
        BY <3>4 DEF Waits
      <4>2. \A x \in Clients : cl'[x] = "new" => cl[x] = "new" /\ x # c
        BY <3>1, <1>2
      <4> QED BY <4>1, <4>2, <1>1 DEF Asked, Taken, guest
    <3>8. \A x \in Clients : Spent(x) => Spent(x)'
      BY <3>6, <3>7 DEF Spent
    <3>9. \A k, l \in DOMAIN backlog' : backlog'[k] = backlog'[l] => k = l
      BY <3>4, <3>5, <3>6 DEF OnePlace, Waits
    <3>10. \A x \in Clients :
             /\ cl'[x] = "new" => ~Waits(x)'
             /\ cl'[x] = "new" \/ Waits(x)' => ~Asked(x)'
             /\ cl'[x] = "new" \/ Waits(x)' \/ Asked(x)' => ~Taken(x)'
             /\ ~Spent(x)' => ran[x] = 0
             /\ ran[x] <= 1
      BY <3>5, <3>6, <3>7, <3>8 DEF OnePlace
    <3> QED BY <1>1, <3>3, <3>5, <3>8, <3>9, <3>10 DEF OnePlace, guest
  <2>2. CASE Signal(c) \/ Leave(c) \/ Halt(c) \/ Resume(c)
    <3>1. UNCHANGED backlog /\ \A x \in Clients : cl'[x] = "new" => cl[x] = "new"
      BY <2>2, <1>2 DEF Signal, Leave, Halt, Resume
    <3>2. PlacesKept
      BY <3>1, <1>1 DEF PlacesKept, guest
    <3>3. cl' \in [Clients -> {"new", "queued", "served", "told", "gone"}]
      BY <2>2, <1>2 DEF Signal, Leave, Halt, Resume
    <3>4. Types'
      BY <1>1, <3>1, <3>3 DEF IInv, Types, guest
    <3> QED BY <3>2, <3>4, PlacesStay DEF IInv
  <2> QED BY <2>1, <2>2
<1>4. OneCommand'
  BY <1>1, <1>3 DEF IInv, OneCommand, Types, guest
<1>5. ASSUME ~reused' PROVE JobsDir' /\ DirsTrue' /\ GuestsDir' /\ ToldRight'
  <2>1. JobsDir /\ DirsTrue /\ GuestsDir /\ ToldRight
    BY <1>1, <1>5 DEF IInv
  <2>2. JobsDir' /\ GuestsDir'
    BY <1>1, <2>1 DEF JobsDir, GuestsDir, Has, Whole, guest
  <2>3. DirsTrue'
    <3>1. \A i \in DOMAIN res : res[i].status \in Someone
      BY DEF IInv, Types, Dirs
    <3> QED BY <2>1, <3>1, <1>1, <1>3 DEF DirsTrue, Has, Whole, Someone, guest
  <2>4. ToldRight'
    BY <1>1, <1>3, <2>1 DEF ToldRight, guest
  <2> QED BY <2>2, <2>3, <2>4
<1> QED BY <1>3, <1>4, <1>5 DEF IInv

-------------------------------------------------------------------------------
(* Steps of the guest that neither claim nor start: they add a directory, write in  *)
(* that of the command, or end the command.                                      *)
Writes ==
  /\ g' \in Loops /\ (g'.pc = "parse" => g' = g /\ res' = res)
  /\ cmd' \in Commands
  /\ cmd'.stage # "none" =>
       /\ cmd.stage # "none" /\ cmd'.who = cmd.who /\ cmd'.id = cmd.id
       /\ g'.id = g.id /\ g'.pc \in {"watch", "waits", "bad"}
  /\ DOMAIN res' \subseteq Nat /\ res' \in [DOMAIN res' -> Dirs]
  /\ \A i \in DOMAIN res' :
       \/ i \notin DOMAIN res /\ res'[i] = EmptyDir /\ cmd'.stage = "none"
       \/ /\ i \in DOMAIN res /\ res'[i].request = res[i].request
          /\ res'[i].kill = res[i].kill /\ (res[i].out => res'[i].out)
          /\ res'[i].status = res[i].status \/
             (i = cmd.id /\ cmd.stage = "ended" /\ res'[i].status = cmd.who)
  /\ cmd'.stage \in {"ended", "status", "done"} =>
       \/ cmd.stage \in {"ended", "status", "done"}
       \/ Has(res, cmd.id) => res'[cmd.id].out \/ res[cmd.id].kill
  /\ UNCHANGED <<cl, got, fwd, backlog, d, queue, ran, reused>>

LEMMA WritesKeeps ==
  ASSUME IInv, Writes
  PROVE  IInv'
<1>1. OnePlace' /\ \A x \in Clients : Spent(x) => Spent(x)'
  <2>1. PlacesKept
    BY DEF PlacesKept, Writes
  <2> QED BY <2>1, PlacesStay DEF IInv
<1>2. Types'
  BY DEF IInv, Types, Writes
<1>3. OneCommand'
  BY <1>1, <1>2 DEF IInv, OneCommand, Writes
<1>4. ASSUME ~reused' PROVE JobsDir' /\ DirsTrue' /\ GuestsDir' /\ ToldRight'
  <2>1. JobsDir /\ DirsTrue /\ GuestsDir /\ ToldRight
    BY <1>4 DEF IInv, Writes
  <2>2. JobsDir'
    BY <2>1 DEF JobsDir, Has, EmptyDir, Writes
  <2>3. DirsTrue'
    <3> SUFFICES ASSUME NEW i \in DOMAIN res'
                 PROVE  /\ Has(queue, i) => res'[i].status = Nobody
                        /\ res'[i].status # Nobody =>
                             /\ res'[i].status = res'[i].request /\ Spent(res[i].status)'
                             /\ Whole(i, res[i].status)'
      BY DEF DirsTrue, Has, Whole, Writes
    <3>1. CASE i \notin DOMAIN res /\ res'[i] = EmptyDir
      BY <3>1 DEF EmptyDir
    <3>2. CASE i \in DOMAIN res /\ res'[i].request = res[i].request /\ res'[i].status = res[i].status
               /\ res'[i].kill = res[i].kill /\ (res[i].out => res'[i].out)
      <4>1. res[i].status \in Someone
        BY <3>2 DEF IInv, Types, Dirs
      <4>2. ran' = ran /\ queue' = queue
        BY DEF Writes
      <4> QED BY <4>1, <4>2, <3>2, <2>1, <1>1 DEF DirsTrue, Someone, Whole
    <3>3. CASE /\ i \in DOMAIN res /\ res'[i].request = res[i].request
               /\ i = cmd.id /\ cmd.stage = "ended" /\ res'[i].status = cmd.who
               /\ res'[i].kill = res[i].kill /\ (res[i].out => res'[i].out)
      <4>1. cmd.who \in Clients /\ Spent(cmd.who)
        BY <3>3 DEF IInv, OneCommand
      <4>2. ~Has(queue, i) /\ res[i].request = cmd.who /\ Whole(i, cmd.who)
        BY <3>3, <2>1 DEF GuestsDir, Has
      <4>3. ran' = ran /\ queue' = queue
        BY DEF Writes
      <4> QED BY <4>1, <4>2, <4>3, <3>3, <1>1 DEF Whole
    <3> QED BY <3>1, <3>2, <3>3 DEF Writes
  <2>4. GuestsDir'
    <3>1. ASSUME cmd'.stage # "none", Has(res', cmd'.id)
          PROVE  /\ ~Has(queue', cmd'.id) /\ res'[cmd'.id].request = cmd'.who
                 /\ cmd'.stage \in {"ended", "status", "done"} => Whole(cmd.id, cmd.who)'
      <4>1. cmd.stage # "none" /\ cmd'.who = cmd.who /\ cmd'.id = cmd.id /\ queue' = queue /\ ran' = ran
        BY <3>1 DEF Writes
      <4>2. /\ cmd.id \in DOMAIN res /\ res'[cmd.id].request = res[cmd.id].request
            /\ res'[cmd.id].kill = res[cmd.id].kill /\ (res[cmd.id].out => res'[cmd.id].out)
        BY <4>1, <3>1 DEF Has, Writes
      <4>3. ~Has(queue, cmd.id) /\ res[cmd.id].request = cmd.who
            /\ (cmd.stage \in {"ended", "status", "done"} => Whole(cmd.id, cmd.who))
        BY <4>1, <4>2, <2>1 DEF GuestsDir, Has
      <4>4. cmd'.stage \in {"ended", "status", "done"} =>
              Whole(cmd.id, cmd.who) \/ res'[cmd.id].out \/ res[cmd.id].kill
        BY <4>2, <4>3 DEF Writes, Has
      <4> QED BY <4>1, <4>2, <4>3, <4>4 DEF Whole
    <3>2. g'.pc = "parse" /\ Has(res', g'.id) => ~Has(queue', g'.id) /\ res'[g'.id].request = g'.who
      BY <2>1 DEF GuestsDir, Writes
    <3> QED BY <3>1, <3>2 DEF GuestsDir
  <2>5. ToldRight'
    BY <1>1, <2>1 DEF ToldRight, Writes
  <2> QED BY <2>2, <2>3, <2>4, <2>5
<1> QED BY <1>1, <1>2, <1>3, <1>4 DEF IInv
(* The files that a command's subshell writes.                                   *)
LEMMA StagesWrite ==
  ASSUME IInv, Pid \/ Ends \/ Status \/ DoneFile \/ Mark
  PROVE  Writes
<1>1. /\ g \in Loops /\ cmd \in Commands /\ cl \in [Clients -> {"new", "queued", "served", "told", "gone"}]
      /\ DOMAIN res \subseteq Nat /\ res \in [DOMAIN res -> Dirs]
  BY DEF IInv, Types
<1>2. UNCHANGED <<cl, got, fwd, backlog, d, queue, g, ran, reused>>
  BY DEF Pid, Ends, Status, DoneFile, Mark, client, guest, files
<1>3. cmd.stage # "none" => g.pc \in {"watch", "waits", "bad"} /\ cmd.who \in Clients
  BY DEF IInv, OneCommand
<1>4. PICK from, to \in {"none", "new", "runs", "ended", "status", "done"} :
        /\ from # "none" /\ cmd.stage = from /\ cmd' = [cmd EXCEPT !.stage = to]
        /\ to \in {"ended", "status", "done"} => from \in {"runs", "ended", "status"}
        /\ from = "runs" => Ends
  <2>1. CASE Pid     BY <2>1 DEF Pid, Stage
  <2>2. CASE Ends    BY <2>2 DEF Ends, Stage
  <2>3. CASE Status  BY <2>3 DEF Status, Stage
  <2>4. CASE DoneFile  BY <2>4 DEF DoneFile, Stage
  <2>5. CASE Mark    BY <2>5 DEF Mark, Stage
  <2> QED BY <2>1, <2>2, <2>3, <2>4, <2>5
<1>5. cmd' \in Commands /\ cmd'.who = cmd.who /\ cmd'.id = cmd.id /\ cmd'.stage = to
  BY <1>1, <1>4 DEF Commands
<1>6. /\ DOMAIN res' = DOMAIN res /\ DOMAIN res' \subseteq Nat /\ res' \in [DOMAIN res' -> Dirs]
      /\ \A i \in DOMAIN res :
           /\ res'[i].request = res[i].request /\ res'[i].kill = res[i].kill
           /\ res[i].out => res'[i].out
           /\ res'[i].status = res[i].status \/
                (i = cmd.id /\ cmd.stage = "ended" /\ res'[i].status = cmd.who)
           /\ Ends /\ i = cmd.id => res'[i].out
  <2>1. CASE Mark
    BY <2>1, <1>1 DEF Mark, Ends, Stage
  <2>2. CASE ~Has(res, cmd.id) /\ res' = res
    BY <2>2, <1>1 DEF Has
  <2>3. CASE Has(res, cmd.id) /\ ~Mark
    <3>1. cmd.id \in DOMAIN res /\ res[cmd.id] \in Dirs
      BY <2>3, <1>1 DEF Has
    <3>2. CASE Pid
      BY <3>1, <3>2, <1>1 DEF Pid, Ends, Stage, InDir, Has, Dirs
    <3>3. CASE Ends
      BY <3>1, <3>3, <1>1 DEF Ends, InDir, Has, Dirs
    <3>4. CASE Status
      <4>1. res' = [res EXCEPT ![cmd.id] = [res[cmd.id] EXCEPT !.status = cmd.who]]
            /\ cmd.stage = "ended" /\ cmd.who \in Clients
        BY <3>4, <2>3, <1>3 DEF Status, Stage, InDir
      <4>2. ~Ends
        BY <4>1 DEF Ends, Stage
      <4> QED BY <4>1, <4>2, <3>1, <1>1 DEF Dirs, Someone
    <3>5. CASE DoneFile
      BY <3>1, <3>5, <1>1 DEF DoneFile, Ends, Stage, InDir, Has, Dirs
    <3> QED BY <2>3, <3>2, <3>3, <3>4, <3>5
  <2>4. Mark \/ Has(res, cmd.id) \/ res' = res
    BY DEF Pid, Ends, Status, DoneFile, InDir
  <2> QED BY <2>1, <2>2, <2>3, <2>4
<1>7. cmd'.stage \in {"ended", "status", "done"} =>
        \/ cmd.stage \in {"ended", "status", "done"}
        \/ Has(res, cmd.id) => res'[cmd.id].out \/ res[cmd.id].kill
  BY <1>4, <1>5, <1>6 DEF Has
<1>8. g' = g /\ g'.pc # "parse" /\ g'.pc \in {"watch", "waits", "bad"}
  BY <1>2, <1>3, <1>4
<1> QED BY <1>1, <1>2, <1>4, <1>5, <1>6, <1>7, <1>8 DEF Writes

LEMMA LoopWrites ==
  ASSUME IInv, Look \/ BadEnds \/ Finished \/ Terminate \/ KernelEnds
  PROVE  Writes
<1>1. /\ g \in Loops /\ cmd \in Commands /\ DOMAIN queue \subseteq Nat
      /\ DOMAIN res \subseteq Nat /\ res \in [DOMAIN res -> Dirs]
  BY DEF IInv, Types
<1>2. cmd.stage # "none" => g.pc \in {"watch", "waits", "bad"} /\ cmd.id = g.id
  BY DEF IInv, OneCommand
<1>3. UNCHANGED <<cl, got, fwd, backlog, d, queue, ran, reused>>
  BY DEF Look, BadEnds, Finished, Terminate, KernelEnds, client, guest, files
<1>4. CASE Look
  <2>1. g.pc = "look" /\ cmd' = cmd
    BY <1>4 DEF Look
  <2>2. CASE stop
    <3>1. g' = g /\ res' = res
      BY <1>4, <2>2 DEF Look
    <3> QED BY <1>1, <1>2, <1>3, <2>1, <3>1 DEF Writes
  <2>3. CASE ~stop
    <3>1. PICK i \in DOMAIN queue :
            /\ g' = [Idle EXCEPT !.pc = "claim", !.id = i]
            /\ res' = IF Has(res, i) THEN res ELSE With(res, i, EmptyDir)
      BY <1>4, <2>3 DEF Look
    <3>2. EmptyDir \in Dirs /\ g' \in Loops /\ g'.pc = "claim" /\ i \in Nat
      BY <1>1, <3>1 DEF EmptyDir, Dirs, Loops, Idle, Someone
    <3>3. CASE Has(res, i)
      BY <1>1, <1>2, <1>3, <2>1, <3>1, <3>2, <3>3 DEF Writes
    <3>4. CASE ~Has(res, i)
      <4>1. /\ DOMAIN res' = DOMAIN res \cup {i} /\ res'[i] = EmptyDir
            /\ \A j \in DOMAIN res : j # i => res'[j] = res[j]
            /\ res' \in [DOMAIN res' -> Dirs] /\ DOMAIN res' \subseteq Nat
        BY <1>1, <3>1, <3>2, <3>4 DEF With
      <4> QED BY <1>1, <1>2, <1>3, <2>1, <3>2, <3>4, <4>1 DEF Writes, Has
    <3> QED BY <3>3, <3>4
  <2> QED BY <2>2, <2>3
<1>5. CASE BadEnds
  BY <1>1, <1>3, <1>5 DEF BadEnds, Idle, Loops, Someone, Writes, files
<1>6. CASE Finished
  BY <1>1, <1>3, <1>6 DEF Finished, Idle, Loops, Someone, Writes
<1>7. CASE Terminate
  <2>1. g' = [g EXCEPT !.pc = "waits"] /\ g.pc = "watch" /\ res' = res
        /\ Has(res, g.id) /\ res[g.id].kill
    BY <1>7 DEF Terminate, GoTo, files
  <2>2. g' \in Loops /\ g'.pc = "waits" /\ g'.id = g.id
    BY <1>1, <2>1 DEF Loops
  <2>3. cmd' = cmd \/ cmd' = [cmd EXCEPT !.stage = IF @ = "runs" THEN "ended" ELSE @]
    BY <1>7 DEF Terminate
  <2>4. cmd' \in Commands /\ cmd'.who = cmd.who /\ cmd'.id = cmd.id
        /\ (cmd'.stage # "none" => cmd.stage # "none")
    BY <1>1, <2>3 DEF Commands
  <2>5. cmd'.stage # "none" => res[cmd.id].kill
    BY <1>2, <2>1, <2>4
  <2> QED BY <1>1, <1>3, <2>1, <2>2, <2>4, <2>5 DEF Writes
<1>8. CASE KernelEnds
  <2>1. g' = Idle /\ res' = res /\ cmd' = NoCmd
    BY <1>8 DEF KernelEnds, files
  <2>2. NoCmd \in Commands /\ NoCmd.stage = "none" /\ Idle \in Loops /\ Idle.pc = "look"
    BY DEF NoCmd, Commands, Idle, Loops, Someone
  <2> QED BY <1>1, <1>3, <2>1, <2>2 DEF Writes
<1> QED BY <1>4, <1>5, <1>6, <1>7, <1>8
(* The rename: the request leaves the queue for the directory.                    *)
LEMMA ClaimKeeps ==
  ASSUME IInv, Claim
  PROVE  IInv'
<1>1. /\ g \in Loops /\ DOMAIN queue \subseteq Nat /\ queue \in [DOMAIN queue -> Clients]
      /\ DOMAIN res \subseteq Nat /\ res \in [DOMAIN res -> Dirs]
  BY DEF IInv, Types
<1>2. g.pc = "claim" /\ cmd.stage = "none" /\ UNCHANGED <<cl, got, fwd, backlog, d, cmd, ran, reused>>
  BY DEF Claim, client, IInv, OneCommand
<1>3. CASE ~(Has(queue, g.id) /\ Has(res, g.id))
  <2>1. g' = [g EXCEPT !.pc = "look"] /\ queue' = queue /\ res' = res
    BY <1>3 DEF Claim, GoTo
  <2>2. g' \in Loops /\ g'.pc = "look"
    BY <1>1, <2>1 DEF Loops
  <2>3. Writes
    BY <1>1, <1>2, <2>1, <2>2 DEF Writes, IInv, Types
  <2> QED BY <2>3, WritesKeeps
<1>4. CASE Has(queue, g.id) /\ Has(res, g.id)
  <2> DEFINE i == g.id
             c == queue[i]
  <2>1. /\ res' = [res EXCEPT ![i].request = c] /\ queue' = Without(queue, i)
        /\ g' = [g EXCEPT !.pc = "parse", !.who = c]
    BY <1>4 DEF Claim
  <2>2. i \in DOMAIN res /\ i \in DOMAIN queue /\ c \in Clients
    BY <1>1, <1>4 DEF Has
  <2>3. /\ DOMAIN queue' = DOMAIN queue \ {i} /\ \A j \in DOMAIN queue' : queue'[j] = queue[j]
        /\ queue' \in [DOMAIN queue' -> Clients] /\ DOMAIN queue' \subseteq Nat
    BY <1>1, <2>1 DEF Without
  <2>4. /\ DOMAIN res' = DOMAIN res /\ res' \in [DOMAIN res' -> Dirs] /\ DOMAIN res' \subseteq Nat
        /\ \A j \in DOMAIN res :
             /\ res'[j].request = IF j = i THEN c ELSE res[j].request
             /\ res'[j].kill = res[j].kill /\ res'[j].out = res[j].out /\ res'[j].status = res[j].status
    BY <1>1, <2>1, <2>2 DEF Dirs, Someone
  <2>5. g' \in Loops /\ g'.pc = "parse" /\ g'.id = i /\ g'.who = c
    BY <1>1, <2>1, <2>2 DEF Loops, Someone
  <2> HIDE DEF i, c
  <2>6. Types'
    BY <1>2, <2>3, <2>4, <2>5 DEF IInv, Types
  <2>7. OnePlace /\ \A x \in Clients : ~Taken(x)
    BY <1>2 DEF IInv, Taken
  <2>8. \A x \in Clients : /\ Waits(x)' <=> Waits(x)
                           /\ Asked(x)' => Asked(x) /\ x # c
                           /\ Taken(x)' => x = c
                           /\ Asked(c)
    BY <1>2, <2>2, <2>3, <2>5, <2>7 DEF Waits, Asked, Taken, OnePlace, c
  <2>9. \A x \in Clients : Spent(x) => Spent(x)'
    BY <1>2, <2>8 DEF Spent
  <2>10. OnePlace'
    <3>1. \A k, l \in DOMAIN queue' : queue'[k] = queue'[l] => k = l
      BY <2>3, <2>7 DEF OnePlace
    <3>2. \A x \in Clients :
            /\ cl'[x] = "new" => ~Waits(x)'
            /\ cl'[x] = "new" \/ Waits(x)' => ~Asked(x)'
            /\ cl'[x] = "new" \/ Waits(x)' \/ Asked(x)' => ~Taken(x)'
            /\ ~Spent(x)' => ran'[x] = 0
            /\ ran'[x] <= 1
      BY <1>2, <2>7, <2>8, <2>9 DEF OnePlace
    <3>3. \A k, l \in DOMAIN backlog' : backlog'[k] = backlog'[l] => k = l
      BY <1>2, <2>7 DEF OnePlace
    <3> QED BY <3>1, <3>2, <3>3 DEF OnePlace
  <2>11. OneCommand'
    BY <1>2, <2>2, <2>5 DEF OneCommand
  <2>12. ASSUME ~reused' PROVE JobsDir' /\ DirsTrue' /\ GuestsDir' /\ ToldRight'
    <3>1. JobsDir /\ DirsTrue /\ GuestsDir /\ ToldRight
      BY <2>12, <1>2 DEF IInv
    <3>2. JobsDir'
      BY <3>1, <1>2, <2>2, <2>3, <2>4 DEF JobsDir, Has, c
    <3>3. GuestsDir'
      BY <1>2, <2>2, <2>3, <2>4, <2>5 DEF GuestsDir, Has
    <3>4. DirsTrue'
      <4>1. \A j \in DOMAIN res : res[j].status \in Someone
        BY <1>1 DEF Dirs
      <4>2. res[i].status = Nobody
        BY <3>1, <2>2 DEF DirsTrue, Has
      <4> QED BY <3>1, <4>1, <4>2, <1>2, <2>3, <2>4, <2>9 DEF DirsTrue, Has, Whole, Someone
    <3>5. ToldRight'
      BY <3>1, <1>2, <2>9 DEF ToldRight
    <3> QED BY <3>2, <3>3, <3>4, <3>5
  <2> QED BY <2>6, <2>10, <2>11, <2>12 DEF IInv
<1> QED BY <1>3, <1>4

(* The request is read: its command starts, or fails at once.                     *)
LEMMA ParseKeeps ==
  ASSUME IInv, Parse
  PROVE  IInv'
<1>0. PICK c \in Clients : c = g.who
  BY DEF IInv, OneCommand, Parse
<1>1. /\ g \in Loops /\ cmd \in Commands /\ ran \in [Clients -> Nat]
      /\ g.pc = "parse" /\ Taken(c)
  BY <1>0 DEF IInv, Types, Parse, Taken
<1>2. UNCHANGED <<cl, got, fwd, backlog, d, queue, res, reused>>
  BY DEF Parse, client, files
<1>3. /\ cmd' = [who |-> c, id |-> g.id, stage |-> IF Bad THEN "ended" ELSE "new"]
      /\ ran' = IF Bad THEN ran ELSE [ran EXCEPT ![c] = @ + 1]
      /\ g' = [g EXCEPT !.pc = IF Bad THEN "bad" ELSE "watch"]
  BY <1>0 DEF Parse, GoTo
<1>4. g' \in Loops /\ g'.pc \in {"bad", "watch"} /\ g'.id = g.id
  BY <1>1, <1>3 DEF Loops
<1>5. cmd' \in Commands /\ cmd'.who = c /\ cmd'.id = g.id /\ (cmd'.stage # "new" => Bad)
  BY <1>1, <1>3 DEF Commands, Loops, Someone
<1>6. /\ ran' \in [Clients -> Nat] /\ \A x \in Clients : x # c => ran'[x] = ran[x]
      /\ ran'[c] <= ran[c] + 1 /\ (Bad => ran' = ran)
  BY <1>1, <1>3
<1>7. Types'
  BY <1>2, <1>4, <1>5, <1>6 DEF IInv, Types
<1>8. OnePlace
  BY DEF IInv
<1>9. cl[c] # "new" /\ ~Waits(c) /\ ~Asked(c) /\ ~Spent(c) /\ ran[c] = 0
  BY <1>1, <1>8 DEF OnePlace, Spent
<1>10. \A x \in Clients : /\ Waits(x)' <=> Waits(x)
                          /\ Asked(x)' <=> Asked(x)
                          /\ ~Taken(x)' /\ (Taken(x) => x = c)
  BY <1>0, <1>1, <1>2, <1>4 DEF Waits, Asked, Taken
<1>11. Spent(c)' /\ \A x \in Clients : Spent(x) => Spent(x)' /\ x # c
  BY <1>1, <1>2, <1>9, <1>10 DEF Spent
<1>12. OnePlace'
  <2>1. \A x \in Clients :
          /\ cl'[x] = "new" => ~Waits(x)'
          /\ cl'[x] = "new" \/ Waits(x)' => ~Asked(x)'
          /\ cl'[x] = "new" \/ Waits(x)' \/ Asked(x)' => ~Taken(x)'
          /\ ~Spent(x)' => ran'[x] = 0
          /\ ran'[x] <= 1
    BY <1>2, <1>6, <1>8, <1>9, <1>10, <1>11 DEF OnePlace
  <2> QED BY <2>1, <1>2, <1>8 DEF OnePlace
<1>13. OneCommand'
  BY <1>1, <1>4, <1>5, <1>11 DEF OneCommand
<1>14. ASSUME ~reused' PROVE JobsDir' /\ DirsTrue' /\ GuestsDir' /\ ToldRight'
  <2>1. JobsDir /\ DirsTrue /\ GuestsDir /\ ToldRight
    BY <1>2, <1>14 DEF IInv
  <2>2. JobsDir'
    BY <1>2, <2>1 DEF JobsDir, Has
  <2>3. GuestsDir'
    <3>1. Has(res, g.id) => ~Has(queue, g.id) /\ res[g.id].request = c
      BY <1>0, <1>1, <2>1 DEF GuestsDir
    <3>2. cmd'.stage \in {"ended", "status", "done"} => Whole(g.id, c)'
      BY <1>5, <1>6, <1>9 DEF Whole
    <3> QED BY <1>2, <1>4, <1>5, <3>1, <3>2 DEF GuestsDir, Has, Whole
  <2>4. DirsTrue'
    <3>1. \A i \in DOMAIN res : res[i].status \in Someone
      BY DEF IInv, Types, Dirs
    <3> QED BY <2>1, <3>1, <1>2, <1>6, <1>11 DEF DirsTrue, Has, Whole, Someone
  <2>5. ToldRight'
    BY <2>1, <1>2, <1>6, <1>11 DEF ToldRight
  <2> QED BY <2>2, <2>3, <2>4, <2>5
<1> QED BY <1>7, <1>12, <1>13, <1>14 DEF IInv

-------------------------------------------------------------------------------
(* The channel is removed: what was in its directories waits nowhere any more.     *)
LEMMA SweptKeeps ==
  ASSUME IInv, um_remove_session_channel
  PROVE  IInv'
<1>1. /\ queue' = <<>> /\ res' = <<>> /\ DOMAIN queue' = {} /\ DOMAIN res' = {}
      /\ UNCHANGED <<cl, got, fwd, backlog, d, g, cmd, ran, reused>>
  BY DEF um_remove_session_channel, client
<1>2. Types'
  BY <1>1 DEF IInv, Types
<1>3. \A c \in Clients : /\ Waits(c)' <=> Waits(c)
                         /\ ~Asked(c)'
                         /\ Taken(c)' <=> Taken(c)
                         /\ Spent(c) => Spent(c)'
  BY <1>1 DEF Waits, Asked, Taken, Spent
<1>4. OnePlace' /\ OneCommand'
  <2>1. OnePlace /\ OneCommand
    BY DEF IInv
  <2>2. OnePlace'
    BY <2>1, <1>1, <1>3 DEF OnePlace
  <2>3. OneCommand'
    BY <2>1, <1>1, <1>3 DEF OneCommand
  <2> QED BY <2>2, <2>3
<1>5. ~reused' => JobsDir' /\ DirsTrue' /\ GuestsDir' /\ ToldRight'
  <2>1. JobsDir' /\ DirsTrue' /\ GuestsDir'
    BY <1>1 DEF JobsDir, DirsTrue, GuestsDir, Has
  <2>2. ~reused => ToldRight
    BY DEF IInv
  <2> QED BY <2>1, <2>2, <1>1, <1>3 DEF ToldRight
<1> QED BY <1>2, <1>4, <1>5 DEF IInv

LEMMA InvNext == IInv /\ [Next]_vars => IInv'
<1> SUFFICES ASSUME IInv, [Next]_vars PROVE IInv'  OBVIOUS
<1>1. CASE Client
  BY <1>1, ClientKeeps DEF Client
<1>2. CASE Daemon
  <2>1. CASE Input  BY <2>1, InputKeeps
  <2>2. CASE um_daemon_poll_job  BY <2>2, PollKeeps
  <2>3. CASE Accept  BY <2>3, AcceptKeeps
  <2>4. CASE um_daemon_shutdown  BY <2>4, ShutdownKeeps
  <2>5. CASE Killed  BY <2>5, LoopWrites, WritesKeeps DEF Killed
  <2> QED BY <1>2, <2>1, <2>2, <2>3, <2>4, <2>5 DEF Daemon
<1>3. CASE Guest
  <2>1. CASE Look \/ BadEnds \/ Finished \/ Terminate
    BY <2>1, LoopWrites, WritesKeeps
  <2>2. CASE Pid \/ Ends \/ Status \/ DoneFile \/ Mark
    BY <2>2, StagesWrite, WritesKeeps
  <2>3. CASE Claim  BY <2>3, ClaimKeeps
  <2>4. CASE Parse  BY <2>4, ParseKeeps
  <2> QED BY <1>3, <2>1, <2>2, <2>3, <2>4 DEF Guest
<1>4. CASE UNCHANGED vars
  <2>1. UNCHANGED <<cl, got, fwd, backlog, d, queue, res, g, cmd, ran, reused>>
    BY <1>4 DEF vars, client, files, guest
  <2>2. Types' /\ OnePlace' /\ OneCommand'
    BY <2>1 DEF IInv, Types, OnePlace, OneCommand, Spent, Waits, Asked, Taken
  <2>3. JobsDir' <=> JobsDir
    BY <2>1 DEF JobsDir, Has
  <2>4. DirsTrue' <=> DirsTrue
    BY <2>1 DEF DirsTrue, Has, Whole, Spent, Waits, Asked, Taken
  <2>5. GuestsDir' <=> GuestsDir
    BY <2>1 DEF GuestsDir, Has, Whole
  <2>6. ToldRight' <=> ToldRight
    BY <2>1 DEF ToldRight, Spent, Waits, Asked, Taken
  <2> QED BY <2>1, <2>2, <2>3, <2>4, <2>5, <2>6 DEF IInv
<1>5. CASE Dies  BY <1>5, LoopWrites, WritesKeeps DEF Dies
<1>6. CASE um_remove_session_channel  BY <1>6, SweptKeeps
<1> QED BY <1>1, <1>2, <1>3, <1>4, <1>5, <1>6 DEF Next

(* Of um_session.c and um_session_loop.sh together: the command of a request is     *)
(* started at most once, and the status that a client exits with is that of its own *)
(* command, after the output of it, unless an id was given again while the files of *)
(* its last use were there. For any number of clients, kinds of requests and faults. *)
THEOREM CommandsOnceAndRight == Spec => []OnceAndRight
<1>1. IInv => OnceAndRight
  BY DEF IInv, OnePlace, ToldRight, OnceAndRight
<1> QED BY <1>1, InvInit, InvNext, PTL DEF Spec
===============================================================================
