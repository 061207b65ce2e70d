------------------------ MODULE PtraceEmulationProofs ------------------------
(***************************************************************************)
(* LinksSound and WaitSound are invariants of the ptrace emulation, for    *)
(* any number of processes that fits the arrays in which list walks        *)
(* collect tracees, any scripts of calls and any number of signals.        *)
(*                                                                         *)
(* LinksSound is not inductive.  What it needs besides is the history of   *)
(* a Tracee (Ended: one that is off the list has terminated, one that has  *)
(* terminated is gone from the kernel), that nobody is its own parent or   *)
(* ptracer (NotItself), and that the zombies a ptracer has not collected   *)
(* yet are off the list (ZombiesFreed), so that nothing is counted twice.  *)
(* The handlers call one another, so the proof goes by world: each         *)
(* operator leads from a sound world to a sound one.  Most of them are     *)
(* Quiet: they do not touch who traces whom.                               *)
(*                                                                         *)
(* WaitSound needs to know where every process is: who does not run is     *)
(* stopped or was killed (Halted), so is who waits (WaiterHeld), an event  *)
(* that a waiter was not told of is none it waits for, with the exceptions *)
(* of Excused (HeardBy), and while nobody was killed each process is in    *)
(* the stage of its call that its status says (Phased).  The handler of an *)
(* event breaks this for the processes it has in hand and mends it before  *)
(* it lets them go, so Steady(w, H) exempts the processes H: a handler     *)
(* takes one in hand (Take), leads from one steady world to another, and   *)
(* lets it go (Release), and between two steps nobody is in hand.          *)
(***************************************************************************)
EXTENDS PtraceEmulation, FiniteSetTheorems, TLAPS

Events == {"none", "ENTER", "LEAVE", "SIG", "SIGSTOP", "DIED"}
States == {"run", "insys", "kwait", "stop", "dead", "gone"}
Chains == {"none", "queued", "running"}
Processes == [st : States, ev : Events, reported : BOOLEAN, call : Calls, void : BOOLEAN,
              stopsig : BOOLEAN, kres : P \cup {None}]
Ptracees == [ptracer : P \cup {None}, proot : BOOLEAN, pval : Events, ptr : BOOLEAN,
             tval : Events, started : BOOLEAN, ignore : BOOLEAN]
Worlds == [k : [P -> Processes], t : [P -> TraceeType], crashed : BOOLEAN]

\* World w with x for the process p and r for its Tracee.
Put(w, p, x, r) == [w EXCEPT !.k[p] = x, !.t[p] = r]

\* The process is not reborn; the Tracee has the same links; nobody's change.
SameLife(x, y) == y.ev = x.ev /\ (x.st \in {"dead", "gone"} => y.st = x.st)
SameLinks(r, s) ==
    /\ s.listed = r.listed /\ s.terminated = r.terminated /\ s.parent = r.parent
    /\ s.as_ptracee.ptracer = r.as_ptracee.ptracer
    /\ s.nb_ptracees = r.nb_ptracees /\ s.zombies = r.zombies

Quiets(w, v) ==
    /\ v \in Worlds
    /\ \A q \in P : SameLife(w.k[q], v.k[q]) /\ SameLinks(w.t[q], v.t[q])

-----------------------------------------------------------------------------
\* The fields of a world have their types.
LEMMA Parts ==
  ASSUME NEW w \in Worlds, NEW p \in P
  PROVE  /\ w.k[p] \in Processes /\ w.t[p] \in TraceeType /\ w.crashed \in BOOLEAN
         /\ w.k[p].call \in Calls /\ w.k[p].st \in States /\ w.k[p].ev \in Events
         /\ w.t[p].as_ptracee \in Ptracees
         /\ w.t[p].nb_ptracees \in Nat /\ w.t[p].zombies \subseteq [pid : P, own : BOOLEAN]
         /\ w.t[p].as_ptracee.ptracer \in P \cup {None} /\ w.t[p].parent \in P \cup {None}
         /\ w.t[p].as_ptracee.pval \in Events /\ w.t[p].wait_pid \in P \cup {None, AnyPid}
<1>1. w.k[p] \in Processes /\ w.t[p] \in TraceeType /\ w.crashed \in BOOLEAN
  BY DEF Worlds
<1>2. w.k[p].call \in Calls /\ w.k[p].st \in States /\ w.k[p].ev \in Events
  BY <1>1 DEF Processes
<1>3. w.t[p].as_ptracee \in Ptracees
  BY <1>1 DEF TraceeType, Ptracees, Events
<1>4. /\ w.t[p].nb_ptracees \in Nat /\ w.t[p].zombies \subseteq [pid : P, own : BOOLEAN]
      /\ w.t[p].parent \in P \cup {None} /\ w.t[p].wait_pid \in P \cup {None, AnyPid}
  BY <1>1 DEF TraceeType
<1>5. w.t[p].as_ptracee.ptracer \in P \cup {None} /\ w.t[p].as_ptracee.pval \in Events
  BY <1>3 DEF Ptracees
<1> QED BY <1>1, <1>2, <1>3, <1>4, <1>5

\* A field of a process, of an as_ptracee and of a Tracee is replaced by a value of its type.
LEMMA PutProcess ==
  ASSUME NEW x \in Processes
  PROVE  /\ \A s \in States : [x EXCEPT !.st = s] \in Processes
         /\ \A b \in BOOLEAN : /\ [x EXCEPT !.void = b] \in Processes
                               /\ [x EXCEPT !.stopsig = b] \in Processes
                               /\ [x EXCEPT !.reported = b] \in Processes
BY DEF Processes

LEMMA PutPtracee ==
  ASSUME NEW e \in Ptracees
  PROVE  /\ \A m \in P \cup {None} : [e EXCEPT !.ptracer = m] \in Ptracees
         /\ \A b \in BOOLEAN : /\ [e EXCEPT !.proot = b] \in Ptracees
                               /\ [e EXCEPT !.ptr = b] \in Ptracees
                               /\ [e EXCEPT !.started = b] \in Ptracees
                               /\ [e EXCEPT !.ignore = b] \in Ptracees
         /\ \A ev \in Events : /\ [e EXCEPT !.pval = ev] \in Ptracees
                               /\ [e EXCEPT !.tval = ev] \in Ptracees
BY DEF Ptracees

LEMMA PutTracee ==
  ASSUME NEW r \in TraceeType
  PROVE  /\ \A e \in Ptracees : [r EXCEPT !.as_ptracee = e] \in TraceeType
         /\ \A b \in BOOLEAN : [r EXCEPT !.terminated = b] \in TraceeType
         /\ \A b \in BOOLEAN : [r EXCEPT !.listed = b] \in TraceeType
         /\ \A b \in BOOLEAN : [r EXCEPT !.running = b] \in TraceeType
         /\ \A m \in P \cup {None} : [r EXCEPT !.parent = m] \in TraceeType
         /\ \A s \in {"enter", "exit"} : [r EXCEPT !.status = s] \in TraceeType
         /\ \A s \in {"IGNORED", "ALLOWED"} : [r EXCEPT !.sigstop = s] \in TraceeType
         /\ \A c \in Chains : [r EXCEPT !.chain = c] \in TraceeType
         /\ \A n \in Nat : [r EXCEPT !.nb_ptracees = n] \in TraceeType
         /\ \A z \in SUBSET [pid : P, own : BOOLEAN] : [r EXCEPT !.zombies = z] \in TraceeType
         /\ \A a \in P \cup {None, AnyPid} : [r EXCEPT !.wait_pid = a] \in TraceeType
         /\ \A s \in {"DOESNT_WAIT", "WAITS_IN_KERNEL", "WAITS_IN_PROOT"} :
              [r EXCEPT !.waits_in = s] \in TraceeType
<1>1. \A e \in Ptracees : [r EXCEPT !.as_ptracee = e] \in TraceeType
  BY DEF TraceeType, Ptracees, Events
<1>2. /\ \A b \in BOOLEAN : [r EXCEPT !.terminated = b] \in TraceeType
      /\ \A b \in BOOLEAN : [r EXCEPT !.listed = b] \in TraceeType
      /\ \A b \in BOOLEAN : [r EXCEPT !.running = b] \in TraceeType
  BY DEF TraceeType
<1>3. /\ \A m \in P \cup {None} : [r EXCEPT !.parent = m] \in TraceeType
      /\ \A n \in Nat : [r EXCEPT !.nb_ptracees = n] \in TraceeType
      /\ \A z \in SUBSET [pid : P, own : BOOLEAN] : [r EXCEPT !.zombies = z] \in TraceeType
      /\ \A a \in P \cup {None, AnyPid} : [r EXCEPT !.wait_pid = a] \in TraceeType
  BY DEF TraceeType
<1>4. /\ \A s \in {"enter", "exit"} : [r EXCEPT !.status = s] \in TraceeType
      /\ \A s \in {"IGNORED", "ALLOWED"} : [r EXCEPT !.sigstop = s] \in TraceeType
      /\ \A c \in Chains : [r EXCEPT !.chain = c] \in TraceeType
      /\ \A s \in {"DOESNT_WAIT", "WAITS_IN_KERNEL", "WAITS_IN_PROOT"} :
              [r EXCEPT !.waits_in = s] \in TraceeType
  BY DEF TraceeType, Chains
<1> QED BY <1>1, <1>2, <1>3, <1>4

\* Process and Tracee of p are replaced.
LEMMA PutWorld ==
  ASSUME NEW w \in Worlds, NEW p \in P, NEW x \in Processes, NEW r \in TraceeType
  PROVE  /\ Put(w, p, x, r) \in Worlds
         /\ Put(w, p, x, r).k[p] = x /\ \A q \in P \ {p} : Put(w, p, x, r).k[q] = w.k[q]
         /\ Put(w, p, x, r).t[p] = r /\ \A q \in P \ {p} : Put(w, p, x, r).t[q] = w.t[q]
         /\ Put(w, p, x, r).crashed = w.crashed
BY DEF Worlds, Put

\* The same process is put in again, with another Tracee.
LEMMA PutAgain ==
  ASSUME NEW w \in Worlds, NEW p \in P, NEW x, NEW s, NEW r
  PROVE  Put(Put(w, p, x, s), p, x, r) = Put(w, p, x, r)
BY DEF Worlds, Put

\* What is done to p alone is quiet when it leaves the links of p alone.
LEMMA QuietBoth ==
  ASSUME NEW w \in Worlds, NEW p \in P, NEW x \in Processes, NEW r \in TraceeType,
         SameLife(w.k[p], x), SameLinks(w.t[p], r)
  PROVE  Quiets(w, Put(w, p, x, r))
<1> DEFINE v == Put(w, p, x, r)
<1>1. /\ v \in Worlds
      /\ v.k[p] = x /\ \A q \in P \ {p} : v.k[q] = w.k[q]
      /\ v.t[p] = r /\ \A q \in P \ {p} : v.t[q] = w.t[q]
  BY PutWorld
<1> HIDE DEF v
<1>2. ASSUME NEW q \in P PROVE SameLife(w.k[q], v.k[q]) /\ SameLinks(w.t[q], v.t[q])
  BY <1>1 DEF Worlds, SameLife, SameLinks
<1>3. Quiets(w, v) BY <1>1, <1>2 DEF Quiets
<1> QED BY <1>3 DEF v

\* Quiet steps compose.
LEMMA QuietSelf == ASSUME NEW w \in Worlds PROVE Quiets(w, w)
BY DEF Quiets, SameLife, SameLinks

LEMMA QuietTrans ==
  ASSUME NEW u, NEW v, NEW w, Quiets(u, v), Quiets(v, w)
  PROVE  Quiets(u, w)
BY DEF Quiets, SameLife, SameLinks

\* event.c, restart_tracee(): who traces whom does not change.
LEMMA RestartQuiet ==
  ASSUME NEW w \in Worlds, NEW p \in P
  PROVE  Quiets(w, restart_tracee(w, p))
<1> DEFINE s == Resumed(w, p)
           c == IF w.t[p].chain = "queued" THEN "running" ELSE w.t[p].chain
           x == [w.k[p] EXCEPT !.st = s]
           r == [w.t[p] EXCEPT !.running = TRUE, !.chain = c]
<1>1. s \in States BY DEF Resumed, States
<1>2. c \in Chains BY Parts DEF TraceeType, Chains
<1>3. CASE Restartable(w, p)
  <2> HIDE DEF s, c
  <2>1. x \in Processes BY <1>1, Parts, PutProcess
  <2>2. w.t[p] \in TraceeType BY Parts
  <2>3. r \in TraceeType BY <1>2, <2>2 DEF TraceeType, Chains
  <2>4. SameLife(w.k[p], x) /\ SameLinks(w.t[p], r)
    BY <1>3, Parts DEF SameLife, SameLinks, Restartable, Processes, TraceeType
  <2>5. restart_tracee(w, p) = Put(w, p, x, r)
    BY <1>3 DEF restart_tracee, Put, Worlds, s, c
  <2> HIDE DEF x, r
  <2> QED BY <2>1, <2>3, <2>4, <2>5, QuietBoth
<1> QED BY <1>3, QuietSelf DEF restart_tracee


\* A Tracee's other fields are replaced.
LEMMA TraceeQuiet ==
  ASSUME NEW w \in Worlds, NEW p \in P, NEW r \in TraceeType, SameLinks(w.t[p], r)
  PROVE  Quiets(w, Put(w, p, w.k[p], r))
BY QuietBoth, Parts DEF SameLife

\* The stages of a system call that only touch their own Tracee (wait.c, syscall.c).
LEMMA WaitEnterQuiet ==
  ASSUME NEW w \in Worlds, NEW p \in P
  PROVE  Quiets(w, translate_wait_enter(w, p))
<1> DEFINE a == w.k[p].call.arg
           b == /\ w.t[p].nb_ptracees # 0
                /\ a # AnyPid => w.t[a].listed /\ w.t[a].as_ptracee.ptracer = p
           s == IF b THEN "WAITS_IN_PROOT" ELSE "WAITS_IN_KERNEL"
           x == [w.k[p] EXCEPT !.void = b]
           r == [w.t[p] EXCEPT !.waits_in = s]
<1>1. b \in BOOLEAN BY Zenon
<1>2. translate_wait_enter(w, p) = Put(w, p, x, r) BY DEF translate_wait_enter, Put, Worlds
<1>3. s \in {"DOESNT_WAIT", "WAITS_IN_KERNEL", "WAITS_IN_PROOT"} OBVIOUS
<1> HIDE DEF b, s
<1>4. x \in Processes BY <1>1, Parts, PutProcess
<1>5. r \in TraceeType BY <1>3, Parts, PutTracee
<1>6. SameLife(w.k[p], x) /\ SameLinks(w.t[p], r)
  BY Parts DEF SameLife, SameLinks, Processes, TraceeType
<1> HIDE DEF x, r
<1> QED BY <1>2, <1>4, <1>5, <1>6, QuietBoth

LEMMA EnterQuiet ==
  ASSUME NEW w \in Worlds, NEW p \in P
  PROVE  Quiets(w, HandleEnter(w, p))
<1> DEFINE r  == [w.t[p] EXCEPT !.status = "exit"]
           w1 == Put(w, p, w.k[p], r)
           w0 == [w EXCEPT !.t[p].status = "exit"]
           b  == w.k[p].call # NoCall
           x  == [w1.k[p] EXCEPT !.void = b]
<1>1. w0 = w1 BY DEF Put, Worlds
<1>2. r \in TraceeType /\ SameLinks(w.t[p], r)
  <2>1. w.t[p] \in TraceeType BY Parts
  <2> QED BY <2>1 DEF SameLinks, TraceeType
<1>3. Quiets(w, w1) BY <1>2, TraceeQuiet
<1>4. w1 \in Worlds BY <1>3 DEF Quiets
<1> HIDE DEF r
<1>5. Quiets(w1, translate_wait_enter(w1, p)) BY <1>4, WaitEnterQuiet
<1>6. Quiets(w1, Put(w1, p, x, w1.t[p]))
  <2> HIDE DEF w1
  <2>1. b \in BOOLEAN OBVIOUS
  <2> HIDE DEF b
  <2>2. x \in Processes BY <1>4, <2>1, Parts, PutProcess
  <2>3. SameLife(w1.k[p], x) /\ SameLinks(w1.t[p], w1.t[p])
    BY <1>4, Parts DEF SameLife, SameLinks, Processes
  <2> HIDE DEF x
  <2> QED BY <1>4, <2>2, <2>3, Parts, QuietBoth
<1>7. [w1 EXCEPT !.k[p].void = b] = Put(w1, p, x, w1.t[p])
  <2> HIDE DEF w1, b
  <2> QED BY <1>4 DEF Put, Worlds
<1>8. HandleEnter(w, p) \in {translate_wait_enter(w1, p), [w1 EXCEPT !.k[p].void = b]}
  <2> HIDE DEF w1
  <2> QED BY <1>1 DEF HandleEnter
<1> HIDE DEF w1, x, b
<1> QED BY <1>3, <1>5, <1>6, <1>7, <1>8, QuietTrans

LEMMA SigstopQuiet ==
  ASSUME NEW w \in Worlds, NEW p \in P
  PROVE  Quiets(w, HandleSigstop(w, p))
<1> DEFINE s == IF w.t[p].sigstop = "IGNORED" THEN "ALLOWED" ELSE w.t[p].sigstop
           r == [w.t[p] EXCEPT !.sigstop = s]
<1>1. HandleSigstop(w, p) = Put(w, p, w.k[p], r) BY DEF HandleSigstop, Put, Worlds
<1>2. s \in {"IGNORED", "ALLOWED"} BY Parts DEF TraceeType
<1> HIDE DEF s
<1>3. r \in TraceeType /\ SameLinks(w.t[p], r)
  <2>1. w.t[p] \in TraceeType BY Parts
  <2> QED BY <1>2, <2>1 DEF SameLinks, TraceeType
<1> HIDE DEF r
<1> QED BY <1>1, <1>3, TraceeQuiet

LEMMA RepeatQuiet ==
  ASSUME NEW w \in Worlds, NEW p \in P
  PROVE  Quiets(w, restart_original_syscall(w, p))
<1> DEFINE r == [w.t[p] EXCEPT !.chain = "queued", !.status = "exit"]
<1>1. restart_original_syscall(w, p) = Put(w, p, w.k[p], r)
  BY DEF restart_original_syscall, Put, Worlds
<1>2. w.t[p] \in TraceeType BY Parts
<1>3. r \in TraceeType /\ SameLinks(w.t[p], r)
  BY <1>2 DEF SameLinks, TraceeType
<1> HIDE DEF r
<1> QED BY <1>1, <1>3, TraceeQuiet

SetPtracee(w, p, e) == Put(w, p, w.k[p], [w.t[p] EXCEPT !.as_ptracee = e])
SetWait(w, p, a) == Put(w, p, w.k[p], [w.t[p] EXCEPT !.wait_pid = a])
SetWaitsIn(w, p, s) == Put(w, p, w.k[p], [w.t[p] EXCEPT !.waits_in = s])

\* The other fields of as_ptracee, and of the wait, are replaced.
LEMMA PtraceeQuiet ==
  ASSUME NEW w \in Worlds, NEW p \in P, NEW e \in Ptracees,
         e.ptracer = w.t[p].as_ptracee.ptracer
  PROVE  Quiets(w, SetPtracee(w, p, e)) /\ SetPtracee(w, p, e).t[p].as_ptracee = e
<1> DEFINE r == [w.t[p] EXCEPT !.as_ptracee = e]
<1>1. r \in TraceeType BY Parts, PutTracee
<1>2. SameLinks(w.t[p], r) /\ r.as_ptracee = e
  <2>1. w.t[p] \in TraceeType BY Parts
  <2> QED BY <2>1 DEF SameLinks, TraceeType
<1> HIDE DEF r
<1>3. Quiets(w, Put(w, p, w.k[p], r)) BY <1>1, <1>2, TraceeQuiet
<1>4. Put(w, p, w.k[p], r).t[p] = r
  <2>1. w.k[p] \in Processes BY Parts
  <2> QED BY <1>1, <2>1, PutWorld
<1> QED BY <1>2, <1>3, <1>4 DEF SetPtracee, r

LEMMA WaitQuiet ==
  ASSUME NEW w \in Worlds, NEW p \in P, NEW a \in P \cup {None, AnyPid},
         NEW s \in {"DOESNT_WAIT", "WAITS_IN_KERNEL", "WAITS_IN_PROOT"}
  PROVE  Quiets(w, SetWait(w, p, a)) /\ Quiets(w, SetWaitsIn(w, p, s))
<1> DEFINE r1 == [w.t[p] EXCEPT !.wait_pid = a]
           r2 == [w.t[p] EXCEPT !.waits_in = s]
<1>0. w.t[p] \in TraceeType BY Parts
<1>1. r1 \in TraceeType /\ r2 \in TraceeType BY <1>0, PutTracee
<1>2. SameLinks(w.t[p], r1) /\ SameLinks(w.t[p], r2)
  BY <1>0 DEF SameLinks, TraceeType
<1> HIDE DEF r1, r2
<1>3. Quiets(w, Put(w, p, w.k[p], r1)) BY <1>1, <1>2, TraceeQuiet
<1>4. Quiets(w, Put(w, p, w.k[p], r2)) BY <1>1, <1>2, TraceeQuiet
<1> QED BY <1>3, <1>4 DEF SetWait, SetWaitsIn, r1, r2

\* An event that was held for the ptracer is handled.
LEMMA HeldEventQuiet ==
  ASSUME NEW w \in Worlds, NEW q \in P, NEW ev \in Events
  PROVE  Quiets(w, HandleHeldEvent(w, q, ev))
<1> DEFINE e  == [w.t[q].as_ptracee EXCEPT !.proot = FALSE]
           w1 == SetPtracee(w, q, e)
<1>0. w.t[q].as_ptracee \in Ptracees BY Parts
<1>1. e \in Ptracees /\ e.ptracer = w.t[q].as_ptracee.ptracer
  BY <1>0 DEF Ptracees
<1>2. [w EXCEPT !.t[q].as_ptracee.proot = FALSE] = w1 BY DEF SetPtracee, Put, Worlds
<1> HIDE DEF e
<1>3. Quiets(w, w1) BY <1>1, PtraceeQuiet
<1> HIDE DEF w1
<1>4. w1 \in Worlds BY <1>3 DEF Quiets
<1>5. Quiets(w1, HandleEnter(w1, q)) /\ Quiets(w1, HandleSigstop(w1, q)) /\ Quiets(w1, w1)
  BY <1>4, EnterQuiet, SigstopQuiet, QuietSelf
<1>6. HandleHeldEvent(w, q, ev) \in {HandleEnter(w1, q), HandleSigstop(w1, q), w1}
  BY <1>2 DEF HandleHeldEvent
<1> QED BY <1>3, <1>5, <1>6, QuietTrans

-----------------------------------------------------------------------------
(* What the links of a world have to be.                                   *)

\* The ptracees of p that are on the list.
Tracees(w, p) == {q \in P : w.t[q].listed /\ w.t[q].as_ptracee.ptracer = p}

Ended(w) ==
    \A q \in P : /\ ~w.t[q].listed => w.t[q].terminated
                 /\ w.t[q].terminated => w.k[q].st = "gone"
                 /\ w.k[q].ev = "DIED" => w.k[q].st \in {"dead", "gone"}
NotItself(w) ==
    \A q \in P : w.t[q].parent # q /\ w.t[q].as_ptracee.ptracer # q
PointsToListed(w) ==
    \A q \in P : w.t[q].listed =>
        /\ w.t[q].parent \in P => w.t[w.t[q].parent].listed
        /\ w.t[q].as_ptracee.ptracer \in P => w.t[w.t[q].as_ptracee.ptracer].listed
ZombiesFreed(w) ==
    \A p \in P : w.t[p].listed => \A z \in w.t[p].zombies : ~w.t[z.pid].listed
Counted(w) ==
    \A p \in P : w.t[p].listed =>
        w.t[p].nb_ptracees = Cardinality(Tracees(w, p)) + Cardinality(w.t[p].zombies)

Sound(w) == w \in Worlds /\ Ended(w) /\ NotItself(w) /\ PointsToListed(w)
              /\ ZombiesFreed(w) /\ Counted(w)

\* v has the list of w; and q the ptracer it has in w.
Lists(w, v) ==
    \A q \in P : SameLife(w.k[q], v.k[q]) /\ v.t[q].listed = w.t[q].listed
Keeps(w, v, q) == Sound(v) /\ Lists(w, v)
                    /\ v.t[q].as_ptracee.ptracer = w.t[q].as_ptracee.ptracer

\* A quiet step keeps a world sound.
LEMMA QuietKeeps ==
  ASSUME NEW w, Sound(w), NEW v, Quiets(w, v), NEW q \in P
  PROVE  Keeps(w, v, q)
<1>1. v \in Worlds /\ w \in Worlds BY DEF Sound, Quiets
<1>2. \A r \in P : SameLife(w.k[r], v.k[r]) /\ SameLinks(w.t[r], v.t[r]) BY DEF Quiets
<1>3. Lists(w, v) BY <1>2 DEF Lists, SameLinks
<1>4. \A p \in P : Tracees(v, p) = Tracees(w, p) BY <1>2 DEF Tracees, SameLinks
<1>5. Counted(v) BY <1>2, <1>4 DEF Counted, Sound, SameLinks
<1>6. Ended(v) BY <1>1, <1>2 DEF Ended, Sound, SameLinks, SameLife
<1>7. NotItself(v) BY <1>2 DEF NotItself, Sound, SameLinks
<1>8. PointsToListed(v) BY <1>2 DEF PointsToListed, Sound, SameLinks
<1>9. ZombiesFreed(v)
  <2> SUFFICES ASSUME NEW p \in P, v.t[p].listed, NEW z \in v.t[p].zombies
               PROVE  ~v.t[z.pid].listed
    BY DEF ZombiesFreed
  <2>1. z \in w.t[p].zombies /\ w.t[p].listed BY <1>2 DEF SameLinks
  <2>2. z.pid \in P BY <1>1, <2>1, Parts
  <2> QED BY <1>2, <2>1, <2>2 DEF SameLinks, ZombiesFreed, Sound
<1> QED BY <1>1, <1>2, <1>3, <1>5, <1>6, <1>7, <1>8, <1>9 DEF Keeps, Sound, SameLinks

\* Counting ptracees.
LEMMA Finite ==
  ASSUME IsFiniteSet(P), NEW w \in Worlds, NEW p \in P
  PROVE  /\ IsFiniteSet(Tracees(w, p)) /\ Cardinality(Tracees(w, p)) \in Nat
         /\ IsFiniteSet(w.t[p].zombies) /\ Cardinality(w.t[p].zombies) \in Nat
<1>1. IsFiniteSet(Tracees(w, p)) BY FS_Subset DEF Tracees
<1>2. IsFiniteSet(P \X BOOLEAN)
  <2>1. IsFiniteSet({TRUE}) /\ IsFiniteSet({TRUE} \cup {FALSE})
    BY FS_Singleton, FS_Union
  <2>2. {TRUE} \cup {FALSE} = BOOLEAN OBVIOUS
  <2> QED BY <2>1, <2>2, FS_Product
<1>3. IsFiniteSet([pid : P, own : BOOLEAN])
  <2> DEFINE f == [c \in P \X BOOLEAN |-> [pid |-> c[1], own |-> c[2]]]
  <2>1. f \in Surjection(P \X BOOLEAN, [pid : P, own : BOOLEAN])
    <3>1. f \in [P \X BOOLEAN -> [pid : P, own : BOOLEAN]] OBVIOUS
    <3>2. ASSUME NEW z \in [pid : P, own : BOOLEAN]
          PROVE  \E c \in P \X BOOLEAN : f[c] = z
      <4>1. <<z.pid, z.own>> \in P \X BOOLEAN /\ f[<<z.pid, z.own>>] = z OBVIOUS
      <4> QED BY <4>1
    <3> QED BY <3>1, <3>2 DEF Surjection
  <2> QED BY <1>2, <2>1, FS_Surjection
<1>4. IsFiniteSet(w.t[p].zombies) BY <1>3, Parts, FS_Subset
<1> QED BY <1>1, <1>4, FS_CardinalityType

\* Two records of a world are replaced.
LEMMA PutTwo ==
  ASSUME NEW w \in Worlds, NEW p \in P, NEW q \in P, p # q,
         NEW r \in TraceeType, NEW s \in TraceeType
  PROVE  LET v == Put(Put(w, q, w.k[q], s), p, w.k[p], r)
         IN  /\ v \in Worlds /\ v.k = w.k
             /\ v.t[p] = r /\ v.t[q] = s /\ \A o \in P \ {p, q} : v.t[o] = w.t[o]
<1> DEFINE x == w.k[p]
           u == Put(w, q, w.k[q], s)
           v == Put(u, p, x, r)
<1>1. w.k[q] \in Processes /\ x \in Processes BY Parts
<1>2. /\ u \in Worlds /\ u.t[q] = s /\ u.k[q] = w.k[q]
      /\ \A o \in P \ {q} : u.k[o] = w.k[o] /\ u.t[o] = w.t[o]
  BY ONLY <1>1, w \in Worlds, PutWorld
<1>3. \A o \in P : u.k[o] = w.k[o] BY ONLY <1>2
<1>4. u \in Worlds BY <1>2
<1> HIDE DEF u, x
<1>5. v \in Worlds BY <1>1, <1>4, PutWorld
<1>6. v.t[p] = r BY <1>1, <1>4, PutWorld
<1>7. \A o \in P \ {p} : v.t[o] = u.t[o] BY <1>1, <1>4, PutWorld
<1>8. v.k[p] = x /\ \A o \in P \ {p} : v.k[o] = u.k[o] BY <1>1, <1>4, PutWorld
<1> HIDE DEF v
<1>9. v.k = w.k BY <1>3, <1>5, <1>8 DEF Worlds, x
<1>10. v.t[q] = s /\ \A o \in P \ {p, q} : v.t[o] = w.t[o] BY <1>2, <1>7
<1> QED BY <1>5, <1>6, <1>9, <1>10 DEF u, v, x

\* ptrace.c, attach_to_ptracer(): the new ptracee is counted, once.
LEMMA AttachKeeps ==
  ASSUME IsFiniteSet(P), NEW w, Sound(w), NEW q \in P, NEW p \in P, p # q,
         w.t[q].listed, w.t[p].listed, w.t[q].as_ptracee.ptracer = None
  PROVE  LET v == attach_to_ptracer(w, q, p)
         IN  /\ Sound(v) /\ Lists(w, v)
             /\ \A r \in P \ {q} : v.t[r].as_ptracee.ptracer = w.t[r].as_ptracee.ptracer
<1> DEFINE e  == [Unattached EXCEPT !.ptracer = p]
           n  == w.t[p].nb_ptracees + 1
           s  == [w.t[q] EXCEPT !.as_ptracee = e]
           r  == [w.t[p] EXCEPT !.nb_ptracees = n]
           v  == Put(Put(w, q, w.k[q], s), p, w.k[p], r)
<1>1. e \in Ptracees /\ e.ptracer = p BY DEF Unattached, Ptracees, Events
<1>2. w \in Worlds /\ w.t[q] \in TraceeType /\ w.t[p] \in TraceeType /\ n \in Nat
  BY Parts DEF Sound
<1>3. /\ s \in TraceeType
      /\ s.listed = w.t[q].listed /\ s.terminated = w.t[q].terminated /\ s.parent = w.t[q].parent
      /\ s.as_ptracee.ptracer = p
      /\ s.nb_ptracees = w.t[q].nb_ptracees /\ s.zombies = w.t[q].zombies
  <2> HIDE DEF e
  <2>1. s \in TraceeType BY <1>1, <1>2, PutTracee
  <2> QED BY <1>1, <1>2, <2>1 DEF TraceeType
<1>4. /\ r \in TraceeType
      /\ r.listed = w.t[p].listed /\ r.terminated = w.t[p].terminated /\ r.parent = w.t[p].parent
      /\ r.as_ptracee.ptracer = w.t[p].as_ptracee.ptracer
      /\ r.nb_ptracees = n /\ r.zombies = w.t[p].zombies
  <2> HIDE DEF n
  <2>1. r \in TraceeType BY <1>2, PutTracee
  <2> QED BY <1>2, <2>1 DEF TraceeType
<1>5. attach_to_ptracer(w, q, p) = v
  <2> HIDE DEF e
  <2> QED BY <1>2 DEF attach_to_ptracer, Put, Worlds, e
<1> HIDE DEF e, s, r
<1>6. /\ v \in Worlds /\ v.k = w.k
      /\ v.t[p] = r /\ v.t[q] = s /\ \A o \in P \ {p, q} : v.t[o] = w.t[o]
  BY <1>2, <1>3, <1>4, PutTwo
<1> HIDE DEF v, n
<1>7. \A o \in P : /\ v.t[o].listed = w.t[o].listed /\ v.t[o].terminated = w.t[o].terminated
                   /\ v.t[o].parent = w.t[o].parent /\ v.t[o].zombies = w.t[o].zombies
                   /\ v.t[o].as_ptracee.ptracer = IF o = q THEN p ELSE w.t[o].as_ptracee.ptracer
                   /\ v.t[o].nb_ptracees = IF o = p THEN n ELSE w.t[o].nb_ptracees
  <2> SUFFICES ASSUME NEW o \in P
      PROVE /\ v.t[o].listed = w.t[o].listed /\ v.t[o].terminated = w.t[o].terminated
            /\ v.t[o].parent = w.t[o].parent /\ v.t[o].zombies = w.t[o].zombies
            /\ v.t[o].as_ptracee.ptracer = IF o = q THEN p ELSE w.t[o].as_ptracee.ptracer
            /\ v.t[o].nb_ptracees = IF o = p THEN n ELSE w.t[o].nb_ptracees
    OBVIOUS
  <2>1. CASE o = p BY <2>1, <1>4, <1>6
  <2>2. CASE o = q BY <2>2, <1>3, <1>6
  <2>3. CASE o \notin {p, q} BY <2>3, <1>6
  <2> QED BY <2>1, <2>2, <2>3
<1>8. Ended(v) BY <1>6, <1>7 DEF Ended, Sound
<1>9. NotItself(v) BY <1>7 DEF NotItself, Sound
<1>10. PointsToListed(v) BY <1>7 DEF PointsToListed, Sound
<1>11. ZombiesFreed(v)
  <2> SUFFICES ASSUME NEW o \in P, v.t[o].listed, NEW z \in v.t[o].zombies
               PROVE  ~v.t[z.pid].listed
    BY DEF ZombiesFreed
  <2>1. z.pid \in P BY <1>2, <1>7, Parts
  <2> QED BY <1>7, <2>1 DEF ZombiesFreed, Sound
<1>12. Counted(v)
  <2> SUFFICES ASSUME NEW o \in P, v.t[o].listed
               PROVE  v.t[o].nb_ptracees = Cardinality(Tracees(v, o)) + Cardinality(v.t[o].zombies)
    BY DEF Counted
  <2>1. w.t[o].nb_ptracees = Cardinality(Tracees(w, o)) + Cardinality(w.t[o].zombies)
    BY <1>7 DEF Counted, Sound
  <2>2. CASE o = p
    <3>1. Tracees(v, p) = Tracees(w, p) \cup {q} BY <1>7 DEF Tracees
    <3>2. q \notin Tracees(w, p) BY NoneAssumption DEF Tracees
    <3>3. IsFiniteSet(Tracees(w, p)) /\ Cardinality(Tracees(w, p)) \in Nat
          /\ Cardinality(w.t[p].zombies) \in Nat
      BY <1>2, Finite
    <3>4. Cardinality(Tracees(v, p)) = Cardinality(Tracees(w, p)) + 1
      BY <3>1, <3>2, <3>3, FS_AddElement
    <3> QED BY <1>7, <2>1, <2>2, <3>3, <3>4 DEF n
  <2>3. CASE o # p
    <3>1. Tracees(v, o) = Tracees(w, o) BY <1>7, <2>3, NoneAssumption DEF Tracees
    <3> QED BY <1>7, <2>1, <2>3, <3>1
  <2> QED BY <2>2, <2>3
<1>13. Sound(v) BY <1>6, <1>8, <1>9, <1>10, <1>11, <1>12 DEF Sound
<1>14. Lists(w, v) BY <1>6, <1>7 DEF Lists, SameLife
<1> QED BY <1>5, <1>7, <1>13, <1>14

\* ptrace.c, detach_from_ptracer(): its effect, and that it keeps a world sound; the
\* count is not 0 because the ptracee is one of those counted.
LEMMA DetachLinks ==
  ASSUME NEW w \in Worlds, NEW q \in P, NEW p \in P, p # q,
         w.t[q].as_ptracee.ptracer = p, w.t[p].nb_ptracees # 0
  PROVE  LET v == detach_from_ptracer(w, q)
         IN  /\ v \in Worlds /\ v.k = w.k
             /\ \A o \in P :
                  /\ v.t[o].listed = w.t[o].listed /\ v.t[o].terminated = w.t[o].terminated
                  /\ v.t[o].parent = w.t[o].parent /\ v.t[o].zombies = w.t[o].zombies
                  /\ v.t[o].as_ptracee.ptracer = IF o = q THEN None ELSE w.t[o].as_ptracee.ptracer
                  /\ v.t[o].nb_ptracees =
                       IF o = p THEN w.t[p].nb_ptracees - 1 ELSE w.t[o].nb_ptracees
<1> DEFINE e  == [w.t[q].as_ptracee EXCEPT !.ptracer = None]
           n  == w.t[p].nb_ptracees - 1
           s  == [w.t[q] EXCEPT !.as_ptracee = e]
           r  == [w.t[p] EXCEPT !.nb_ptracees = n]
           v  == Put(Put(w, q, w.k[q], s), p, w.k[p], r)
<1>1. e \in Ptracees /\ e.ptracer = None
  <2>1. w.t[q].as_ptracee \in Ptracees BY Parts
  <2> QED BY <2>1 DEF Ptracees
<1>2. w.t[q] \in TraceeType /\ w.t[p] \in TraceeType /\ n \in Nat BY Parts
<1>3. /\ s \in TraceeType
      /\ s.listed = w.t[q].listed /\ s.terminated = w.t[q].terminated /\ s.parent = w.t[q].parent
      /\ s.as_ptracee.ptracer = None
      /\ s.nb_ptracees = w.t[q].nb_ptracees /\ s.zombies = w.t[q].zombies
  <2> HIDE DEF e
  <2>1. s \in TraceeType BY <1>1, <1>2, PutTracee
  <2> QED BY <1>1, <1>2, <2>1 DEF TraceeType
<1>4. /\ r \in TraceeType
      /\ r.listed = w.t[p].listed /\ r.terminated = w.t[p].terminated /\ r.parent = w.t[p].parent
      /\ r.as_ptracee.ptracer = w.t[p].as_ptracee.ptracer
      /\ r.nb_ptracees = n /\ r.zombies = w.t[p].zombies
  <2> HIDE DEF n
  <2>1. r \in TraceeType BY <1>2, PutTracee
  <2> QED BY <1>2, <2>1 DEF TraceeType
<1>5. detach_from_ptracer(w, q) = v BY <1>2 DEF detach_from_ptracer, Put, Worlds
<1> HIDE DEF e, s, r
<1>6. /\ v \in Worlds /\ v.k = w.k
      /\ v.t[p] = r /\ v.t[q] = s /\ \A o \in P \ {p, q} : v.t[o] = w.t[o]
  BY <1>2, <1>3, <1>4, PutTwo
<1> HIDE DEF v
<1> QED BY <1>3, <1>4, <1>5, <1>6

LEMMA DetachKeeps ==
  ASSUME IsFiniteSet(P), NEW w, Sound(w), NEW q \in P, NEW p \in P,
         w.t[q].listed, w.t[q].as_ptracee.ptracer = p
  PROVE  LET v == detach_from_ptracer(w, q)
         IN  /\ Sound(v) /\ Lists(w, v) /\ v.t[q].as_ptracee.ptracer = None
             /\ \A r \in P \ {q} : v.t[r].as_ptracee.ptracer = w.t[r].as_ptracee.ptracer
<1> DEFINE n  == w.t[p].nb_ptracees - 1
           v  == detach_from_ptracer(w, q)
<1>0. p # q BY DEF Sound, NotItself
<1>2. w \in Worlds /\ w.t[p].nb_ptracees \in Nat /\ w.t[p].listed
  BY Parts DEF Sound, PointsToListed
<1>20. /\ IsFiniteSet(Tracees(w, p)) /\ Cardinality(Tracees(w, p)) \in Nat
       /\ Cardinality(w.t[p].zombies) \in Nat
  BY <1>2, Finite
<1>21. /\ q \in Tracees(w, p)
       /\ Cardinality(Tracees(w, p) \ {q}) = Cardinality(Tracees(w, p)) - 1
       /\ Cardinality(Tracees(w, p) \ {q}) \in Nat
  <2>1. q \in Tracees(w, p) BY DEF Tracees
  <2> QED BY <1>20, <2>1, FS_RemoveElement, FS_CardinalityType
<1>22. w.t[p].nb_ptracees = Cardinality(Tracees(w, p)) + Cardinality(w.t[p].zombies)
  BY <1>2 DEF Sound, Counted
<1>23. w.t[p].nb_ptracees # 0 BY <1>2, <1>20, <1>21, <1>22
<1>6. v \in Worlds /\ v.k = w.k BY <1>0, <1>2, <1>23, DetachLinks
<1>7. \A o \in P : /\ v.t[o].listed = w.t[o].listed /\ v.t[o].terminated = w.t[o].terminated
                   /\ v.t[o].parent = w.t[o].parent /\ v.t[o].zombies = w.t[o].zombies
                   /\ v.t[o].as_ptracee.ptracer = IF o = q THEN None ELSE w.t[o].as_ptracee.ptracer
                   /\ v.t[o].nb_ptracees = IF o = p THEN n ELSE w.t[o].nb_ptracees
  BY <1>0, <1>2, <1>23, DetachLinks
<1> HIDE DEF v, n
<1>8. Ended(v) BY <1>6, <1>7 DEF Ended, Sound
<1>9. NotItself(v) BY <1>7, NoneAssumption DEF NotItself, Sound
<1>10. PointsToListed(v) BY <1>7, NoneAssumption DEF PointsToListed, Sound
<1>11. ZombiesFreed(v)
  <2> SUFFICES ASSUME NEW o \in P, v.t[o].listed, NEW z \in v.t[o].zombies
               PROVE  ~v.t[z.pid].listed
    BY DEF ZombiesFreed
  <2>1. z.pid \in P BY <1>2, <1>7, Parts
  <2> QED BY <1>7, <2>1 DEF ZombiesFreed, Sound
<1>12. Counted(v)
  <2> SUFFICES ASSUME NEW o \in P, v.t[o].listed
               PROVE  v.t[o].nb_ptracees = Cardinality(Tracees(v, o)) + Cardinality(v.t[o].zombies)
    BY DEF Counted
  <2>1. w.t[o].nb_ptracees = Cardinality(Tracees(w, o)) + Cardinality(w.t[o].zombies)
    BY <1>7 DEF Counted, Sound
  <2>2. CASE o = p
    <3>1. Tracees(v, p) = Tracees(w, p) \ {q} BY <1>7, NoneAssumption DEF Tracees
    <3> QED BY <1>7, <1>20, <1>21, <1>22, <2>2, <3>1 DEF n
  <2>3. CASE o # p
    <3>1. Tracees(v, o) = Tracees(w, o) BY <1>7, <2>3, NoneAssumption DEF Tracees
    <3> QED BY <1>7, <2>1, <2>3, <3>1
  <2> QED BY <2>2, <2>3
<1>13. Sound(v) BY <1>6, <1>8, <1>9, <1>10, <1>11, <1>12 DEF Sound
<1>14. Lists(w, v) BY <1>6, <1>7 DEF Lists, SameLife
<1> QED BY <1>7, <1>13, <1>14 DEF v

\* A wait() collects a zombie.
LEMMA ZombieKeeps ==
  ASSUME IsFiniteSet(P), NEW w, Sound(w), NEW p \in P, w.t[p].listed, NEW z \in w.t[p].zombies
  PROVE  Keeps(w, update_wait_status_zombie(w, p, z), p)
<1> DEFINE Z  == w.t[p].zombies \ {z}
           n  == w.t[p].nb_ptracees - 1
           r  == [w.t[p] EXCEPT !.zombies = Z, !.nb_ptracees = n]
           v  == Put(w, p, w.k[p], r)
<1>1. /\ w \in Worlds /\ w.t[p] \in TraceeType /\ w.k[p] \in Processes
      /\ w.t[p].nb_ptracees \in Nat /\ Z \in SUBSET [pid : P, own : BOOLEAN]
  BY Parts DEF Sound
<1>2. /\ IsFiniteSet(w.t[p].zombies) /\ Cardinality(Tracees(w, p)) \in Nat
      /\ Cardinality(w.t[p].zombies) \in Nat
  BY <1>1, Finite
<1>3. Cardinality(Z) = Cardinality(w.t[p].zombies) - 1 /\ Cardinality(Z) \in Nat
  BY <1>2, FS_RemoveElement, FS_CardinalityType
<1>4. w.t[p].nb_ptracees = Cardinality(Tracees(w, p)) + Cardinality(w.t[p].zombies)
  BY DEF Sound, Counted
<1>5. n \in Nat BY <1>1, <1>2, <1>3, <1>4
<1>6. /\ r \in TraceeType
      /\ r.listed = w.t[p].listed /\ r.terminated = w.t[p].terminated /\ r.parent = w.t[p].parent
      /\ r.as_ptracee.ptracer = w.t[p].as_ptracee.ptracer
      /\ r.nb_ptracees = n /\ r.zombies = Z
  <2> HIDE DEF n, Z
  <2>1. r \in TraceeType BY <1>1, <1>5 DEF TraceeType
  <2> QED BY <1>1, <2>1 DEF TraceeType
<1>7. [w EXCEPT !.t[p].zombies = @ \ {z}, !.t[p].nb_ptracees = @ - 1] = v
  BY <1>1 DEF Put, Worlds
<1> HIDE DEF r
<1>8. /\ v \in Worlds /\ v.t[p] = r /\ \A o \in P \ {p} : v.t[o] = w.t[o]
      /\ \A o \in P : v.k[o] = w.k[o]
  BY <1>1, <1>6, PutWorld
<1> HIDE DEF v
<1>9. \A o \in P : /\ v.t[o].listed = w.t[o].listed /\ v.t[o].terminated = w.t[o].terminated
                   /\ v.t[o].parent = w.t[o].parent
                   /\ v.t[o].as_ptracee.ptracer = w.t[o].as_ptracee.ptracer
                   /\ v.t[o].nb_ptracees = IF o = p THEN n ELSE w.t[o].nb_ptracees
                   /\ v.t[o].zombies = IF o = p THEN Z ELSE w.t[o].zombies
  BY <1>6, <1>8
<1>10. Ended(v) BY <1>8, <1>9 DEF Ended, Sound
<1>11. NotItself(v) BY <1>9 DEF NotItself, Sound
<1>12. PointsToListed(v) BY <1>9 DEF PointsToListed, Sound
<1>13. ZombiesFreed(v)
  <2> SUFFICES ASSUME NEW o \in P, v.t[o].listed, NEW y \in v.t[o].zombies
               PROVE  ~v.t[y.pid].listed
    BY DEF ZombiesFreed
  <2>1. y \in w.t[o].zombies BY <1>9
  <2>2. y.pid \in P BY <1>1, <2>1, Parts
  <2> QED BY <1>9, <2>1, <2>2 DEF ZombiesFreed, Sound
<1>14. Counted(v)
  <2>1. \A o \in P : Tracees(v, o) = Tracees(w, o) BY <1>9 DEF Tracees
  <2> HIDE DEF Z
  <2> QED BY <1>2, <1>3, <1>4, <1>9, <2>1 DEF Counted, Sound
<1>15. Sound(v) BY <1>8, <1>10, <1>11, <1>12, <1>13, <1>14 DEF Sound
<1>16. Quiets(v, restart_original_syscall(v, p)) /\ Quiets(v, v)
  BY <1>8, RepeatQuiet, QuietSelf
<1>17. update_wait_status_zombie(w, p, z) \in {restart_original_syscall(v, p), v}
  BY <1>7 DEF update_wait_status_zombie
<1>18. Keeps(v, update_wait_status_zombie(w, p, z), p)
  BY <1>15, <1>16, <1>17, QuietKeeps
<1> QED BY <1>8, <1>9, <1>18 DEF Keeps, Lists, SameLife

-----------------------------------------------------------------------------
(* The handlers.                                                           *)

\* All but q keep their ptracers.
KeepsBut(w, v, q) ==
    /\ Sound(v) /\ Lists(w, v)
    /\ \A r \in P \ {q} : v.t[r].as_ptracee.ptracer = w.t[r].as_ptracee.ptracer

\* Sound steps compose.
LEMMA KeepsTrans ==
  ASSUME NEW u, NEW v, NEW w, NEW q \in P, Keeps(u, v, q), Keeps(v, w, q)
  PROVE  Keeps(u, w, q)
BY DEF Keeps, Lists, SameLife

LEMMA ButKeeps ==
  ASSUME NEW w, NEW v, NEW q \in P, NEW p \in P \ {q}, KeepsBut(w, v, q)
  PROVE  Keeps(w, v, p)
BY DEF Keeps, KeepsBut

\* The calls the guests make have arguments that fit them.
LEMMA CallArg ==
  ASSUME NEW c \in Calls
  PROVE  /\ c.arg \in P \cup {None, AnyPid}
         /\ c.op \in {"ATTACH", "CONT", "SYSCALL", "DETACH"} => c.arg \in P
         /\ c.op \in {"plain", "TRACEME", "wait", "waitnohang"}
                       \cup {"ATTACH", "CONT", "SYSCALL", "DETACH"}
         /\ c.op = "plain" => c = NoCall
BY DEF Calls, NoCall

\* wait.c, update_wait_status(): at most the ptracee q itself is detached.
LEMMA UpdateKeeps ==
  ASSUME IsFiniteSet(P), NEW w, Sound(w), NEW q \in P, NEW p \in P,
         w.t[q].listed, w.t[q].as_ptracee.ptracer = p
  PROVE  KeepsBut(w, update_wait_status(w, p, q), q)
<1>1. w \in Worlds BY DEF Sound
<1>2. CASE w.t[q].parent = p /\ w.t[q].as_ptracee.tval = "DIED"
  <2> DEFINE u == restart_original_syscall(w, p)
  <2>1. Quiets(w, u) BY <1>1, RepeatQuiet
  <2>2. Keeps(w, u, q) BY <2>1, QuietKeeps
  <2>3. update_wait_status(w, p, q) = detach_from_ptracer(u, q) BY <1>2 DEF update_wait_status
  <2> HIDE DEF u
  <2>4. Sound(u) /\ u.t[q].listed /\ u.t[q].as_ptracee.ptracer = p BY <2>2 DEF Keeps, Lists
  <2>5. KeepsBut(u, detach_from_ptracer(u, q), q) BY <2>4, DetachKeeps DEF KeepsBut
  <2> QED BY <2>1, <2>3, <2>5 DEF KeepsBut, Quiets, Lists, SameLinks, SameLife
<1>3. CASE ~(w.t[q].parent = p /\ w.t[q].as_ptracee.tval = "DIED")
  <2> DEFINE e == [w.t[q].as_ptracee EXCEPT !.ptr = FALSE]
             v == SetPtracee(w, q, e)
  <2>1. w.t[q].as_ptracee \in Ptracees BY <1>1, Parts
  <2>2. e \in Ptracees /\ e.ptracer = w.t[q].as_ptracee.ptracer BY <2>1 DEF Ptracees
  <2>3. update_wait_status(w, p, q) = v
    BY <1>1, <1>3 DEF update_wait_status, SetPtracee, Put, Worlds
  <2> HIDE DEF e
  <2>4. Quiets(w, v) BY <1>1, <2>2, PtraceeQuiet
  <2> HIDE DEF v
  <2>5. Keeps(w, v, q) BY <2>4, QuietKeeps
  <2> QED BY <2>3, <2>4, <2>5 DEF Keeps, KeepsBut, Quiets, SameLinks
<1> QED BY <1>2, <1>3

\* wait.c, translate_wait_exit().
LEMMA WaitExitKeeps ==
  ASSUME IsFiniteSet(P), NEW w, Sound(w), NEW p \in P, w.t[p].listed
  PROVE  Keeps(w, translate_wait_exit(w, p), p)
<1> DEFINE c  == w.k[p].call
           w1 == SetWaitsIn(w, p, "DOESNT_WAIT")
           zs == Zombies(w, p, c.arg)
           qs == Stopped(w, p, c.arg, TRUE)
           z  == CHOOSE z \in zs : TRUE
           q  == CHOOSE q \in qs : TRUE
           v  == SetWait(w1, p, c.arg)
<1>1. w \in Worlds /\ c \in Calls /\ w.k[p] \in Processes BY Parts DEF Sound
<1>2. c.arg \in P \cup {None, AnyPid} BY <1>1, CallArg
<1>3. Quiets(w, w1) BY <1>1, WaitQuiet
<1>4. [w EXCEPT !.t[p].waits_in = "DOESNT_WAIT"] = w1
  BY <1>1 DEF SetWaitsIn, Put, Worlds
<1> HIDE DEF w1
<1>5. Keeps(w, w1, p) /\ w1 \in Worlds BY <1>3, QuietKeeps DEF Quiets
<1>6. [w1 EXCEPT !.t[p].wait_pid = c.arg] = v
  BY <1>5 DEF SetWait, Put, Worlds
<1>7. CASE zs # {}
  <2>1. z \in zs BY <1>7
  <2>2. translate_wait_exit(w, p) = update_wait_status_zombie(w1, p, z)
    BY <1>4, <1>7 DEF translate_wait_exit
  <2> HIDE DEF z
  <2>3. z \in w1.t[p].zombies BY <1>3, <2>1 DEF Quiets, SameLinks, Zombies
  <2>4. Sound(w1) /\ w1.t[p].listed BY <1>5 DEF Keeps, Lists
  <2>5. Keeps(w1, update_wait_status_zombie(w1, p, z), p) BY <2>3, <2>4, ZombieKeeps
  <2> QED BY <1>5, <2>2, <2>5, KeepsTrans
<1>8. CASE zs = {} /\ qs # {}
  <2>1. q \in qs BY <1>8
  <2>2. translate_wait_exit(w, p) = update_wait_status(w1, p, q)
    BY <1>4, <1>8 DEF translate_wait_exit
  <2> HIDE DEF q
  <2>3. q \in P /\ w1.t[q].listed /\ w1.t[q].as_ptracee.ptracer = p
    BY <1>3, <2>1 DEF Quiets, SameLinks, Stopped
  <2>4. Sound(w1) /\ q # p BY <1>5, <2>3 DEF Keeps, Sound, NotItself
  <2>5. KeepsBut(w1, update_wait_status(w1, p, q), q) BY <2>3, <2>4, UpdateKeeps
  <2>6. Keeps(w1, update_wait_status(w1, p, q), p) BY <2>3, <2>4, <2>5, ButKeeps
  <2> QED BY <1>5, <2>2, <2>6, KeepsTrans
<1>9. CASE zs = {} /\ qs = {}
  <2>1. translate_wait_exit(w, p) \in {w1, v} BY <1>4, <1>6, <1>9 DEF translate_wait_exit
  <2>2. Quiets(w1, v) BY <1>2, <1>5, WaitQuiet
  <2>3. Sound(w1) BY <1>5 DEF Keeps
  <2> HIDE DEF v
  <2>4. Keeps(w1, v, p) BY <2>2, <2>3, QuietKeeps
  <2> QED BY <1>5, <2>1, <2>4, KeepsTrans
<1> QED BY <1>7, <1>8, <1>9

\* What a step does to a process that already has a ptracer.
Handles(w, v, q) ==
    /\ Sound(v) /\ Lists(w, v)
    /\ w.t[q].as_ptracee.ptracer # None
         => v.t[q].as_ptracee.ptracer = w.t[q].as_ptracee.ptracer

\* ptrace.c, PTRACE_TRACEME.
LEMMA TraceMeHandles ==
  ASSUME IsFiniteSet(P), NEW w, Sound(w), NEW q \in P, w.t[q].listed
  PROVE  Handles(w, TraceMe(w, q), q)
<1> DEFINE p  == w.t[q].parent
           w1 == attach_to_ptracer(w, q, p)
           x  == [w1.k[p] EXCEPT !.stopsig = TRUE]
           r  == [w1.t[p] EXCEPT !.sigstop = "IGNORED", !.waits_in = "WAITS_IN_PROOT"]
           v  == Put(w1, p, x, r)
           u  == [w EXCEPT !.crashed = TRUE]
<1>1. w \in Worlds /\ p \in P \cup {None} BY Parts DEF Sound
<1>2. CASE w.t[q].as_ptracee.ptracer # None
  <2>1. TraceMe(w, q) = w BY <1>2 DEF TraceMe
  <2> QED BY <2>1 DEF Handles, Lists, SameLife
<1>3. CASE w.t[q].as_ptracee.ptracer = None /\ p = None
  <2>1. TraceMe(w, q) = u BY <1>3 DEF TraceMe
  <2>2. u \in Worlds /\ u.k = w.k /\ u.t = w.t BY <1>1 DEF Worlds
  <2> HIDE DEF u
  <2>3. Quiets(w, u) BY <2>2 DEF Quiets, SameLife, SameLinks
  <2>4. Keeps(w, u, q) BY <2>3, QuietKeeps
  <2> QED BY <2>1, <2>4 DEF Keeps, Handles
<1>4. CASE w.t[q].as_ptracee.ptracer = None /\ p # None
  <2>1. p \in P /\ p # q /\ w.t[p].listed BY <1>1, <1>4 DEF Sound, NotItself, PointsToListed
  <2>2. Sound(w1) /\ Lists(w, w1) BY <1>4, <2>1, AttachKeeps
  <2>3. TraceMe(w, q) \in {w1, [w1 EXCEPT !.k[p].stopsig = TRUE, !.t[p].sigstop = "IGNORED",
                                         !.t[p].waits_in = "WAITS_IN_PROOT"]}
    BY <1>4 DEF TraceMe
  <2> HIDE DEF w1, p
  <2>4. w1 \in Worlds /\ w1.k[p] \in Processes /\ w1.t[p] \in TraceeType
    BY <2>1, <2>2, Parts DEF Sound
  <2>5. x \in Processes /\ SameLife(w1.k[p], x) BY <2>4 DEF SameLife, Processes
  <2>6. r \in TraceeType /\ SameLinks(w1.t[p], r) BY <2>4 DEF SameLinks, TraceeType
  <2>7. TraceMe(w, q) \in {w1, v}
    <3>1. [w1 EXCEPT !.k[p].stopsig = TRUE, !.t[p].sigstop = "IGNORED",
                     !.t[p].waits_in = "WAITS_IN_PROOT"] = v
      <4>1. w1 \in Worlds /\ p \in P BY <2>1, <2>4
      <4> QED BY <4>1 DEF Put, Worlds
    <3> QED BY <2>3, <3>1
  <2> HIDE DEF x, r
  <2>8. Quiets(w1, v) BY <2>1, <2>4, <2>5, <2>6, QuietBoth
  <2> HIDE DEF v
  <2>9. Keeps(w1, v, q) BY <2>2, <2>8, QuietKeeps
  <2> QED BY <1>4, <2>2, <2>7, <2>9 DEF Handles, Keeps, Lists, SameLife
<1> QED BY <1>2, <1>3, <1>4

\* ptrace.c, PTRACE_ATTACH.
LEMMA AttachCallKeeps ==
  ASSUME IsFiniteSet(P), NEW w, Sound(w), NEW p \in P, w.t[p].listed, NEW q \in P
  PROVE  Keeps(w, Attach(w, p, q), p)
<1> DEFINE w1 == attach_to_ptracer(w, q, p)
           x  == [w1.k[q] EXCEPT !.stopsig = TRUE]
           v  == Put(w1, q, x, w1.t[q])
<1>1. CASE ~w.t[q].listed \/ w.t[q].as_ptracee.ptracer # None \/ q = p
  BY <1>1 DEF Attach, Keeps, Lists, SameLife
<1>2. CASE w.t[q].listed /\ w.t[q].as_ptracee.ptracer = None /\ q # p
  <2>1. Sound(w1) /\ KeepsBut(w, w1, q) BY <1>2, AttachKeeps DEF KeepsBut
  <2>2. Attach(w, p, q) = [w1 EXCEPT !.k[q].stopsig = TRUE] BY <1>2 DEF Attach
  <2> HIDE DEF w1
  <2>3. w1 \in Worlds /\ w1.k[q] \in Processes /\ w1.t[q] \in TraceeType
    BY <2>1, Parts DEF Sound
  <2>4. x \in Processes /\ SameLife(w1.k[q], x) /\ SameLinks(w1.t[q], w1.t[q])
    BY <2>3 DEF SameLife, SameLinks, Processes
  <2>5. Attach(w, p, q) = v BY <2>2, <2>3 DEF Put, Worlds
  <2> HIDE DEF x
  <2>6. Quiets(w1, v) BY <2>3, <2>4, QuietBoth
  <2> HIDE DEF v
  <2>7. Keeps(w1, v, p) BY <2>1, <2>6, QuietKeeps
  <2>8. Keeps(w, w1, p) BY <1>2, <2>1, ButKeeps
  <2> QED BY <2>5, <2>7, <2>8, KeepsTrans
<1> QED BY <1>1, <1>2

\* ptrace.c, PTRACE_CONT, PTRACE_SYSCALL and PTRACE_DETACH.
LEMMA ResumeKeeps ==
  ASSUME IsFiniteSet(P), NEW w, Sound(w), NEW p \in P, w.t[p].listed, NEW q \in P,
         NEW op \in {"CONT", "SYSCALL", "DETACH"}
  PROVE  Keeps(w, Resume(w, p, op, q), p)
<1>1. CASE q \notin Stopped(w, p, q, FALSE) \/ Zombies(w, p, q) # {}
  BY <1>1 DEF Resume, Keeps, Lists, SameLife
<1>2. CASE q \in Stopped(w, p, q, FALSE) /\ Zombies(w, p, q) = {}
  <2> DEFINE e  == [w.t[q].as_ptracee EXCEPT !.ignore = (op = "CONT")]
             u  == SetPtracee(w, q, e)
             w1 == CASE op = "DETACH"  -> detach_from_ptracer(w, q)
                     [] op = "SYSCALL" -> [w EXCEPT !.t[q].as_ptracee.ignore = FALSE]
                     [] op = "CONT"    -> [w EXCEPT !.t[q].as_ptracee.ignore = TRUE]
             w2 == AfterHold(w1, q)
  <2>1. w.t[q].listed /\ w.t[q].as_ptracee.ptracer = p /\ w \in Worlds
    BY <1>2 DEF Stopped, Sound
  <2>2. q # p BY <2>1 DEF Sound, NotItself
  <2>3. Keeps(w, detach_from_ptracer(w, q), p)
    <3>1. KeepsBut(w, detach_from_ptracer(w, q), q) BY <2>1, DetachKeeps DEF KeepsBut
    <3> QED BY <2>2, <3>1, ButKeeps
  <2>4. Keeps(w, u, p)
    <3>1. w.t[q].as_ptracee \in Ptracees BY <2>1, Parts
    <3>2. (op = "CONT") \in BOOLEAN OBVIOUS
    <3>3. e \in Ptracees /\ e.ptracer = w.t[q].as_ptracee.ptracer
      <4> DEFINE b == (op = "CONT")
      <4> HIDE DEF b
      <4>1. b \in BOOLEAN BY <3>2 DEF b
      <4> QED BY <3>1, <4>1 DEF Ptracees, b
    <3> HIDE DEF e
    <3>4. Quiets(w, u) BY <2>1, <3>3, PtraceeQuiet
    <3> HIDE DEF u
    <3> QED BY <3>4, QuietKeeps
  <2>5. op # "DETACH" => w1 = u
    <3>1. CASE op = "SYSCALL" BY <2>1, <3>1 DEF SetPtracee, Put, Worlds
    <3>2. CASE op = "CONT" BY <2>1, <3>2 DEF SetPtracee, Put, Worlds
    <3> QED BY <3>1, <3>2
  <2>6. op = "DETACH" => w1 = detach_from_ptracer(w, q) OBVIOUS
  <2>7. Resume(w, p, op, q) = restart_tracee(w2, q) BY <1>2 DEF Resume
  <2> HIDE DEF u, w1
  <2>8. Keeps(w, w1, p) BY <2>3, <2>4, <2>5, <2>6
  <2>9. Quiets(w1, w2)
    <3>1. w1 \in Worlds BY <2>8 DEF Keeps, Sound
    <3>2. w1.t[q].as_ptracee.pval \in Events BY <3>1, Parts
    <3> QED BY <3>1, <3>2, HeldEventQuiet, QuietSelf DEF AfterHold
  <2> HIDE DEF w2
  <2>10. Quiets(w2, restart_tracee(w2, q)) BY <2>9, RestartQuiet DEF Quiets
  <2>11. Quiets(w1, restart_tracee(w2, q)) BY <2>9, <2>10, QuietTrans
  <2>12. Keeps(w1, restart_tracee(w2, q), p)
    <3>1. Sound(w1) BY <2>8 DEF Keeps
    <3> QED BY <2>11, <3>1, QuietKeeps
  <2> QED BY <2>7, <2>8, <2>12, KeepsTrans
<1> QED BY <1>1, <1>2

\* The exit stage of a system call.
LEMMA LeaveHandles ==
  ASSUME IsFiniteSet(P), NEW w, Sound(w), NEW p \in P, w.t[p].listed
  PROVE  Handles(w, HandleLeave(w, p), p)
<1> DEFINE c  == w.k[p].call
           r1 == [w.t[p] EXCEPT !.status = "enter"]
           w1 == Put(w, p, w.k[p], r1)
           r2 == [w1.t[p] EXCEPT !.chain = "none"]
           w2 == Put(w1, p, w1.k[p], r2)
<1>1. w \in Worlds /\ w.t[p] \in TraceeType /\ c \in Calls BY Parts DEF Sound
<1>2. r1 \in TraceeType /\ SameLinks(w.t[p], r1) BY <1>1 DEF SameLinks, TraceeType
<1>3. [w EXCEPT !.t[p].status = "enter"] = w1 BY <1>1 DEF Put, Worlds
<1> HIDE DEF r1
<1>4. Quiets(w, w1) BY <1>1, <1>2, TraceeQuiet
<1> HIDE DEF w1
<1>5. Keeps(w, w1, p) /\ Sound(w1) /\ w1.t[p].listed
  <2>1. Keeps(w, w1, p) BY <1>4, QuietKeeps
  <2> QED BY <2>1 DEF Keeps, Lists
<1>6. w1 \in Worlds /\ w1.t[p] \in TraceeType BY <1>5, Parts DEF Sound
<1>7. r2 \in TraceeType /\ SameLinks(w1.t[p], r2) BY <1>6 DEF SameLinks, TraceeType
<1>8. [w1 EXCEPT !.t[p].chain = "none"] = w2 BY <1>6 DEF Put, Worlds
<1> HIDE DEF r2
<1>9. Quiets(w1, w2) BY <1>6, <1>7, TraceeQuiet
<1> HIDE DEF w2
<1>10. Keeps(w1, w2, p) BY <1>5, <1>9, QuietKeeps
<1>11. w1.k[p].call = c BY <1>1 DEF w1, Put, Worlds
<1>12. HandleLeave(w, p) \in {w2, w1, translate_wait_exit(w1, p), translate_ptrace_exit(w1, p)}
         /\ (HandleLeave(w, p) = translate_ptrace_exit(w1, p)
               \/ HandleLeave(w, p) \in {w2, w1, translate_wait_exit(w1, p)})
  BY <1>3, <1>8 DEF HandleLeave
<1>13. CASE HandleLeave(w, p) \in {w2, w1, translate_wait_exit(w1, p)}
  <2>1. Keeps(w1, translate_wait_exit(w1, p), p) BY <1>5, WaitExitKeeps
  <2> QED BY <1>5, <1>10, <1>13, <2>1, KeepsTrans DEF Handles, Keeps
<1>14. CASE c # NoCall /\ ~IsWait(c) /\ HandleLeave(w, p) = translate_ptrace_exit(w1, p)
  <2>1. c.op \in {"TRACEME", "ATTACH", "CONT", "SYSCALL", "DETACH"}
    BY <1>1, <1>14, CallArg DEF IsWait
  <2>2. Handles(w1, translate_ptrace_exit(w1, p), p)
    <3>1. CASE c.op = "TRACEME"
      BY <1>5, <1>11, <3>1, TraceMeHandles DEF translate_ptrace_exit
    <3>2. CASE c.op = "ATTACH"
      <4>1. c.arg \in P BY <1>1, <3>2, CallArg
      <4>2. translate_ptrace_exit(w1, p) = Attach(w1, p, c.arg)
        BY <1>11, <3>2 DEF translate_ptrace_exit
      <4> QED BY <1>5, <4>1, <4>2, AttachCallKeeps DEF Handles, Keeps
    <3>3. CASE c.op \in {"CONT", "SYSCALL", "DETACH"}
      <4>1. c.arg \in P BY <1>1, <3>3, CallArg
      <4>2. translate_ptrace_exit(w1, p) = Resume(w1, p, c.op, c.arg)
        BY <1>11, <3>3 DEF translate_ptrace_exit
      <4>3. Sound(w1) /\ w1.t[p].listed BY <1>5
      <4>4. Keeps(w1, Resume(w1, p, c.op, c.arg), p) BY ONLY <3>3, <4>1, <4>3, IsFiniteSet(P), ResumeKeeps
      <4> QED BY ONLY <4>2, <4>4 DEF Handles, Keeps
    <3> QED BY <2>1, <3>1, <3>2, <3>3
  <2> QED BY <1>5, <1>14, <2>2 DEF Handles, Keeps, Lists, SameLife
<1>15. (c = NoCall \/ IsWait(c)) => HandleLeave(w, p) \in {w2, w1, translate_wait_exit(w1, p)}
  BY <1>3, <1>8 DEF HandleLeave
<1> QED BY <1>12, <1>13, <1>14, <1>15

\* event.c, handle_tracee_event().
LEMMA EventHandled ==
  ASSUME IsFiniteSet(P), NEW w, Sound(w), NEW p \in P, w.t[p].listed,
         NEW ev \in Events, ev = "DIED" => w.k[p].st = "gone"
  PROVE  Handles(w, handle_tracee_event(w, p, ev), p)
<1>0. w \in Worlds /\ w.t[p] \in TraceeType BY Parts DEF Sound
<1>1. CASE ev = "DIED"
  <2> DEFINE r == [w.t[p] EXCEPT !.terminated = TRUE]
             v == Put(w, p, w.k[p], r)
  <2>1. handle_tracee_event(w, p, ev) = v BY <1>0, <1>1 DEF handle_tracee_event, Put, Worlds
  <2>2. /\ r \in TraceeType
        /\ r.listed = w.t[p].listed /\ r.parent = w.t[p].parent
        /\ r.as_ptracee.ptracer = w.t[p].as_ptracee.ptracer
        /\ r.nb_ptracees = w.t[p].nb_ptracees /\ r.zombies = w.t[p].zombies
    BY <1>0 DEF TraceeType
  <2> HIDE DEF r
  <2>3. w.k[p] \in Processes BY <1>0, Parts
  <2>4. /\ v \in Worlds /\ v.t[p] = r /\ \A o \in P \ {p} : v.t[o] = w.t[o]
        /\ \A o \in P : v.k[o] = w.k[o]
    BY <1>0, <2>2, <2>3, PutWorld
  <2> HIDE DEF v
  <2>5. \A o \in P : /\ v.t[o].listed = w.t[o].listed
                     /\ v.t[o].parent = w.t[o].parent
                     /\ v.t[o].as_ptracee.ptracer = w.t[o].as_ptracee.ptracer
                     /\ v.t[o].nb_ptracees = w.t[o].nb_ptracees
                     /\ v.t[o].zombies = w.t[o].zombies
    BY <2>2, <2>4
  <2>6. Ended(v) BY <1>1, <2>4, <2>5 DEF Ended, Sound
  <2>7. NotItself(v) BY <2>5 DEF NotItself, Sound
  <2>8. PointsToListed(v) BY <2>5 DEF PointsToListed, Sound
  <2>9. ZombiesFreed(v)
    <3> SUFFICES ASSUME NEW o \in P, v.t[o].listed, NEW z \in v.t[o].zombies
                 PROVE  ~v.t[z.pid].listed
      BY DEF ZombiesFreed
    <3>1. z.pid \in P BY <1>0, <2>5, Parts
    <3> QED BY <2>5, <3>1 DEF ZombiesFreed, Sound
  <2>10. Counted(v)
    <3>1. \A o \in P : Tracees(v, o) = Tracees(w, o) BY <2>5 DEF Tracees
    <3> QED BY <2>5, <3>1 DEF Counted, Sound
  <2> QED BY <2>1, <2>4, <2>5, <2>6, <2>7, <2>8, <2>9, <2>10
           DEF Handles, Sound, Lists, SameLife
<1>2. CASE ev # "DIED" /\ ~(ev \in SyscallStops /\ w.t[p].status = "exit")
  <2>1. handle_tracee_event(w, p, ev) = HandleHeldEvent(w, p, ev)
    BY <1>2 DEF handle_tracee_event
  <2>2. Quiets(w, HandleHeldEvent(w, p, ev)) BY <1>0, HeldEventQuiet
  <2>3. Keeps(w, HandleHeldEvent(w, p, ev), p) BY <2>2, QuietKeeps
  <2> QED BY <2>1, <2>3 DEF Handles, Keeps
<1>3. CASE ev # "DIED" /\ ev \in SyscallStops /\ w.t[p].status = "exit"
  <2> DEFINE e  == [w.t[p].as_ptracee EXCEPT !.proot = FALSE]
             w1 == SetPtracee(w, p, e)
  <2>1. w.t[p].as_ptracee \in Ptracees BY <1>0, Parts
  <2>2. e \in Ptracees /\ e.ptracer = w.t[p].as_ptracee.ptracer BY <2>1 DEF Ptracees
  <2>3. [w EXCEPT !.t[p].as_ptracee.proot = FALSE] = w1
    BY <1>0 DEF SetPtracee, Put, Worlds
  <2> HIDE DEF e
  <2>4. Quiets(w, w1) BY <1>0, <2>2, PtraceeQuiet
  <2> HIDE DEF w1
  <2>5. Keeps(w, w1, p) BY <2>4, QuietKeeps
  <2>6. handle_tracee_event(w, p, ev) = HandleLeave(w1, p)
    BY <1>3, <2>3 DEF handle_tracee_event
  <2>7. Handles(w1, HandleLeave(w1, p), p) BY <2>5, LeaveHandles DEF Keeps, Lists
  <2> QED BY <2>5, <2>6, <2>7 DEF Handles, Keeps, Lists, SameLife
<1> QED BY <1>1, <1>2, <1>3

\* wait.c: the event is offered to the ptracer.
LEMMA OfferKeeps ==
  ASSUME IsFiniteSet(P), NEW w, Sound(w), NEW q \in P, NEW p \in P,
         w.t[q].listed, w.t[q].as_ptracee.ptracer = p
  PROVE  Sound(OfferEvent(w, p, q).w) /\ Lists(w, OfferEvent(w, p, q).w)
<1> DEFINE u  == update_wait_status(w, p, q)
           w1 == SetWait(u, p, None)
           v  == restart_tracee(w1, p)
<1>1. Sound(u) /\ Lists(w, u) /\ u \in Worlds BY UpdateKeeps DEF KeepsBut, Sound
<1>2. [u EXCEPT !.t[p].wait_pid = None] = w1
  <2> HIDE DEF u
  <2> QED BY <1>1 DEF SetWait, Put, Worlds
<1>3. OfferEvent(w, p, q).w \in {v, w} BY <1>2 DEF OfferEvent
<1> HIDE DEF u
<1>4. Quiets(u, w1) BY <1>1, WaitQuiet
<1> HIDE DEF w1
<1>5. Quiets(w1, v) BY <1>4, RestartQuiet DEF Quiets
<1>6. Quiets(u, v) BY <1>4, <1>5, QuietTrans
<1> HIDE DEF v
<1>7. Keeps(u, v, p) BY <1>1, <1>6, QuietKeeps
<1> QED BY <1>1, <1>3, <1>7 DEF Keeps, Lists, SameLife

\* wait.c, handle_ptracee_event().  The ptracer p was read before the event was handled,
\* and still is the ptracer when it is offered the event.
LEMMA PtraceeEventHandled ==
  ASSUME IsFiniteSet(P), NEW w, Sound(w), NEW q \in P, w.t[q].listed,
         w.t[q].as_ptracee.ptracer # None,
         NEW ev \in Events, ev = "DIED" => w.k[q].st = "gone"
  PROVE  LET v == handle_ptracee_event(w, q, ev).w IN Sound(v) /\ Lists(w, v)
<1> DEFINE p  == w.t[q].as_ptracee.ptracer
           e  == w.t[q].as_ptracee
           b  == e.started \/ ev \notin SyscallStops
           e1 == [e EXCEPT !.proot = TRUE, !.pval = ev,
                           !.started = e.started \/ ev \notin SyscallStops]
           w1 == SetPtracee(w, q, e1)
           u  == handle_tracee_event(w1, q, ev)
           w2 == IF ev \in SyscallStops /\ w.t[q].status = "exit"
                   THEN [u EXCEPT !.t[q].as_ptracee.pval = "none"] ELSE w1
           w3 == SetPtracee(w2, q, [w2.t[q].as_ptracee EXCEPT !.ptr = TRUE, !.tval = ev])
<1>1. w \in Worlds /\ e \in Ptracees /\ p \in P BY Parts DEF Sound
<1>2. b \in BOOLEAN OBVIOUS
<1>3. [w EXCEPT !.t[q].as_ptracee =
           [@ EXCEPT !.proot = TRUE, !.pval = ev,
                     !.started = e.started \/ ev \notin SyscallStops]] = w1
  BY <1>1 DEF SetPtracee, Put, Worlds
<1>4. Quiets(w, w1)
  <2>0. e1 = [e EXCEPT !.proot = TRUE, !.pval = ev, !.started = b] BY <1>1 DEF Ptracees
  <2> HIDE DEF b, e, e1
  <2>1. e1 \in Ptracees /\ e1.ptracer = e.ptracer BY <1>1, <1>2, <2>0 DEF Ptracees
  <2> HIDE DEF e1
  <2> QED BY <1>1, <2>1, PtraceeQuiet DEF e
<1> HIDE DEF w1
<1>5. Keeps(w, w1, q) BY <1>4, QuietKeeps
<1>6. Handles(w1, u, q)
  <2>1. Sound(w1) /\ w1.t[q].listed /\ (ev = "DIED" => w1.k[q].st = "gone")
    BY <1>5 DEF Keeps, Lists, SameLife
  <2> QED BY <2>1, EventHandled
<1>7. Keeps(w, u, q) BY <1>5, <1>6 DEF Keeps, Handles, Lists, SameLife
<1> HIDE DEF u
<1>8. Keeps(w, w2, q)
  <2> DEFINE f == [u.t[q].as_ptracee EXCEPT !.pval = "none"]
  <2>1. u \in Worlds /\ u.t[q].as_ptracee \in Ptracees /\ Sound(u)
    BY <1>7, Parts DEF Keeps, Sound
  <2>2. f \in Ptracees /\ f.ptracer = u.t[q].as_ptracee.ptracer BY <2>1 DEF Ptracees, Events
  <2>3. [u EXCEPT !.t[q].as_ptracee.pval = "none"] = SetPtracee(u, q, f)
    BY <2>1 DEF SetPtracee, Put, Worlds
  <2> HIDE DEF f
  <2>4. Quiets(u, SetPtracee(u, q, f)) BY <2>1, <2>2, PtraceeQuiet
  <2>5. Keeps(u, SetPtracee(u, q, f), q) BY <2>1, <2>4, QuietKeeps
  <2> QED BY <1>5, <1>7, <2>3, <2>5, KeepsTrans
<1>9. [w2 EXCEPT !.t[q].as_ptracee = [@ EXCEPT !.ptr = TRUE, !.tval = ev]] = w3
  <2> HIDE DEF w2
  <2>1. w2 \in Worlds BY <1>8 DEF Keeps, Sound
  <2> QED BY <2>1, ZenonT(30) DEF SetPtracee, Put, Worlds
<1>10. handle_ptracee_event(w, q, ev).w \in {w1, OfferEvent(w3, p, q).w}
  BY <1>3, <1>9, ZenonT(30) DEF handle_ptracee_event, u
<1> HIDE DEF w2
<1>11. Keeps(w, w3, q)
  <2> DEFINE f == [w2.t[q].as_ptracee EXCEPT !.ptr = TRUE, !.tval = ev]
  <2>1. w2 \in Worlds /\ w2.t[q].as_ptracee \in Ptracees /\ Sound(w2)
    BY <1>8, Parts DEF Keeps, Sound
  <2>2. f \in Ptracees /\ f.ptracer = w2.t[q].as_ptracee.ptracer BY <2>1 DEF Ptracees
  <2> HIDE DEF f
  <2>3. Quiets(w2, SetPtracee(w2, q, f)) BY <2>1, <2>2, PtraceeQuiet
  <2>4. Keeps(w2, SetPtracee(w2, q, f), q) BY <2>1, <2>3, QuietKeeps
  <2> QED BY <1>8, <2>4, KeepsTrans DEF f
<1> HIDE DEF w3
<1>12. Sound(OfferEvent(w3, p, q).w) /\ Lists(w3, OfferEvent(w3, p, q).w)
  <2>1. Sound(w3) /\ w3.t[q].listed BY <1>11 DEF Keeps, Lists
  <2>2. w3.t[q].as_ptracee.ptracer = p BY <1>11 DEF Keeps
  <2> QED BY <1>1, <2>1, <2>2, OfferKeeps
<1>13. Sound(w1) /\ Lists(w, w1) BY <1>5 DEF Keeps
<1>14. Sound(OfferEvent(w3, p, q).w) /\ Lists(w, OfferEvent(w3, p, q).w)
  BY <1>11, <1>12, ZenonT(30) DEF Keeps, Lists, SameLife
<1> HIDE DEF p, e
<1> QED BY <1>10, <1>13, <1>14

-----------------------------------------------------------------------------
\* What has to be corrected when one Tracee is freed fits the arrays.
BatchFits == IsFiniteSet(P) /\ Cardinality(P) <= MaxBatch

\* A walk of the list collects all there is.
LEMMA BatchIsAll ==
  ASSUME BatchFits, NEW S \in SUBSET P
  PROVE  Batch(S) = S
<1>1. Cardinality(S) <= Cardinality(P) /\ Cardinality(S) \in Nat /\ Cardinality(P) \in Nat
  BY FS_Subset, FS_CardinalityType DEF BatchFits
<1>2. Cardinality(S) <= MaxBatch BY <1>1, BoundAssumption DEF BatchFits
<1> QED BY <1>2 DEF Batch

\* The ptracees of p are detached, without being uncounted.
LEMMA DetachPtraceesLinks ==
  ASSUME BatchFits, NEW w \in Worlds, NEW p \in P
  PROVE  LET v == DetachPtracees(w, p)
         IN  /\ v \in Worlds /\ v.k = w.k
             /\ \A o \in P :
                  /\ v.t[o].listed = w.t[o].listed /\ v.t[o].terminated = w.t[o].terminated
                  /\ v.t[o].parent = w.t[o].parent /\ v.t[o].zombies = w.t[o].zombies
                  /\ v.t[o].nb_ptracees = w.t[o].nb_ptracees
                  /\ v.t[o].as_ptracee.ptracer =
                       IF o \in Tracees(w, p) THEN None ELSE w.t[o].as_ptracee.ptracer
<1> DEFINE B == Tracees(w, p)
           r(q) == [w.t[q] EXCEPT !.as_ptracee.ptracer = None]
           f == [q \in P |-> IF q \in B THEN r(q) ELSE w.t[q]]
           v == DetachPtracees(w, p)
<1>1. Batch(B) = B BY BatchIsAll DEF Tracees
<1>2. v = [w EXCEPT !.t = f] BY <1>1 DEF DetachPtracees, Tracees
<1>3. ASSUME NEW q \in P
      PROVE  /\ r(q) \in TraceeType
             /\ r(q).listed = w.t[q].listed /\ r(q).terminated = w.t[q].terminated
             /\ r(q).parent = w.t[q].parent /\ r(q).zombies = w.t[q].zombies
             /\ r(q).nb_ptracees = w.t[q].nb_ptracees /\ r(q).as_ptracee.ptracer = None
  <2> DEFINE e == [w.t[q].as_ptracee EXCEPT !.ptracer = None]
  <2>1. w.t[q] \in TraceeType /\ w.t[q].as_ptracee \in Ptracees BY Parts
  <2>2. e \in Ptracees /\ e.ptracer = None BY <2>1 DEF Ptracees
  <2>3. r(q) = [w.t[q] EXCEPT !.as_ptracee = e] OBVIOUS
  <2> HIDE DEF e, r
  <2>4. r(q) \in TraceeType BY <2>1, <2>2, <2>3, PutTracee
  <2> QED BY <2>1, <2>2, <2>3, <2>4 DEF TraceeType
<1> HIDE DEF r, B
<1>4. f \in [P -> TraceeType] BY <1>3, Parts
<1>5. v \in Worlds /\ v.k = w.k /\ v.t = f BY <1>2, <1>4 DEF Worlds
<1> HIDE DEF v
<1> QED BY <1>3, <1>5 DEF v, B

\* p leaves its ptracer m, as a zombie or not.
LeftBy(p) == [pid : {p}, own : BOOLEAN]
LeavesZombie(p, before, after) == \E z \in LeftBy(p) : after = before \cup {z}

LEMMA LeavePtracerLinks ==
  ASSUME NEW w \in Worlds, NEW p \in P, NEW m \in P \cup {None},
         w.t[p].as_ptracee.ptracer = m, m # p,
         m \in P => w.t[m].nb_ptracees # 0
  PROVE  LET v == LeavePtracer(w, p)
         IN  /\ v \in Worlds
             /\ \A o \in P :
                  /\ SameLife(w.k[o], v.k[o])
                  /\ v.t[o].listed = w.t[o].listed /\ v.t[o].terminated = w.t[o].terminated
                  /\ v.t[o].parent = w.t[o].parent
                  /\ o # p => v.t[o].as_ptracee.ptracer = w.t[o].as_ptracee.ptracer
                  /\ o # m => /\ v.t[o].nb_ptracees = w.t[o].nb_ptracees
                              /\ v.t[o].zombies = w.t[o].zombies
             /\ m \in P =>
                  \/ /\ v.t[m].nb_ptracees = w.t[m].nb_ptracees
                     /\ LeavesZombie(p, w.t[m].zombies, v.t[m].zombies)
                  \/ /\ v.t[m].nb_ptracees = w.t[m].nb_ptracees - 1
                     /\ v.t[m].zombies = w.t[m].zombies
<1> DEFINE e  == w.t[p].as_ptracee
           w1 == detach_from_ptracer(w, p)
           b  == w.t[p].parent = m
           z  == [pid |-> p, own |-> b]
           r  == [w.t[m] EXCEPT !.zombies = @ \cup {z}]
           v1 == Put(w, m, w.k[m], r)
           w2 == SetWait(w1, m, None)
           v2 == restart_tracee(w2, m)
           v  == LeavePtracer(w, p)
<1>1. CASE m = None
  <2>1. v = w BY <1>1 DEF LeavePtracer
  <2> QED BY <1>1, <2>1, NoneAssumption DEF SameLife
<1>2. CASE m \in P /\ e.ptr /\ e.tval = "DIED"
  <2>1. w.t[m] \in TraceeType /\ w.k[m] \in Processes
        /\ w.t[m].zombies \subseteq [pid : P, own : BOOLEAN] BY <1>2, Parts
  <2>2. z \in LeftBy(p)
    <3>1. b \in BOOLEAN OBVIOUS
    <3> HIDE DEF b
    <3> QED BY <3>1 DEF LeftBy
  <2>3. v = [w EXCEPT !.t[m].zombies = @ \cup {z}] BY <1>2, NoneAssumption DEF LeavePtracer
  <2> HIDE DEF z
  <2>4. v = v1
    <3> HIDE DEF v
    <3> QED BY <1>2, <2>3 DEF Put, Worlds
  <2>5. w.t[m].zombies \cup {z} \in SUBSET [pid : P, own : BOOLEAN] BY <2>1, <2>2 DEF LeftBy
  <2>6. r \in TraceeType BY <2>1, <2>5, PutTracee
  <2>7. /\ r.listed = w.t[m].listed /\ r.terminated = w.t[m].terminated
        /\ r.parent = w.t[m].parent /\ r.as_ptracee = w.t[m].as_ptracee
        /\ r.nb_ptracees = w.t[m].nb_ptracees /\ r.zombies = w.t[m].zombies \cup {z}
    BY <2>1, <2>6 DEF TraceeType
  <2> HIDE DEF r
  <2>8. /\ v1 \in Worlds /\ v1.t[m] = r /\ \A o \in P \ {m} : v1.t[o] = w.t[o]
        /\ \A o \in P : v1.k[o] = w.k[o]
    BY <1>2, <2>1, <2>6, PutWorld
  <2> HIDE DEF v1, v
  <2> QED BY <2>2, <2>4, <2>7, <2>8 DEF SameLife, v, LeavesZombie
<1>3. CASE m \in P /\ ~(e.ptr /\ e.tval = "DIED")
  <2>1. /\ w1 \in Worlds /\ w1.k = w.k
        /\ \A o \in P :
             /\ w1.t[o].listed = w.t[o].listed /\ w1.t[o].terminated = w.t[o].terminated
             /\ w1.t[o].parent = w.t[o].parent /\ w1.t[o].zombies = w.t[o].zombies
             /\ w1.t[o].as_ptracee.ptracer = IF o = p THEN None ELSE w.t[o].as_ptracee.ptracer
             /\ w1.t[o].nb_ptracees = IF o = m THEN w.t[m].nb_ptracees - 1 ELSE w.t[o].nb_ptracees
    BY <1>3, DetachLinks
  <2>2. v \in {w1, restart_tracee([w1 EXCEPT !.t[m].wait_pid = None], m)}
    BY <1>3, NoneAssumption DEF LeavePtracer
  <2> HIDE DEF w1
  <2>3. [w1 EXCEPT !.t[m].wait_pid = None] = w2 BY <2>1 DEF SetWait, Put, Worlds
  <2>4. Quiets(w1, w2) BY <1>3, <2>1, WaitQuiet
  <2> HIDE DEF w2
  <2>5. Quiets(w2, v2) BY <1>3, <2>4, RestartQuiet DEF Quiets
  <2>6. Quiets(w1, v2) /\ Quiets(w1, w1) BY <2>1, <2>4, <2>5, QuietTrans, QuietSelf
  <2>7. v \in {w1, v2} BY <2>2, <2>3
  <2> HIDE DEF v, v2
  <2>8. Quiets(w1, v) BY <2>6, <2>7
  <2> QED BY <1>3, <2>1, <2>8 DEF Quiets, SameLinks, SameLife, v
<1> QED BY <1>1, <1>2, <1>3

\* p is taken off the list, and off its children.
LEMMA UnlinkLinks ==
  ASSUME BatchFits, NEW w \in Worlds, NEW p \in P
  PROVE  LET v == Unlink(w, p)
         IN  /\ v \in Worlds /\ v.k = w.k
             /\ \A o \in P :
                  /\ (v.t[o].listed <=> o # p /\ w.t[o].listed)
                  /\ v.t[o].terminated = w.t[o].terminated
                  /\ v.t[o].parent = IF o # p /\ w.t[o].listed /\ w.t[o].parent = p
                                      THEN None ELSE w.t[o].parent
                  /\ v.t[o].as_ptracee.ptracer =
                       IF o = p THEN None ELSE w.t[o].as_ptracee.ptracer
                  /\ v.t[o].nb_ptracees = w.t[o].nb_ptracees
                  /\ v.t[o].zombies = IF o = p THEN {} ELSE w.t[o].zombies
<1> DEFINE B == {q \in P : w.t[q].listed /\ w.t[q].parent = p}
           r == [w.t[p] EXCEPT !.listed = FALSE, !.zombies = {}, !.wait_pid = None,
                               !.as_ptracee = Unattached]
           s(q) == [w.t[q] EXCEPT !.parent = None]
           f == [q \in P |-> IF q = p THEN r ELSE IF q \in B THEN s(q) ELSE w.t[q]]
           v == Unlink(w, p)
<1>1. Batch(B) = B BY BatchIsAll
<1>2. v = [w EXCEPT !.t = f] BY <1>1 DEF Unlink
<1>3. /\ r \in TraceeType /\ ~r.listed /\ r.terminated = w.t[p].terminated
      /\ r.parent = w.t[p].parent /\ r.zombies = {}
      /\ r.nb_ptracees = w.t[p].nb_ptracees /\ r.as_ptracee.ptracer = None
  <2>1. w.t[p] \in TraceeType BY Parts
  <2>2. Unattached \in Ptracees /\ Unattached.ptracer = None
    BY DEF Unattached, Ptracees, Events
  <2> DEFINE r0 == [w.t[p] EXCEPT !.listed = FALSE, !.zombies = {}, !.wait_pid = None]
  <2>3. r0 \in TraceeType BY <2>1 DEF TraceeType
  <2>4. r = [r0 EXCEPT !.as_ptracee = Unattached] OBVIOUS
  <2>5. r \in TraceeType BY <2>2, <2>3, <2>4, PutTracee
  <2> QED BY <2>1, <2>2, <2>5 DEF TraceeType
<1>4. ASSUME NEW q \in P
      PROVE  /\ s(q) \in TraceeType
             /\ s(q).listed = w.t[q].listed /\ s(q).terminated = w.t[q].terminated
             /\ s(q).parent = None /\ s(q).zombies = w.t[q].zombies
             /\ s(q).nb_ptracees = w.t[q].nb_ptracees /\ s(q).as_ptracee = w.t[q].as_ptracee
  <2>1. w.t[q] \in TraceeType BY Parts
  <2> QED BY <2>1 DEF TraceeType
<1> HIDE DEF r, s
<1>5. f \in [P -> TraceeType] BY <1>3, <1>4, Parts
<1>6. v \in Worlds /\ v.k = w.k /\ v.t = f BY <1>2, <1>5 DEF Worlds
<1>7. \A o \in P : v.t[o] = IF o = p THEN r ELSE IF o \in B THEN s(o) ELSE w.t[o]
  BY <1>6
<1> HIDE DEF v, f
<1>8. \A o \in P \ {p} : w.t[o].parent \in P \cup {None} /\ w.t[o].listed \in BOOLEAN
  BY Parts DEF TraceeType
<1>9. ASSUME NEW o \in P
      PROVE  /\ (v.t[o].listed <=> o # p /\ w.t[o].listed)
             /\ v.t[o].terminated = w.t[o].terminated
             /\ v.t[o].as_ptracee.ptracer = IF o = p THEN None ELSE w.t[o].as_ptracee.ptracer
             /\ v.t[o].nb_ptracees = w.t[o].nb_ptracees
             /\ v.t[o].zombies = IF o = p THEN {} ELSE w.t[o].zombies
  <2>1. CASE o = p
    <3>1. v.t[o] = r BY ONLY <1>7, <2>1
    <3> QED BY ONLY <1>3, <2>1, <3>1
  <2>2. CASE o # p /\ o \in B
    <3>1. v.t[o] = s(o) BY ONLY <1>7, <2>2
    <3> QED BY ONLY <1>4, <2>2, <3>1
  <2>3. CASE o # p /\ o \notin B
    <3>1. v.t[o] = w.t[o] BY ONLY <1>7, <2>3
    <3> QED BY ONLY <2>3, <3>1
  <2> QED BY ONLY <2>1, <2>2, <2>3
<1>10. \A o \in P : v.t[o].parent = IF o # p /\ w.t[o].listed /\ w.t[o].parent = p
                                    THEN None ELSE w.t[o].parent
  BY <1>3, <1>4, <1>7
<1> QED BY <1>6, <1>9, <1>10 DEF v

\* tracee.c, free_terminated_tracees() and remove_tracee().
LEMMA RemoveKeeps ==
  ASSUME BatchFits, NEW w, Sound(w), NEW p \in P, w.t[p].listed, w.t[p].terminated
  PROVE  Sound(remove_tracee(w, p))
<1> DEFINE m == w.t[p].as_ptracee.ptracer
           d == DetachPtracees(w, p)
           l == LeavePtracer(d, p)
           v == remove_tracee(w, p)
<1>1. w \in Worlds /\ m \in P \cup {None} /\ m # p BY Parts DEF Sound, NotItself
<1>2. /\ d \in Worlds /\ d.k = w.k
      /\ \A o \in P :
           /\ d.t[o].listed = w.t[o].listed /\ d.t[o].terminated = w.t[o].terminated
           /\ d.t[o].parent = w.t[o].parent /\ d.t[o].zombies = w.t[o].zombies
           /\ d.t[o].nb_ptracees = w.t[o].nb_ptracees
           /\ d.t[o].as_ptracee.ptracer =
                IF o \in Tracees(w, p) THEN None ELSE w.t[o].as_ptracee.ptracer
  BY <1>1, DetachPtraceesLinks
<1>3. ASSUME m \in P
      PROVE  /\ w.t[m].listed /\ p \in Tracees(w, m)
             /\ Cardinality(Tracees(w, m) \ {p}) = Cardinality(Tracees(w, m)) - 1
             /\ Cardinality(Tracees(w, m) \ {p}) \in Nat
             /\ Cardinality(Tracees(w, m)) \in Nat
             /\ IsFiniteSet(w.t[m].zombies) /\ Cardinality(w.t[m].zombies) \in Nat
             /\ w.t[m].nb_ptracees = Cardinality(Tracees(w, m)) + Cardinality(w.t[m].zombies)
             /\ w.t[m].nb_ptracees # 0
  <2>1. w.t[m].listed BY <1>3 DEF Sound, PointsToListed
  <2>2. p \in Tracees(w, m) BY DEF Tracees
  <2> HIDE DEF m
  <2>3. /\ IsFiniteSet(Tracees(w, m)) /\ Cardinality(Tracees(w, m)) \in Nat
        /\ IsFiniteSet(w.t[m].zombies) /\ Cardinality(w.t[m].zombies) \in Nat
    BY <1>1, <1>3, Finite DEF BatchFits
  <2>4. /\ Cardinality(Tracees(w, m) \ {p}) = Cardinality(Tracees(w, m)) - 1
        /\ Cardinality(Tracees(w, m) \ {p}) \in Nat
    BY <2>2, <2>3, FS_RemoveElement, FS_CardinalityType
  <2>5. w.t[m].nb_ptracees = Cardinality(Tracees(w, m)) + Cardinality(w.t[m].zombies)
    BY <1>3, <2>1 DEF Sound, Counted
  <2> QED BY <2>1, <2>2, <2>3, <2>4, <2>5
<1>4. d.t[p].as_ptracee.ptracer = m /\ (m \in P => d.t[m].nb_ptracees # 0)
  BY <1>1, <1>2, <1>3 DEF Tracees
<1> HIDE DEF d, m
<1>5. /\ l \in Worlds
      /\ \A o \in P :
           /\ SameLife(d.k[o], l.k[o])
           /\ l.t[o].listed = d.t[o].listed /\ l.t[o].terminated = d.t[o].terminated
           /\ l.t[o].parent = d.t[o].parent
           /\ o # p => l.t[o].as_ptracee.ptracer = d.t[o].as_ptracee.ptracer
           /\ o # m => /\ l.t[o].nb_ptracees = d.t[o].nb_ptracees
                       /\ l.t[o].zombies = d.t[o].zombies
      /\ m \in P =>
           \/ /\ l.t[m].nb_ptracees = d.t[m].nb_ptracees
              /\ LeavesZombie(p, d.t[m].zombies, l.t[m].zombies)
           \/ /\ l.t[m].nb_ptracees = d.t[m].nb_ptracees - 1
              /\ l.t[m].zombies = d.t[m].zombies
  <2>1. d \in Worlds /\ m \in P \cup {None} /\ m # p BY <1>1, <1>2
  <2>2. d.t[p].as_ptracee.ptracer = m BY <1>4
  <2>3. m \in P => d.t[m].nb_ptracees # 0 BY <1>4
  <2>4. l \in Worlds BY <2>1, <2>2, <2>3, LeavePtracerLinks
  <2>5. \A o \in P :
           /\ SameLife(d.k[o], l.k[o])
           /\ l.t[o].listed = d.t[o].listed /\ l.t[o].terminated = d.t[o].terminated
           /\ l.t[o].parent = d.t[o].parent
           /\ o # p => l.t[o].as_ptracee.ptracer = d.t[o].as_ptracee.ptracer
           /\ o # m => /\ l.t[o].nb_ptracees = d.t[o].nb_ptracees
                       /\ l.t[o].zombies = d.t[o].zombies
     BY <2>1, <2>2, <2>3, LeavePtracerLinks
  <2>6. ASSUME m \in P
        PROVE  \/ /\ l.t[m].nb_ptracees = d.t[m].nb_ptracees
                  /\ LeavesZombie(p, d.t[m].zombies, l.t[m].zombies)
               \/ /\ l.t[m].nb_ptracees = d.t[m].nb_ptracees - 1
                  /\ l.t[m].zombies = d.t[m].zombies
    BY <2>1, <2>2, <2>3, <2>6, LeavePtracerLinks
  <2> QED BY <2>4, <2>5, <2>6
<1>6. v = Unlink(l, p) BY DEF remove_tracee, d
<1> HIDE DEF l, v
<1>7. /\ v \in Worlds /\ v.k = l.k
      /\ \A o \in P :
           /\ (v.t[o].listed <=> o # p /\ l.t[o].listed)
           /\ v.t[o].terminated = l.t[o].terminated
           /\ v.t[o].parent = IF o # p /\ l.t[o].listed /\ l.t[o].parent = p
                               THEN None ELSE l.t[o].parent
           /\ v.t[o].as_ptracee.ptracer = IF o = p THEN None ELSE l.t[o].as_ptracee.ptracer
           /\ v.t[o].nb_ptracees = l.t[o].nb_ptracees
           /\ v.t[o].zombies = IF o = p THEN {} ELSE l.t[o].zombies
  BY <1>5, <1>6, UnlinkLinks
\* The world that is left, in terms of the one there was.
<1>8. \A o \in P :
        /\ SameLife(w.k[o], v.k[o])
        /\ (v.t[o].listed <=> o # p /\ w.t[o].listed) /\ v.t[o].terminated = w.t[o].terminated
        /\ v.t[o].parent = IF o # p /\ w.t[o].listed /\ w.t[o].parent = p
                            THEN None ELSE w.t[o].parent
        /\ v.t[o].as_ptracee.ptracer =
             IF o = p \/ (w.t[o].listed /\ w.t[o].as_ptracee.ptracer = p)
               THEN None ELSE w.t[o].as_ptracee.ptracer
  <2>1. \A o \in P : SameLife(w.k[o], v.k[o]) BY <1>2, <1>5, <1>7
  <2>2. \A o \in P : /\ (v.t[o].listed <=> o # p /\ w.t[o].listed)
                     /\ v.t[o].terminated = w.t[o].terminated
    BY <1>2, <1>5, <1>7
  <2>3. \A o \in P : v.t[o].parent = IF o # p /\ w.t[o].listed /\ w.t[o].parent = p
                                     THEN None ELSE w.t[o].parent
    BY <1>2, <1>5, <1>7
  <2>4. \A o \in P : v.t[o].as_ptracee.ptracer =
             IF o = p \/ (w.t[o].listed /\ w.t[o].as_ptracee.ptracer = p)
               THEN None ELSE w.t[o].as_ptracee.ptracer
    BY <1>2, <1>5, <1>7 DEF Tracees
  <2> QED BY <2>1, <2>2, <2>3, <2>4
<1>9. \A o \in P \ {p, m} : /\ v.t[o].nb_ptracees = w.t[o].nb_ptracees
                            /\ v.t[o].zombies = w.t[o].zombies
  BY <1>2, <1>5, <1>7
<1>10. m \in P =>
         \/ /\ v.t[m].nb_ptracees = w.t[m].nb_ptracees
            /\ LeavesZombie(p, w.t[m].zombies, v.t[m].zombies)
         \/ /\ v.t[m].nb_ptracees = w.t[m].nb_ptracees - 1
            /\ v.t[m].zombies = w.t[m].zombies
  BY <1>1, <1>2, <1>5, <1>7
<1>11. v.t[p].zombies = {} BY <1>7
<1>12. Ended(v) BY <1>8 DEF Ended, Sound, SameLife
<1>13. NotItself(v) BY <1>8, NoneAssumption DEF NotItself, Sound
<1>14. PointsToListed(v) BY <1>8, NoneAssumption DEF PointsToListed, Sound
<1>15. ZombiesFreed(v)
  <2> SUFFICES ASSUME NEW o \in P, v.t[o].listed, NEW z \in v.t[o].zombies
               PROVE  ~v.t[z.pid].listed
    BY DEF ZombiesFreed
  <2>1. z.pid = p \/ z \in w.t[o].zombies BY <1>8, <1>9, <1>10 DEF LeftBy, LeavesZombie
  <2>2. z.pid \in P BY <1>1, <2>1, Parts
  <2>3. w.t[o].listed BY <1>8
  <2> QED BY <1>8, <2>1, <2>2, <2>3 DEF ZombiesFreed, Sound
<1>16. Counted(v)
  <2> SUFFICES ASSUME NEW o \in P, v.t[o].listed
               PROVE  v.t[o].nb_ptracees = Cardinality(Tracees(v, o)) + Cardinality(v.t[o].zombies)
    BY DEF Counted
  <2>1. o # p /\ w.t[o].listed BY <1>8
  <2>2. w.t[o].nb_ptracees = Cardinality(Tracees(w, o)) + Cardinality(w.t[o].zombies)
    BY <2>1 DEF Counted, Sound
  <2>3. CASE o # m
    <3>1. Tracees(v, o) = Tracees(w, o) BY <1>8, <2>1, <2>3, NoneAssumption DEF Tracees, m
    <3> QED BY <1>9, <2>1, <2>2, <2>3, <3>1
  <2>4. CASE o = m
    <3>1. Tracees(v, m) = Tracees(w, m) \ {p}
      BY <1>8, <2>1, <2>4, NoneAssumption DEF Tracees
    <3>2. CASE /\ v.t[m].nb_ptracees = w.t[m].nb_ptracees
               /\ LeavesZombie(p, w.t[m].zombies, v.t[m].zombies)
      <4>1. PICK z \in LeftBy(p) : v.t[m].zombies = w.t[m].zombies \cup {z}
        BY <3>2 DEF LeavesZombie
      <4>2. z \notin w.t[m].zombies BY <1>1, <2>1, <2>4 DEF LeftBy, ZombiesFreed, Sound
      <4>3. Cardinality(v.t[m].zombies) = Cardinality(w.t[m].zombies) + 1
        <5>1. IsFiniteSet(w.t[m].zombies) BY <1>3, <2>4
        <5> QED BY <4>1, <4>2, <5>1, FS_AddElement
      <4> QED BY <1>3, <2>4, <3>1, <3>2, <4>3
    <3>3. CASE /\ v.t[m].nb_ptracees = w.t[m].nb_ptracees - 1
               /\ v.t[m].zombies = w.t[m].zombies
      BY <1>3, <2>4, <3>1, <3>3
    <3> QED BY <1>10, <2>4, <3>2, <3>3
  <2> QED BY <2>3, <2>4
<1> QED BY <1>7, <1>12, <1>13, <1>14, <1>15, <1>16 DEF Sound, v

-----------------------------------------------------------------------------
(* The steps of the guests, of the kernel and of the event loop.           *)

\* The inductive invariant.
IInv == Sound(W) /\ waited \subseteq P

\* What Become() leaves.
LEMMA WorldIs ==
  ASSUME NEW v \in Worlds, Become(v)
  PROVE  W' = v
BY DEF Become, W, Worlds

\* The kernel changes what one process does.
LEMMA ProcessKeeps ==
  ASSUME NEW w, Sound(w), NEW p \in P, NEW x \in Processes,
         w.k[p].st = "gone" => x.st = "gone",
         x.ev = "DIED" => x.st \in {"dead", "gone"}
  PROVE  /\ Sound(Put(w, p, x, w.t[p]))
         /\ Put(w, p, x, w.t[p]).k[p] = x
         /\ \A q \in P : Put(w, p, x, w.t[p]).t[q] = w.t[q]
<1> DEFINE v == Put(w, p, x, w.t[p])
<1>1. w \in Worlds /\ w.t[p] \in TraceeType BY Parts DEF Sound
<1>2. /\ v \in Worlds /\ v.k[p] = x /\ \A q \in P \ {p} : v.k[q] = w.k[q]
      /\ v.t[p] = w.t[p] /\ \A q \in P \ {p} : v.t[q] = w.t[q]
  BY <1>1, PutWorld
<1> HIDE DEF v
<1>3. \A q \in P : v.t[q] = w.t[q] BY <1>2
<1>4. Ended(v) BY <1>2, <1>3 DEF Ended, Sound
<1>5. NotItself(v) BY <1>3 DEF NotItself, Sound
<1>6. PointsToListed(v) BY <1>3 DEF PointsToListed, Sound
<1>7. ZombiesFreed(v)
  <2> SUFFICES ASSUME NEW o \in P, v.t[o].listed, NEW z \in v.t[o].zombies
               PROVE  ~v.t[z.pid].listed
    BY DEF ZombiesFreed
  <2>1. z.pid \in P BY <1>1, <1>3, Parts
  <2> QED BY <1>3, <2>1 DEF ZombiesFreed, Sound
<1>8. Counted(v)
  <2>1. \A o \in P : Tracees(v, o) = Tracees(w, o) BY <1>3 DEF Tracees
  <2> QED BY <1>3, <2>1 DEF Counted, Sound
<1> QED BY <1>2, <1>3, <1>4, <1>5, <1>6, <1>7, <1>8 DEF Sound, v

\* A step of the kernel keeps the world sound.
LEMMA KernelKeeps ==
  ASSUME Sound(W), NEW p \in P, NEW x \in Processes,
         k[p].st = "gone" => x.st = "gone",
         x.ev = "DIED" => x.st \in {"dead", "gone"},
         k' = [k EXCEPT ![p] = x], UNCHANGED <<t, crashed>>
  PROVE  Sound(W')
<1>1. W \in Worlds /\ W.k = k /\ W.t = t BY DEF Sound, W
<1>2. Sound(Put(W, p, x, W.t[p])) BY <1>1, ProcessKeeps
<1> DEFINE v == Put(W, p, x, W.t[p])
<1>3. /\ v \in Worlds /\ v.crashed = W.crashed
      /\ v.k[p] = x /\ \A q \in P \ {p} : v.k[q] = W.k[q]
      /\ \A q \in P : v.t[q] = W.t[q]
  <2>1. W.t[p] \in TraceeType BY <1>1, Parts
  <2> QED BY <1>1, <2>1, PutWorld
<1> HIDE DEF v
<1>4. v.k = k' /\ v.t = t' BY <1>1, <1>3 DEF Worlds
<1>5. Become(v) BY <1>3, <1>4 DEF Become, W
<1> QED BY <1>2, <1>3, <1>5, WorldIs DEF v

\* The processes start with nothing attached.
LEMMA Initially == ASSUME IsFiniteSet(P), Init PROVE IInv
<1> DEFINE x == [st |-> "run", ev |-> "none", reported |-> TRUE, call |-> NoCall,
                 void |-> FALSE, stopsig |-> FALSE, kres |-> None]
<1>1. x \in Processes BY DEF Processes, States, Events, Calls
<1>2. ASSUME NEW p \in P PROVE NewTracee(Parent[p]) \in TraceeType
  <2>1. Parent[p] \in P \cup {None} BY ParentAssumption
  <2> QED BY <2>1 DEF NewTracee, TraceeType, Unattached
<1>3. k = [p \in P |-> x] /\ t = [p \in P |-> NewTracee(Parent[p])] /\ crashed = FALSE
      /\ waited = {}
  BY DEF Init
<1> HIDE DEF x
<1>4. W \in Worlds /\ W.k = k /\ W.t = t BY <1>1, <1>2, <1>3 DEF Worlds, W
<1>5. \A p \in P : /\ W.k[p].ev = "none"
                   /\ W.t[p].listed /\ ~W.t[p].terminated /\ W.t[p].parent = Parent[p]
                   /\ W.t[p].as_ptracee.ptracer = None
                   /\ W.t[p].nb_ptracees = 0 /\ W.t[p].zombies = {}
  BY <1>3, <1>4 DEF NewTracee, Unattached, x
<1>6. Counted(W)
  <2>1. \A p \in P : Tracees(W, p) = {} BY <1>5, NoneAssumption DEF Tracees
  <2>2. Cardinality({}) = 0 BY FS_EmptySet
  <2> SUFFICES ASSUME NEW p \in P
               PROVE  W.t[p].nb_ptracees = Cardinality(Tracees(W, p)) + Cardinality(W.t[p].zombies)
    BY DEF Counted
  <2>3. W.t[p].nb_ptracees = 0 /\ W.t[p].zombies = {} /\ Tracees(W, p) = {} BY <1>5, <2>1
  <2> QED BY <2>2, <2>3
<1>7. Ended(W) /\ ZombiesFreed(W) BY <1>5 DEF Ended, ZombiesFreed
<1>8. NotItself(W) /\ PointsToListed(W)
  BY <1>5, NoneAssumption, ParentAssumption DEF NotItself, PointsToListed
<1> QED BY <1>3, <1>4, <1>6, <1>7, <1>8 DEF IInv, Sound

\* The loop handles an event: offered to the ptracer, then handled, then restarted.
LEMMA EventKeeps ==
  ASSUME IsFiniteSet(P), Sound(W), NEW p \in P, Event(p)
  PROVE  Sound(W')
<1> DEFINE ev == k[p].ev
           s  == IF W.k[p].st = "dead" THEN "gone" ELSE W.k[p].st
           x  == [W.k[p] EXCEPT !.reported = TRUE, !.st = s]
           w1 == Put(W, p, x, W.t[p])
           r  == [W.t[p] EXCEPT !.running = FALSE]
           w0 == Put(w1, p, w1.k[p], r)
           h  == IF t[p].as_ptracee.ptracer = None THEN [w |-> w0, keep |-> FALSE]
                 ELSE handle_ptracee_event(w0, p, ev)
           u  == handle_tracee_event(h.w, p, ev)
           v  == restart_tracee(u, p)
<1>1. /\ W \in Worlds /\ W.k = k /\ W.t = t
      /\ k[p] \in Processes /\ t[p] \in TraceeType /\ ev \in Events /\ k[p].st \in States
  <2>1. W \in Worlds /\ W.k = k /\ W.t = t BY DEF Sound, W
  <2> QED BY <2>1, Parts
<1>2. k[p].st \in {"stop", "dead"} BY DEF Event
<1>3. /\ x \in Processes /\ x.ev = k[p].ev /\ x.st = s
  BY <1>1 DEF Processes, States
<1>4. t[p].listed BY <1>1, <1>2 DEF Sound, Ended
<1>5. ev = "DIED" => k[p].st = "dead" BY <1>1, <1>2 DEF Sound, Ended
<1> HIDE DEF x
<1>6. Sound(w1) /\ w1.k[p] = x /\ w1.t[p] = t[p] BY <1>1, <1>2, <1>3, <1>5, ProcessKeeps
<1>7. r \in TraceeType /\ SameLinks(t[p], r) BY ONLY <1>1 DEF TraceeType, SameLinks
<1>8. [W EXCEPT !.k[p].reported = TRUE, !.k[p].st = IF @ = "dead" THEN "gone" ELSE @,
                !.t[p].running = FALSE] = w0
  <2>1. w0 = Put(W, p, x, r)
    <3>1. Put(w1, p, x, r) = Put(W, p, x, r) BY ONLY <1>1, PutAgain
    <3> HIDE DEF w1, r
    <3> QED BY ONLY <1>6, <3>1
  <2>2. [W EXCEPT !.k[p].reported = TRUE, !.k[p].st = IF @ = "dead" THEN "gone" ELSE @,
                  !.t[p].running = FALSE] = Put(W, p, x, r)
    BY ONLY <1>1 DEF Put, Worlds, x
  <2> HIDE DEF w0
  <2> QED BY ONLY <2>1, <2>2
<1> HIDE DEF w1, r
<1>9. Quiets(w1, w0) BY <1>6, <1>7, TraceeQuiet DEF Sound
<1> HIDE DEF w0
<1>10. /\ Sound(w0) /\ w0.t[p].listed /\ w0.t[p].as_ptracee.ptracer = t[p].as_ptracee.ptracer
       /\ ev = "DIED" => w0.k[p].st = "gone"
  <2>1. Keeps(w1, w0, p) BY <1>6, <1>9, QuietKeeps
  <2> QED BY <1>1, <1>3, <1>4, <1>5, <1>6, <2>1 DEF Keeps, Lists, SameLife
<1>11. Sound(h.w) /\ Lists(w0, h.w)
  <2>1. CASE t[p].as_ptracee.ptracer = None
    BY <1>10, <2>1 DEF Lists, SameLife
  <2>2. CASE t[p].as_ptracee.ptracer # None
    <3>1. h = handle_ptracee_event(w0, p, ev) BY <2>2
    <3> QED BY <1>1, <1>10, <2>2, <3>1, PtraceeEventHandled
  <2> QED BY <2>1, <2>2
<1>12. Become(IF h.keep THEN h.w ELSE v)
  BY <1>8 DEF Event, w0
<1> HIDE DEF h, ev
<1>13. Sound(u)
  <2>1. h.w.t[p].listed /\ (ev = "DIED" => h.w.k[p].st = "gone")
    BY <1>10, <1>11 DEF Lists, SameLife
  <2> QED BY <1>1, <1>11, <2>1, EventHandled DEF Handles
<1> HIDE DEF u
<1>14. Sound(v)
  <2>1. Quiets(u, v) BY <1>13, RestartQuiet DEF Sound
  <2> QED BY <1>13, <2>1, QuietKeeps DEF Keeps
<1> HIDE DEF v
<1> DEFINE y == IF h.keep THEN h.w ELSE v
<1>15. Sound(y) /\ Become(y) BY <1>11, <1>12, <1>14
<1> HIDE DEF y
<1> QED BY <1>15, WorldIs DEF Sound

\* The loop frees a terminated Tracee.
LEMMA FreeKeeps ==
  ASSUME BatchFits, Sound(W), NEW p \in P, Free(p)
  PROVE  Sound(W')
<1>1. W.t = t BY DEF W
<1>2. Sound(remove_tracee(W, p)) BY <1>1, RemoveKeeps DEF Free
<1> QED BY <1>2, WorldIs DEF Free, Sound

\* The guests and the kernel.
LEMMA GuestKeeps ==
  ASSUME Sound(W), NEW p \in P,
         (\E c \in Calls : Call(p, c)) \/ Return(p) \/ KernelWait(p) \/ TakeStop(p)
           \/ Signal(p) \/ Die(p)
  PROVE  Sound(W')
<1>1. k[p] \in Processes
  <2>1. W \in Worlds /\ W.k = k BY DEF Sound, W
  <2> QED BY <2>1, Parts
<1>2. ASSUME NEW c \in Calls, Call(p, c) PROVE Sound(W')
  <2> DEFINE x == [k[p] EXCEPT !.st = "stop", !.ev = "ENTER", !.reported = FALSE,
                               !.call = c, !.void = FALSE, !.kres = None]
  <2>1. x \in Processes /\ x.st = "stop" /\ x.ev = "ENTER"
    BY <1>1 DEF Processes, States, Events
  <2>2. k' = [k EXCEPT ![p] = x] /\ k[p].st = "run" /\ UNCHANGED <<t, crashed>>
    BY <1>2 DEF Call
  <2> HIDE DEF x
  <2> QED BY <2>1, <2>2, KernelKeeps
<1>3. ASSUME NEW q \in P \cup {None}, Leaves(p, q), k[p].st \in {"insys", "kwait"},
             UNCHANGED <<t, crashed>>
      PROVE  Sound(W')
  <2> DEFINE x == [k[p] EXCEPT !.st = "stop", !.ev = "LEAVE", !.reported = FALSE, !.kres = q]
  <2>1. x \in Processes /\ x.st = "stop" /\ x.ev = "LEAVE"
    BY <1>1 DEF Processes, States, Events
  <2>2. k' = [k EXCEPT ![p] = x] BY <1>3 DEF Leaves
  <2> HIDE DEF x
  <2> QED BY <1>3, <2>1, <2>2, KernelKeeps
<1>4. CASE Return(p) BY <1>3, <1>4 DEF Return
<1>5. CASE KernelWait(p) BY <1>3, <1>5 DEF KernelWait, Collectable
<1>6. CASE TakeStop(p)
  <2> DEFINE x == [k[p] EXCEPT !.st = "stop", !.ev = "SIGSTOP", !.reported = FALSE,
                               !.stopsig = FALSE]
  <2>1. x \in Processes /\ x.st = "stop" /\ x.ev = "SIGSTOP"
    BY <1>1 DEF Processes, States, Events
  <2>2. k' = [k EXCEPT ![p] = x] /\ k[p].st = "run" /\ UNCHANGED <<t, crashed>>
    BY <1>6 DEF TakeStop
  <2> HIDE DEF x
  <2> QED BY <2>1, <2>2, KernelKeeps
<1>7. CASE Signal(p)
  <2> DEFINE x == [k[p] EXCEPT !.st = "stop", !.ev = "SIG", !.reported = FALSE]
  <2>1. x \in Processes /\ x.st = "stop" /\ x.ev = "SIG"
    BY <1>1 DEF Processes, States, Events
  <2>2. k' = [k EXCEPT ![p] = x] /\ k[p].st = "run" /\ UNCHANGED <<t, crashed>>
    BY <1>7 DEF Signal
  <2> HIDE DEF x
  <2> QED BY <2>1, <2>2, KernelKeeps
<1>8. CASE Die(p)
  <2> DEFINE x == [k[p] EXCEPT !.st = "dead", !.ev = "DIED", !.reported = FALSE]
  <2>1. x \in Processes /\ x.st = "dead" /\ x.ev = "DIED"
    BY <1>1 DEF Processes, States, Events
  <2>2. k' = [k EXCEPT ![p] = x] /\ k[p].st # "gone" /\ UNCHANGED <<t, crashed>>
    BY <1>8 DEF Die
  <2> HIDE DEF x
  <2> QED BY <2>1, <2>2, KernelKeeps
<1> QED BY <1>2, <1>4, <1>5, <1>6, <1>7, <1>8

\* The invariant is inductive.
LEMMA Invariant == ASSUME BatchFits PROVE Spec => []IInv
<1>1. Init => IInv BY Initially DEF BatchFits
<1>2. ASSUME IInv, [Next]_vars PROVE IInv'
  <2>1. Sound(W')
    <3> SUFFICES ASSUME IInv, [Next]_vars PROVE Sound(W')
      BY <1>2
    <3> USE DEF IInv
    <3>1. CASE \E p \in P, c \in Calls : Call(p, c) BY <3>1, GuestKeeps
    <3>2. CASE \E p \in P : Return(p) \/ KernelWait(p) \/ TakeStop(p) \/ Signal(p) \/ Die(p)
      BY <3>2, GuestKeeps
    <3>3. CASE \E p \in P : Event(p) \/ Free(p)
      BY <3>3, EventKeeps, FreeKeeps DEF BatchFits
    <3>4. CASE Quiet \/ UNCHANGED vars
      <4>1. UNCHANGED <<k, t, crashed>> BY <3>4 DEF Quiet, vars
      <4>2. W' = W BY <4>1, ZenonT(30) DEF W
      <4> QED BY <4>2
    <3> QED BY <3>1, <3>2, <3>3, <3>4 DEF Next
  <2>2. (waited \subseteq P)'
    BY <1>2, ZenonT(30) DEF IInv, Next, vars, Call, Return, KernelWait, Collectable, TakeStop,
                            Signal, Die, Event, Free, Quiet
  <2> QED BY <2>1, <2>2 DEF IInv
<1> QED BY <1>1, <1>2, PTL DEF Spec

\* The records of who traces whom stay whole, whatever the guests call and whenever they
\* die: every Tracee on the list counts its attached tracees and its zombies right, and
\* points to no Tracee that was freed (attach_to_ptracer(), detach_from_ptracer(),
\* free_terminated_tracees(), remove_tracee()).
THEOREM LinksStaySound == ASSUME BatchFits PROVE Spec => []LinksSound
<1>1. ASSUME IInv PROVE LinksSound
  <2>0. Sound(W) /\ W.k = k /\ W.t = t /\ W.crashed = crashed BY <1>1 DEF IInv, W
  <2>1. TypeOK BY <1>1, <2>0 DEF IInv, Sound, Worlds, Processes, States, Events, TypeOK
  <2>2. PtraceesCounted BY <2>0 DEF Sound, Counted, Tracees, PtraceesCounted
  <2>3. NoDanglingPointer BY <2>0 DEF Sound, PointsToListed, NoDanglingPointer
  <2> QED BY <2>1, <2>2, <2>3 DEF LinksSound
<1> QED BY <1>1, Invariant, PTL

-----------------------------------------------------------------------------
\* What a world has to be while the processes H are in the hands of the loop: the process
\* whose event it handles, the ptracee that is resumed, the waiter that is woken.

Killed(x) == x.st \in {"dead", "gone"}
Alive(w) == \A q \in P : ~Killed(w.k[q])

\* Who is not running is stopped, or was killed, and its stop was seen.
Halted(x, r) ==
    /\ x.st = "stop" => (x.reported <=> ~r.running)
    /\ ~r.running => x.st \in {"stop", "dead", "gone"}
    /\ x.st = "gone" => ~r.running
    /\ Killed(x) <=> x.ev = "DIED"
\* Who waits for its ptracees is stopped.
WaiterHeld(x, r) ==
    r.wait_pid # None => ~r.running /\ (Killed(x) \/ (x.st = "stop" /\ x.reported))
Reaped(x, r) == x.st = "gone" => r.terminated
InHand(x, r) ==
    /\ r.listed /\ ~r.running
    /\ ~Killed(x) => x.st = "stop" /\ x.reported /\ ~r.terminated

\* A ptracee with an event for its ptracer m; and one that has no event, but still the
\* mark of the one it had before it was continued without a wait.
Exposed(r, m) == r.listed /\ ~r.running /\ r.as_ptracee.ptr /\ r.as_ptracee.ptracer = m
Excused(x, r) == ~r.terminated /\ (x.st = "dead" \/ r.wait_pid # None)
HeardBy(w, m, H) ==
    w.t[m].wait_pid # None =>
        /\ w.t[m].nb_ptracees # 0
        /\ \A z \in w.t[m].zombies : ~Expects(w.t[m].wait_pid, z.pid)
        /\ \A q \in P \ H : Exposed(w.t[q], m) /\ Expects(w.t[m].wait_pid, q)
                               => Excused(w.k[q], w.t[q])

\* As long as nobody was killed: no call is repeated, who waits does it where its call
\* returns, and a process is in the stage its status says.
Plain(r) ==
    /\ r.listed /\ ~r.terminated /\ r.chain = "none" /\ r.zombies = {}
    /\ r.as_ptracee.tval # "DIED"
HoldsCall(r) == r.as_ptracee.proot /\ r.as_ptracee.pval \in SyscallStops
Phased(x, r) ==
    /\ x.st = "run" => r.status = "enter"
    /\ x.st \in {"insys", "kwait"} => r.status = "exit"
    /\ x.st = "stop" /\ ~x.reported => (r.status = "exit" <=> x.ev = "LEAVE")
    /\ x.st = "stop" /\ x.reported =>
         /\ r.status = "enter" /\ (HoldsCall(r) <=> x.ev = "ENTER")
         /\ r.wait_pid = None => r.as_ptracee.ptracer # None

\* The process q by itself, and as long as nobody was killed.
Local(H, q, x, r) ==
    /\ Halted(x, r) /\ WaiterHeld(x, r)
    /\ q \in H => InHand(x, r)
    /\ q \notin H => Reaped(x, r) /\ (H # {} /\ r.listed => ~r.terminated)
InPhase(H, q, x, r) ==
    /\ Plain(r) /\ (r.wait_pid # None => x.ev = "LEAVE")
    /\ q \notin H => Phased(x, r)

Steady(w, H) ==
    /\ w \in Worlds
    /\ \A q \in P : Local(H, q, w.k[q], w.t[q])
    /\ \A m \in P : HeardBy(w, m, H)
    /\ Alive(w) => \A q \in P : InPhase(H, q, w.k[q], w.t[q])

\* A change of q that keeps a world steady: q waits for nothing new, and is not in the way
\* of who waits for it.
Moves(H, q, x0, r0, x, r) ==
    /\ Local(H, q, x, r)
    /\ Killed(x0) => Killed(x)
    /\ r.wait_pid # None => /\ r.wait_pid = r0.wait_pid /\ r.nb_ptracees # 0
                            /\ r.zombies \subseteq r0.zombies
    /\ q \notin H => \A m \in P : Exposed(r, m) => /\ Exposed(r0, m)
                                                   /\ Excused(x0, r0) => Excused(x, r)

Others(w, v, S) == \A o \in P \ S : v.k[o] = w.k[o] /\ v.t[o] = w.t[o]

-----------------------------------------------------------------------------
LEMMA SteadyBy ==
  ASSUME NEW H, NEW w, Steady(w, H), NEW v \in Worlds,
         \A q \in P : Moves(H, q, w.k[q], w.t[q], v.k[q], v.t[q]),
         Alive(v) => \A q \in P : InPhase(H, q, v.k[q], v.t[q])
  PROVE  Steady(v, H)
<1>1. \A q \in P : Local(H, q, v.k[q], v.t[q]) BY DEF Moves
<1>2. ASSUME NEW m \in P, v.t[m].wait_pid # None PROVE HeardBy(v, m, H)
  <2>1. /\ v.t[m].wait_pid = w.t[m].wait_pid /\ v.t[m].nb_ptracees # 0
        /\ v.t[m].zombies \subseteq w.t[m].zombies
    BY <1>2 DEF Moves
  <2>2. \A z \in v.t[m].zombies : ~Expects(v.t[m].wait_pid, z.pid)
    BY <1>2, <2>1 DEF Steady, HeardBy
  <2>3. ASSUME NEW q \in P \ H, Exposed(v.t[q], m), Expects(v.t[m].wait_pid, q)
        PROVE  Excused(v.k[q], v.t[q])
    <3>1. Exposed(w.t[q], m) /\ (Excused(w.k[q], w.t[q]) => Excused(v.k[q], v.t[q]))
      BY <2>3 DEF Moves
    <3>2. HeardBy(w, m, H) BY DEF Steady
    <3> QED BY <1>2, <2>1, <2>3, <3>1, <3>2 DEF HeardBy
  <2> QED BY <2>1, <2>2, <2>3 DEF HeardBy
<1>3. \A m \in P : HeardBy(v, m, H) BY <1>2 DEF HeardBy
<1> QED BY <1>1, <1>3 DEF Steady

\* Who does not change.
LEMMA MovesNot ==
  ASSUME NEW H, NEW w, Steady(w, H), NEW q \in P
  PROVE  /\ Moves(H, q, w.k[q], w.t[q], w.k[q], w.t[q])
         /\ Local(H, q, w.k[q], w.t[q]) /\ (Alive(w) => InPhase(H, q, w.k[q], w.t[q]))
<1>1. Local(H, q, w.k[q], w.t[q]) /\ (Alive(w) => InPhase(H, q, w.k[q], w.t[q]))
  BY DEF Steady
<1>2. HeardBy(w, q, H) BY DEF Steady
<1> QED BY <1>1, <1>2 DEF Moves, HeardBy

\* Two processes change, or one.
LEMMA SteadyTwo ==
  ASSUME NEW H, NEW w, Steady(w, H), NEW v \in Worlds, NEW p \in P, NEW q \in P,
         Others(w, v, {p, q}),
         Moves(H, p, w.k[p], w.t[p], v.k[p], v.t[p]),
         Moves(H, q, w.k[q], w.t[q], v.k[q], v.t[q]),
         Alive(v) => InPhase(H, p, v.k[p], v.t[p]) /\ InPhase(H, q, v.k[q], v.t[q])
  PROVE  Steady(v, H)
<1>1. \A o \in P \ {p, q} : v.k[o] = w.k[o] /\ v.t[o] = w.t[o] BY DEF Others
<1>2. \A o \in P : Moves(H, o, w.k[o], w.t[o], v.k[o], v.t[o])
  <2> SUFFICES ASSUME NEW o \in P, o \notin {p, q}
               PROVE  Moves(H, o, w.k[o], w.t[o], v.k[o], v.t[o])
    OBVIOUS
  <2> QED BY <1>1, MovesNot
<1>3. Alive(v) => Alive(w)
  BY <1>2 DEF Alive, Moves
<1>4. ASSUME Alive(v), NEW o \in P PROVE InPhase(H, o, v.k[o], v.t[o])
  <2>1. CASE o \in {p, q} BY <1>4, <2>1
  <2>2. CASE o \notin {p, q}
    <3>1. v.k[o] = w.k[o] /\ v.t[o] = w.t[o] BY <1>1, <2>2
    <3> QED BY <1>3, <1>4, <3>1, MovesNot
  <2> QED BY <2>1, <2>2
<1> QED BY <1>2, <1>4, SteadyBy

LEMMA SteadyOne ==
  ASSUME NEW H, NEW w, Steady(w, H), NEW v \in Worlds, NEW q \in P, Others(w, v, {q}),
         Moves(H, q, w.k[q], w.t[q], v.k[q], v.t[q]),
         Alive(v) => InPhase(H, q, v.k[q], v.t[q])
  PROVE  Steady(v, H)
<1>1. Others(w, v, {q, q}) BY DEF Others
<1> QED BY <1>1, SteadyTwo

\* What the stages of a call change is not a matter of who waits for whom.
Core(x0, r0, x, r) ==
    /\ x.st = x0.st /\ x.ev = x0.ev /\ x.reported = x0.reported /\ x.call = x0.call
    /\ r.listed = r0.listed /\ r.terminated = r0.terminated /\ r.running = r0.running
    /\ r.wait_pid = r0.wait_pid /\ r.nb_ptracees = r0.nb_ptracees /\ r.zombies = r0.zombies
    /\ r.chain = r0.chain
    /\ r.as_ptracee.ptracer = r0.as_ptracee.ptracer
    /\ r.as_ptracee.ptr = r0.as_ptracee.ptr /\ r.as_ptracee.tval = r0.as_ptracee.tval
CoreOf(w, v, q) ==
    v \in Worlds /\ Others(w, v, {q}) /\ Core(w.k[q], w.t[q], v.k[q], v.t[q])

LEMMA SteadyCore ==
  ASSUME NEW H, NEW w, Steady(w, H), NEW v, NEW q \in P, CoreOf(w, v, q),
         q \in H \/ ~Alive(w)
  PROVE  Steady(v, H) /\ (Alive(v) <=> Alive(w))
<1>1. v \in Worlds /\ Others(w, v, {q}) /\ Core(w.k[q], w.t[q], v.k[q], v.t[q])
  BY DEF CoreOf
<1>2. Alive(v) <=> Alive(w)
  BY <1>1 DEF Alive, Killed, Others, Core
<1>3. Moves(H, q, w.k[q], w.t[q], v.k[q], v.t[q])
  <2>1. Moves(H, q, w.k[q], w.t[q], w.k[q], w.t[q]) BY MovesNot
  <2> DEFINE x0 == w.k[q]  r0 == w.t[q]  x == v.k[q]  r == v.t[q]
  <2>2. Moves(H, q, x0, r0, x0, r0) /\ Core(x0, r0, x, r) BY <1>1, <2>1
  <2> HIDE DEF x0, r0, x, r
  <2>3. Local(H, q, x, r)
    BY <2>2 DEF Moves, Local, Core, Halted, WaiterHeld, InHand, Reaped, Killed
  <2>4. \A m \in P : Exposed(r, m) <=> Exposed(r0, m) BY <2>2 DEF Core, Exposed
  <2>5. Excused(x0, r0) <=> Excused(x, r) BY <2>2 DEF Core, Excused
  <2> QED BY <2>2, <2>3, <2>4, <2>5 DEF Moves, Core, Killed, x0, r0, x, r
<1>4. ASSUME Alive(v) PROVE InPhase(H, q, v.k[q], v.t[q])
  <2>1. q \in H /\ Plain(w.t[q]) /\ (w.t[q].wait_pid # None => w.k[q].ev = "LEAVE")
    BY <1>2, <1>4, MovesNot DEF InPhase
  <2> QED BY <1>1, <2>1 DEF InPhase, Plain, Core
<1> QED BY <1>1, <1>2, <1>3, <1>4, SteadyOne

LEMMA CoreSelf == ASSUME NEW w \in Worlds, NEW q \in P PROVE CoreOf(w, w, q)
BY DEF CoreOf, Core, Others

LEMMA CoreTrans ==
  ASSUME NEW u, NEW v, NEW w, NEW q \in P, CoreOf(u, v, q), CoreOf(v, w, q)
  PROVE  CoreOf(u, w, q)
BY DEF CoreOf, Core, Others

LEMMA PutCore ==
  ASSUME NEW w \in Worlds, NEW q \in P, NEW x \in Processes, NEW r \in TraceeType,
         Core(w.k[q], w.t[q], x, r)
  PROVE  /\ CoreOf(w, Put(w, q, x, r), q)
         /\ Put(w, q, x, r).k[q] = x /\ Put(w, q, x, r).t[q] = r
BY PutWorld DEF CoreOf, Others

\* A field outside the core of a process or of a Tracee is replaced.
LEMMA CoreFields ==
  ASSUME NEW x \in Processes, NEW r \in TraceeType
  PROVE  /\ Core(x, r, x, r)
         /\ \A b \in BOOLEAN : /\ [x EXCEPT !.void = b] \in Processes
                               /\ Core(x, r, [x EXCEPT !.void = b], r)
                               /\ [x EXCEPT !.stopsig = b] \in Processes
                               /\ Core(x, r, [x EXCEPT !.stopsig = b], r)
         /\ \A s \in {"enter", "exit"} :
              LET y == [r EXCEPT !.status = s]
              IN  y \in TraceeType /\ Core(x, r, x, y) /\ y.status = s
                    /\ y.as_ptracee = r.as_ptracee
         /\ \A s \in {"IGNORED", "ALLOWED"} :
              LET y == [r EXCEPT !.sigstop = s]
              IN  y \in TraceeType /\ Core(x, r, x, y) /\ y.status = r.status
                    /\ y.as_ptracee = r.as_ptracee
         /\ \A s \in {"DOESNT_WAIT", "WAITS_IN_KERNEL", "WAITS_IN_PROOT"} :
              LET y == [r EXCEPT !.waits_in = s]
              IN  y \in TraceeType /\ Core(x, r, x, y) /\ y.status = r.status
                    /\ y.as_ptracee = r.as_ptracee
         /\ \A e \in Ptracees :
              LET y == [r EXCEPT !.as_ptracee = e]
              IN  /\ y \in TraceeType /\ y.status = r.status /\ y.as_ptracee = e
                  /\ (e.ptracer = r.as_ptracee.ptracer /\ e.ptr = r.as_ptracee.ptr
                        /\ e.tval = r.as_ptracee.tval) => Core(x, r, x, y)
<1>1. Core(x, r, x, r) BY DEF Core
<1>2. \A b \in BOOLEAN : /\ [x EXCEPT !.void = b] \in Processes
                         /\ Core(x, r, [x EXCEPT !.void = b], r)
                         /\ [x EXCEPT !.stopsig = b] \in Processes
                         /\ Core(x, r, [x EXCEPT !.stopsig = b], r)
  BY DEF Processes, Core
<1>3. \A s \in {"enter", "exit"} :
        LET y == [r EXCEPT !.status = s]
        IN  y \in TraceeType /\ Core(x, r, x, y) /\ y.status = s
              /\ y.as_ptracee = r.as_ptracee
  BY DEF TraceeType, Core
<1>4. \A s \in {"IGNORED", "ALLOWED"} :
        LET y == [r EXCEPT !.sigstop = s]
        IN  y \in TraceeType /\ Core(x, r, x, y) /\ y.status = r.status
              /\ y.as_ptracee = r.as_ptracee
  BY DEF TraceeType, Core
<1>5. \A s \in {"DOESNT_WAIT", "WAITS_IN_KERNEL", "WAITS_IN_PROOT"} :
        LET y == [r EXCEPT !.waits_in = s]
        IN  y \in TraceeType /\ Core(x, r, x, y) /\ y.status = r.status
              /\ y.as_ptracee = r.as_ptracee
  BY DEF TraceeType, Core
<1>6. ASSUME NEW e \in Ptracees
      PROVE  LET y == [r EXCEPT !.as_ptracee = e]
             IN  /\ y \in TraceeType /\ y.status = r.status /\ y.as_ptracee = e
                 /\ (e.ptracer = r.as_ptracee.ptracer /\ e.ptr = r.as_ptracee.ptr
                       /\ e.tval = r.as_ptracee.tval) => Core(x, r, x, y)
  <2>1. [r EXCEPT !.as_ptracee = e] \in TraceeType BY PutTracee
  <2> QED BY <2>1 DEF TraceeType, Core
<1> QED BY <1>1, <1>2, <1>3, <1>4, <1>5, <1>6

-----------------------------------------------------------------------------
(* The stages of a call.                                                   *)

\* wait.c, translate_wait_enter().
LEMMA WaitEnterCore ==
  ASSUME NEW w \in Worlds, NEW p \in P
  PROVE  LET v == translate_wait_enter(w, p)
         IN  /\ CoreOf(w, v, p) /\ v.t[p].status = w.t[p].status
             /\ v.t[p].as_ptracee = w.t[p].as_ptracee
<1> DEFINE a == w.k[p].call.arg
           b == /\ w.t[p].nb_ptracees # 0
                /\ a # AnyPid => w.t[a].listed /\ w.t[a].as_ptracee.ptracer = p
           s == IF b THEN "WAITS_IN_PROOT" ELSE "WAITS_IN_KERNEL"
           x == [w.k[p] EXCEPT !.void = b]
           r == [w.t[p] EXCEPT !.waits_in = s]
<1>1. b \in BOOLEAN BY Zenon
<1>2. translate_wait_enter(w, p) = Put(w, p, x, r) BY DEF translate_wait_enter, Put, Worlds
<1>3. s \in {"DOESNT_WAIT", "WAITS_IN_KERNEL", "WAITS_IN_PROOT"} OBVIOUS
<1> HIDE DEF b, s
<1>4. w.k[p] \in Processes /\ w.t[p] \in TraceeType BY Parts
<1>5. x \in Processes /\ Core(w.k[p], w.t[p], x, w.t[p]) BY <1>1, <1>4, CoreFields
<1>6. /\ r \in TraceeType /\ Core(w.k[p], w.t[p], w.k[p], r) /\ r.status = w.t[p].status
      /\ r.as_ptracee = w.t[p].as_ptracee
  BY <1>3, <1>4 DEF TraceeType, Core
<1> HIDE DEF x, r
<1>7. Core(w.k[p], w.t[p], x, r) BY <1>5, <1>6 DEF Core
<1> QED BY <1>2, <1>5, <1>6, <1>7, PutCore

\* The enter stage.
LEMMA EnterCore ==
  ASSUME NEW w \in Worlds, NEW p \in P
  PROVE  LET v == HandleEnter(w, p)
         IN  /\ CoreOf(w, v, p) /\ v.t[p].status = "exit"
             /\ v.t[p].as_ptracee = w.t[p].as_ptracee
<1> DEFINE r  == [w.t[p] EXCEPT !.status = "exit"]
           w1 == Put(w, p, w.k[p], r)
           b  == w.k[p].call # NoCall
           x  == [w1.k[p] EXCEPT !.void = b]
           v  == HandleEnter(w, p)
<1>1. [w EXCEPT !.t[p].status = "exit"] = w1 BY DEF Put, Worlds
<1>2. w.k[p] \in Processes /\ w.t[p] \in TraceeType BY Parts
<1>3. /\ r \in TraceeType /\ Core(w.k[p], w.t[p], w.k[p], r) /\ r.status = "exit"
      /\ r.as_ptracee = w.t[p].as_ptracee
  BY <1>2, CoreFields
<1> HIDE DEF r
<1>4. CoreOf(w, w1, p) /\ w1.k[p] = w.k[p] /\ w1.t[p] = r BY <1>2, <1>3, PutCore
<1>5. w1 \in Worlds /\ w1.t[p] \in TraceeType BY <1>3, <1>4 DEF CoreOf
<1> HIDE DEF w1
<1>6. b \in BOOLEAN OBVIOUS
<1> HIDE DEF b
<1>7. x \in Processes /\ Core(w1.k[p], w1.t[p], x, w1.t[p])
  BY <1>2, <1>4, <1>5, <1>6, CoreFields
<1> HIDE DEF x
<1>8. v \in {translate_wait_enter(w1, p), Put(w1, p, x, w1.t[p])}
  <2>1. [w1 EXCEPT !.k[p].void = b] = Put(w1, p, x, w1.t[p])
    BY <1>5 DEF Put, Worlds, x
  <2> QED BY <1>1, <2>1 DEF HandleEnter, b
<1> HIDE DEF v
<1>9. CoreOf(w1, v, p) /\ v.t[p].status = "exit" /\ v.t[p].as_ptracee = w1.t[p].as_ptracee
  <2>1. CASE v = translate_wait_enter(w1, p)
    BY <1>3, <1>4, <1>5, <2>1, WaitEnterCore
  <2>2. CASE v = Put(w1, p, x, w1.t[p])
    BY <1>3, <1>4, <1>5, <1>7, <2>2, PutCore
  <2> QED BY <1>8, <2>1, <2>2
<1>10. CoreOf(w, v, p) BY <1>4, <1>9, CoreTrans
<1> QED BY <1>3, <1>4, <1>9, <1>10 DEF v

LEMMA SigstopCore ==
  ASSUME NEW w \in Worlds, NEW p \in P
  PROVE  LET v == HandleSigstop(w, p)
         IN  /\ CoreOf(w, v, p) /\ v.t[p].status = w.t[p].status
             /\ v.t[p].as_ptracee = w.t[p].as_ptracee
<1> DEFINE s == IF w.t[p].sigstop = "IGNORED" THEN "ALLOWED" ELSE w.t[p].sigstop
           r == [w.t[p] EXCEPT !.sigstop = s]
<1>1. HandleSigstop(w, p) = Put(w, p, w.k[p], r) BY DEF HandleSigstop, Put, Worlds
<1>2. s \in {"IGNORED", "ALLOWED"} BY Parts DEF TraceeType
<1> HIDE DEF s
<1>3. w.k[p] \in Processes /\ w.t[p] \in TraceeType BY Parts
<1>4. /\ r \in TraceeType /\ Core(w.k[p], w.t[p], w.k[p], r) /\ r.status = w.t[p].status
      /\ r.as_ptracee = w.t[p].as_ptracee
  BY <1>2, <1>3 DEF TraceeType, Core
<1> HIDE DEF r
<1> QED BY <1>1, <1>3, <1>4, PutCore

\* The process has no event held for its ptracer any more.
LEMMA ProotCore ==
  ASSUME NEW w \in Worlds, NEW q \in P
  PROVE  LET v == [w EXCEPT !.t[q].as_ptracee.proot = FALSE]
         IN  /\ CoreOf(w, v, q) /\ v.t[q].status = w.t[q].status
             /\ ~v.t[q].as_ptracee.proot /\ v.t[q].as_ptracee.pval = w.t[q].as_ptracee.pval
<1> DEFINE e == [w.t[q].as_ptracee EXCEPT !.proot = FALSE]
           r == [w.t[q] EXCEPT !.as_ptracee = e]
<1>1. [w EXCEPT !.t[q].as_ptracee.proot = FALSE] = Put(w, q, w.k[q], r) BY DEF Put, Worlds
<1>2. w.k[q] \in Processes /\ w.t[q] \in TraceeType /\ w.t[q].as_ptracee \in Ptracees
  BY Parts
<1>3. /\ e \in Ptracees /\ e.ptracer = w.t[q].as_ptracee.ptracer
      /\ e.ptr = w.t[q].as_ptracee.ptr /\ e.tval = w.t[q].as_ptracee.tval
      /\ ~e.proot /\ e.pval = w.t[q].as_ptracee.pval
  BY <1>2 DEF Ptracees
<1> HIDE DEF e
<1>4. /\ r \in TraceeType /\ Core(w.k[q], w.t[q], w.k[q], r) /\ r.status = w.t[q].status
      /\ r.as_ptracee = e
  <2>1. r \in TraceeType BY <1>2, <1>3, PutTracee
  <2> QED BY <1>2, <1>3, <2>1 DEF TraceeType, Core
<1> HIDE DEF r
<1>5. /\ CoreOf(w, Put(w, q, w.k[q], r), q) /\ Put(w, q, w.k[q], r).t[q] = r
  BY <1>2, <1>4, PutCore
<1> QED BY <1>1, <1>3, <1>4, <1>5

\* An event that was held is handled.
LEMMA HeldCore ==
  ASSUME NEW w \in Worlds, NEW q \in P, NEW ev \in Events
  PROVE  LET v == HandleHeldEvent(w, q, ev)
         IN  /\ CoreOf(w, v, q) /\ ~v.t[q].as_ptracee.proot
             /\ v.t[q].as_ptracee.pval = w.t[q].as_ptracee.pval
             /\ v.t[q].status = IF ev \in SyscallStops THEN "exit" ELSE w.t[q].status
<1> DEFINE u == [w EXCEPT !.t[q].as_ptracee.proot = FALSE]
           v == HandleHeldEvent(w, q, ev)
<1>1. /\ CoreOf(w, u, q) /\ u.t[q].status = w.t[q].status
      /\ ~u.t[q].as_ptracee.proot /\ u.t[q].as_ptracee.pval = w.t[q].as_ptracee.pval
  BY ProotCore
<1>2. /\ ev \in SyscallStops => v = HandleEnter(u, q)
      /\ ev \notin SyscallStops => v \in {HandleSigstop(u, q), u}
  <2> HIDE DEF u
  <2> QED BY DEF HandleHeldEvent, u, SyscallStops
<1> HIDE DEF u, v
<1>3. u \in Worlds BY <1>1 DEF CoreOf
<1>4. /\ CoreOf(u, v, q) /\ v.t[q].as_ptracee = u.t[q].as_ptracee
      /\ v.t[q].status = IF ev \in SyscallStops THEN "exit" ELSE w.t[q].status
  <2>1. CASE v = HandleEnter(u, q) /\ ev \in SyscallStops BY <1>3, <2>1, EnterCore
  <2>2. CASE v = HandleSigstop(u, q) /\ ev \notin SyscallStops
    BY <1>1, <1>3, <2>2, SigstopCore
  <2>3. CASE v = u /\ ev \notin SyscallStops BY <1>1, <1>3, <2>3, CoreSelf
  <2> QED BY <1>2, <2>1, <2>2, <2>3
<1>5. CoreOf(w, v, q) BY <1>1, <1>4, CoreTrans
<1> QED BY <1>1, <1>4, <1>5 DEF v

-----------------------------------------------------------------------------
(* A process is taken in hand, and let go.                                 *)

LEMMA Take ==
  ASSUME NEW H, NEW w, Steady(w, H), NEW q \in P, InHand(w.k[q], w.t[q]),
         H = {} => \A o \in P : w.t[o].listed => ~w.t[o].terminated
  PROVE  Steady(w, H \cup {q})
<1>1. \A o \in P : Local(H \cup {q}, o, w.k[o], w.t[o])
  BY DEF Steady, Local
<1>2. \A m \in P : HeardBy(w, m, H \cup {q})
  BY DEF Steady, HeardBy
<1>3. Alive(w) => \A o \in P : InPhase(H \cup {q}, o, w.k[o], w.t[o])
  BY DEF Steady, InPhase
<1> QED BY <1>1, <1>2, <1>3 DEF Steady

LEMMA Release ==
  ASSUME NEW H, NEW w, Steady(w, H), NEW v \in Worlds, NEW q \in P, Others(w, v, {q}),
         Local(H \ {q}, q, v.k[q], v.t[q]),
         Killed(w.k[q]) => Killed(v.k[q]),
         v.t[q].wait_pid # None => /\ v.t[q].wait_pid = w.t[q].wait_pid
                                   /\ v.t[q].nb_ptracees # 0
                                   /\ v.t[q].zombies \subseteq w.t[q].zombies,
         \A m \in P : Exposed(v.t[q], m) /\ v.t[m].wait_pid # None
                        /\ Expects(v.t[m].wait_pid, q) => Excused(v.k[q], v.t[q]),
         Alive(v) => InPhase(H \ {q}, q, v.k[q], v.t[q])
  PROVE  Steady(v, H \ {q})
<1> DEFINE G == H \ {q}
<1>1. \A o \in P \ {q} : v.k[o] = w.k[o] /\ v.t[o] = w.t[o] BY DEF Others
<1>2. ASSUME NEW o \in P PROVE Local(G, o, v.k[o], v.t[o])
  <2>1. CASE o = q BY <2>1
  <2>2. CASE o # q
    <3>1. Local(H, o, w.k[o], w.t[o]) BY DEF Steady
    <3> QED BY <1>1, <2>2, <3>1 DEF Local
  <2> QED BY <2>1, <2>2
<1>3. ASSUME NEW m \in P, v.t[m].wait_pid # None PROVE HeardBy(v, m, G)
  <2>1. /\ v.t[m].wait_pid = w.t[m].wait_pid /\ v.t[m].zombies \subseteq w.t[m].zombies
        /\ HeardBy(w, m, H)
    <3>1. HeardBy(w, m, H) BY DEF Steady
    <3>2. CASE m = q BY <1>3, <3>1, <3>2
    <3>3. CASE m # q BY <1>1, <3>1, <3>3
    <3> QED BY <3>2, <3>3
  <2>2. v.t[m].nb_ptracees # 0
    <3>1. CASE m = q BY <1>3, <3>1
    <3>2. CASE m # q BY <1>1, <1>3, <2>1, <3>2 DEF HeardBy
    <3> QED BY <3>1, <3>2
  <2>3. \A z \in v.t[m].zombies : ~Expects(v.t[m].wait_pid, z.pid)
    BY <1>3, <2>1 DEF HeardBy
  <2>4. ASSUME NEW o \in P \ G, Exposed(v.t[o], m), Expects(v.t[m].wait_pid, o)
        PROVE  Excused(v.k[o], v.t[o])
    <3>1. CASE o = q BY <1>3, <2>4, <3>1
    <3>2. CASE o # q
      <4>1. o \in P \ H /\ v.k[o] = w.k[o] /\ v.t[o] = w.t[o] BY <1>1, <3>2
      <4> QED BY <1>3, <2>1, <2>4, <4>1 DEF HeardBy
    <3> QED BY <3>1, <3>2
  <2> QED BY <2>2, <2>3, <2>4 DEF HeardBy
<1>4. \A m \in P : HeardBy(v, m, G) BY <1>3 DEF HeardBy
<1>5. ASSUME Alive(v), NEW o \in P PROVE InPhase(G, o, v.k[o], v.t[o])
  <2>1. CASE o = q BY <1>5, <2>1
  <2>2. CASE o # q
    <3>1. Alive(w)
      <4> SUFFICES ASSUME NEW r \in P PROVE ~Killed(w.k[r])
        BY DEF Alive
      <4> QED BY <1>1, <1>5 DEF Alive
    <3>2. InPhase(H, o, w.k[o], w.t[o]) BY <3>1 DEF Steady
    <3> QED BY <1>1, <2>2, <3>2 DEF InPhase
  <2> QED BY <2>1, <2>2
<1> QED BY <1>2, <1>4, <1>5 DEF Steady

\* In the stage where the event of the process leaves it, when it is restarted.
Ready(x, r) == r.status = IF x.ev = "ENTER" THEN "exit" ELSE "enter"

\* event.c, restart_tracee(), of a process that can be restarted.
LEMMA RestartReleases ==
  ASSUME NEW H, NEW w, Steady(w, H), NEW q \in P, Restartable(w, q),
         Alive(w) => Ready(w.k[q], w.t[q])
  PROVE  LET v == restart_tracee(w, q)
         IN  /\ Steady(v, H \ {q}) /\ Others(w, v, {q}) /\ v.t[q].running
<1> DEFINE s == Resumed(w, q)
           c == IF w.t[q].chain = "queued" THEN "running" ELSE w.t[q].chain
           x == [w.k[q] EXCEPT !.st = s]
           r == [w.t[q] EXCEPT !.running = TRUE, !.chain = c]
           v == restart_tracee(w, q)
<1>1. w \in Worlds BY DEF Steady
<1>2. w.k[q] \in Processes /\ w.t[q] \in TraceeType BY <1>1, Parts
<1>3. s \in {"run", "insys", "kwait"} BY DEF Resumed
<1>4. c \in Chains BY <1>2 DEF TraceeType, Chains
<1>5. v = Put(w, q, x, r) BY <1>1 DEF restart_tracee, Put, Worlds
<1>6. Alive(w) => (s = "run" <=> w.k[q].ev # "ENTER")
  <2>1. Alive(w) => w.t[q].chain = "none" BY MovesNot DEF InPhase, Plain
  <2> QED BY <2>1 DEF Resumed
<1> HIDE DEF s
<1>7. x \in Processes /\ x.st = s /\ x.ev = w.k[q].ev
  BY <1>2, <1>3 DEF Processes, States
<1>8. Alive(w) => c = w.t[q].chain BY MovesNot DEF InPhase, Plain
<1> HIDE DEF c
<1>9. /\ r \in TraceeType /\ r.running /\ r.chain = c /\ r.wait_pid = w.t[q].wait_pid
      /\ r.listed = w.t[q].listed /\ r.terminated = w.t[q].terminated
      /\ r.zombies = w.t[q].zombies /\ r.as_ptracee = w.t[q].as_ptracee
      /\ r.status = w.t[q].status
  BY <1>2, <1>4 DEF TraceeType, Chains
<1> HIDE DEF x, r, v
<1>10. /\ v \in Worlds /\ Others(w, v, {q}) /\ v.k[q] = x /\ v.t[q] = r
  BY <1>1, <1>5, <1>7, <1>9, PutWorld DEF Others
<1>11. w.t[q].wait_pid = None /\ ~w.t[q].terminated /\ w.k[q].st = "stop"
  BY DEF Restartable
<1>12. w.k[q].ev # "DIED"
  <2>1. Halted(w.k[q], w.t[q]) BY DEF Steady, Local
  <2> QED BY <1>11, <2>1 DEF Halted, Killed
<1>13. Local(H \ {q}, q, v.k[q], v.t[q])
  BY <1>3, <1>7, <1>9, <1>10, <1>11, <1>12
  DEF Local, Halted, WaiterHeld, Killed, Reaped
<1>14. ~Killed(w.k[q]) /\ v.t[q].wait_pid = None BY <1>9, <1>10, <1>11 DEF Killed
<1>15. \A m \in P : ~Exposed(v.t[q], m) BY <1>9, <1>10 DEF Exposed
<1>16. ASSUME Alive(v) PROVE InPhase(H \ {q}, q, v.k[q], v.t[q])
  <2>1. Alive(w)
    <3> SUFFICES ASSUME NEW o \in P PROVE ~Killed(w.k[o])
      BY DEF Alive
    <3> QED BY <1>10, <1>14, <1>16 DEF Alive, Others
  <2>2. Plain(w.t[q]) BY <2>1, MovesNot DEF InPhase
  <2>3. Plain(r) BY <1>8, <1>9, <2>1, <2>2 DEF Plain
  <2>4. Phased(x, r) BY <1>3, <1>6, <1>7, <1>9, <2>1 DEF Phased, Ready
  <2> QED BY <1>10, <1>14, <2>3, <2>4 DEF InPhase
<1>17. Steady(v, H \ {q}) BY <1>10, <1>13, <1>14, <1>15, <1>16, Release
<1> QED BY <1>9, <1>10, <1>17 DEF v

-----------------------------------------------------------------------------
(* A wait is answered.                                                     *)

\* All that matters of a Tracee but its links.
Same(r0, r) ==
    /\ r.listed = r0.listed /\ r.terminated = r0.terminated /\ r.running = r0.running
    /\ r.wait_pid = r0.wait_pid /\ r.zombies = r0.zombies
    /\ r.as_ptracee.ptr = r0.as_ptracee.ptr /\ r.as_ptracee.tval = r0.as_ptracee.tval
    /\ r.as_ptracee.proot = r0.as_ptracee.proot /\ r.as_ptracee.pval = r0.as_ptracee.pval

LEMMA DetachFields ==
  ASSUME NEW w \in Worlds, NEW q \in P, NEW p \in P, p # q,
         w.t[q].as_ptracee.ptracer = p, w.t[p].nb_ptracees # 0
  PROVE  LET v == detach_from_ptracer(w, q)
         IN  /\ v \in Worlds /\ v.k = w.k /\ Others(w, v, {p, q})
             /\ Same(w.t[q], v.t[q]) /\ v.t[q].as_ptracee.ptracer = None
             /\ v.t[q].status = w.t[q].status /\ v.t[q].chain = w.t[q].chain
             /\ v.t[q].nb_ptracees = w.t[q].nb_ptracees
             /\ Same(w.t[p], v.t[p]) /\ v.t[p].as_ptracee = w.t[p].as_ptracee
             /\ v.t[p].status = w.t[p].status /\ v.t[p].chain = w.t[p].chain
<1> DEFINE e  == [w.t[q].as_ptracee EXCEPT !.ptracer = None]
           n  == w.t[p].nb_ptracees - 1
           s  == [w.t[q] EXCEPT !.as_ptracee = e]
           r  == [w.t[p] EXCEPT !.nb_ptracees = n]
           v  == Put(Put(w, q, w.k[q], s), p, w.k[p], r)
<1>1. w.t[q].as_ptracee \in Ptracees BY Parts
<1>2. w.t[q] \in TraceeType /\ w.t[p] \in TraceeType /\ n \in Nat BY Parts
<1>3. /\ e \in Ptracees /\ e.ptracer = None
      /\ e.ptr = w.t[q].as_ptracee.ptr /\ e.tval = w.t[q].as_ptracee.tval
      /\ e.proot = w.t[q].as_ptracee.proot /\ e.pval = w.t[q].as_ptracee.pval
  BY <1>1 DEF Ptracees
<1>4. detach_from_ptracer(w, q) = v BY <1>2 DEF detach_from_ptracer, Put, Worlds
<1> HIDE DEF e, n
<1>5. /\ s \in TraceeType /\ Same(w.t[q], s) /\ s.as_ptracee.ptracer = None
      /\ s.status = w.t[q].status /\ s.chain = w.t[q].chain
      /\ s.nb_ptracees = w.t[q].nb_ptracees
  <2>1. s \in TraceeType BY <1>2, <1>3, PutTracee
  <2> QED BY <1>2, <1>3, <2>1 DEF TraceeType, Same
<1>6. /\ r \in TraceeType /\ Same(w.t[p], r) /\ r.as_ptracee = w.t[p].as_ptracee
      /\ r.status = w.t[p].status /\ r.chain = w.t[p].chain
  <2>1. r \in TraceeType BY <1>2, PutTracee
  <2> QED BY <1>2, <2>1 DEF TraceeType, Same
<1> HIDE DEF s, r
<1>7. /\ v \in Worlds /\ v.k = w.k
      /\ v.t[p] = r /\ v.t[q] = s /\ \A o \in P \ {p, q} : v.t[o] = w.t[o]
  BY <1>2, <1>5, <1>6, PutTwo
<1> HIDE DEF v
<1> QED BY <1>4, <1>5, <1>6, <1>7 DEF Others

\* A Tracee that has a ptracer is counted by it.
LEMMA CountedByPtracer ==
  ASSUME IsFiniteSet(P), NEW w, Sound(w), NEW q \in P, NEW p \in P,
         w.t[q].listed, w.t[q].as_ptracee.ptracer = p
  PROVE  p # q /\ w.t[p].listed /\ w.t[p].nb_ptracees # 0
<1>1. p # q /\ w.t[p].listed /\ w \in Worlds BY DEF Sound, NotItself, PointsToListed
<1>2. /\ IsFiniteSet(Tracees(w, p)) /\ Cardinality(Tracees(w, p)) \in Nat
      /\ Cardinality(w.t[p].zombies) \in Nat
  BY <1>1, Finite
<1>3. q \in Tracees(w, p) BY DEF Tracees
<1>4. Cardinality(Tracees(w, p)) # 0 BY <1>2, <1>3, FS_EmptySet
<1>5. w.t[p].nb_ptracees = Cardinality(Tracees(w, p)) + Cardinality(w.t[p].zombies)
  BY <1>1 DEF Sound, Counted
<1> QED BY <1>1, <1>2, <1>4, <1>5

\* A ptracee is detached from a ptracer that does not wait.
LEMMA DetachSteady ==
  ASSUME IsFiniteSet(P), NEW H, NEW w, Steady(w, H), Sound(w), NEW q \in P, NEW p \in P,
         w.t[q].listed, w.t[q].as_ptracee.ptracer = p, w.t[p].wait_pid = None,
         q \in H \/ ~Alive(w)
  PROVE  LET v == detach_from_ptracer(w, q)
         IN  Steady(v, H) /\ (Alive(v) <=> Alive(w))
<1> DEFINE v == detach_from_ptracer(w, q)
<1>1. w \in Worlds /\ p # q /\ w.t[p].listed /\ w.t[p].nb_ptracees # 0
  BY CountedByPtracer DEF Steady
<1>2. /\ v \in Worlds /\ v.k = w.k /\ Others(w, v, {p, q})
      /\ Same(w.t[q], v.t[q]) /\ v.t[q].as_ptracee.ptracer = None
      /\ v.t[q].status = w.t[q].status /\ v.t[q].chain = w.t[q].chain
      /\ v.t[q].nb_ptracees = w.t[q].nb_ptracees
      /\ Same(w.t[p], v.t[p]) /\ v.t[p].as_ptracee = w.t[p].as_ptracee
      /\ v.t[p].status = w.t[p].status /\ v.t[p].chain = w.t[p].chain
  BY <1>1, DetachFields
<1> HIDE DEF v
<1>3. Alive(v) <=> Alive(w) BY <1>2 DEF Alive
<1>4. Moves(H, p, w.k[p], w.t[p], v.k[p], v.t[p])
  <2>1. Moves(H, p, w.k[p], w.t[p], w.k[p], w.t[p]) BY MovesNot
  <2>2. Local(H, p, v.k[p], v.t[p])
    <3>1. Local(H, p, w.k[p], w.t[p]) BY ONLY <2>1 DEF Moves
    <3>2. v.k[p] = w.k[p] /\ Same(w.t[p], v.t[p]) BY ONLY <1>2
    <3> QED BY ONLY <3>1, <3>2 DEF Same, Local, Halted, WaiterHeld, InHand, Reaped
  <2>3. v.t[p].wait_pid = None BY ONLY <1>2, w.t[p].wait_pid = None DEF Same
  <2>4. /\ v.k[p] = w.k[p] /\ Excused(w.k[p], w.t[p]) = Excused(v.k[p], v.t[p])
        /\ \A m \in P : Exposed(v.t[p], m) => Exposed(w.t[p], m)
    BY ONLY <1>2 DEF Same, Exposed, Excused
  <2> QED BY ONLY <2>2, <2>3, <2>4 DEF Moves
<1>5. Moves(H, q, w.k[q], w.t[q], v.k[q], v.t[q])
  <2>1. Moves(H, q, w.k[q], w.t[q], w.k[q], w.t[q]) BY MovesNot
  <2>2. v.k[q] = w.k[q] /\ Same(w.t[q], v.t[q]) BY ONLY <1>2
  <2>3. Local(H, q, v.k[q], v.t[q])
    <3>1. Local(H, q, w.k[q], w.t[q]) BY ONLY <2>1 DEF Moves
    <3> QED BY ONLY <2>2, <3>1 DEF Same, Local, Halted, WaiterHeld, InHand, Reaped
  <2>4. /\ v.t[q].wait_pid = w.t[q].wait_pid /\ v.t[q].nb_ptracees = w.t[q].nb_ptracees
        /\ v.t[q].zombies = w.t[q].zombies
    BY ONLY <1>2 DEF Same
  <2>5. \A m \in P : ~Exposed(v.t[q], m) BY ONLY <1>2, NoneAssumption DEF Exposed
  <2> QED BY ONLY <2>1, <2>2, <2>3, <2>4, <2>5 DEF Moves
<1>6. ASSUME Alive(v) PROVE InPhase(H, p, v.k[p], v.t[p]) /\ InPhase(H, q, v.k[q], v.t[q])
  <2>1. InPhase(H, p, w.k[p], w.t[p]) /\ InPhase(H, q, w.k[q], w.t[q]) /\ q \in H
    BY <1>3, <1>6, MovesNot
  <2>2. InPhase(H, q, v.k[q], v.t[q]) BY <1>2, <2>1 DEF InPhase, Plain, Same
  <2>3. InPhase(H, p, v.k[p], v.t[p])
    BY <1>2, <2>1 DEF InPhase, Plain, Same, Phased, HoldsCall
  <2> QED BY <2>2, <2>3
<1>7. Steady(v, H) BY <1>2, <1>4, <1>5, <1>6, SteadyTwo
<1> QED BY <1>3, <1>7 DEF v

\* The Tracee of who waits, and of who is waited for, when a wait is answered.
Asked(r0, r) ==
    /\ r.listed = r0.listed /\ r.terminated = r0.terminated /\ r.running = r0.running
    /\ r.wait_pid = r0.wait_pid /\ r.zombies \subseteq r0.zombies
    /\ r.as_ptracee = r0.as_ptracee
Told(r0, r) ==
    /\ r.listed = r0.listed /\ r.terminated = r0.terminated /\ r.running = r0.running
    /\ r.wait_pid = r0.wait_pid /\ r.zombies = r0.zombies /\ r.nb_ptracees = r0.nb_ptracees
    /\ r.status = r0.status /\ r.chain = r0.chain
    /\ r.as_ptracee.tval = r0.as_ptracee.tval
    /\ r.as_ptracee.proot = r0.as_ptracee.proot /\ r.as_ptracee.pval = r0.as_ptracee.pval
    /\ \A m \in P : ~Exposed(r, m)

\* wait.c, restart_original_syscall().
LEMMA RepeatFields ==
  ASSUME NEW w \in Worlds, NEW p \in P
  PROVE  LET v == restart_original_syscall(w, p)
         IN  /\ v \in Worlds /\ v.k = w.k /\ Others(w, v, {p}) /\ Asked(w.t[p], v.t[p])
             /\ v.t[p].nb_ptracees = w.t[p].nb_ptracees
<1> DEFINE r == [w.t[p] EXCEPT !.chain = "queued", !.status = "exit"]
<1>1. restart_original_syscall(w, p) = Put(w, p, w.k[p], r)
  BY DEF restart_original_syscall, Put, Worlds
<1>2. w.t[p] \in TraceeType /\ w.k[p] \in Processes BY Parts
<1>3. r \in TraceeType /\ Asked(w.t[p], r) /\ r.nb_ptracees = w.t[p].nb_ptracees
  BY <1>2 DEF Asked, TraceeType
<1> HIDE DEF r
<1> DEFINE v == Put(w, p, w.k[p], r)
<1>4. /\ v \in Worlds /\ v.k[p] = w.k[p] /\ \A q \in P \ {p} : v.k[q] = w.k[q]
      /\ v.t[p] = r /\ \A q \in P \ {p} : v.t[q] = w.t[q]
  BY <1>2, <1>3, PutWorld
<1> HIDE DEF v
<1>5. v.k = w.k BY <1>4 DEF Worlds
<1> QED BY <1>1, <1>3, <1>4, <1>5 DEF Others, v

\* wait.c, update_wait_status(): the ptracee has no event for its ptracer any more.
LEMMA UpdateFields ==
  ASSUME NEW w \in Worlds, NEW q \in P, NEW p \in P, p # q,
         w.t[q].as_ptracee.ptracer = p, w.t[p].nb_ptracees # 0
  PROVE  LET v == update_wait_status(w, p, q)
         IN  /\ v \in Worlds /\ v.k = w.k /\ Others(w, v, {p, q})
             /\ Told(w.t[q], v.t[q]) /\ Asked(w.t[p], v.t[p])
             /\ w.t[q].as_ptracee.tval # "DIED" =>
                  v.t[p] = w.t[p] /\ v.t[q].as_ptracee.ptracer = p
<1> DEFINE v == update_wait_status(w, p, q)
           u == restart_original_syscall(w, p)
           e == [w.t[q].as_ptracee EXCEPT !.ptr = FALSE]
           r == [w.t[q] EXCEPT !.as_ptracee = e]
<1>1. CASE w.t[q].parent = p /\ w.t[q].as_ptracee.tval = "DIED"
  <2>1. v = detach_from_ptracer(u, q) BY <1>1 DEF update_wait_status
  <2>2. /\ u \in Worlds /\ u.k = w.k /\ Others(w, u, {p}) /\ Asked(w.t[p], u.t[p])
        /\ u.t[p].nb_ptracees = w.t[p].nb_ptracees
    BY RepeatFields
  <2> HIDE DEF u
  <2>3. u.t[q] = w.t[q] BY <2>2 DEF Others
  <2> DEFINE d == detach_from_ptracer(u, q)
  <2>4. /\ d \in Worlds /\ d.k = u.k /\ Others(u, d, {p, q})
        /\ Same(u.t[q], d.t[q]) /\ d.t[q].as_ptracee.ptracer = None
        /\ d.t[q].status = u.t[q].status /\ d.t[q].chain = u.t[q].chain
        /\ d.t[q].nb_ptracees = u.t[q].nb_ptracees
        /\ Same(u.t[p], d.t[p]) /\ d.t[p].as_ptracee = u.t[p].as_ptracee
    <3>1. u.t[q].as_ptracee.ptracer = p /\ u.t[p].nb_ptracees # 0 BY <2>2, <2>3
    <3> QED BY <2>2, <3>1, DetachFields
  <2> HIDE DEF d
  <2>5. Told(w.t[q], d.t[q])
    <3>1. \A m \in P : ~Exposed(d.t[q], m) BY <2>4, NoneAssumption DEF Exposed
    <3> QED BY <2>3, <2>4, <3>1 DEF Told, Same
  <2>6. Asked(w.t[p], d.t[p]) BY <2>2, <2>4 DEF Asked, Same
  <2>7. Others(w, d, {p, q}) BY <2>2, <2>4 DEF Others
  <2> QED BY <1>1, <2>1, <2>2, <2>4, <2>5, <2>6, <2>7 DEF d
<1>2. CASE ~(w.t[q].parent = p /\ w.t[q].as_ptracee.tval = "DIED")
  <2>1. v = Put(w, q, w.k[q], r)
    BY <1>2 DEF update_wait_status, Put, Worlds
  <2>2. w.t[q] \in TraceeType /\ w.k[q] \in Processes /\ w.t[q].as_ptracee \in Ptracees
    BY Parts
  <2>3. /\ e \in Ptracees /\ e.ptracer = p /\ e.tval = w.t[q].as_ptracee.tval /\ ~e.ptr
        /\ e.proot = w.t[q].as_ptracee.proot /\ e.pval = w.t[q].as_ptracee.pval
    BY <2>2 DEF Ptracees
  <2> HIDE DEF e
  <2>4. r \in TraceeType /\ r.as_ptracee = e /\ Told(w.t[q], r)
    <3>1. r \in TraceeType BY <2>2, <2>3, PutTracee
    <3>2. r.as_ptracee = e BY <2>2 DEF TraceeType
    <3>3. \A m \in P : ~Exposed(r, m) BY <2>3, <3>2 DEF Exposed
    <3> HIDE DEF r
    <3> QED BY <2>2, <2>3, <3>1, <3>2, <3>3 DEF Told, TraceeType, r
  <2> HIDE DEF r
  <2> DEFINE d == Put(w, q, w.k[q], r)
  <2>5. /\ d \in Worlds /\ d.k[q] = w.k[q] /\ \A o \in P \ {q} : d.k[o] = w.k[o]
        /\ d.t[q] = r /\ \A o \in P \ {q} : d.t[o] = w.t[o]
    BY <2>2, <2>4, PutWorld
  <2> HIDE DEF d
  <2>6. d.k = w.k BY <2>5 DEF Worlds
  <2>7. Asked(w.t[p], d.t[p]) BY <2>5 DEF Asked
  <2> QED BY <2>1, <2>3, <2>4, <2>5, <2>6, <2>7 DEF Others, d
<1> QED BY <1>1, <1>2

\* The process p whose call returns finds an event of its ptracee q.
LEMMA UpdateSteady ==
  ASSUME IsFiniteSet(P), NEW p \in P, NEW w, Steady(w, {p}), Sound(w), NEW q \in P,
         w.t[q].listed, w.t[q].as_ptracee.ptracer = p, w.t[p].wait_pid = None
  PROVE  LET v == update_wait_status(w, p, q)
         IN  /\ Steady(v, {p}) /\ v.k = w.k /\ Asked(w.t[p], v.t[p])
             /\ Alive(w) => v.t[p] = w.t[p]
<1> DEFINE v == update_wait_status(w, p, q)
<1>1. w \in Worlds /\ p # q /\ w.t[p].nb_ptracees # 0
  BY CountedByPtracer DEF Steady
<1>2. /\ v \in Worlds /\ v.k = w.k /\ Others(w, v, {p, q})
      /\ Told(w.t[q], v.t[q]) /\ Asked(w.t[p], v.t[p])
      /\ w.t[q].as_ptracee.tval # "DIED" =>
           v.t[p] = w.t[p] /\ v.t[q].as_ptracee.ptracer = p
  BY <1>1, UpdateFields
<1> HIDE DEF v
<1>3. Alive(v) <=> Alive(w) BY <1>2 DEF Alive
<1>4. Moves({p}, p, w.k[p], w.t[p], v.k[p], v.t[p])
  <2>1. Moves({p}, p, w.k[p], w.t[p], w.k[p], w.t[p]) BY MovesNot
  <2>2. Local({p}, p, v.k[p], v.t[p])
    BY <1>2, <2>1 DEF Moves, Asked, Local, Halted, WaiterHeld, InHand
  <2>3. v.t[p].wait_pid = None BY <1>2 DEF Asked
  <2> QED BY <1>2, <2>2, <2>3 DEF Moves
<1>5. Moves({p}, q, w.k[q], w.t[q], v.k[q], v.t[q])
  <2>1. Moves({p}, q, w.k[q], w.t[q], w.k[q], w.t[q]) BY MovesNot
  <2>2. Local({p}, q, v.k[q], v.t[q])
    BY <1>1, <1>2, <2>1 DEF Moves, Told, Local, Halted, WaiterHeld, Reaped
  <2> QED BY <1>2, <2>1, <2>2 DEF Moves, Told
<1>6. ASSUME Alive(w) PROVE w.t[q].as_ptracee.tval # "DIED"
  BY <1>6, MovesNot DEF InPhase, Plain
<1>7. ASSUME Alive(v)
      PROVE  InPhase({p}, p, v.k[p], v.t[p]) /\ InPhase({p}, q, v.k[q], v.t[q])
  <2>1. InPhase({p}, p, w.k[p], w.t[p]) /\ InPhase({p}, q, w.k[q], w.t[q])
    BY <1>3, <1>7, MovesNot
  <2>2. v.t[p] = w.t[p] /\ v.t[q].as_ptracee.ptracer = p BY <1>2, <1>3, <1>6, <1>7
  <2>3. Plain(v.t[q]) /\ (v.t[q].wait_pid # None => v.k[q].ev = "LEAVE")
    BY <1>2, <2>1 DEF InPhase, Plain, Told
  <2>4. Phased(v.k[q], v.t[q])
    BY <1>1, <1>2, <2>1, <2>2, NoneAssumption DEF InPhase, Phased, HoldsCall, Told
  <2> QED BY <1>2, <2>1, <2>2, <2>3, <2>4 DEF InPhase
<1>8. Steady(v, {p}) BY <1>2, <1>4, <1>5, <1>7, SteadyTwo
<1> QED BY <1>2, <1>3, <1>6, <1>8 DEF v

\* It finds the zombie z.
LEMMA UpdateZombieSteady ==
  ASSUME NEW p \in P, NEW w, Steady(w, {p}), NEW z \in w.t[p].zombies,
         w.t[p].wait_pid = None, w.t[p].nb_ptracees # 0
  PROVE  LET v == update_wait_status_zombie(w, p, z)
         IN  Steady(v, {p}) /\ v.k = w.k /\ Asked(w.t[p], v.t[p]) /\ ~Alive(w)
<1> DEFINE v == update_wait_status_zombie(w, p, z)
           zs == w.t[p].zombies \ {z}
           n  == w.t[p].nb_ptracees - 1
           r  == [w.t[p] EXCEPT !.zombies = zs, !.nb_ptracees = n]
           u  == Put(w, p, w.k[p], r)
<1>1. w \in Worlds BY DEF Steady
<1>2. /\ w.t[p] \in TraceeType /\ w.k[p] \in Processes /\ n \in Nat
      /\ zs \in SUBSET [pid : P, own : BOOLEAN]
  BY <1>1, Parts
<1>3. v = IF z.own THEN restart_original_syscall(u, p) ELSE u
  <2>1. [w EXCEPT !.t[p].zombies = @ \ {z}, !.t[p].nb_ptracees = @ - 1] = u
    BY ONLY <1>1 DEF Put, Worlds
  <2> HIDE DEF u
  <2> QED BY ONLY <2>1 DEF update_wait_status_zombie
<1>4. zs \subseteq w.t[p].zombies OBVIOUS
<1> HIDE DEF zs, n
<1>5. r \in TraceeType /\ Asked(w.t[p], r)
  <2>1. r \in TraceeType BY ONLY <1>2 DEF TraceeType
  <2>2. Asked(w.t[p], r) BY ONLY <1>2, <1>4 DEF TraceeType, Asked
  <2> QED BY ONLY <2>1, <2>2
<1> HIDE DEF r
<1>6. /\ u \in Worlds /\ u.k[p] = w.k[p] /\ \A o \in P \ {p} : u.k[o] = w.k[o]
      /\ u.t[p] = r /\ \A o \in P \ {p} : u.t[o] = w.t[o]
  BY <1>1, <1>2, <1>5, PutWorld
<1> HIDE DEF u
<1>7. u.k = w.k BY <1>1, <1>6 DEF Worlds
<1>8. /\ v \in Worlds /\ v.k = w.k /\ Others(w, v, {p}) /\ Asked(w.t[p], v.t[p])
  <2>1. CASE z.own
    <3>1. v = restart_original_syscall(u, p) BY <1>3, <2>1
    <3>2. /\ v \in Worlds /\ v.k = u.k /\ Others(u, v, {p}) /\ Asked(u.t[p], v.t[p])
      BY <1>6, <3>1, RepeatFields
    <3> HIDE DEF v
    <3> QED BY <1>5, <1>6, <1>7, <3>2 DEF Others, Asked
  <2>2. CASE ~z.own BY <1>3, <1>5, <1>6, <1>7, <2>2 DEF Others
  <2> QED BY <2>1, <2>2
<1> HIDE DEF v
<1>9. ~Alive(w) BY MovesNot DEF InPhase, Plain
<1>10. ~Alive(v) BY <1>8, <1>9 DEF Alive
<1>11. Moves({p}, p, w.k[p], w.t[p], v.k[p], v.t[p])
  <2>1. Moves({p}, p, w.k[p], w.t[p], w.k[p], w.t[p]) BY MovesNot
  <2>2. Local({p}, p, v.k[p], v.t[p])
    BY <1>8, <2>1 DEF Moves, Asked, Local, Halted, WaiterHeld, InHand
  <2>3. v.t[p].wait_pid = None BY <1>8 DEF Asked
  <2> QED BY <1>8, <2>2, <2>3 DEF Moves
<1>12. Steady(v, {p}) BY <1>8, <1>10, <1>11, SteadyOne
<1> QED BY <1>8, <1>9, <1>12 DEF v

\* Nothing has happened yet: it waits.
LEMMA WaitSteady ==
  ASSUME NEW p \in P, NEW w, Steady(w, {p}), NEW a \in P \cup {AnyPid},
         Alive(w) => w.k[p].ev = "LEAVE", w.t[p].nb_ptracees # 0,
         Zombies(w, p, a) = {}, Stopped(w, p, a, TRUE) = {}
  PROVE  Steady(SetWait(w, p, a), {p}) /\ SetWait(w, p, a).k = w.k
<1> DEFINE r == [w.t[p] EXCEPT !.wait_pid = a]
           v == SetWait(w, p, a)
<1>1. w \in Worlds BY DEF Steady
<1>2. w.t[p] \in TraceeType /\ w.k[p] \in Processes BY <1>1, Parts
<1>3. /\ r \in TraceeType /\ r.wait_pid = a /\ r.zombies = w.t[p].zombies
      /\ r.listed = w.t[p].listed /\ r.terminated = w.t[p].terminated
      /\ r.running = w.t[p].running /\ r.nb_ptracees = w.t[p].nb_ptracees
      /\ r.as_ptracee = w.t[p].as_ptracee /\ r.chain = w.t[p].chain
  BY <1>2 DEF TraceeType
<1>4. v = Put(w, p, w.k[p], r) BY DEF SetWait
<1> HIDE DEF r, v
<1>5. /\ v \in Worlds /\ v.k[p] = w.k[p] /\ \A o \in P \ {p} : v.k[o] = w.k[o]
      /\ v.t[p] = r /\ \A o \in P \ {p} : v.t[o] = w.t[o]
  BY <1>1, <1>2, <1>3, <1>4, PutWorld
<1>6. v.k = w.k BY <1>1, <1>5 DEF Worlds
<1>7. ASSUME NEW o \in P PROVE Local({p}, o, v.k[o], v.t[o])
  <2>1. Local({p}, o, w.k[o], w.t[o]) BY DEF Steady
  <2>2. CASE o = p
    BY <1>3, <1>5, <2>1, <2>2 DEF Local, Halted, WaiterHeld, InHand
  <2>3. CASE o # p BY <1>5, <2>1, <2>3
  <2> QED BY <2>2, <2>3
<1>8. ASSUME NEW m \in P PROVE HeardBy(v, m, {p})
  <2>1. HeardBy(w, m, {p}) BY DEF Steady
  <2>2. CASE m # p BY <1>5, <2>1, <2>2 DEF HeardBy
  <2>3. CASE m = p
    <3>1. \A z \in v.t[p].zombies : ~Expects(a, z.pid) BY <1>3, <1>5 DEF Zombies
    <3>2. \A o \in P \ {p} : ~(Exposed(v.t[o], p) /\ Expects(a, o))
      BY <1>5 DEF Stopped, Exposed
    <3> QED BY <1>3, <1>5, <2>3, <3>1, <3>2 DEF HeardBy
  <2> QED BY <2>2, <2>3
<1>9. ASSUME Alive(v), NEW o \in P PROVE InPhase({p}, o, v.k[o], v.t[o])
  <2>1. InPhase({p}, o, w.k[o], w.t[o])
    <3>1. Alive(w) BY <1>6, <1>9 DEF Alive
    <3> QED BY <3>1 DEF Steady
  <2>2. CASE o = p
    <3>1. Alive(w) BY <1>6, <1>9 DEF Alive
    <3> QED BY <1>3, <1>5, <2>1, <2>2, <3>1 DEF InPhase, Plain
  <2>3. CASE o # p BY <1>5, <2>1, <2>3
  <2> QED BY <2>2, <2>3
<1> QED BY <1>5, <1>6, <1>7, <1>8, <1>9 DEF Steady, v

\* wait.c, translate_wait_exit().
LEMMA WaitExitSteady ==
  ASSUME IsFiniteSet(P), NEW p \in P, NEW w, Steady(w, {p}), Sound(w),
         w.t[p].wait_pid = None, IsWait(w.k[p].call), Alive(w) => w.k[p].ev = "LEAVE"
  PROVE  LET v == translate_wait_exit(w, p)
         IN  /\ Steady(v, {p}) /\ v.k = w.k
             /\ v.t[p].as_ptracee = w.t[p].as_ptracee
             /\ Alive(w) \/ v.t[p].wait_pid # None => v.t[p].status = w.t[p].status
<1> DEFINE a  == w.k[p].call.arg
           r  == [w.t[p] EXCEPT !.waits_in = "DOESNT_WAIT"]
           u  == SetWaitsIn(w, p, "DOESNT_WAIT")
           v  == translate_wait_exit(w, p)
           zs == Zombies(w, p, a)
           qs == Stopped(w, p, a, TRUE)
<1>1. w \in Worlds BY DEF Steady
<1>2. w.t[p] \in TraceeType /\ w.k[p] \in Processes /\ w.k[p].call \in Calls
  BY <1>1, Parts
<1>3. a \in P \cup {AnyPid} BY <1>2 DEF IsWait, Calls, NoCall
<1>4. /\ r \in TraceeType /\ Core(w.k[p], w.t[p], w.k[p], r)
      /\ r.status = w.t[p].status /\ r.as_ptracee = w.t[p].as_ptracee
  BY <1>2 DEF TraceeType, Core
<1> HIDE DEF r
<1>5. CoreOf(w, u, p) /\ u.k[p] = w.k[p] /\ u.t[p] = r
  BY <1>1, <1>2, <1>4, PutCore DEF SetWaitsIn, r
<1>6. [w EXCEPT !.t[p].waits_in = "DOESNT_WAIT"] = u
  BY <1>1 DEF SetWaitsIn, Put, Worlds
<1>7. Quiets(w, u) BY <1>1, WaitQuiet, NoneAssumption
<1>8. Sound(u) BY <1>7, QuietKeeps DEF Keeps
<1> HIDE DEF u
<1>9. Steady(u, {p}) /\ (Alive(u) <=> Alive(w)) BY <1>5, SteadyCore
<1>10. u.k = w.k BY <1>1, <1>5 DEF CoreOf, Others, Worlds
<1>11. /\ u.t[p].wait_pid = None /\ u.t[p].zombies = w.t[p].zombies
       /\ u.t[p].nb_ptracees = w.t[p].nb_ptracees /\ u.t[p].status = w.t[p].status
       /\ u.t[p].as_ptracee = w.t[p].as_ptracee
  BY <1>4, <1>5 DEF Core
<1>12. \A o \in P : /\ u.t[o].listed = w.t[o].listed /\ u.t[o].running = w.t[o].running
                    /\ u.t[o].as_ptracee = w.t[o].as_ptracee
  <2>1. /\ u.t[p].listed = w.t[p].listed /\ u.t[p].running = w.t[p].running
        /\ \A o \in P \ {p} : u.t[o] = w.t[o]
    BY <1>4, <1>5 DEF Core, CoreOf, Others
  <2> QED BY <1>11, <2>1
<1>13. CASE zs # {}
  <2>1. PICK z \in zs : v = update_wait_status_zombie(u, p, z)
    <3> HIDE DEF zs, qs
    <3>1. v = update_wait_status_zombie(u, p, CHOOSE z \in zs : TRUE)
      BY <1>6, <1>13 DEF translate_wait_exit, zs
    <3>2. (CHOOSE z \in zs : TRUE) \in zs BY <1>13
    <3> HIDE DEF v
    <3> QED BY <3>1, <3>2
  <2>2. z \in u.t[p].zombies BY <1>11 DEF Zombies
  <2>3. u.t[p].nb_ptracees # 0
    <3>1. w.t[p].listed BY DEF Steady, Local, InHand
    <3>2. /\ IsFiniteSet(w.t[p].zombies) /\ Cardinality(w.t[p].zombies) \in Nat
          /\ Cardinality(Tracees(w, p)) \in Nat
      BY <1>1, Finite
    <3>3. Cardinality(w.t[p].zombies) # 0 BY <1>11, <2>2, <3>2, FS_EmptySet
    <3>4. w.t[p].nb_ptracees = Cardinality(Tracees(w, p)) + Cardinality(w.t[p].zombies)
      BY <3>1 DEF Sound, Counted
    <3> QED BY <1>11, <3>2, <3>3, <3>4
  <2> HIDE DEF v
  <2>4. Steady(v, {p}) /\ v.k = u.k /\ Asked(u.t[p], v.t[p]) /\ ~Alive(u)
    BY <1>9, <1>11, <2>1, <2>2, <2>3, UpdateZombieSteady
  <2>5. v.t[p].wait_pid = None /\ v.t[p].as_ptracee = w.t[p].as_ptracee
    BY <1>11, <2>4 DEF Asked
  <2> QED BY <1>9, <1>10, <2>4, <2>5 DEF v
<1>14. CASE zs = {} /\ qs # {}
  <2>1. PICK q \in qs : v = update_wait_status(u, p, q)
    <3> HIDE DEF zs, qs
    <3>1. v = update_wait_status(u, p, CHOOSE q \in qs : TRUE)
      BY <1>6, <1>14 DEF translate_wait_exit, zs, qs
    <3>2. (CHOOSE q \in qs : TRUE) \in qs BY <1>14
    <3> HIDE DEF v
    <3> QED BY <3>1, <3>2
  <2>2. q \in P /\ u.t[q].listed /\ u.t[q].as_ptracee.ptracer = p BY <1>12 DEF Stopped
  <2> HIDE DEF v
  <2>3. Steady(v, {p}) /\ v.k = u.k /\ Asked(u.t[p], v.t[p])
        /\ (Alive(u) => v.t[p] = u.t[p])
    BY ONLY IsFiniteSet(P), <1>8, <1>9, <1>11, <2>1, <2>2, UpdateSteady
  <2>4. v.t[p].wait_pid = None /\ v.t[p].as_ptracee = w.t[p].as_ptracee
    BY <1>11, <2>3 DEF Asked
  <2> QED BY <1>9, <1>10, <1>11, <2>3, <2>4 DEF v
<1>15. CASE zs = {} /\ qs = {}
  <2>1. v \in {u, [u EXCEPT !.t[p].wait_pid = a]}
        /\ (v # u => w.t[p].nb_ptracees # 0)
    <3> HIDE DEF zs, qs, a
    <3> QED BY <1>6, <1>15 DEF translate_wait_exit, zs, qs, a
  <2> HIDE DEF v
  <2>2. CASE v = u BY <1>9, <1>10, <1>11, <2>2 DEF v
  <2>3. CASE v # u
    <3>1. v = SetWait(u, p, a)
      <4>1. u \in Worlds BY <1>5 DEF CoreOf
      <4>2. [u EXCEPT !.t[p].wait_pid = a] = SetWait(u, p, a)
        BY <4>1 DEF SetWait, Put, Worlds
      <4> QED BY <2>1, <2>3, <4>2
    <3>2. Zombies(u, p, a) = {} /\ Stopped(u, p, a, TRUE) = {}
      BY <1>11, <1>12, <1>15 DEF Zombies, Stopped
    <3>3. u.t[p].nb_ptracees # 0 BY <1>11, <2>1, <2>3
    <3> HIDE DEF a, zs, qs
    <3>4. Steady(v, {p}) /\ v.k = u.k
      BY <1>3, <1>5, <1>9, <3>1, <3>2, <3>3, WaitSteady
    <3>5. v.t[p].status = u.t[p].status /\ v.t[p].as_ptracee = u.t[p].as_ptracee
      <4> DEFINE s == [u.t[p] EXCEPT !.wait_pid = a]
      <4>1. u.t[p] \in TraceeType /\ u.k[p] \in Processes /\ u \in Worlds
        BY <1>2, <1>4, <1>5 DEF CoreOf
      <4>2. s \in TraceeType /\ s.status = u.t[p].status /\ s.as_ptracee = u.t[p].as_ptracee
        BY <1>3, <4>1 DEF TraceeType
      <4> HIDE DEF s
      <4>3. Put(u, p, u.k[p], s).t[p] = s BY <4>1, <4>2, PutWorld
      <4> QED BY <3>1, <4>2, <4>3 DEF SetWait, s
    <3> QED BY <1>10, <1>11, <3>4, <3>5 DEF v
  <2> QED BY <2>2, <2>3
<1> HIDE DEF v
<1>16. \/ zs # {} \/ (zs = {} /\ qs # {})
       \/ (zs = {} /\ qs = {})
  OBVIOUS
<1> QED BY <1>13, <1>14, <1>15, <1>16 DEF v

-----------------------------------------------------------------------------
(* A call of ptrace(2) is answered.                                        *)

\* What the process in hand keeps while its own call is emulated.
Staged(w, v, p) ==
    /\ Steady(v, {p}) /\ v.k[p] = w.k[p]
    /\ Alive(v) => Alive(w)
    /\ Alive(v) \/ v.t[p].wait_pid # None => v.t[p].status = w.t[p].status
    /\ ~w.t[p].as_ptracee.proot => ~v.t[p].as_ptracee.proot

\* Whoever is sent a SIGSTOP keeps its stage.
LEMMA SteadyStage ==
  ASSUME NEW H, NEW w, Steady(w, H), NEW v, NEW q \in P, CoreOf(w, v, q),
         v.t[q].status = w.t[q].status, v.t[q].as_ptracee = w.t[q].as_ptracee
  PROVE  Steady(v, H) /\ (Alive(v) => Alive(w))
<1>1. v \in Worlds /\ Others(w, v, {q}) /\ Core(w.k[q], w.t[q], v.k[q], v.t[q])
  BY DEF CoreOf
<1>2. Alive(v) <=> Alive(w)
  BY <1>1 DEF Alive, Killed, Others, Core
<1> DEFINE x0 == w.k[q]  r0 == w.t[q]  x == v.k[q]  r == v.t[q]
<1>3. /\ Moves(H, q, x0, r0, x0, r0) /\ Core(x0, r0, x, r) /\ r.status = r0.status
      /\ r.as_ptracee = r0.as_ptracee
  BY <1>1, MovesNot
<1> HIDE DEF x0, r0, x, r
<1>4. Moves(H, q, x0, r0, x, r)
  <2>1. Local(H, q, x, r)
    BY <1>3 DEF Moves, Local, Core, Halted, WaiterHeld, InHand, Reaped, Killed
  <2>2. \A m \in P : Exposed(r, m) <=> Exposed(r0, m) BY <1>3 DEF Core, Exposed
  <2>3. Excused(x0, r0) <=> Excused(x, r) BY <1>3 DEF Core, Excused
  <2> QED BY <1>3, <2>1, <2>2, <2>3 DEF Moves, Core, Killed
<1>5. InPhase(H, q, x0, r0) => InPhase(H, q, x, r)
  BY <1>3 DEF InPhase, Plain, Phased, HoldsCall, Core
<1>6. Alive(v) => InPhase(H, q, x, r)
  BY <1>2, <1>5, MovesNot DEF x0, r0
<1>7. Steady(v, H) BY <1>1, <1>4, <1>6, SteadyOne DEF x0, r0, x, r
<1> QED BY <1>2, <1>7

\* All of the Tracee but its links.
Beside(r0, r) ==
    /\ r.listed = r0.listed /\ r.terminated = r0.terminated /\ r.running = r0.running
    /\ r.wait_pid = r0.wait_pid /\ r.zombies = r0.zombies
    /\ r.status = r0.status /\ r.chain = r0.chain

\* ptrace.c, attach_to_ptracer().
LEMMA AttachFields ==
  ASSUME NEW w \in Worlds, NEW q \in P, NEW p \in P, p # q
  PROVE  LET v == attach_to_ptracer(w, q, p)
         IN  /\ v \in Worlds /\ v.k = w.k /\ Others(w, v, {p, q})
             /\ Beside(w.t[q], v.t[q]) /\ v.t[q].nb_ptracees = w.t[q].nb_ptracees
             /\ v.t[q].as_ptracee = [Unattached EXCEPT !.ptracer = p]
             /\ Beside(w.t[p], v.t[p]) /\ v.t[p].nb_ptracees # 0
             /\ v.t[p].as_ptracee = w.t[p].as_ptracee
<1> DEFINE e == [Unattached EXCEPT !.ptracer = p]
           n == w.t[p].nb_ptracees + 1
           s == [w.t[q] EXCEPT !.as_ptracee = e]
           r == [w.t[p] EXCEPT !.nb_ptracees = n]
           v == Put(Put(w, q, w.k[q], s), p, w.k[p], r)
<1>1. w.t[q] \in TraceeType /\ w.t[p] \in TraceeType /\ n \in Nat /\ n # 0 BY Parts
<1>2. e \in Ptracees BY DEF Ptracees, Unattached, Events
<1>3. attach_to_ptracer(w, q, p) = v BY DEF attach_to_ptracer, Put, Worlds
<1> HIDE DEF e, n
<1>4. /\ s \in TraceeType /\ Beside(w.t[q], s) /\ s.as_ptracee = e
      /\ s.nb_ptracees = w.t[q].nb_ptracees
  <2>1. s \in TraceeType BY <1>1, <1>2, PutTracee
  <2> QED BY <1>1, <2>1 DEF TraceeType, Beside
<1>5. /\ r \in TraceeType /\ Beside(w.t[p], r) /\ r.as_ptracee = w.t[p].as_ptracee
      /\ r.nb_ptracees = n
  <2>1. r \in TraceeType BY <1>1, PutTracee
  <2> QED BY <1>1, <2>1 DEF TraceeType, Beside
<1> HIDE DEF s, r
<1>6. /\ v \in Worlds /\ v.k = w.k
      /\ v.t[p] = r /\ v.t[q] = s /\ \A o \in P \ {p, q} : v.t[o] = w.t[o]
  BY <1>1, <1>4, <1>5, PutTwo
<1> HIDE DEF v
<1> QED BY <1>1, <1>3, <1>4, <1>5, <1>6 DEF Others, e

LEMMA AttachSteady ==
  ASSUME NEW H, NEW w, Steady(w, H), NEW q \in P, NEW p \in P, p # q,
         q \in H \/ w.t[q].as_ptracee.ptracer = None
  PROVE  LET v == attach_to_ptracer(w, q, p)
         IN  /\ Steady(v, H) /\ v.k = w.k
             /\ \A o \in P : v.t[o].status = w.t[o].status /\ v.t[o].wait_pid = w.t[o].wait_pid
             /\ ~v.t[q].as_ptracee.proot /\ v.t[p].as_ptracee = w.t[p].as_ptracee
<1> DEFINE v == attach_to_ptracer(w, q, p)
           e == [Unattached EXCEPT !.ptracer = p]
<1>0. w \in Worlds BY DEF Steady
<1>1. /\ v \in Worlds /\ v.k = w.k /\ Others(w, v, {p, q})
      /\ Beside(w.t[q], v.t[q]) /\ v.t[q].nb_ptracees = w.t[q].nb_ptracees
      /\ v.t[q].as_ptracee = e
      /\ Beside(w.t[p], v.t[p]) /\ v.t[p].nb_ptracees # 0
      /\ v.t[p].as_ptracee = w.t[p].as_ptracee
  BY ONLY <1>0, p # q, AttachFields
<1>2. e.ptracer = p /\ ~e.ptr /\ ~e.proot /\ e.tval = "none" BY DEF Unattached
<1> HIDE DEF e, v
<1>3. Moves(H, p, w.k[p], w.t[p], v.k[p], v.t[p])
  <2>1. Moves(H, p, w.k[p], w.t[p], w.k[p], w.t[p]) BY MovesNot
  <2> QED BY <1>1, <2>1
      DEF Moves, Beside, Local, Halted, WaiterHeld, InHand, Reaped, Exposed, Excused
<1>4. Moves(H, q, w.k[q], w.t[q], v.k[q], v.t[q])
  <2>1. Moves(H, q, w.k[q], w.t[q], w.k[q], w.t[q]) BY MovesNot
  <2>2. \A m \in P : ~Exposed(v.t[q], m) BY <1>1, <1>2 DEF Exposed
  <2> QED BY <1>1, <2>1, <2>2
      DEF Moves, Beside, Local, Halted, WaiterHeld, InHand, Reaped
<1>5. ASSUME Alive(v) PROVE InPhase(H, p, v.k[p], v.t[p]) /\ InPhase(H, q, v.k[q], v.t[q])
  <2>1. Alive(w) BY <1>1, <1>5 DEF Alive
  <2>2. /\ InPhase(H, p, w.k[p], w.t[p]) /\ InPhase(H, q, w.k[q], w.t[q])
        /\ Local(H, q, w.k[q], w.t[q]) /\ ~Killed(w.k[q])
    BY <2>1, MovesNot DEF Alive
  <2>3. InPhase(H, p, v.k[p], v.t[p])
    BY <1>1, <2>2 DEF InPhase, Plain, Beside, Phased, HoldsCall
  <2>4. Plain(v.t[q]) /\ (v.t[q].wait_pid # None => v.k[q].ev = "LEAVE")
    BY <1>1, <1>2, <2>2 DEF InPhase, Plain, Beside
  <2>5. ASSUME q \notin H PROVE Phased(v.k[q], v.t[q])
    <3>1. /\ Phased(w.k[q], w.t[q]) /\ (w.t[q].wait_pid # None => w.k[q].ev = "LEAVE")
          /\ w.t[q].as_ptracee.ptracer = None
      BY <2>2, <2>5 DEF InPhase
    <3>2. w.k[q].st = "stop" /\ w.k[q].reported => w.k[q].ev = "LEAVE"
      BY <3>1 DEF Phased
    <3> QED BY <1>1, <1>2, <3>1, <3>2, NoneAssumption DEF Phased, HoldsCall, Beside
  <2> QED BY <2>3, <2>4, <2>5 DEF InPhase
<1>6. Steady(v, H) BY <1>1, <1>3, <1>4, <1>5, SteadyTwo
<1>7. \A o \in P : v.t[o].status = w.t[o].status /\ v.t[o].wait_pid = w.t[o].wait_pid
  BY <1>1 DEF Others, Beside
<1> QED BY <1>1, <1>2, <1>6, <1>7 DEF v

\* ptrace.c, PTRACE_TRACEME of q.
LEMMA TraceMeStaged ==
  ASSUME NEW q \in P, NEW w, Steady(w, {q}), Sound(w)
  PROVE  Staged(w, TraceMe(w, q), q)
<1> DEFINE p == w.t[q].parent
           u == attach_to_ptracer(w, q, p)
           x == [u.k[p] EXCEPT !.stopsig = TRUE]
           r == [u.t[p] EXCEPT !.sigstop = "IGNORED", !.waits_in = "WAITS_IN_PROOT"]
           d == [w EXCEPT !.crashed = TRUE]
           v == TraceMe(w, q)
<1>1. w \in Worlds BY DEF Steady
<1>2. CASE v = w BY <1>2 DEF Staged
<1>3. CASE v = d
  <2>1. d \in Worlds /\ d.k = w.k /\ d.t = w.t BY <1>1 DEF Worlds
  <2> HIDE DEF d, v
  <2>2. CoreOf(w, d, q) BY <2>1 DEF CoreOf, Others, Core
  <2>3. Steady(d, {q}) /\ (Alive(d) => Alive(w)) BY <2>1, <2>2, SteadyStage
  <2> QED BY <1>3, <2>1, <2>3 DEF Staged, v
<1>4. CASE p \in P /\ v \in {u, Put(u, p, x, r)}
  <2>1. p # q BY DEF Sound, NotItself
  <2>2. /\ Steady(u, {q}) /\ u.k = w.k
        /\ \A o \in P : u.t[o].status = w.t[o].status /\ u.t[o].wait_pid = w.t[o].wait_pid
        /\ ~u.t[q].as_ptracee.proot
    <3>1. p \in P /\ q \in {q} BY <1>4
    <3> HIDE DEF p
    <3> QED BY <2>1, <3>1, AttachSteady DEF p
  <2> HIDE DEF u
  <2>3. Staged(w, u, q) BY <2>2 DEF Staged, Alive
  <2>4. u \in Worlds BY <2>2 DEF Steady
  <2>5. u.k[p] \in Processes /\ u.t[p] \in TraceeType BY <1>4, <2>4, Parts
  <2>6. x \in Processes /\ Core(u.k[p], u.t[p], x, u.t[p]) BY <2>5, CoreFields
  <2>7. /\ r \in TraceeType /\ Core(u.k[p], u.t[p], u.k[p], r)
        /\ r.status = u.t[p].status /\ r.as_ptracee = u.t[p].as_ptracee
    BY <2>5 DEF TraceeType, Core
  <2> HIDE DEF x, r
  <2>8. Core(u.k[p], u.t[p], x, r) BY <2>6, <2>7 DEF Core
  <2> DEFINE y == Put(u, p, x, r)
  <2>9. /\ CoreOf(u, y, p) /\ y.k[p] = x /\ y.t[p] = r
    <3>1. /\ p \in P /\ x \in Processes /\ r \in TraceeType
          /\ Core(u.k[p], u.t[p], x, r)
      BY <1>4, <2>6, <2>7, <2>8
    <3> HIDE DEF p
    <3> QED BY ONLY <2>4, <3>1, PutCore
  <2> HIDE DEF y
  <2>10. Steady(y, {q}) /\ (Alive(y) => Alive(u))
    BY <1>4, <2>2, <2>7, <2>9, SteadyStage
  <2>11. y.k[q] = u.k[q] /\ y.t[q] = u.t[q] BY <2>1, <2>9 DEF CoreOf, Others
  <2>12. Staged(w, y, q) BY <2>3, <2>10, <2>11 DEF Staged
  <2> HIDE DEF v
  <2> QED BY <1>4, <2>3, <2>12 DEF y, v
<1>5. v = w \/ v = d \/ (p \in P /\ v \in {u, Put(u, p, x, r)})
  <2>1. p \in P \cup {None} BY <1>1, Parts
  <2>2. CASE w.t[q].as_ptracee.ptracer # None BY <2>2 DEF TraceMe
  <2>3. CASE w.t[q].as_ptracee.ptracer = None /\ p = None BY <2>3 DEF TraceMe
  <2>4. CASE w.t[q].as_ptracee.ptracer = None /\ p # None
    <3>1. p \in P /\ p # q BY <2>1, <2>4 DEF Sound, NotItself
    <3>2. u \in Worlds BY <1>1, <3>1, AttachFields
    <3> HIDE DEF u, p
    <3>3. [u EXCEPT !.k[p].stopsig = TRUE, !.t[p].sigstop = "IGNORED",
                    !.t[p].waits_in = "WAITS_IN_PROOT"] = Put(u, p, x, r)
      <4>1. u \in Worlds /\ p \in P BY <3>1, <3>2
      <4> HIDE DEF v
      <4> QED BY <4>1 DEF Put, Worlds
    <3>4. v \in {u, [u EXCEPT !.k[p].stopsig = TRUE, !.t[p].sigstop = "IGNORED",
                    !.t[p].waits_in = "WAITS_IN_PROOT"]}
      BY <2>4, Zenon DEF TraceMe, u, p
    <3> QED BY <3>1, <3>3, <3>4 DEF u, p
  <2> QED BY <2>2, <2>3, <2>4
<1> QED BY <1>2, <1>3, <1>4, <1>5

\* ptrace.c, PTRACE_ATTACH of q by p.
LEMMA AttachStaged ==
  ASSUME NEW p \in P, NEW w, Steady(w, {p}), NEW q \in P
  PROVE  Staged(w, Attach(w, p, q), p)
<1> DEFINE u == attach_to_ptracer(w, q, p)
           x == [u.k[q] EXCEPT !.stopsig = TRUE]
           y == Put(u, q, x, u.t[q])
           v == Attach(w, p, q)
<1>1. w \in Worlds BY DEF Steady
<1>2. CASE v = w BY <1>2 DEF Staged
<1>3. CASE q # p /\ w.t[q].as_ptracee.ptracer = None /\ v = [u EXCEPT !.k[q].stopsig = TRUE]
  <2>1. /\ Steady(u, {p}) /\ u.k = w.k
        /\ \A o \in P : u.t[o].status = w.t[o].status /\ u.t[o].wait_pid = w.t[o].wait_pid
        /\ u.t[p].as_ptracee = w.t[p].as_ptracee
    BY <1>3, AttachSteady
  <2> HIDE DEF u
  <2>2. u \in Worlds BY <2>1 DEF Steady
  <2>3. u.k[q] \in Processes /\ u.t[q] \in TraceeType BY <2>2, Parts
  <2>4. x \in Processes /\ Core(u.k[q], u.t[q], x, u.t[q]) BY <2>3, CoreFields
  <2>5. v = y BY <1>3, <2>2 DEF Put, Worlds
  <2> HIDE DEF x, v
  <2>6. CoreOf(u, y, q) /\ y.t[q] = u.t[q] BY <2>2, <2>3, <2>4, PutCore
  <2> HIDE DEF y
  <2>7. Steady(y, {p}) /\ (Alive(y) => Alive(u)) BY <2>1, <2>6, SteadyStage
  <2>8. y.k[p] = u.k[p] /\ y.t[p] = u.t[p] BY <1>3, <2>6 DEF CoreOf, Others
  <2>9. Alive(y) => Alive(w) BY <2>1, <2>7 DEF Alive
  <2> QED BY <2>1, <2>5, <2>7, <2>8, <2>9 DEF Staged, v
<1>4. v = w \/ (q # p /\ w.t[q].as_ptracee.ptracer = None
                  /\ v = [u EXCEPT !.k[q].stopsig = TRUE])
  BY DEF Attach
<1> QED BY <1>2, <1>3, <1>4

\* event.c, restart_tracee(), of a process that may also have been killed, or that waits.
LEMMA LetGo ==
  ASSUME NEW H, NEW w, Steady(w, H), NEW q \in P, q \in H, ~w.t[q].terminated,
         w.k[q].st # "gone", Alive(w) => Ready(w.k[q], w.t[q]) /\ ~HoldsCall(w.t[q])
  PROVE  LET v == restart_tracee(w, q)
         IN  Steady(v, H \ {q}) /\ Others(w, v, {q}) /\ (Alive(v) => Alive(w))
<1> DEFINE v == restart_tracee(w, q)
<1>1. w \in Worlds BY DEF Steady
<1>2. Local(H, q, w.k[q], w.t[q]) /\ (Alive(w) => InPhase(H, q, w.k[q], w.t[q]))
  BY MovesNot
<1>3. CASE Restartable(w, q)
  <2>1. Steady(v, H \ {q}) /\ Others(w, v, {q}) BY <1>3, RestartReleases
  <2>2. Alive(v) => Alive(w)
    <3>1. ~Killed(w.k[q]) BY <1>3 DEF Restartable, Killed
    <3> HIDE DEF v
    <3>2. \A o \in P \ {q} : v.k[o] = w.k[o] BY <2>1 DEF Others
    <3> QED BY <3>1, <3>2 DEF Alive
  <2> QED BY <2>1, <2>2
<1>4. CASE ~Restartable(w, q)
  <2>1. v = w BY <1>4 DEF restart_tracee
  <2>2. w.t[q].wait_pid # None \/ w.k[q].st # "stop" BY <1>4 DEF Restartable
  <2>3. w.k[q].st \in {"stop", "dead"} /\ w.t[q].listed
    BY <1>2 DEF Local, InHand, Killed
  <2>4. Local(H \ {q}, q, w.k[q], w.t[q]) BY <1>2, <2>3 DEF Local, Reaped
  <2>5. Excused(w.k[q], w.t[q]) BY <2>2, <2>3 DEF Excused
  <2>6. ASSUME Alive(w) PROVE InPhase(H \ {q}, q, w.k[q], w.t[q])
    <3>1. /\ Plain(w.t[q]) /\ (w.t[q].wait_pid # None => w.k[q].ev = "LEAVE")
          /\ ~Killed(w.k[q])
      BY <1>2, <2>6 DEF InPhase, Alive
    <3>2. w.k[q].st = "stop" /\ w.k[q].reported /\ w.t[q].wait_pid # None
      BY <1>2, <2>2, <2>3, <3>1 DEF Local, InHand, Killed
    <3>3. w.k[q].ev = "LEAVE" BY <3>1, <3>2
    <3>4. Phased(w.k[q], w.t[q]) BY <2>6, <3>2, <3>3 DEF Phased, Ready
    <3> QED BY <3>1, <3>4 DEF InPhase
  <2>7. HeardBy(w, q, H) BY DEF Steady
  <2>8. Others(w, w, {q}) BY DEF Others
  <2>9. w.t[q].wait_pid # None => w.t[q].nb_ptracees # 0 BY <2>7 DEF HeardBy
  <2>10. Steady(w, H \ {q}) BY <1>1, <2>4, <2>5, <2>6, <2>8, <2>9, Release
  <2> QED BY <2>1, <2>8, <2>10
<1> QED BY <1>3, <1>4

LEMMA IgnoreCore ==
  ASSUME NEW w \in Worlds, NEW q \in P, NEW b \in BOOLEAN
  PROVE  LET v == [w EXCEPT !.t[q].as_ptracee.ignore = b]
         IN  /\ CoreOf(w, v, q) /\ v.k = w.k /\ v.t[q].status = w.t[q].status
             /\ v.t[q].as_ptracee.proot = w.t[q].as_ptracee.proot
             /\ v.t[q].as_ptracee.pval = w.t[q].as_ptracee.pval
<1> DEFINE e == [w.t[q].as_ptracee EXCEPT !.ignore = b]
           r == [w.t[q] EXCEPT !.as_ptracee = e]
<1>1. [w EXCEPT !.t[q].as_ptracee.ignore = b] = Put(w, q, w.k[q], r) BY DEF Put, Worlds
<1>2. w.k[q] \in Processes /\ w.t[q] \in TraceeType /\ w.t[q].as_ptracee \in Ptracees
  BY Parts
<1>3. /\ e \in Ptracees /\ e.ptracer = w.t[q].as_ptracee.ptracer
      /\ e.ptr = w.t[q].as_ptracee.ptr /\ e.tval = w.t[q].as_ptracee.tval
      /\ e.proot = w.t[q].as_ptracee.proot /\ e.pval = w.t[q].as_ptracee.pval
  BY <1>2 DEF Ptracees
<1> HIDE DEF e
<1>4. /\ r \in TraceeType /\ Core(w.k[q], w.t[q], w.k[q], r) /\ r.status = w.t[q].status
      /\ r.as_ptracee = e
  <2>1. r \in TraceeType BY <1>2, <1>3, PutTracee
  <2> QED BY <1>2, <1>3, <2>1 DEF TraceeType, Core
<1> HIDE DEF r
<1> DEFINE v == Put(w, q, w.k[q], r)
<1>5. CoreOf(w, v, q) /\ v.t[q] = r /\ v.k[q] = w.k[q] BY <1>2, <1>4, PutCore
<1> HIDE DEF v
<1>6. v.k = w.k BY <1>5 DEF CoreOf, Others, Worlds
<1> QED BY <1>1, <1>3, <1>4, <1>5, <1>6 DEF v

\* PTRACE_CONT, PTRACE_SYSCALL and PTRACE_DETACH of q, which is in hand too, before q goes on.
Ordered(w, v, p, q) ==
    /\ Steady(v, {p, q}) /\ v.k = w.k
    /\ v.t[q].status = w.t[q].status /\ v.t[q].terminated = w.t[q].terminated
    /\ v.t[q].as_ptracee.proot = w.t[q].as_ptracee.proot
    /\ v.t[q].as_ptracee.pval = w.t[q].as_ptracee.pval
    /\ v.t[p].status = w.t[p].status /\ v.t[p].as_ptracee = w.t[p].as_ptracee

LEMMA IgnoreOrdered ==
  ASSUME NEW p \in P, NEW q \in P, p # q, NEW w, Steady(w, {p, q}), NEW b \in BOOLEAN
  PROVE  Ordered(w, [w EXCEPT !.t[q].as_ptracee.ignore = b], p, q)
<1> DEFINE v == [w EXCEPT !.t[q].as_ptracee.ignore = b]
<1>1. w \in Worlds BY DEF Steady
<1>2. /\ CoreOf(w, v, q) /\ v.k = w.k /\ v.t[q].status = w.t[q].status
      /\ v.t[q].as_ptracee.proot = w.t[q].as_ptracee.proot
      /\ v.t[q].as_ptracee.pval = w.t[q].as_ptracee.pval
  BY <1>1, IgnoreCore
<1> HIDE DEF v
<1>3. Steady(v, {p, q}) BY <1>2, SteadyCore
<1>4. v.t[p] = w.t[p] /\ v.t[q].terminated = w.t[q].terminated
  BY <1>2 DEF CoreOf, Others, Core
<1> QED BY <1>2, <1>3, <1>4 DEF Ordered, v

LEMMA DetachOrdered ==
  ASSUME IsFiniteSet(P), NEW p \in P, NEW q \in P, NEW w, Steady(w, {p, q}), Sound(w),
         w.t[q].listed, w.t[q].as_ptracee.ptracer = p, w.t[p].wait_pid = None
  PROVE  Ordered(w, detach_from_ptracer(w, q), p, q)
<1> DEFINE v == detach_from_ptracer(w, q)
<1>1. w \in Worlds /\ p # q /\ w.t[p].nb_ptracees # 0
  BY CountedByPtracer DEF Steady
<1>2. /\ v.k = w.k /\ Same(w.t[q], v.t[q]) /\ v.t[q].status = w.t[q].status
      /\ v.t[p].as_ptracee = w.t[p].as_ptracee /\ v.t[p].status = w.t[p].status
  BY <1>1, DetachFields
<1>3. Steady(v, {p, q}) BY DetachSteady
<1> HIDE DEF v
<1> QED BY <1>2, <1>3 DEF Ordered, Same, v

\* What was held for the ptracer is handled, and q goes on.
LEMMA HeldGoes ==
  ASSUME NEW p \in P, NEW q \in P, p # q, NEW w, Steady(w, {p, q}), ~w.t[q].terminated,
         w.k[q].st # "gone",
         Alive(w) => w.t[q].status = "enter" /\ (HoldsCall(w.t[q]) <=> w.k[q].ev = "ENTER")
  PROVE  LET v == restart_tracee(AfterHold(w, q), q)
         IN  Steady(v, {p}) /\ Others(w, v, {q}) /\ (Alive(v) => Alive(w))
<1> DEFINE u  == AfterHold(w, q)
           ev == w.t[q].as_ptracee.pval
<1>1. w \in Worlds /\ ev \in Events /\ w.t[q].as_ptracee \in Ptracees
  <2>1. w \in Worlds BY DEF Steady
  <2> QED BY <2>1, Parts
<1>2. /\ CoreOf(w, u, q) /\ ~u.t[q].as_ptracee.proot
      /\ u.t[q].status = IF HoldsCall(w.t[q]) THEN "exit" ELSE w.t[q].status
  <2>1. CASE w.t[q].as_ptracee.proot
    <3>1. u = HandleHeldEvent(w, q, ev) BY <2>1 DEF AfterHold
    <3> HIDE DEF u
    <3> QED BY <1>1, <2>1, <3>1, HeldCore DEF HoldsCall
  <2>2. CASE ~w.t[q].as_ptracee.proot
    <3>1. u = w BY <2>2 DEF AfterHold
    <3> HIDE DEF u
    <3> QED BY <1>1, <2>2, <3>1, CoreSelf DEF HoldsCall
  <2> QED BY <2>1, <2>2
<1> HIDE DEF u
<1>3. Steady(u, {p, q}) /\ (Alive(u) <=> Alive(w)) BY <1>2, SteadyCore
<1>4. /\ u.k[q].st = w.k[q].st /\ u.k[q].ev = w.k[q].ev
      /\ u.t[q].terminated = w.t[q].terminated /\ Others(w, u, {q})
  BY <1>2 DEF CoreOf, Core
<1>5. Alive(u) => Ready(u.k[q], u.t[q]) /\ ~HoldsCall(u.t[q])
  BY <1>2, <1>3, <1>4 DEF Ready, HoldsCall
<1> DEFINE v == restart_tracee(u, q)
<1>6. /\ Steady(v, {p, q} \ {q}) /\ Others(u, v, {q}) /\ (Alive(v) => Alive(u))
  BY <1>3, <1>4, <1>5, LetGo
<1> HIDE DEF v
<1>7. {p, q} \ {q} = {p} OBVIOUS
<1>8. Others(w, v, {q}) BY <1>4, <1>6 DEF Others
<1> QED BY <1>3, <1>6, <1>7, <1>8 DEF u, v

\* ptrace.c, PTRACE_CONT, PTRACE_SYSCALL and PTRACE_DETACH of q by p.
LEMMA ResumeStaged ==
  ASSUME IsFiniteSet(P), NEW p \in P, NEW w, Steady(w, {p}), Sound(w), w.t[p].wait_pid = None,
         NEW q \in P, NEW op \in {"CONT", "SYSCALL", "DETACH"}
  PROVE  Staged(w, Resume(w, p, op, q), p)
<1> DEFINE u == CASE op = "DETACH"  -> detach_from_ptracer(w, q)
                  [] op = "SYSCALL" -> [w EXCEPT !.t[q].as_ptracee.ignore = FALSE]
                  [] op = "CONT"    -> [w EXCEPT !.t[q].as_ptracee.ignore = TRUE]
           v == restart_tracee(AfterHold(u, q), q)
<1>1. CASE q \notin Stopped(w, p, q, FALSE) \/ Zombies(w, p, q) # {}
  <2>1. Resume(w, p, op, q) = w BY <1>1 DEF Resume
  <2> QED BY <2>1 DEF Staged
<1>2. CASE ~(q \notin Stopped(w, p, q, FALSE) \/ Zombies(w, p, q) # {})
  <2>1. Resume(w, p, op, q) = v BY <1>2 DEF Resume
  <2>2. w.t[q].listed /\ w.t[q].as_ptracee.ptracer = p /\ ~w.t[q].running
    BY <1>2 DEF Stopped
  <2>3. p # q BY <2>2 DEF Sound, NotItself
  <2>4. Local({p}, q, w.k[q], w.t[q]) /\ (Alive(w) => Phased(w.k[q], w.t[q]))
    BY <2>3, MovesNot DEF InPhase
  <2>5. ~w.t[q].terminated /\ w.k[q].st \in {"stop", "dead"}
    BY <2>2, <2>3, <2>4 DEF Local, Halted, Reaped
  <2>6. InHand(w.k[q], w.t[q])
    BY <2>2, <2>4, <2>5 DEF Local, Halted, InHand, Killed
  <2>7. Steady(w, {p, q})
    <3>1. {p} # {} /\ {p} \cup {q} = {p, q} OBVIOUS
    <3>2. Steady(w, {p} \cup {q}) BY <2>6, <3>1, Take
    <3> QED BY <3>1, <3>2
  <2>8. Ordered(w, u, p, q)
    <3>1. CASE op = "DETACH"
      <4>1. u = detach_from_ptracer(w, q) BY <3>1
      <4> HIDE DEF u
      <4> QED BY <2>2, <2>7, <4>1, DetachOrdered
    <3>2. CASE op = "SYSCALL"
      <4>1. u = [w EXCEPT !.t[q].as_ptracee.ignore = FALSE] BY <3>2
      <4> HIDE DEF u
      <4> QED BY <2>3, <2>7, <4>1, IgnoreOrdered
    <3>3. CASE op = "CONT"
      <4>1. u = [w EXCEPT !.t[q].as_ptracee.ignore = TRUE] BY <3>3
      <4> HIDE DEF u
      <4> QED BY <2>3, <2>7, <4>1, IgnoreOrdered
    <3> QED BY <3>1, <3>2, <3>3
  <2> HIDE DEF u
  <2>9. /\ Steady(u, {p, q}) /\ ~u.t[q].terminated /\ u.k[q].st # "gone"
        /\ Alive(u) <=> Alive(w)
    BY <2>5, <2>8 DEF Ordered, Alive
  <2>10. Alive(u) => /\ u.t[q].status = "enter"
                     /\ (HoldsCall(u.t[q]) <=> u.k[q].ev = "ENTER")
    <3>1. ASSUME Alive(w)
          PROVE  w.t[q].status = "enter" /\ (HoldsCall(w.t[q]) <=> w.k[q].ev = "ENTER")
      <4>1. w.k[q].st = "stop" /\ w.k[q].reported
        BY <2>6, <3>1 DEF InHand, Alive
      <4> QED BY <2>4, <3>1, <4>1 DEF Phased
    <3> QED BY <2>8, <2>9, <3>1 DEF Ordered, HoldsCall
  <2>11. Steady(v, {p}) /\ Others(u, v, {q}) /\ (Alive(v) => Alive(u))
    BY <2>3, <2>9, <2>10, HeldGoes
  <2> HIDE DEF v
  <2>12. v.k[p] = w.k[p] /\ v.t[p] = u.t[p] BY <2>3, <2>8, <2>11 DEF Ordered, Others
  <2>13. v.t[p].status = w.t[p].status /\ v.t[p].as_ptracee = w.t[p].as_ptracee
    BY <2>8, <2>12 DEF Ordered
  <2> QED BY <2>1, <2>9, <2>11, <2>12, <2>13 DEF Staged
<1> QED BY <1>1, <1>2

-----------------------------------------------------------------------------
(* An event is handled.                                                    *)

\* The exit stage is over.
LEMMA StatusCore ==
  ASSUME NEW w \in Worlds, NEW p \in P
  PROVE  LET u == [w EXCEPT !.t[p].status = "enter"]
         IN  /\ CoreOf(w, u, p) /\ u.k = w.k /\ u.t[p].status = "enter"
             /\ u.t[p].as_ptracee = w.t[p].as_ptracee /\ Quiets(w, u)
<1> DEFINE r == [w.t[p] EXCEPT !.status = "enter"]
           u == Put(w, p, w.k[p], r)
<1>1. [w EXCEPT !.t[p].status = "enter"] = u BY DEF Put, Worlds
<1>2. w.k[p] \in Processes /\ w.t[p] \in TraceeType BY Parts
<1>3. /\ r \in TraceeType /\ Core(w.k[p], w.t[p], w.k[p], r) /\ r.status = "enter"
      /\ r.as_ptracee = w.t[p].as_ptracee /\ SameLinks(w.t[p], r)
  BY <1>2 DEF TraceeType, Core, SameLinks
<1> HIDE DEF r
<1>4. CoreOf(w, u, p) /\ u.k[p] = w.k[p] /\ u.t[p] = r BY <1>2, <1>3, PutCore
<1>5. Quiets(w, u) BY <1>3, TraceeQuiet
<1> HIDE DEF u
<1>6. u.k = w.k BY <1>4 DEF CoreOf, Others, Worlds
<1> QED BY <1>1, <1>3, <1>4, <1>5, <1>6

\* syscall.c, the chain of calls is done.
LEMMA ChainStaged ==
  ASSUME NEW p \in P, NEW w, Steady(w, {p}), w.t[p].wait_pid = None, w.t[p].chain # "none"
  PROVE  Staged(w, [w EXCEPT !.t[p].chain = "none"], p)
<1> DEFINE r == [w.t[p] EXCEPT !.chain = "none"]
           v == Put(w, p, w.k[p], r)
<1>1. w \in Worlds BY DEF Steady
<1>2. [w EXCEPT !.t[p].chain = "none"] = v BY <1>1 DEF Put, Worlds
<1>3. w.k[p] \in Processes /\ w.t[p] \in TraceeType BY <1>1, Parts
<1>4. r \in TraceeType /\ Asked(w.t[p], r) /\ r.status = w.t[p].status
  BY <1>3 DEF TraceeType, Asked
<1> HIDE DEF r
<1>5. /\ v \in Worlds /\ v.k[p] = w.k[p] /\ \A o \in P \ {p} : v.k[o] = w.k[o]
      /\ v.t[p] = r /\ \A o \in P \ {p} : v.t[o] = w.t[o]
  BY <1>1, <1>3, <1>4, PutWorld
<1> HIDE DEF v
<1>6. v.k = w.k /\ Others(w, v, {p}) BY <1>1, <1>5 DEF Worlds, Others
<1>7. ~Alive(w) BY MovesNot DEF InPhase, Plain
<1>8. Moves({p}, p, w.k[p], w.t[p], v.k[p], v.t[p])
  <2>1. Moves({p}, p, w.k[p], w.t[p], w.k[p], w.t[p]) BY MovesNot
  <2> QED BY <1>4, <1>5, <2>1 DEF Moves, Asked, Local, Halted, WaiterHeld, InHand
<1>9. ~Alive(v) BY <1>6, <1>7 DEF Alive
<1>10. Steady(v, {p}) BY <1>5, <1>6, <1>8, <1>9, SteadyOne
<1> QED BY <1>2, <1>4, <1>5, <1>9, <1>10 DEF Staged, Asked

\* syscall.c, the exit stage.
LEMMA LeaveStaged ==
  ASSUME IsFiniteSet(P), NEW p \in P, NEW w, Steady(w, {p}), Sound(w),
         w.t[p].wait_pid = None, Alive(w) => w.k[p].ev = "LEAVE"
  PROVE  LET v == HandleLeave(w, p)
         IN  /\ Steady(v, {p}) /\ v.k[p] = w.k[p]
             /\ Alive(v) => Alive(w)
             /\ Alive(v) \/ v.t[p].wait_pid # None => v.t[p].status = "enter"
             /\ ~w.t[p].as_ptracee.proot => ~v.t[p].as_ptracee.proot
<1> DEFINE c == w.k[p].call
           u == [w EXCEPT !.t[p].status = "enter"]
           v == HandleLeave(w, p)
<1>1. w \in Worlds BY DEF Steady
<1>2. /\ CoreOf(w, u, p) /\ u.k = w.k /\ u.t[p].status = "enter"
      /\ u.t[p].as_ptracee = w.t[p].as_ptracee /\ Quiets(w, u)
  BY <1>1, StatusCore
<1>3. \/ v = [u EXCEPT !.t[p].chain = "none"] /\ w.t[p].chain = "running"
      \/ v = u
      \/ v = translate_wait_exit(u, p) /\ IsWait(c)
      \/ v = translate_ptrace_exit(u, p) /\ c # NoCall /\ ~IsWait(c)
  <2> HIDE DEF u, c
  <2> QED BY DEF HandleLeave, u, c
<1> HIDE DEF u, v
<1>4. Steady(u, {p}) /\ (Alive(u) => Alive(w)) BY <1>2, SteadyCore
<1>5. Sound(u) BY <1>2, QuietKeeps DEF Keeps
<1>6. /\ u.t[p].wait_pid = None /\ (Alive(u) => u.k[p].ev = "LEAVE")
      /\ u.t[p].chain = w.t[p].chain
  BY <1>2, <1>4 DEF CoreOf, Core
<1>7. c \in Calls BY <1>1, Parts
<1>8. Staged(u, v, p)
  <2>1. CASE v = [u EXCEPT !.t[p].chain = "none"] /\ w.t[p].chain = "running"
    <3>1. u.t[p].chain # "none" BY <1>6, <2>1
    <3> QED BY <1>4, <1>6, <2>1, <3>1, ChainStaged
  <2>2. CASE v = u BY <1>4, <2>2 DEF Staged
  <2>3. CASE v = translate_wait_exit(u, p) /\ IsWait(c)
    <3>1. IsWait(u.k[p].call) BY <1>2, <2>3
    <3>2. /\ Steady(v, {p}) /\ v.k = u.k
          /\ v.t[p].as_ptracee = u.t[p].as_ptracee
          /\ Alive(u) \/ v.t[p].wait_pid # None => v.t[p].status = u.t[p].status
      BY <1>4, <1>5, <1>6, <2>3, <3>1, WaitExitSteady
    <3> QED BY <3>2 DEF Staged, Alive
  <2>4. CASE v = translate_ptrace_exit(u, p) /\ c # NoCall /\ ~IsWait(c)
    <3>1. u.k[p].call = c BY <1>2
    <3> HIDE DEF c
    <3>2. CASE c.op = "TRACEME"
      <4>1. v = TraceMe(u, p) BY <2>4, <3>1, <3>2 DEF translate_ptrace_exit
      <4> QED BY <1>4, <1>5, <4>1, TraceMeStaged
    <3>3. CASE c.op = "ATTACH"
      <4>1. v = Attach(u, p, c.arg) BY <2>4, <3>1, <3>3 DEF translate_ptrace_exit
      <4>2. c.arg \in P BY <1>7, <3>3, CallArg
      <4> QED BY <1>4, <4>1, <4>2, AttachStaged
    <3>4. CASE c.op \notin {"TRACEME", "ATTACH"}
      <4>1. v = Resume(u, p, c.op, c.arg) BY <2>4, <3>1, <3>4 DEF translate_ptrace_exit
      <4>2. c.op \in {"CONT", "SYSCALL", "DETACH"} /\ c.arg \in P
        BY <1>7, <2>4, <3>4, CallArg DEF IsWait
      <4> QED BY <1>4, <1>5, <1>6, <4>1, <4>2, ResumeStaged
    <3> QED BY <3>2, <3>3, <3>4
  <2> QED BY <1>3, <2>1, <2>2, <2>3, <2>4
<1> QED BY <1>2, <1>4, <1>8 DEF Staged, v

\* The end of a process is noted.
LEMMA TerminateSteady ==
  ASSUME NEW p \in P, NEW w, Steady(w, {p}), w.k[p].st = "gone"
  PROVE  LET v == [w EXCEPT !.t[p].terminated = TRUE]
         IN  /\ Steady(v, {p}) /\ v.k = w.k /\ v.t[p].terminated
             /\ v.t[p].as_ptracee = w.t[p].as_ptracee /\ Others(w, v, {p})
             /\ v.t[p].wait_pid = w.t[p].wait_pid
<1> DEFINE r == [w.t[p] EXCEPT !.terminated = TRUE]
           v == Put(w, p, w.k[p], r)
<1>1. w \in Worlds BY DEF Steady
<1>2. [w EXCEPT !.t[p].terminated = TRUE] = v BY <1>1 DEF Put, Worlds
<1>3. w.k[p] \in Processes /\ w.t[p] \in TraceeType BY <1>1, Parts
<1>4. /\ r \in TraceeType /\ r.terminated /\ r.as_ptracee = w.t[p].as_ptracee
      /\ r.listed = w.t[p].listed /\ r.running = w.t[p].running
      /\ r.wait_pid = w.t[p].wait_pid /\ r.zombies = w.t[p].zombies
      /\ r.nb_ptracees = w.t[p].nb_ptracees
  BY <1>3 DEF TraceeType
<1> HIDE DEF r
<1>5. /\ v \in Worlds /\ v.k[p] = w.k[p] /\ \A o \in P \ {p} : v.k[o] = w.k[o]
      /\ v.t[p] = r /\ \A o \in P \ {p} : v.t[o] = w.t[o]
  BY <1>1, <1>3, <1>4, PutWorld
<1> HIDE DEF v
<1>6. v.k = w.k /\ Others(w, v, {p}) BY <1>1, <1>5 DEF Worlds, Others
<1>7. Moves({p}, p, w.k[p], w.t[p], v.k[p], v.t[p])
  <2>1. Moves({p}, p, w.k[p], w.t[p], w.k[p], w.t[p]) BY MovesNot
  <2> QED BY <1>4, <1>5, <2>1 DEF Moves, Local, Halted, WaiterHeld, InHand, Killed
<1>8. ~Alive(v) BY <1>6 DEF Alive, Killed
<1>9. Steady(v, {p}) BY <1>5, <1>6, <1>7, <1>8, SteadyOne
<1> QED BY <1>2, <1>4, <1>5, <1>6, <1>9

\* The event of the process in hand, as the loop handles it.
Handled(w, v, p) ==
    /\ Steady(v, {p}) /\ (Alive(v) => Alive(w))
    /\ v.k[p].st = w.k[p].st /\ v.k[p].ev = w.k[p].ev
    /\ Alive(v) => Ready(v.k[p], v.t[p])
    /\ ~v.t[p].as_ptracee.proot
    /\ w.t[p].wait_pid = None => (v.t[p].wait_pid # None => v.t[p].status = "enter")

\* event.c, handle_tracee_event().
LEMMA HandledSteady ==
  ASSUME IsFiniteSet(P), NEW p \in P, NEW w, Steady(w, {p}), Sound(w),
         NEW ev \in Events \ {"DIED"}, ev = w.k[p].ev,
         w.t[p].wait_pid # None => w.t[p].status = "enter",
         Alive(w) => (w.t[p].status = "exit" <=> ev = "LEAVE")
  PROVE  Handled(w, handle_tracee_event(w, p, ev), p)
<1> DEFINE u == [w EXCEPT !.t[p].as_ptracee.proot = FALSE]
           v == handle_tracee_event(w, p, ev)
<1>1. w \in Worlds BY DEF Steady
<1>2. /\ CoreOf(w, u, p) /\ u.t[p].status = w.t[p].status
      /\ ~u.t[p].as_ptracee.proot
  BY <1>1, ProotCore
<1>3. Quiets(w, u)
  <2> DEFINE e == [w.t[p].as_ptracee EXCEPT !.proot = FALSE]
  <2>1. w.t[p].as_ptracee \in Ptracees BY <1>1, Parts
  <2>2. e \in Ptracees /\ e.ptracer = w.t[p].as_ptracee.ptracer BY <2>1 DEF Ptracees
  <2>3. u = SetPtracee(w, p, e) BY <1>1 DEF SetPtracee, Put, Worlds
  <2> HIDE DEF e, u
  <2> QED BY <1>1, <2>2, <2>3, PtraceeQuiet
<1>4. CASE ev \in SyscallStops /\ w.t[p].status = "exit"
  <2>1. v = HandleLeave(u, p)
    <3> HIDE DEF u
    <3> QED BY <1>4 DEF handle_tracee_event, u
  <2> HIDE DEF u, v
  <2>2. Steady(u, {p}) /\ (Alive(u) <=> Alive(w)) BY <1>2, SteadyCore
  <2>3. Sound(u) BY <1>3, QuietKeeps DEF Keeps
  <2>4. u.t[p].wait_pid = None /\ u.k[p].ev = ev /\ u.k[p].st = w.k[p].st
    BY <1>2, <1>4 DEF CoreOf, Core
  <2>5. Alive(u) => u.k[p].ev = "LEAVE" BY <1>4, <2>2, <2>4
  <2>6. /\ Steady(v, {p}) /\ v.k[p] = u.k[p]
        /\ Alive(v) => Alive(u)
        /\ Alive(v) \/ v.t[p].wait_pid # None => v.t[p].status = "enter"
        /\ ~v.t[p].as_ptracee.proot
    BY <1>2, <2>1, <2>2, <2>3, <2>4, <2>5, LeaveStaged
  <2> QED BY <2>2, <2>4, <2>5, <2>6 DEF Handled, Ready, v
<1>5. CASE ~(ev \in SyscallStops /\ w.t[p].status = "exit")
  <2>1. v = HandleHeldEvent(w, p, ev) BY <1>5 DEF handle_tracee_event
  <2> HIDE DEF u, v
  <2>2. /\ CoreOf(w, v, p) /\ ~v.t[p].as_ptracee.proot
        /\ v.t[p].status = IF ev \in SyscallStops THEN "exit" ELSE w.t[p].status
    BY <1>1, <2>1, HeldCore
  <2>3. Steady(v, {p}) /\ (Alive(v) <=> Alive(w)) BY <2>2, SteadyCore
  <2>4. /\ v.k[p].st = w.k[p].st /\ v.k[p].ev = w.k[p].ev
        /\ v.t[p].wait_pid = w.t[p].wait_pid
    BY <2>2 DEF CoreOf, Core
  <2>5. w.t[p].status \in {"enter", "exit"}
    <3>1. w.t[p] \in TraceeType BY <1>1, Parts
    <3> QED BY <3>1 DEF TraceeType
  <2>6. Alive(v) => Ready(v.k[p], v.t[p])
    BY <1>5, <2>2, <2>3, <2>4, <2>5 DEF Ready, SyscallStops
  <2> QED BY <2>2, <2>3, <2>4, <2>6 DEF Handled, v
<1> QED BY <1>4, <1>5

\* What is left of the offer of an event of p to its ptracer m: who has not taken it does not
\* wait for it.
Offered(w, v, m, p) ==
    /\ Steady(v, {p}) /\ v.k[p] = w.k[p] /\ (Alive(v) => Alive(w))
    /\ v.t[p].status = w.t[p].status /\ v.t[p].wait_pid = w.t[p].wait_pid
    /\ v.t[p].as_ptracee.proot = w.t[p].as_ptracee.proot
    /\ v.t[p].as_ptracee.pval = w.t[p].as_ptracee.pval
    /\ w.t[p].as_ptracee.tval # "DIED" => v.t[p].as_ptracee.ptracer = m
    /\ \A o \in P : Exposed(v.t[p], o) /\ v.t[o].wait_pid # None
                      => ~Expects(v.t[o].wait_pid, p)

\* The waiter m is in hand too when it is woken.
LEMMA WakeSteady ==
  ASSUME NEW p \in P, NEW m \in P, p # m, NEW w, Steady(w, {p, m}),
         w.t[p].as_ptracee.ptracer = m, w.t[m].nb_ptracees # 0,
         Alive(w) => w.t[p].as_ptracee.tval # "DIED"
  PROVE  LET v == [update_wait_status(w, m, p) EXCEPT !.t[m].wait_pid = None]
         IN  /\ Steady(v, {p, m}) /\ v.k = w.k /\ Told(w.t[p], v.t[p])
             /\ v.t[m].wait_pid = None /\ v.t[m].terminated = w.t[m].terminated
             /\ v.t[m].as_ptracee = w.t[m].as_ptracee
             /\ w.t[p].as_ptracee.tval # "DIED" =>
                  /\ v.t[p].as_ptracee.ptracer = m /\ v.t[m].status = w.t[m].status
<1> DEFINE u == update_wait_status(w, m, p)
           r == [u.t[m] EXCEPT !.wait_pid = None]
           v == Put(u, m, u.k[m], r)
<1>1. w \in Worlds BY DEF Steady
<1>2. /\ u \in Worlds /\ u.k = w.k /\ Others(w, u, {m, p})
      /\ Told(w.t[p], u.t[p]) /\ Asked(w.t[m], u.t[m])
      /\ w.t[p].as_ptracee.tval # "DIED" =>
           u.t[m] = w.t[m] /\ u.t[p].as_ptracee.ptracer = m
  BY <1>1, UpdateFields
<1> HIDE DEF u
<1>3. [u EXCEPT !.t[m].wait_pid = None] = v BY <1>2 DEF Put, Worlds
<1>4. u.k[m] \in Processes /\ u.t[m] \in TraceeType BY <1>2, Parts
<1>5. /\ r \in TraceeType /\ r.wait_pid = None
      /\ r.listed = u.t[m].listed /\ r.terminated = u.t[m].terminated
      /\ r.running = u.t[m].running /\ r.zombies = u.t[m].zombies
      /\ r.as_ptracee = u.t[m].as_ptracee /\ r.status = u.t[m].status
      /\ r.chain = u.t[m].chain
  BY <1>4 DEF TraceeType
<1> HIDE DEF r
<1>6. /\ v \in Worlds /\ v.k[m] = u.k[m] /\ \A o \in P \ {m} : v.k[o] = u.k[o]
      /\ v.t[m] = r /\ \A o \in P \ {m} : v.t[o] = u.t[o]
  BY <1>2, <1>4, <1>5, PutWorld
<1> HIDE DEF v
<1>7. v.k = w.k BY <1>2, <1>6 DEF Worlds
<1>8. v.t[p] = u.t[p] /\ Others(w, v, {p, m}) BY <1>2, <1>6 DEF Others
<1>9. Moves({p, m}, p, w.k[p], w.t[p], v.k[p], v.t[p])
  <2>1. Moves({p, m}, p, w.k[p], w.t[p], w.k[p], w.t[p]) BY MovesNot
  <2>2. Local({p, m}, p, v.k[p], v.t[p])
    BY <1>2, <1>7, <1>8, <2>1 DEF Moves, Told, Local, Halted, WaiterHeld, InHand
  <2> QED BY <1>2, <1>7, <1>8, <2>1, <2>2 DEF Moves, Told
<1>10. Moves({p, m}, m, w.k[m], w.t[m], v.k[m], v.t[m])
  <2>1. Moves({p, m}, m, w.k[m], w.t[m], w.k[m], w.t[m]) BY MovesNot
  <2>2. Local({p, m}, m, v.k[m], v.t[m])
    BY <1>2, <1>5, <1>6, <1>7, <2>1 DEF Moves, Asked, Local, Halted, WaiterHeld, InHand
  <2> QED BY <1>5, <1>6, <1>7, <2>2 DEF Moves
<1>11. ASSUME Alive(v)
       PROVE  InPhase({p, m}, p, v.k[p], v.t[p]) /\ InPhase({p, m}, m, v.k[m], v.t[m])
  <2>1. Alive(w) BY <1>7, <1>11 DEF Alive
  <2>2. InPhase({p, m}, p, w.k[p], w.t[p]) /\ InPhase({p, m}, m, w.k[m], w.t[m])
    BY <2>1, MovesNot
  <2>3. u.t[m] = w.t[m] BY <1>2, <2>1
  <2>4. InPhase({p, m}, p, v.k[p], v.t[p])
    BY <1>2, <1>7, <1>8, <2>2 DEF InPhase, Plain, Told
  <2>5. InPhase({p, m}, m, v.k[m], v.t[m])
    BY <1>5, <1>6, <2>2, <2>3 DEF InPhase, Plain
  <2> QED BY <2>4, <2>5
<1>12. Steady(v, {p, m}) BY <1>6, <1>8, <1>9, <1>10, <1>11, SteadyTwo
<1> QED BY <1>2, <1>3, <1>5, <1>6, <1>7, <1>8, <1>12 DEF Asked, u

\* wait.c, handle_ptracee_event(): the event is offered.
LEMMA OfferSteady ==
  ASSUME IsFiniteSet(P), NEW p \in P, NEW m \in P, NEW w, Steady(w, {p}), Sound(w),
         w.t[p].listed, w.t[p].as_ptracee.ptracer = m,
         Alive(w) => w.t[p].as_ptracee.tval # "DIED"
  PROVE  LET o == OfferEvent(w, m, p)
         IN  Offered(w, o.w, m, p) /\ (Alive(w) /\ o.offered => o.taken)
<1> DEFINE o == OfferEvent(w, m, p)
           u == [update_wait_status(w, m, p) EXCEPT !.t[m].wait_pid = None]
           v == restart_tracee(u, m)
<1>1. CASE ~Awaits(w, m, p)
  <2>1. o.w = w /\ ~o.offered BY <1>1 DEF OfferEvent
  <2>2. \A r \in P : Exposed(w.t[p], r) /\ w.t[r].wait_pid # None
                       => ~Expects(w.t[r].wait_pid, p)
    BY <1>1 DEF Exposed, Awaits
  <2> HIDE DEF o
  <2> QED BY <2>1, <2>2 DEF Offered, o
<1>2. CASE Awaits(w, m, p)
  <2>1. o.w = v /\ o.taken = Restartable(u, m) BY <1>2, Zenon DEF OfferEvent
  <2>2. w.t[m].wait_pid # None BY <1>2 DEF Awaits
  <2>3. p # m /\ w.t[m].listed /\ w.t[m].nb_ptracees # 0 BY CountedByPtracer
  <2>4. Local({p}, m, w.k[m], w.t[m]) /\ (Alive(w) => InPhase({p}, m, w.k[m], w.t[m]))
    BY MovesNot
  <2>5. ~w.t[m].terminated /\ w.k[m].st \in {"stop", "dead"} /\ InHand(w.k[m], w.t[m])
        /\ (~Killed(w.k[m]) => w.k[m].st = "stop")
    BY <2>2, <2>3, <2>4 DEF Local, WaiterHeld, Reaped, InHand, Killed
  <2>6. Steady(w, {p, m})
    <3>1. {p} # {} /\ {p} \cup {m} = {p, m} OBVIOUS
    <3>2. Steady(w, {p} \cup {m}) BY <2>5, <3>1, Take
    <3> QED BY <3>1, <3>2
  <2>7. /\ Steady(u, {p, m}) /\ u.k = w.k /\ Told(w.t[p], u.t[p])
        /\ u.t[m].wait_pid = None /\ u.t[m].terminated = w.t[m].terminated
        /\ u.t[m].as_ptracee = w.t[m].as_ptracee
        /\ w.t[p].as_ptracee.tval # "DIED" =>
             /\ u.t[p].as_ptracee.ptracer = m /\ u.t[m].status = w.t[m].status
    BY <2>3, <2>6, WakeSteady
  <2> HIDE DEF u, o
  <2>8. Alive(u) <=> Alive(w) BY <2>7 DEF Alive
  <2>9. Alive(w) => /\ w.t[m].status = "enter" /\ ~HoldsCall(w.t[m])
                    /\ w.k[m].ev = "LEAVE" /\ w.k[m].st = "stop"
    <3> SUFFICES ASSUME Alive(w)
                 PROVE  /\ w.t[m].status = "enter" /\ ~HoldsCall(w.t[m])
                        /\ w.k[m].ev = "LEAVE" /\ w.k[m].st = "stop"
      OBVIOUS
    <3>1. ~Killed(w.k[m]) BY DEF Alive
    <3>2. Phased(w.k[m], w.t[m]) /\ w.k[m].ev = "LEAVE" BY <2>2, <2>3, <2>4 DEF InPhase
    <3>3. w.k[m].st = "stop" /\ w.k[m].reported BY <2>5, <3>1 DEF InHand
    <3> QED BY <3>2, <3>3 DEF Phased
  <2>10. Alive(u) => Ready(u.k[m], u.t[m]) /\ ~HoldsCall(u.t[m])
    BY <2>7, <2>8, <2>9 DEF Ready, HoldsCall
  <2>11. ~u.t[m].terminated /\ u.k[m].st # "gone" BY <2>5, <2>7
  <2>12. Steady(v, {p, m} \ {m}) /\ Others(u, v, {m}) /\ (Alive(v) => Alive(u))
    <3>1. Steady(u, {p, m}) /\ m \in {p, m} BY <2>7
    <3> QED BY <2>10, <2>11, <3>1, LetGo
  <2> HIDE DEF v
  <2>13. {p, m} \ {m} = {p} BY <2>3
  <2>14. v.k[p] = w.k[p] /\ v.t[p] = u.t[p] BY <2>3, <2>7, <2>12 DEF Others
  <2>15. \A r \in P : ~Exposed(v.t[p], r) BY <2>7, <2>14 DEF Told
  <2>16. Offered(w, v, m, p)
    BY <2>7, <2>8, <2>12, <2>13, <2>14, <2>15 DEF Offered, Told
  <2>17. Alive(w) => Restartable(u, m) BY <2>7, <2>9, <2>11 DEF Restartable
  <2> QED BY <2>1, <2>16, <2>17 DEF o
<1> QED BY <1>1, <1>2

\* The as_ptracee part of a Tracee is replaced.
LEMMA SetPtraceeFields ==
  ASSUME NEW w \in Worlds, NEW p \in P, NEW e \in Ptracees,
         e.ptracer = w.t[p].as_ptracee.ptracer
  PROVE  LET v == SetPtracee(w, p, e)
         IN  /\ v \in Worlds /\ v.k = w.k /\ Others(w, v, {p}) /\ Quiets(w, v)
             /\ Beside(w.t[p], v.t[p]) /\ v.t[p].nb_ptracees = w.t[p].nb_ptracees
             /\ v.t[p].as_ptracee = e
             /\ (e.ptr = w.t[p].as_ptracee.ptr /\ e.tval = w.t[p].as_ptracee.tval)
                  => CoreOf(w, v, p)
<1> DEFINE r == [w.t[p] EXCEPT !.as_ptracee = e]
           v == SetPtracee(w, p, e)
<1>1. w.k[p] \in Processes /\ w.t[p] \in TraceeType BY Parts
<1>2. /\ r \in TraceeType /\ Beside(w.t[p], r) /\ r.as_ptracee = e
      /\ r.nb_ptracees = w.t[p].nb_ptracees
  <2>1. r \in TraceeType BY <1>1, PutTracee
  <2> QED BY <1>1, <2>1 DEF TraceeType, Beside
<1>3. Quiets(w, v) BY PtraceeQuiet
<1>4. v = Put(w, p, w.k[p], r) BY DEF SetPtracee
<1> HIDE DEF r, v
<1>5. /\ v \in Worlds /\ v.k[p] = w.k[p] /\ \A q \in P \ {p} : v.k[q] = w.k[q]
      /\ v.t[p] = r /\ \A q \in P \ {p} : v.t[q] = w.t[q]
  BY <1>1, <1>2, <1>4, PutWorld
<1>6. v.k = w.k /\ Others(w, v, {p}) BY <1>5 DEF Worlds, Others
<1>7. (e.ptr = w.t[p].as_ptracee.ptr /\ e.tval = w.t[p].as_ptracee.tval)
        => Core(w.k[p], w.t[p], v.k[p], v.t[p])
  BY <1>2, <1>5 DEF Core, Beside
<1> QED BY <1>2, <1>3, <1>5, <1>6, <1>7 DEF CoreOf, v

\* wait.c, the event of p is marked for its ptracer.
Marks(e, e0, ev) ==
    /\ e \in Ptracees /\ e.ptracer = e0.ptracer /\ e.tval = ev
    /\ e.proot = e0.proot /\ e.pval = e0.pval

LEMMA MarkSteady ==
  ASSUME NEW p \in P, NEW w, Steady(w, {p}), NEW ev, w.k[p].ev = ev,
         NEW e, Marks(e, w.t[p].as_ptracee, ev)
  PROVE  LET v == SetPtracee(w, p, e)
         IN  /\ Steady(v, {p}) /\ v.k = w.k /\ Quiets(w, v)
             /\ v.t[p].status = w.t[p].status /\ v.t[p].wait_pid = w.t[p].wait_pid
             /\ v.t[p].as_ptracee = e
             /\ Alive(v) => ev # "DIED"
<1> DEFINE v == SetPtracee(w, p, e)
<1>1. w \in Worlds BY DEF Steady
<1>2. e \in Ptracees /\ e.ptracer = w.t[p].as_ptracee.ptracer /\ e.tval = ev BY DEF Marks
<1>3. /\ v \in Worlds /\ v.k = w.k /\ Others(w, v, {p}) /\ Quiets(w, v)
      /\ Beside(w.t[p], v.t[p]) /\ v.t[p].nb_ptracees = w.t[p].nb_ptracees
      /\ v.t[p].as_ptracee = e
  BY <1>1, <1>2, SetPtraceeFields
<1> HIDE DEF v
<1>4. Moves({p}, p, w.k[p], w.t[p], w.k[p], w.t[p]) /\ Local({p}, p, w.k[p], w.t[p])
      /\ (Alive(w) => InPhase({p}, p, w.k[p], w.t[p]))
  BY MovesNot
<1>5. Moves({p}, p, w.k[p], w.t[p], v.k[p], v.t[p])
  BY <1>3, <1>4 DEF Moves, Beside, Local, Halted, WaiterHeld, InHand
<1>6. Alive(v) => ev # "DIED" BY <1>3, <1>4 DEF Alive, Local, Halted
<1>7. Alive(v) => InPhase({p}, p, v.k[p], v.t[p])
  <2>1. Alive(v) => Alive(w) BY <1>3 DEF Alive
  <2> QED BY <1>2, <1>3, <1>4, <1>6, <2>1 DEF InPhase, Plain, Beside
<1>8. Steady(v, {p}) BY <1>3, <1>5, <1>7, SteadyOne
<1> QED BY <1>3, <1>6, <1>8 DEF Beside, v

\* No ptracer waits for the event of p any more.
Unawaited(v, p) ==
    \A o \in P : Exposed(v.t[p], o) /\ v.t[o].wait_pid # None
                   => ~Expects(v.t[o].wait_pid, p)

\* The process p in hand with its event ev, which is to be handled, and which is kept for
\* the ptracer.
ToHandle(v, p, ev) ==
    /\ v.t[p].wait_pid # None => v.t[p].status = "enter"
    /\ Alive(v) => (v.t[p].status = "exit" <=> ev = "LEAVE")
Keepable(v, p, ev) ==
    Alive(v) => /\ v.t[p].status = "enter" /\ (HoldsCall(v.t[p]) <=> ev = "ENTER")
                /\ v.t[p].as_ptracee.ptracer # None

\* p in hand, before its event was offered.
Arrived(w, p, ev) ==
    /\ Steady(w, {p}) /\ Sound(w) /\ w.t[p].listed
    /\ ev \in Events /\ ev = w.k[p].ev /\ (ev = "DIED" => w.k[p].st = "gone")
    /\ w.t[p].wait_pid # None => ev = "DIED"
    /\ Alive(w) => (w.t[p].status = "exit" <=> ev = "LEAVE")

\* The event is not the ptracer's, or is about to be: it is noted.
LEMMA NoteSteady ==
  ASSUME NEW p \in P, NEW ev, NEW w, Arrived(w, p, ev),
         NEW e \in Ptracees, e.ptracer = w.t[p].as_ptracee.ptracer,
         e.ptr = w.t[p].as_ptracee.ptr, e.tval = w.t[p].as_ptracee.tval
  PROVE  LET v == SetPtracee(w, p, e)
         IN  /\ Arrived(v, p, ev) /\ (Alive(v) => Alive(w))
             /\ v.k = w.k /\ v.t[p].as_ptracee = e /\ v.t[p].status = w.t[p].status
<1> DEFINE v == SetPtracee(w, p, e)
<1>1. w \in Worlds BY DEF Arrived, Steady
<1>3. /\ v.k = w.k /\ Quiets(w, v)
      /\ Beside(w.t[p], v.t[p]) /\ v.t[p].as_ptracee = e /\ CoreOf(w, v, p)
  BY <1>1, SetPtraceeFields
<1> HIDE DEF v
<1>4. Steady(v, {p}) /\ (Alive(v) <=> Alive(w)) BY <1>3, SteadyCore DEF Arrived
<1>5. Sound(v) BY <1>3, QuietKeeps DEF Keeps, Arrived
<1>6. Arrived(v, p, ev) BY <1>3, <1>4, <1>5 DEF Arrived, Beside
<1> QED BY <1>3, <1>4, <1>6 DEF Beside, v

\* wait.c, the event of a ptracee that returns from a system call: PRoot has handled it, or
\* it is another one.
Prepared(w, v, p, m, ev) ==
    /\ Steady(v, {p}) /\ Sound(v) /\ (Alive(v) => Alive(w))
    /\ v.t[p].listed /\ v.t[p].as_ptracee.ptracer = m
    /\ v.k[p].st = w.k[p].st /\ v.k[p].ev = ev
    /\ ev # "DIED" =>
         /\ v.t[p].wait_pid # None => v.t[p].status = "enter"
         /\ Alive(v) => v.t[p].status = "enter" /\ (HoldsCall(v.t[p]) <=> ev = "ENTER")

LEMMA PrepareSteady ==
  ASSUME IsFiniteSet(P), NEW p \in P, NEW ev, NEW m \in P, NEW w, Arrived(w, p, ev),
         w.t[p].as_ptracee.ptracer = m, w.t[p].as_ptracee.proot, w.t[p].as_ptracee.pval = ev
  PROVE  LET u == handle_tracee_event(w, p, ev)
             v == IF ev \in SyscallStops /\ w.t[p].status = "exit"
                    THEN [u EXCEPT !.t[p].as_ptracee.pval = "none"] ELSE w
         IN  Prepared(w, v, p, m, ev)
<1> DEFINE u == handle_tracee_event(w, p, ev)
           v == [u EXCEPT !.t[p].as_ptracee.pval = "none"]
<1>0. w \in Worlds /\ w.t[p].status \in {"enter", "exit"}
  <2>1. w \in Worlds BY DEF Arrived, Steady
  <2>2. w.t[p] \in TraceeType BY <2>1, Parts
  <2> QED BY <2>1, <2>2 DEF TraceeType
<1>1. CASE ev \in SyscallStops /\ w.t[p].status = "exit"
  <2>1. ev \in Events \ {"DIED"} /\ w.t[p].wait_pid = None
    BY <1>1 DEF Arrived, SyscallStops
  <2>2. Handled(w, u, p)
    BY <2>1, HandledSteady DEF Arrived
  <2>3. Handles(w, u, p) BY <2>1, EventHandled DEF Arrived
  <2> HIDE DEF u
  <2>4. /\ Sound(u) /\ u.t[p].listed /\ u.t[p].as_ptracee.ptracer = m
    BY <2>3, NoneAssumption DEF Handles, Lists, Arrived
  <2>5. Steady(u, {p}) /\ u \in Worlds BY <2>2 DEF Handled, Steady
  <2> DEFINE e == [u.t[p].as_ptracee EXCEPT !.pval = "none"]
  <2>6. u.t[p].as_ptracee \in Ptracees BY <2>5, Parts
  <2>7. /\ e \in Ptracees /\ e.ptracer = u.t[p].as_ptracee.ptracer /\ e.pval = "none"
        /\ e.ptr = u.t[p].as_ptracee.ptr /\ e.tval = u.t[p].as_ptracee.tval
    BY <2>6 DEF Ptracees, Events
  <2>8. v = SetPtracee(u, p, e) BY <2>5 DEF SetPtracee, Put, Worlds
  <2> HIDE DEF e, v
  <2>9. /\ v.k = u.k /\ Quiets(u, v)
        /\ Beside(u.t[p], v.t[p]) /\ v.t[p].as_ptracee = e /\ CoreOf(u, v, p)
    BY <2>5, <2>7, <2>8, SetPtraceeFields
  <2>10. Steady(v, {p}) /\ (Alive(v) <=> Alive(u)) BY <2>5, <2>9, SteadyCore
  <2>11. Sound(v) BY <2>4, <2>9, QuietKeeps DEF Keeps
  <2>12. ~HoldsCall(v.t[p]) BY <2>7, <2>9 DEF HoldsCall, SyscallStops
  <2>13. Alive(v) => ev = "LEAVE"
    BY <1>1, <2>2, <2>10 DEF Arrived, Handled
  <2>14. Prepared(w, v, p, m, ev)
    BY <2>1, <2>2, <2>4, <2>7, <2>9, <2>10, <2>11, <2>12, <2>13
    DEF Prepared, Handled, Beside, Ready, Arrived
  <2> QED BY <1>1, <2>14 DEF v, u
<1>2. CASE ~(ev \in SyscallStops /\ w.t[p].status = "exit")
  <2>1. HoldsCall(w.t[p]) <=> ev \in SyscallStops BY DEF HoldsCall
  <2>2. Prepared(w, w, p, m, ev)
    <3>1. Alive(w) /\ ev # "DIED" =>
            w.t[p].status = "enter" /\ (HoldsCall(w.t[p]) <=> ev = "ENTER")
      BY <1>0, <1>2, <2>1 DEF Arrived, SyscallStops
    <3> QED BY <3>1 DEF Prepared, Arrived
  <2> QED BY <1>2, <2>2
<1> QED BY <1>1, <1>2

\* The event was offered to the ptracer: h is what is left of it.
Settled(w, h, p, ev) ==
    /\ Steady(h.w, {p}) /\ h.w.k[p].st = w.k[p].st /\ h.w.k[p].ev = ev
    /\ h.keep => ev # "DIED" /\ Unawaited(h.w, p) /\ Keepable(h.w, p, ev)
    /\ ~h.keep /\ ev # "DIED" => ToHandle(h.w, p, ev)
    /\ ev = "DIED" => Unawaited(h.w, p)

\* wait.c, handle_ptracee_event().
LEMMA PtraceeEventSteady ==
  ASSUME IsFiniteSet(P), NEW p \in P, NEW ev, NEW w, Arrived(w, p, ev),
         w.t[p].as_ptracee.ptracer # None
  PROVE  Settled(w, handle_ptracee_event(w, p, ev), p, ev)
<1> DEFINE m  == w.t[p].as_ptracee.ptracer
           b  == w.t[p].as_ptracee.started \/ ev \notin SyscallStops
           e1 == [w.t[p].as_ptracee EXCEPT !.proot = TRUE, !.pval = ev, !.started = b]
           w1 == SetPtracee(w, p, e1)
           u  == handle_tracee_event(w1, p, ev)
           w2 == IF ev \in SyscallStops /\ w.t[p].status = "exit"
                   THEN [u EXCEPT !.t[p].as_ptracee.pval = "none"] ELSE w1
           w3 == SetPtracee(w2, p, [w2.t[p].as_ptracee EXCEPT !.ptr = TRUE, !.tval = ev])
           o  == OfferEvent(w3, m, p)
           h  == handle_ptracee_event(w, p, ev)
<1>1. w \in Worlds /\ w.t[p].as_ptracee \in Ptracees /\ m \in P /\ ev \in Events
  <2>1. w \in Worlds /\ ev \in Events BY DEF Arrived, Sound
  <2> QED BY <2>1, Parts
<1>2. b \in BOOLEAN OBVIOUS
<1>3. [w EXCEPT !.t[p].as_ptracee =
           [@ EXCEPT !.proot = TRUE, !.pval = ev,
                     !.started = w.t[p].as_ptracee.started \/ ev \notin SyscallStops]] = w1
  BY <1>1 DEF SetPtracee, Put, Worlds
<1>4. /\ Arrived(w1, p, ev) /\ (Alive(w1) => Alive(w))
      /\ w1.k = w.k /\ w1.t[p].as_ptracee.proot /\ w1.t[p].as_ptracee.pval = ev
      /\ w1.t[p].as_ptracee.ptracer = m /\ w1.t[p].status = w.t[p].status
  <2> HIDE DEF b
  <2>1. /\ e1.ptracer = m /\ e1 \in Ptracees /\ e1.proot /\ e1.pval = ev
        /\ e1.ptr = w.t[p].as_ptracee.ptr /\ e1.tval = w.t[p].as_ptracee.tval
    BY <1>1, <1>2 DEF Ptracees
  <2> HIDE DEF e1
  <2>2. /\ Arrived(w1, p, ev) /\ (Alive(w1) => Alive(w))
        /\ w1.k = w.k /\ w1.t[p].as_ptracee = e1 /\ w1.t[p].status = w.t[p].status
    BY <2>1, NoteSteady
  <2> QED BY <2>1, <2>2
<1> HIDE DEF b, e1, w1
<1>5. Prepared(w1, w2, p, m, ev) BY <1>1, <1>4, PrepareSteady
<1> HIDE DEF u
<1>6. [w2 EXCEPT !.t[p].as_ptracee = [@ EXCEPT !.ptr = TRUE, !.tval = ev]] = w3
  <2> HIDE DEF w2
  <2>1. w2 \in Worlds BY <1>5 DEF Prepared, Sound
  <2> QED BY <2>1, ZenonT(30) DEF SetPtracee, Put, Worlds
<1> DEFINE early == ev \in SyscallStops /\ (w.t[p].as_ptracee.ignore \/ ~w.t[p].as_ptracee.started)
<1>7. /\ early => h.w = w1 /\ ~h.keep
      /\ ~early => h.w = o.w /\ (h.keep <=> ev # "DIED" /\ (o.offered => o.taken))
  BY <1>3, <1>6, ZenonT(60) DEF handle_ptracee_event, u
<1> HIDE DEF h, w2, w3
<1>8. CASE early
  <2>1. ev # "DIED" BY <1>8 DEF SyscallStops
  <2> QED BY <1>4, <1>7, <1>8, <2>1 DEF Arrived, ToHandle, Settled, h
<1> HIDE DEF early
<1>9. CASE ~early
  <2>1. /\ Steady(w3, {p}) /\ w3.k = w2.k /\ Quiets(w2, w3)
        /\ w3.t[p].status = w2.t[p].status /\ w3.t[p].wait_pid = w2.t[p].wait_pid
        /\ w3.t[p].as_ptracee.tval = ev
        /\ w3.t[p].as_ptracee.proot = w2.t[p].as_ptracee.proot
        /\ w3.t[p].as_ptracee.pval = w2.t[p].as_ptracee.pval
        /\ Alive(w3) => ev # "DIED"
    <3> DEFINE e3 == [w2.t[p].as_ptracee EXCEPT !.ptr = TRUE, !.tval = ev]
    <3>1. w2.t[p].as_ptracee \in Ptracees BY <1>5, Parts DEF Prepared, Sound
    <3>2. Marks(e3, w2.t[p].as_ptracee, ev) BY <1>1, <3>1 DEF Ptracees, Marks
    <3> HIDE DEF e3
    <3>3. w3 = SetPtracee(w2, p, e3) BY DEF w3, e3
    <3>4. Steady(w2, {p}) /\ w2.k[p].ev = ev BY <1>5 DEF Prepared
    <3>5. /\ Steady(SetPtracee(w2, p, e3), {p}) /\ SetPtracee(w2, p, e3).k = w2.k
          /\ Quiets(w2, SetPtracee(w2, p, e3))
          /\ SetPtracee(w2, p, e3).t[p].status = w2.t[p].status
          /\ SetPtracee(w2, p, e3).t[p].wait_pid = w2.t[p].wait_pid
          /\ SetPtracee(w2, p, e3).t[p].as_ptracee = e3
          /\ Alive(SetPtracee(w2, p, e3)) => ev # "DIED"
      BY <3>2, <3>4, MarkSteady
    <3>6. e3.tval = ev /\ e3.proot = w2.t[p].as_ptracee.proot
          /\ e3.pval = w2.t[p].as_ptracee.pval
      BY <3>2 DEF Marks
    <3> QED BY <3>3, <3>5, <3>6
  <2>2. Keeps(w2, w3, p) BY <1>5, <2>1, QuietKeeps DEF Prepared
  <2>3. Sound(w3) /\ w3.t[p].listed /\ w3.t[p].as_ptracee.ptracer = m
    BY <1>5, <2>2 DEF Prepared, Keeps, Lists
  <2>4. Alive(w3) <=> Alive(w2) BY <2>1 DEF Alive
  <2>5. Offered(w3, o.w, m, p) /\ (Alive(w3) /\ o.offered => o.taken)
    BY <1>1, <2>1, <2>3, OfferSteady
  <2> HIDE DEF o
  <2>6. o.w.k[p].st = w.k[p].st /\ o.w.k[p].ev = ev
    BY <1>4, <1>5, <2>1, <2>5 DEF Prepared, Offered
  <2>7. Unawaited(o.w, p) BY <2>5 DEF Offered, Unawaited
  <2>8. ASSUME ev # "DIED", Alive(o.w)
        PROVE  /\ o.w.t[p].status = "enter" /\ (HoldsCall(o.w.t[p]) <=> ev = "ENTER")
               /\ o.w.t[p].as_ptracee.ptracer # None /\ (o.offered => o.taken)
    <3>1. Alive(w3) /\ Alive(w2) BY <2>4, <2>5, <2>8 DEF Offered
    <3>2. w2.t[p].status = "enter" /\ (HoldsCall(w2.t[p]) <=> ev = "ENTER")
      BY <1>5, <2>8, <3>1 DEF Prepared
    <3>3. o.w.t[p].status = "enter" /\ (HoldsCall(o.w.t[p]) <=> ev = "ENTER")
      BY <2>1, <2>5, <3>2 DEF Offered, HoldsCall
    <3>4. o.w.t[p].as_ptracee.ptracer = m BY <2>1, <2>5, <2>8 DEF Offered
    <3> QED BY <1>1, <2>5, <3>1, <3>3, <3>4, NoneAssumption
  <2>9. ASSUME ev # "DIED"
        PROVE  o.w.t[p].wait_pid # None => o.w.t[p].status = "enter"
    BY <1>5, <2>1, <2>5, <2>9 DEF Prepared, Offered
  <2>10. Steady(o.w, {p}) BY <2>5 DEF Offered
  <2>11. h.keep => Keepable(h.w, p, ev) BY <1>7, <1>9, <2>8 DEF Keepable
  <2>12. ~h.keep /\ ev # "DIED" => ToHandle(h.w, p, ev)
    BY <1>7, <1>9, <2>8, <2>9 DEF ToHandle
  <2> QED BY <1>7, <1>9, <2>6, <2>7, <2>10, <2>11, <2>12 DEF Settled, h
<1> QED BY <1>8, <1>9

\* event.c: waitpid() returns p.
LEMMA SeizeSteady ==
  ASSUME NEW p \in P, NEW w, Sound(w), Steady(w, {}), w.k[p].st \in {"stop", "dead"},
         ~w.k[p].reported, \A q \in P : w.t[q].listed => ~w.t[q].terminated,
         NEW x \in Processes, x.ev = w.k[p].ev, x.reported,
         x.st = IF w.k[p].st = "dead" THEN "gone" ELSE w.k[p].st,
         NEW r \in TraceeType, Beside([w.t[p] EXCEPT !.running = FALSE], r),
         r.nb_ptracees = w.t[p].nb_ptracees, r.as_ptracee = w.t[p].as_ptracee,
         r.parent = w.t[p].parent
  PROVE  LET v == Put(w, p, x, r)
         IN  /\ Arrived(v, p, w.k[p].ev)
             /\ v.t[p].as_ptracee.ptracer = w.t[p].as_ptracee.ptracer
<1> DEFINE u == Put(w, p, x, w.t[p])
           v == Put(w, p, x, r)
<1>1. w \in Worlds /\ w.t[p] \in TraceeType /\ w.k[p] \in Processes
  <2>1. w \in Worlds BY DEF Sound
  <2> QED BY <2>1, Parts
<1>2. /\ r.listed = w.t[p].listed /\ r.terminated = w.t[p].terminated /\ ~r.running
      /\ r.wait_pid = w.t[p].wait_pid /\ r.zombies = w.t[p].zombies
      /\ r.status = w.t[p].status /\ r.chain = w.t[p].chain
  BY <1>1 DEF Beside, TraceeType
<1>3. /\ v \in Worlds /\ v.k[p] = x /\ \A q \in P \ {p} : v.k[q] = w.k[q]
      /\ v.t[p] = r /\ \A q \in P \ {p} : v.t[q] = w.t[q]
  BY <1>1, PutWorld
<1>4. /\ w.t[p].listed /\ ~w.t[p].terminated
      /\ w.k[p].ev = "DIED" => w.k[p].st = "dead"
  BY DEF Sound, Ended
<1>5. Sound(v)
  <2>1. Sound(u) /\ u.k[p] = x /\ \A q \in P : u.t[q] = w.t[q]
    BY <1>1, <1>4, ProcessKeeps
  <2>2. SameLinks(u.t[p], r) BY <1>2, <2>1 DEF SameLinks
  <2>3. Quiets(u, Put(u, p, u.k[p], r))
    BY <2>1, <2>2, TraceeQuiet DEF Sound
  <2>4. Put(u, p, u.k[p], r) = v
    <3>1. Put(u, p, x, r) = v BY ONLY <1>1, PutAgain
    <3> QED BY ONLY <2>1, <3>1
  <2> HIDE DEF u, v
  <2> QED BY <2>1, <2>3, <2>4, QuietKeeps DEF Keeps
<1> HIDE DEF u, v
<1>6. \A o \in P : Local({}, o, w.k[o], w.t[o])
      /\ (Alive(w) => InPhase({}, o, w.k[o], w.t[o]))
  BY DEF Steady
<1>7. ASSUME NEW o \in P PROVE Local({p}, o, v.k[o], v.t[o])
  <2>1. CASE o = p
    <3>1. Halted(x, r)
      BY <1>2, <1>6 DEF Local, Halted, Killed
    <3>2. WaiterHeld(x, r) BY <1>2, <1>6 DEF Local, WaiterHeld, Killed
    <3>3. InHand(x, r) BY <1>2, <1>4 DEF InHand, Killed
    <3> QED BY <1>3, <2>1, <3>1, <3>2, <3>3 DEF Local
  <2>2. CASE o # p BY <1>3, <1>6, <2>2 DEF Local
  <2> QED BY <2>1, <2>2
<1>8. ASSUME NEW m \in P PROVE HeardBy(v, m, {p})
  <2>1. HeardBy(w, m, {}) BY DEF Steady
  <2>2. /\ v.t[m].wait_pid = w.t[m].wait_pid /\ v.t[m].nb_ptracees = w.t[m].nb_ptracees
        /\ v.t[m].zombies = w.t[m].zombies
    BY <1>2, <1>3
  <2>3. \A q \in P \ {p} : v.k[q] = w.k[q] /\ v.t[q] = w.t[q] BY <1>3
  <2> QED BY <2>1, <2>2, <2>3 DEF HeardBy
<1>9. Alive(v) => Alive(w)
  <2> SUFFICES ASSUME Alive(v), NEW o \in P PROVE ~Killed(w.k[o]) BY DEF Alive
  <2>1. CASE o = p BY <1>3, <2>1 DEF Alive, Killed
  <2>2. CASE o # p BY <1>3, <2>2 DEF Alive
  <2> QED BY <2>1, <2>2
<1>10. ASSUME Alive(v), NEW o \in P PROVE InPhase({p}, o, v.k[o], v.t[o])
  <2>1. InPhase({}, o, w.k[o], w.t[o]) BY <1>6, <1>9, <1>10
  <2>2. CASE o = p BY <1>2, <1>3, <2>1, <2>2 DEF InPhase, Plain
  <2>3. CASE o # p BY <1>3, <2>1, <2>3 DEF InPhase
  <2> QED BY <2>2, <2>3
<1>11. Steady(v, {p}) BY <1>3, <1>7, <1>8, <1>10 DEF Steady
<1>12. v.t[p].wait_pid # None => w.k[p].ev = "DIED"
  BY <1>2, <1>3, <1>6 DEF Local, WaiterHeld, Halted, Killed
<1>13. Alive(v) => (v.t[p].status = "exit" <=> w.k[p].ev = "LEAVE")
  <2> SUFFICES ASSUME Alive(v) PROVE v.t[p].status = "exit" <=> w.k[p].ev = "LEAVE"
    OBVIOUS
  <2>1. w.k[p].st = "stop" /\ Phased(w.k[p], w.t[p])
    BY <1>6, <1>9 DEF InPhase, Alive, Killed
  <2> QED BY <1>2, <1>3, <2>1 DEF Phased
<1>14. w.k[p].ev \in Events BY <1>1, Parts
<1> QED BY <1>2, <1>3, <1>4, <1>5, <1>11, <1>12, <1>13, <1>14 DEF Arrived, v

\* The event is kept for the ptracer.
LEMMA KeepReleases ==
  ASSUME NEW p \in P, NEW w, Steady(w, {p}), NEW ev, w.k[p].ev = ev, ev # "DIED",
         Unawaited(w, p), Keepable(w, p, ev)
  PROVE  Steady(w, {})
<1>1. w \in Worlds /\ Others(w, w, {p}) /\ {p} \ {p} = {} BY DEF Steady, Others
<1>2. Local({p}, p, w.k[p], w.t[p]) /\ (Alive(w) => InPhase({p}, p, w.k[p], w.t[p]))
  BY MovesNot
<1>3. w.k[p].st = "stop" /\ w.k[p].reported BY <1>2 DEF Local, InHand, Halted
<1>4. Local({}, p, w.k[p], w.t[p]) BY <1>2, <1>3 DEF Local, Reaped
<1>5. Alive(w) => InPhase({}, p, w.k[p], w.t[p])
  BY <1>2, <1>3 DEF InPhase, Phased, Keepable
<1>6. HeardBy(w, p, {p}) BY DEF Steady
<1>7. w.t[p].wait_pid # None => w.t[p].nb_ptracees # 0 BY <1>6 DEF HeardBy
<1>8. \A m \in P : Exposed(w.t[p], m) /\ w.t[m].wait_pid # None
                     => ~Expects(w.t[m].wait_pid, p)
  BY DEF Unawaited
<1>9. Steady(w, {p} \ {p}) BY <1>1, <1>4, <1>5, <1>7, <1>8, Release
<1> QED BY <1>1, <1>9

\* The process has ended.
LEMMA EndReleases ==
  ASSUME NEW p \in P, NEW w, Steady(w, {p}), w.k[p].st = "gone", Unawaited(w, p)
  PROVE  Steady(restart_tracee([w EXCEPT !.t[p].terminated = TRUE], p), {})
<1> DEFINE v == [w EXCEPT !.t[p].terminated = TRUE]
<1>1. /\ Steady(v, {p}) /\ v.k = w.k /\ v.t[p].terminated
      /\ v.t[p].as_ptracee = w.t[p].as_ptracee /\ Others(w, v, {p})
      /\ v.t[p].wait_pid = w.t[p].wait_pid
  BY TerminateSteady
<1> HIDE DEF v
<1>2. restart_tracee(v, p) = v BY <1>1 DEF restart_tracee, Restartable
<1>3. v \in Worlds /\ Others(v, v, {p}) /\ {p} \ {p} = {} BY <1>1 DEF Steady, Others
<1>4. Local({p}, p, v.k[p], v.t[p]) /\ Local({p}, p, w.k[p], w.t[p])
  BY <1>1, MovesNot
<1>5. Local({}, p, v.k[p], v.t[p]) BY <1>1, <1>4 DEF Local, Reaped
<1>6. HeardBy(v, p, {p}) BY <1>1 DEF Steady
<1>7. v.t[p].wait_pid # None => v.t[p].nb_ptracees # 0 BY <1>6 DEF HeardBy
<1>8. \A m \in P : Exposed(v.t[p], m) /\ v.t[m].wait_pid # None
                     => ~Expects(v.t[m].wait_pid, p)
  <2> SUFFICES ASSUME NEW m \in P, Exposed(v.t[p], m), v.t[m].wait_pid # None
               PROVE  ~Expects(v.t[m].wait_pid, p)
    OBVIOUS
  <2>1. Exposed(w.t[p], m) BY <1>1, <1>4 DEF Exposed, Local, InHand
  <2>2. v.t[m].wait_pid = w.t[m].wait_pid BY <1>1 DEF Others
  <2> QED BY <2>1, <2>2 DEF Unawaited
<1>9. ~Alive(v) BY <1>1 DEF Alive, Killed
<1>10. Steady(v, {p} \ {p}) BY <1>1, <1>3, <1>5, <1>7, <1>8, <1>9, Release
<1> QED BY <1>2, <1>3, <1>10 DEF v

\* The loop handles an event of p.
LEMMA EventSteady ==
  ASSUME IsFiniteSet(P), Sound(W), Steady(W, {}), NEW p \in P, Event(p)
  PROVE  Steady(W', {})
<1> DEFINE ev == k[p].ev
           s  == IF W.k[p].st = "dead" THEN "gone" ELSE W.k[p].st
           x  == [W.k[p] EXCEPT !.reported = TRUE, !.st = s]
           r  == [W.t[p] EXCEPT !.running = FALSE]
           w0 == Put(W, p, x, r)
           h  == IF t[p].as_ptracee.ptracer = None THEN [w |-> w0, keep |-> FALSE]
                 ELSE handle_ptracee_event(w0, p, ev)
           u  == handle_tracee_event(h.w, p, ev)
           v  == restart_tracee(u, p)
<1>1. /\ W \in Worlds /\ W.k = k /\ W.t = t
      /\ k[p] \in Processes /\ t[p] \in TraceeType /\ k[p].st \in States
  <2>1. W \in Worlds /\ W.k = k /\ W.t = t BY DEF Sound, W
  <2> QED BY <2>1, Parts
<1>2. k[p].st \in {"stop", "dead"} /\ ~k[p].reported
      /\ \A q \in P : t[q].listed => ~t[q].terminated
  BY DEF Event
<1>3. /\ x \in Processes /\ x.ev = k[p].ev /\ x.st = s /\ x.reported
  BY <1>1 DEF Processes, States
<1>4. /\ r \in TraceeType /\ Beside(r, r)
      /\ r.nb_ptracees = t[p].nb_ptracees /\ r.as_ptracee = t[p].as_ptracee
      /\ r.parent = t[p].parent
  BY <1>1 DEF TraceeType, Beside
<1>5. [W EXCEPT !.k[p].reported = TRUE, !.k[p].st = IF @ = "dead" THEN "gone" ELSE @,
                !.t[p].running = FALSE] = w0
  BY <1>1, ZenonT(40) DEF Put, Worlds
<1>6. Arrived(w0, p, ev) /\ w0.t[p].as_ptracee.ptracer = t[p].as_ptracee.ptracer
  <2>1. Beside([W.t[p] EXCEPT !.running = FALSE], r) BY <1>4
  <2> HIDE DEF x, r
  <2> QED BY <1>1, <1>2, <1>3, <1>4, <2>1, SeizeSteady
<1> HIDE DEF x, r, s, w0
<1>7. Become(IF h.keep THEN h.w ELSE v)
  BY <1>5 DEF Event
<1>8. /\ Steady(h.w, {p}) /\ h.w.k[p].ev = ev /\ (ev = "DIED" => h.w.k[p].st = "gone")
      /\ h.keep => ev # "DIED" /\ Unawaited(h.w, p) /\ Keepable(h.w, p, ev)
      /\ ~h.keep /\ ev # "DIED" => ToHandle(h.w, p, ev)
      /\ ev = "DIED" => Unawaited(h.w, p)
  <2>1. CASE t[p].as_ptracee.ptracer = None
    <3>1. h.w = w0 /\ ~h.keep BY <2>1
    <3>2. Unawaited(w0, p) BY <1>6, <2>1, NoneAssumption DEF Unawaited, Exposed
    <3> HIDE DEF h, ev
    <3> QED BY <1>6, <3>1, <3>2 DEF Arrived, ToHandle
  <2>2. CASE t[p].as_ptracee.ptracer # None
    <3>1. h = handle_ptracee_event(w0, p, ev) BY <2>2
    <3> HIDE DEF h, ev
    <3>2. w0.t[p].as_ptracee.ptracer # None BY <1>6, <2>2
    <3>3. Settled(w0, handle_ptracee_event(w0, p, ev), p, ev)
      BY <1>6, <3>2, PtraceeEventSteady
    <3> QED BY <1>6, <3>1, <3>3 DEF Arrived, Settled
  <2> QED BY <2>1, <2>2
<1>9. Sound(h.w)
  <2>1. Sound(w0) /\ w0.t[p].listed /\ ev \in Events /\ (ev = "DIED" => w0.k[p].st = "gone")
    BY <1>6 DEF Arrived
  <2>2. CASE t[p].as_ptracee.ptracer = None BY <2>1, <2>2
  <2>3. CASE t[p].as_ptracee.ptracer # None
    <3>1. h = handle_ptracee_event(w0, p, ev) BY <2>3
    <3> HIDE DEF h, ev
    <3> QED BY <1>6, <2>1, <2>3, <3>1, PtraceeEventHandled
  <2> QED BY <2>2, <2>3
<1>10. ev \in Events BY <1>6 DEF Arrived
<1> HIDE DEF h, ev
<1>11. CASE h.keep
  <2>1. Steady(h.w, {}) BY <1>8, <1>11, KeepReleases
  <2>2. Become(h.w) BY <1>7, <1>11
  <2> QED BY <2>1, <2>2, WorldIs DEF Steady
<1>12. CASE ~h.keep /\ ev = "DIED"
  <2>1. u = [h.w EXCEPT !.t[p].terminated = TRUE] BY <1>12 DEF handle_tracee_event
  <2>2. Steady(v, {}) BY <1>8, <1>12, <2>1, EndReleases
  <2>3. Become(v) BY <1>7, <1>12
  <2> HIDE DEF v
  <2> QED BY <2>2, <2>3, WorldIs DEF Steady
<1>13. CASE ~h.keep /\ ev # "DIED"
  <2>1. ev \in Events \ {"DIED"} /\ Steady(h.w, {p}) /\ ToHandle(h.w, p, ev)
        /\ h.w.k[p].ev = ev
    BY <1>8, <1>10, <1>13
  <2>2. Handled(h.w, u, p)
    BY <1>9, <2>1, HandledSteady DEF ToHandle
  <2> HIDE DEF u
  <2>3. Steady(u, {p}) /\ u.k[p].ev = ev BY <2>1, <2>2 DEF Handled
  <2>4. Local({p}, p, u.k[p], u.t[p]) BY <2>3, MovesNot
  <2>5. ~u.t[p].terminated /\ u.k[p].st = "stop"
    BY <2>1, <2>3, <2>4 DEF Local, Halted, InHand
  <2>6. Alive(u) => Ready(u.k[p], u.t[p]) /\ ~HoldsCall(u.t[p])
    BY <2>2 DEF Handled, HoldsCall
  <2>7. Steady(v, {p} \ {p}) BY <2>3, <2>5, <2>6, LetGo
  <2>8. {p} \ {p} = {} OBVIOUS
  <2>9. Become(v) BY <1>7, <1>13
  <2> HIDE DEF v
  <2> QED BY <2>7, <2>8, <2>9, WorldIs DEF Steady
<1> QED BY <1>11, <1>12, <1>13

-----------------------------------------------------------------------------
(* A Tracee is freed: somebody was killed, nobody is in hand.              *)

LEMMA SameMoves ==
  ASSUME NEW H, NEW q \in P, NEW x, NEW r0, NEW r, Moves(H, q, x, r0, x, r0), Same(r0, r),
         r.wait_pid # None => r.nb_ptracees # 0,
         r.as_ptracee.ptracer \in {None, r0.as_ptracee.ptracer}
  PROVE  Moves(H, q, x, r0, x, r)
<1>1. Local(H, q, x, r)
  BY DEF Moves, Same, Local, Halted, WaiterHeld, InHand, Reaped
<1>2. \A m \in P : Exposed(r, m) => Exposed(r0, m) /\ (Excused(x, r0) => Excused(x, r))
  BY NoneAssumption DEF Same, Exposed, Excused
<1> QED BY <1>1, <1>2 DEF Moves, Same

\* event.c, restart_tracee(), field by field.
LEMMA RestartFields ==
  ASSUME NEW w \in Worlds, NEW q \in P
  PROVE  LET v == restart_tracee(w, q)
         IN  /\ v \in Worlds /\ Others(w, v, {q})
             /\ Restartable(w, q) =>
                  /\ v.k[q].st \in {"run", "insys", "kwait"} /\ v.k[q].ev = w.k[q].ev
                  /\ v.t[q].running /\ v.t[q].wait_pid = w.t[q].wait_pid
                  /\ v.t[q].terminated = w.t[q].terminated
             /\ ~Restartable(w, q) => v = w
<1> DEFINE s == Resumed(w, q)
           c == IF w.t[q].chain = "queued" THEN "running" ELSE w.t[q].chain
           x == [w.k[q] EXCEPT !.st = s]
           r == [w.t[q] EXCEPT !.running = TRUE, !.chain = c]
           v == restart_tracee(w, q)
<1>1. w.k[q] \in Processes /\ w.t[q] \in TraceeType BY Parts
<1>2. s \in {"run", "insys", "kwait"} BY DEF Resumed
<1>3. c \in Chains BY <1>1 DEF TraceeType, Chains
<1>4. /\ Restartable(w, q) => v = Put(w, q, x, r)
      /\ ~Restartable(w, q) => v = w
  BY DEF restart_tracee, Put, Worlds
<1> HIDE DEF s, c, v
<1>5. /\ x \in Processes /\ x.st = s /\ x.ev = w.k[q].ev
      /\ r \in TraceeType /\ r.running /\ r.wait_pid = w.t[q].wait_pid
      /\ r.terminated = w.t[q].terminated
  <2>1. /\ x \in Processes /\ x.st = s /\ x.ev = w.k[q].ev
    BY ONLY <1>1, <1>2 DEF Processes, States
  <2>2. /\ r \in TraceeType /\ r.running /\ r.wait_pid = w.t[q].wait_pid
        /\ r.terminated = w.t[q].terminated
    BY ONLY <1>1, <1>3 DEF TraceeType, Chains
  <2> QED BY ONLY <2>1, <2>2
<1> HIDE DEF x, r
<1>6. CASE Restartable(w, q) BY <1>2, <1>4, <1>5, <1>6, PutWorld DEF Others, v
<1>7. CASE ~Restartable(w, q) BY <1>4, <1>7 DEF Others, v
<1> QED BY <1>6, <1>7

\* tracee.c, free_terminated_tracees(): the ptracees of p are detached.
LEMMA DetachPtraceesSteady ==
  ASSUME BatchFits, NEW w, Steady(w, {}), ~Alive(w), NEW p \in P
  PROVE  LET v == DetachPtracees(w, p)
         IN  /\ Steady(v, {}) /\ v.k = w.k
             /\ \A o \in P :
                  /\ Same(w.t[o], v.t[o]) /\ v.t[o].nb_ptracees = w.t[o].nb_ptracees
                  /\ v.t[o].parent = w.t[o].parent
                  /\ v.t[o].as_ptracee.ptracer =
                       IF o \in Tracees(w, p) THEN None ELSE w.t[o].as_ptracee.ptracer
<1> DEFINE B == Tracees(w, p)
           r(q) == [w.t[q] EXCEPT !.as_ptracee.ptracer = None]
           f == [q \in P |-> IF q \in B THEN r(q) ELSE w.t[q]]
           v == DetachPtracees(w, p)
<1>0. w \in Worlds BY DEF Steady
<1>1. Batch(B) = B BY BatchIsAll DEF Tracees
<1>2. v = [w EXCEPT !.t = f] BY <1>1 DEF DetachPtracees, Tracees
<1>3. ASSUME NEW q \in P
      PROVE  /\ r(q) \in TraceeType /\ Same(w.t[q], r(q))
             /\ r(q).parent = w.t[q].parent
             /\ r(q).nb_ptracees = w.t[q].nb_ptracees /\ r(q).as_ptracee.ptracer = None
  <2> DEFINE e == [w.t[q].as_ptracee EXCEPT !.ptracer = None]
  <2>1. w.t[q] \in TraceeType /\ w.t[q].as_ptracee \in Ptracees BY <1>0, Parts
  <2>2. /\ e \in Ptracees /\ e.ptracer = None
        /\ e.ptr = w.t[q].as_ptracee.ptr /\ e.tval = w.t[q].as_ptracee.tval
        /\ e.proot = w.t[q].as_ptracee.proot /\ e.pval = w.t[q].as_ptracee.pval
    BY <2>1 DEF Ptracees
  <2>3. r(q) = [w.t[q] EXCEPT !.as_ptracee = e] OBVIOUS
  <2> HIDE DEF e, r
  <2>4. r(q) \in TraceeType BY <2>1, <2>2, <2>3, PutTracee
  <2> QED BY <2>1, <2>2, <2>3, <2>4 DEF TraceeType, Same
<1> HIDE DEF r, B
<1>4. f \in [P -> TraceeType] BY <1>0, <1>3, Parts
<1>5. v \in Worlds /\ v.k = w.k /\ v.t = f BY <1>0, <1>2, <1>4 DEF Worlds
<1> HIDE DEF v
<1>6. ASSUME NEW o \in P
      PROVE  /\ Same(w.t[o], v.t[o]) /\ v.t[o].nb_ptracees = w.t[o].nb_ptracees
             /\ v.t[o].parent = w.t[o].parent
             /\ v.t[o].as_ptracee.ptracer =
                  IF o \in B THEN None ELSE w.t[o].as_ptracee.ptracer
  <2>1. CASE o \in B BY <1>3, <1>5, <2>1
  <2>2. CASE o \notin B BY <1>5, <2>2 DEF Same
  <2> QED BY <2>1, <2>2
<1>7. ASSUME NEW o \in P PROVE Moves({}, o, w.k[o], w.t[o], v.k[o], v.t[o])
  <2>1. Moves({}, o, w.k[o], w.t[o], w.k[o], w.t[o]) BY MovesNot
  <2>2. v.t[o].wait_pid # None => v.t[o].nb_ptracees # 0 BY <1>6, <2>1 DEF Moves, Same
  <2>3. v.t[o].as_ptracee.ptracer \in {None, w.t[o].as_ptracee.ptracer}
        /\ Same(w.t[o], v.t[o]) /\ v.k[o] = w.k[o]
    BY <1>5, <1>6
  <2> QED BY <2>1, <2>2, <2>3, SameMoves
<1>8. ~Alive(v) BY <1>5 DEF Alive
<1>9. Steady(v, {}) BY <1>5, <1>7, <1>8, SteadyBy
<1> QED BY <1>5, <1>6, <1>9 DEF v, B

\* p has no zombie, waits for nothing, and is off the list.
LEMMA UnlinkSteady ==
  ASSUME BatchFits, NEW w, Steady(w, {}), ~Alive(w), NEW p \in P, w.t[p].terminated
  PROVE  Steady(Unlink(w, p), {})
<1> DEFINE B == {q \in P : w.t[q].listed /\ w.t[q].parent = p}
           r == [w.t[p] EXCEPT !.listed = FALSE, !.zombies = {}, !.wait_pid = None,
                               !.as_ptracee = Unattached]
           s(q) == [w.t[q] EXCEPT !.parent = None]
           f == [q \in P |-> IF q = p THEN r ELSE IF q \in B THEN s(q) ELSE w.t[q]]
           v == Unlink(w, p)
<1>0. w \in Worlds BY DEF Steady
<1>1. Batch(B) = B BY BatchIsAll
<1>2. v = [w EXCEPT !.t = f] BY <1>1 DEF Unlink
<1>3. /\ r \in TraceeType /\ ~r.listed /\ r.terminated = w.t[p].terminated
      /\ r.running = w.t[p].running /\ r.wait_pid = None
  <2>1. w.t[p] \in TraceeType BY <1>0, Parts
  <2>2. Unattached \in Ptracees BY DEF Unattached, Ptracees, Events
  <2> DEFINE r0 == [w.t[p] EXCEPT !.listed = FALSE, !.zombies = {}, !.wait_pid = None]
  <2>3. r0 \in TraceeType BY <2>1 DEF TraceeType
  <2>4. r = [r0 EXCEPT !.as_ptracee = Unattached] OBVIOUS
  <2>5. r \in TraceeType BY <2>2, <2>3, <2>4, PutTracee
  <2> QED BY <2>1, <2>5 DEF TraceeType
<1>4. ASSUME NEW q \in P
      PROVE  /\ s(q) \in TraceeType /\ Same(w.t[q], s(q))
             /\ s(q).nb_ptracees = w.t[q].nb_ptracees
             /\ s(q).as_ptracee = w.t[q].as_ptracee
  <2>1. w.t[q] \in TraceeType BY <1>0, Parts
  <2> QED BY <2>1 DEF TraceeType, Same
<1> HIDE DEF r, s
<1>5. f \in [P -> TraceeType] BY <1>0, <1>3, <1>4, Parts
<1>6. v \in Worlds /\ v.k = w.k /\ v.t = f BY <1>0, <1>2, <1>5 DEF Worlds
<1>7. \A o \in P : v.t[o] = IF o = p THEN r ELSE IF o \in B THEN s(o) ELSE w.t[o]
  BY <1>6
<1> HIDE DEF v, f
<1>8. ASSUME NEW o \in P PROVE Moves({}, o, w.k[o], w.t[o], v.k[o], v.t[o])
  <2>1. Moves({}, o, w.k[o], w.t[o], w.k[o], w.t[o]) BY MovesNot
  <2>2. CASE o = p
    <3>1. v.k[o] = w.k[o] /\ v.t[o] = r BY <1>6, <1>7, <2>2
    <3>2. Local({}, o, w.k[o], r)
      BY <1>3, <2>1, <2>2 DEF Moves, Local, Halted, WaiterHeld, Reaped
    <3>3. \A m \in P : ~Exposed(r, m) BY <1>3 DEF Exposed
    <3> QED BY <1>3, <3>1, <3>2, <3>3 DEF Moves
  <2>3. CASE o # p /\ o \in B
    <3>1. v.k[o] = w.k[o] /\ v.t[o] = s(o) BY <1>6, <1>7, <2>3
    <3>2. s(o).wait_pid # None => s(o).nb_ptracees # 0 BY <1>4, <2>1 DEF Moves, Same
    <3>3. Moves({}, o, w.k[o], w.t[o], w.k[o], s(o)) BY <1>4, <2>1, <3>2, SameMoves
    <3> QED BY <3>1, <3>3
  <2>4. CASE o # p /\ o \notin B BY <1>6, <1>7, <2>1, <2>4
  <2> QED BY <2>2, <2>3, <2>4
<1>9. ~Alive(v) BY <1>6 DEF Alive
<1>10. Steady(v, {}) BY <1>6, <1>8, <1>9, SteadyBy
<1> QED BY <1>10 DEF v

\* p leaves its ptracer m, which may wait for it.
LEMMA LeavePtracerSteady ==
  ASSUME NEW w, Steady(w, {}), ~Alive(w), NEW p \in P, w.t[p].listed, w.t[p].terminated,
         w.k[p].st = "gone", \A o \in P : w.t[o].terminated => w.k[o].st = "gone",
         NEW m \in P \cup {None}, w.t[p].as_ptracee.ptracer = m, m # p,
         m \in P => w.t[m].nb_ptracees # 0
  PROVE  LET v == LeavePtracer(w, p)
         IN  Steady(v, {}) /\ ~Alive(v) /\ v.t[p].terminated
<1> DEFINE e  == w.t[p].as_ptracee
           w1 == detach_from_ptracer(w, p)
           b  == w.t[p].parent = m
           z  == [pid |-> p, own |-> b]
           r  == [w.t[m] EXCEPT !.zombies = @ \cup {z}]
           w2 == SetWait(w1, m, None)
           v2 == restart_tracee(w2, m)
           v  == LeavePtracer(w, p)
<1>0. w \in Worlds BY DEF Steady
<1>1. CASE m = None
  <2>1. v = w BY <1>1 DEF LeavePtracer
  <2> QED BY <2>1
<1>2. CASE m \in P /\ e.ptr /\ e.tval = "DIED"
  <2>1. w.t[m] \in TraceeType /\ w.k[m] \in Processes
        /\ w.t[m].zombies \subseteq [pid : P, own : BOOLEAN] BY <1>0, <1>2, Parts
  <2>2. z \in [pid : P, own : BOOLEAN] /\ z.pid = p
    <3>1. b \in BOOLEAN OBVIOUS
    <3> HIDE DEF b
    <3> QED BY <3>1
  <2>3. v = [w EXCEPT !.t[m].zombies = @ \cup {z}] BY <1>2, NoneAssumption DEF LeavePtracer
  <2> HIDE DEF z
  <2>4. v = Put(w, m, w.k[m], r)
    <3> HIDE DEF v
    <3> QED BY <1>0, <1>2, <2>3 DEF Put, Worlds
  <2>5. w.t[m].zombies \cup {z} \in SUBSET [pid : P, own : BOOLEAN] BY <2>1, <2>2
  <2>6. r \in TraceeType BY <2>1, <2>5, PutTracee
  <2>7. /\ r.listed = w.t[m].listed /\ r.terminated = w.t[m].terminated
        /\ r.running = w.t[m].running /\ r.wait_pid = w.t[m].wait_pid
        /\ r.as_ptracee = w.t[m].as_ptracee /\ r.nb_ptracees = w.t[m].nb_ptracees
        /\ r.zombies = w.t[m].zombies \cup {z}
    BY <2>1, <2>6 DEF TraceeType
  <2> HIDE DEF r, v
  <2>8. /\ v \in Worlds /\ v.t[m] = r /\ \A o \in P \ {m} : v.t[o] = w.t[o]
        /\ \A o \in P : v.k[o] = w.k[o]
    BY <1>0, <1>2, <2>1, <2>4, <2>6, PutWorld
  <2>9. ASSUME NEW o \in P PROVE Local({}, o, v.k[o], v.t[o])
    <3>1. Local({}, o, w.k[o], w.t[o]) BY DEF Steady
    <3>2. CASE o = m BY <2>7, <2>8, <3>1, <3>2 DEF Local, Halted, WaiterHeld, Reaped
    <3>3. CASE o # m BY <2>8, <3>1, <3>3
    <3> QED BY <3>2, <3>3
  <2>10. ASSUME NEW o \in P
         PROVE  /\ v.t[o].wait_pid = w.t[o].wait_pid
                /\ v.t[o].nb_ptracees = w.t[o].nb_ptracees
                /\ v.t[o].terminated = w.t[o].terminated
                /\ o # m => v.t[o].zombies = w.t[o].zombies
                /\ Excused(v.k[o], v.t[o]) <=> Excused(w.k[o], w.t[o])
                /\ \A a \in P : Exposed(v.t[o], a) <=> Exposed(w.t[o], a)
    <3>1. CASE o = m BY <2>7, <2>8, <3>1 DEF Exposed, Excused
    <3>2. CASE o # m BY <2>8, <3>2
    <3> QED BY <3>1, <3>2
  <2>11. w.t[m].wait_pid # None => ~Expects(w.t[m].wait_pid, p)
    <3>1. HeardBy(w, m, {}) /\ Local({}, p, w.k[p], w.t[p]) BY <1>2 DEF Steady
    <3>2. Exposed(w.t[p], m) BY <1>2, <3>1 DEF Exposed, Local, Halted
    <3>3. ~Excused(w.k[p], w.t[p]) BY DEF Excused
    <3> QED BY <3>1, <3>2, <3>3 DEF HeardBy
  <2>12. ASSUME NEW o \in P, v.t[o].wait_pid # None PROVE HeardBy(v, o, {})
    <3>1. HeardBy(w, o, {}) BY DEF Steady
    <3>2. v.t[o].nb_ptracees # 0 BY <2>10, <2>12, <3>1 DEF HeardBy
    <3>3. ASSUME NEW y \in v.t[o].zombies PROVE ~Expects(v.t[o].wait_pid, y.pid)
      <4>1. CASE y \in w.t[o].zombies BY <2>10, <2>12, <3>1, <4>1 DEF HeardBy
      <4>2. CASE y \notin w.t[o].zombies
        <5>1. o = m /\ y = z BY <2>7, <2>8, <2>10, <3>3, <4>2
        <5> QED BY <2>2, <2>10, <2>11, <2>12, <5>1
      <4> QED BY <4>1, <4>2
    <3>4. \A q \in P \ {} : Exposed(v.t[q], o) /\ Expects(v.t[o].wait_pid, q)
                              => Excused(v.k[q], v.t[q])
      BY <2>10, <2>12, <3>1 DEF HeardBy
    <3> QED BY <3>2, <3>3, <3>4 DEF HeardBy
  <2>13. \A o \in P : HeardBy(v, o, {}) BY <2>12 DEF HeardBy
  <2>14. ~Alive(v) BY <2>8 DEF Alive
  <2> QED BY <2>8, <2>9, <2>10, <2>13, <2>14 DEF Steady, v
<1>3. CASE m \in P /\ ~(e.ptr /\ e.tval = "DIED")
  <2>1. /\ w1 \in Worlds /\ w1.k = w.k /\ Others(w, w1, {m, p})
        /\ Same(w.t[p], w1.t[p]) /\ w1.t[p].as_ptracee.ptracer = None
        /\ w1.t[p].nb_ptracees = w.t[p].nb_ptracees
        /\ Same(w.t[m], w1.t[m]) /\ w1.t[m].as_ptracee = w.t[m].as_ptracee
    <3>1. m \in P /\ p # m /\ w.t[p].as_ptracee.ptracer = m /\ w.t[m].nb_ptracees # 0 BY ONLY <1>3,
          m # p, w.t[p].as_ptracee.ptracer = m, m \in P => w.t[m].nb_ptracees # 0
    <3> QED BY ONLY <1>0, <3>1, DetachFields
  <2>2. /\ (w1.t[m].nb_ptracees = 0 /\ w1.t[m].wait_pid # None) =>
             v = restart_tracee([w1 EXCEPT !.t[m].wait_pid = None], m)
        /\ ~(w1.t[m].nb_ptracees = 0 /\ w1.t[m].wait_pid # None) => v = w1
    BY <1>3, NoneAssumption DEF LeavePtracer
  <2> HIDE DEF w1, v
  <2>3. [w1 EXCEPT !.t[m].wait_pid = None] = w2 BY <2>1 DEF SetWait, Put, Worlds
  <2>4. Moves({}, p, w.k[p], w.t[p], w1.k[p], w1.t[p])
    <3>1. Moves({}, p, w.k[p], w.t[p], w.k[p], w.t[p]) BY MovesNot
    <3>2. w1.t[p].wait_pid # None => w1.t[p].nb_ptracees # 0 BY <2>1, <3>1 DEF Moves, Same
    <3>3. Moves({}, p, w.k[p], w.t[p], w.k[p], w1.t[p]) BY <2>1, <3>1, <3>2, SameMoves
    <3> QED BY <2>1, <3>3
  <2>5. CASE w1.t[m].wait_pid # None => w1.t[m].nb_ptracees # 0
    <3>1. v = w1 BY <2>2, <2>5
    <3>2. Moves({}, m, w.k[m], w.t[m], w.k[m], w.t[m]) BY <1>3, MovesNot
    <3>3. Moves({}, m, w.k[m], w.t[m], w.k[m], w1.t[m])
      BY <1>3, <2>1, <2>5, <3>2, SameMoves
    <3>4. ~Alive(w1) BY <2>1 DEF Alive
    <3>5. Steady(w1, {})
      <4>1. Moves({}, m, w.k[m], w.t[m], w1.k[m], w1.t[m]) BY <2>1, <3>3
      <4>2. Others(w, w1, {p, m}) BY <2>1 DEF Others
      <4> QED BY <1>3, <2>1, <2>4, <3>4, <4>1, <4>2, SteadyTwo
    <3> QED BY <2>1, <3>1, <3>4, <3>5 DEF Same, v
  <2>6. CASE w1.t[m].wait_pid # None /\ w1.t[m].nb_ptracees = 0
    <3> DEFINE s == [w1.t[m] EXCEPT !.wait_pid = None]
    <3>1. w1.t[m] \in TraceeType /\ w1.k[m] \in Processes BY <1>3, <2>1, Parts
    <3>2. /\ s \in TraceeType /\ s.wait_pid = None /\ s.terminated = w1.t[m].terminated
          /\ s.running = w1.t[m].running /\ s.listed = w1.t[m].listed
          /\ s.as_ptracee = w1.t[m].as_ptracee
      BY <3>1 DEF TraceeType
    <3>3. w2 = Put(w1, m, w1.k[m], s) BY DEF SetWait
    <3> HIDE DEF s, w2
    <3>4. /\ w2 \in Worlds /\ w2.k[m] = w1.k[m] /\ w2.t[m] = s
          /\ \A o \in P \ {m} : w2.k[o] = w1.k[o] /\ w2.t[o] = w1.t[o]
      BY <1>3, <2>1, <3>1, <3>2, <3>3, PutWorld
    <3>5. v = v2 BY <2>2, <2>3, <2>6
    <3>6. /\ v \in Worlds /\ Others(w2, v, {m})
          /\ Restartable(w2, m) =>
               /\ v.k[m].st \in {"run", "insys", "kwait"} /\ v.k[m].ev = w2.k[m].ev
               /\ v.t[m].running /\ v.t[m].wait_pid = None
               /\ v.t[m].terminated = w2.t[m].terminated
          /\ ~Restartable(w2, m) => v = w2
      <4>1. w2 \in Worlds /\ m \in P BY <1>3, <3>4
      <4>2. w2.t[m].wait_pid = None BY ONLY <3>2, <3>4
      <4> QED BY ONLY <3>5, <4>1, <4>2, RestartFields
    <3> HIDE DEF v2
    <3>7. v.k[p] = w1.k[p] /\ v.t[p] = w1.t[p] /\ Others(w, v, {p, m})
      BY <2>1, <3>4, <3>6 DEF Others
    <3>8. Moves({}, m, w.k[m], w.t[m], w.k[m], w.t[m]) BY <1>3, MovesNot
    <3>9. w.k[m] = w2.k[m] /\ w.t[m].terminated = w2.t[m].terminated
          /\ w.t[m].running = w2.t[m].running /\ w.t[m].wait_pid # None
      BY <2>1, <2>6, <3>2, <3>4 DEF Same
    <3>10. Moves({}, m, w.k[m], w.t[m], v.k[m], v.t[m])
      <4>1. CASE Restartable(w2, m)
        <5>1. w.k[m].st = "stop" /\ ~w.t[m].terminated BY <3>9, <4>1 DEF Restartable
        <5>2. w.k[m].ev # "DIED" BY <3>8, <5>1 DEF Moves, Local, Halted, Killed
        <5>3. Local({}, m, v.k[m], v.t[m])
          BY <3>6, <3>9, <4>1, <5>2 DEF Local, Halted, WaiterHeld, Reaped, Killed
        <5>4. \A a \in P : ~Exposed(v.t[m], a) BY <3>6, <4>1 DEF Exposed
        <5> QED BY <3>6, <4>1, <5>1, <5>3, <5>4 DEF Moves, Killed
      <4>2. CASE ~Restartable(w2, m)
        <5>1. v.k[m] = w.k[m] /\ v.t[m] = s BY <3>4, <3>6, <3>9, <4>2
        <5>2. w.t[m].terminated \/ w.k[m].st # "stop"
          BY <3>2, <3>4, <3>9, <4>2 DEF Restartable
        <5>3. Killed(w.k[m])
          BY <1>3, <3>8, <3>9, <5>2 DEF Moves, Local, WaiterHeld, Killed
        <5>4. s.terminated = w.t[m].terminated /\ s.running = w.t[m].running
              /\ s.listed = w.t[m].listed /\ s.as_ptracee = w.t[m].as_ptracee
          BY <2>1, <3>2 DEF Same
        <5>5. Local({}, m, w.k[m], s)
          BY <3>2, <3>8, <5>4 DEF Moves, Local, Halted, WaiterHeld, Reaped
        <5>6. Excused(w.k[m], w.t[m]) => Excused(w.k[m], s)
          BY <3>8, <5>3, <5>4 DEF Moves, Local, Reaped, Excused, Killed
        <5>7. \A a \in P : Exposed(s, a) <=> Exposed(w.t[m], a) BY <5>4 DEF Exposed
        <5> QED BY <3>2, <5>1, <5>5, <5>6, <5>7 DEF Moves
      <4> QED BY <4>1, <4>2
    <3>11. ~Alive(v)
      <4>1. Killed(v.k[p]) BY <2>1, <3>7 DEF Killed
      <4> QED BY <4>1 DEF Alive
    <3>12. Moves({}, p, w.k[p], w.t[p], v.k[p], v.t[p]) BY <2>4, <3>7
    <3>13. Steady(v, {}) BY <1>3, <3>6, <3>7, <3>10, <3>11, <3>12, SteadyTwo
    <3> QED BY <2>1, <3>7, <3>11, <3>13 DEF Same, v
  <2> QED BY <2>5, <2>6
<1> QED BY <1>1, <1>2, <1>3

\* tracee.c, free_terminated_tracees() and remove_tracee().
LEMMA RemoveSteady ==
  ASSUME BatchFits, NEW w, Sound(w), Steady(w, {}), NEW p \in P,
         w.t[p].listed, w.t[p].terminated
  PROVE  Steady(remove_tracee(w, p), {})
<1> DEFINE d == DetachPtracees(w, p)
           l == LeavePtracer(d, p)
<1>1. PICK m \in P \cup {None} : w.t[p].as_ptracee.ptracer = m
  BY Parts DEF Sound
<1>2. m # p /\ \A o \in P : w.t[o].terminated => w.k[o].st = "gone"
  BY <1>1 DEF Sound, NotItself, Ended
<1>3. ~Alive(w) BY <1>2 DEF Alive, Killed
<1>4. m \in P => w.t[m].nb_ptracees # 0 BY <1>1, CountedByPtracer DEF BatchFits
<1>5. /\ Steady(d, {}) /\ d.k = w.k
      /\ \A o \in P :
           /\ Same(w.t[o], d.t[o]) /\ d.t[o].nb_ptracees = w.t[o].nb_ptracees
           /\ d.t[o].as_ptracee.ptracer =
                IF o \in Tracees(w, p) THEN None ELSE w.t[o].as_ptracee.ptracer
  BY <1>3, DetachPtraceesSteady
<1> HIDE DEF d
<1>6. ~Alive(d) BY <1>3, <1>5 DEF Alive
<1>7. p \notin Tracees(w, p) BY <1>1, <1>2 DEF Tracees
<1>8. /\ d.t[p].listed /\ d.t[p].terminated /\ d.k[p].st = "gone"
      /\ d.t[p].as_ptracee.ptracer = m
      /\ \A o \in P : d.t[o].terminated => d.k[o].st = "gone"
      /\ m \in P => d.t[m].nb_ptracees # 0
  BY <1>1, <1>2, <1>4, <1>5, <1>7 DEF Same
<1>9. Steady(l, {}) /\ ~Alive(l) /\ l.t[p].terminated
  BY <1>2, <1>5, <1>6, <1>8, LeavePtracerSteady
<1> HIDE DEF l
<1>10. Steady(Unlink(l, p), {}) BY <1>9, UnlinkSteady
<1> QED BY <1>10 DEF remove_tracee, d, l

LEMMA FreeSteady ==
  ASSUME BatchFits, Sound(W), Steady(W, {}), NEW p \in P, Free(p)
  PROVE  Steady(W', {})
<1>1. W.t = t BY DEF W
<1>2. Steady(remove_tracee(W, p), {}) BY <1>1, RemoveSteady DEF Free
<1> QED BY <1>2, WorldIs DEF Free, Steady

-----------------------------------------------------------------------------
(* The guests and the kernel.                                              *)

LEMMA KernelSteady ==
  ASSUME Steady(W, {}), NEW p \in P, NEW x \in Processes,
         k' = [k EXCEPT ![p] = x], UNCHANGED <<t, crashed>>,
         Moves({}, p, k[p], t[p], x, t[p]), ~Killed(x) => (Alive(W) => InPhase({}, p, x, t[p]))
  PROVE  Steady(W', {})
<1>1. W \in Worlds /\ W.k = k /\ W.t = t BY DEF Steady, W
<1> DEFINE v == Put(W, p, x, W.t[p])
<1>2. /\ v \in Worlds /\ v.crashed = W.crashed
      /\ v.k[p] = x /\ \A q \in P \ {p} : v.k[q] = W.k[q]
      /\ \A q \in P : v.t[q] = W.t[q]
  <2>1. W.t[p] \in TraceeType BY <1>1, Parts
  <2> QED BY <1>1, <2>1, PutWorld
<1> HIDE DEF v
<1>3. v.k = k' /\ v.t = t' BY <1>1, <1>2 DEF Worlds
<1>4. Become(v) BY <1>2, <1>3 DEF Become, W
<1>5. Others(W, v, {p}) BY <1>2 DEF Others
<1>6. Moves({}, p, W.k[p], W.t[p], v.k[p], v.t[p]) BY <1>1, <1>2
<1>7. ASSUME Alive(v) PROVE InPhase({}, p, v.k[p], v.t[p])
  <2>1. ~Killed(x) BY <1>2, <1>7 DEF Alive
  <2>2. ~Killed(W.k[p]) BY <1>1, <2>1 DEF Moves
  <2>3. Alive(W)
    <3> SUFFICES ASSUME NEW o \in P PROVE ~Killed(W.k[o]) BY DEF Alive
    <3> QED BY <1>2, <1>7, <2>2 DEF Alive
  <2> QED BY <1>1, <1>2, <2>1, <2>3
<1>8. Steady(v, {}) BY <1>2, <1>5, <1>6, <1>7, SteadyOne
<1> QED BY <1>2, <1>4, <1>8, WorldIs

\* A process that executes stops.
LEMMA StopSteady ==
  ASSUME Steady(W, {}), NEW p \in P, NEW x \in Processes,
         k' = [k EXCEPT ![p] = x], UNCHANGED <<t, crashed>>,
         x.st = "stop", ~x.reported, x.ev # "DIED",
         \/ k[p].st = "run" /\ x.ev # "LEAVE"
         \/ k[p].st \in {"insys", "kwait"} /\ x.ev = "LEAVE"
  PROVE  Steady(W', {})
<1>1. W \in Worlds /\ W.k = k /\ W.t = t BY DEF Steady, W
<1>2. Moves({}, p, k[p], t[p], k[p], t[p]) /\ Local({}, p, k[p], t[p])
      /\ (Alive(W) => InPhase({}, p, k[p], t[p]))
  BY <1>1, MovesNot
<1>3. t[p].running BY <1>2 DEF Local, Halted
<1>4. t[p].wait_pid = None BY <1>2, <1>3 DEF Local, WaiterHeld
<1>5. Local({}, p, x, t[p])
  BY <1>2, <1>3, <1>4 DEF Local, Halted, WaiterHeld, Reaped, Killed
<1>6. ~Killed(k[p]) /\ ~Killed(x) BY DEF Killed
<1>7. \A m \in P : ~Exposed(t[p], m) BY <1>3 DEF Exposed
<1>8. Moves({}, p, k[p], t[p], x, t[p]) BY <1>4, <1>5, <1>6, <1>7 DEF Moves
<1>9. ASSUME Alive(W) PROVE InPhase({}, p, x, t[p])
  <2>1. Plain(t[p]) /\ Phased(k[p], t[p]) BY <1>2, <1>9 DEF InPhase
  <2>2. Phased(x, t[p]) BY <2>1 DEF Phased
  <2> QED BY <1>4, <2>1, <2>2 DEF InPhase
<1> QED BY <1>8, <1>9, KernelSteady

LEMMA GuestSteady ==
  ASSUME Steady(W, {}), NEW p \in P,
         (\E c \in Calls : Call(p, c)) \/ Return(p) \/ KernelWait(p) \/ TakeStop(p)
           \/ Signal(p) \/ Die(p)
  PROVE  Steady(W', {})
<1>1. k[p] \in Processes /\ W.k = k /\ W.t = t
  <2>1. W \in Worlds /\ W.k = k /\ W.t = t BY DEF Steady, W
  <2> QED BY <2>1, Parts
<1>2. ASSUME NEW c \in Calls, Call(p, c) PROVE Steady(W', {})
  <2> DEFINE x == [k[p] EXCEPT !.st = "stop", !.ev = "ENTER", !.reported = FALSE,
                               !.call = c, !.void = FALSE, !.kres = None]
  <2>1. x \in Processes /\ x.st = "stop" /\ x.ev = "ENTER" /\ ~x.reported
    BY <1>1 DEF Processes, States, Events
  <2>2. k' = [k EXCEPT ![p] = x] /\ k[p].st = "run" /\ UNCHANGED <<t, crashed>>
    BY <1>2 DEF Call
  <2> HIDE DEF x
  <2> QED BY <2>1, <2>2, StopSteady
<1>3. ASSUME NEW q \in P \cup {None}, Leaves(p, q), k[p].st \in {"insys", "kwait"},
             UNCHANGED <<t, crashed>>
      PROVE  Steady(W', {})
  <2> DEFINE x == [k[p] EXCEPT !.st = "stop", !.ev = "LEAVE", !.reported = FALSE, !.kres = q]
  <2>1. x \in Processes /\ x.st = "stop" /\ x.ev = "LEAVE" /\ ~x.reported
    BY <1>1 DEF Processes, States, Events
  <2>2. k' = [k EXCEPT ![p] = x] BY <1>3 DEF Leaves
  <2> HIDE DEF x
  <2> QED BY <1>3, <2>1, <2>2, StopSteady
<1>4. CASE Return(p) BY <1>3, <1>4 DEF Return
<1>5. CASE KernelWait(p) BY <1>3, <1>5 DEF KernelWait, Collectable
<1>6. CASE TakeStop(p)
  <2> DEFINE x == [k[p] EXCEPT !.st = "stop", !.ev = "SIGSTOP", !.reported = FALSE,
                               !.stopsig = FALSE]
  <2>1. x \in Processes /\ x.st = "stop" /\ x.ev = "SIGSTOP" /\ ~x.reported
    BY <1>1 DEF Processes, States, Events
  <2>2. k' = [k EXCEPT ![p] = x] /\ k[p].st = "run" /\ UNCHANGED <<t, crashed>>
    BY <1>6 DEF TakeStop
  <2> HIDE DEF x
  <2> QED BY <2>1, <2>2, StopSteady
<1>7. CASE Signal(p)
  <2> DEFINE x == [k[p] EXCEPT !.st = "stop", !.ev = "SIG", !.reported = FALSE]
  <2>1. x \in Processes /\ x.st = "stop" /\ x.ev = "SIG" /\ ~x.reported
    BY <1>1 DEF Processes, States, Events
  <2>2. k' = [k EXCEPT ![p] = x] /\ k[p].st = "run" /\ UNCHANGED <<t, crashed>>
    BY <1>7 DEF Signal
  <2> HIDE DEF x
  <2> QED BY <2>1, <2>2, StopSteady
<1>8. CASE Die(p)
  <2> DEFINE x == [k[p] EXCEPT !.st = "dead", !.ev = "DIED", !.reported = FALSE]
  <2>1. x \in Processes /\ x.st = "dead" /\ x.ev = "DIED" /\ ~x.reported
    BY <1>1 DEF Processes, States, Events
  <2>2. k' = [k EXCEPT ![p] = x] /\ k[p].st \notin {"dead", "gone"}
        /\ UNCHANGED <<t, crashed>>
    BY <1>8 DEF Die
  <2> HIDE DEF x
  <2>3. Moves({}, p, k[p], t[p], k[p], t[p]) BY <1>1, MovesNot
  <2>4. Local({}, p, x, t[p])
    BY <2>1, <2>3 DEF Moves, Local, Halted, WaiterHeld, Reaped, Killed
  <2>5. Killed(x) /\ (Excused(k[p], t[p]) => Excused(x, t[p])) BY <2>1 DEF Killed, Excused
  <2>6. Moves({}, p, k[p], t[p], x, t[p]) BY <2>3, <2>4, <2>5 DEF Moves
  <2> QED BY <2>1, <2>2, <2>5, <2>6, KernelSteady
<1> QED BY <1>2, <1>4, <1>5, <1>6, <1>7, <1>8

\* Everybody executes, and nobody waits.
LEMMA InitiallySteady == ASSUME IsFiniteSet(P), Init PROVE Steady(W, {})
<1>1. W \in Worlds /\ W.k = k /\ W.t = t
  <2>1. IInv BY Initially
  <2> QED BY <2>1 DEF IInv, Sound, W
<1>2. \A p \in P : /\ W.k[p].st = "run" /\ W.k[p].ev = "none"
                   /\ W.t[p].listed /\ ~W.t[p].terminated /\ W.t[p].running
                   /\ W.t[p].status = "enter" /\ W.t[p].chain = "none"
                   /\ W.t[p].wait_pid = None /\ W.t[p].zombies = {}
                   /\ W.t[p].as_ptracee.tval = "none"
  BY <1>1 DEF Init, NewTracee, Unattached
<1>3. \A p \in P : Local({}, p, W.k[p], W.t[p])
  BY <1>2 DEF Local, Halted, WaiterHeld, Reaped, Killed
<1>4. \A p \in P : HeardBy(W, p, {}) BY <1>2 DEF HeardBy
<1>5. \A p \in P : InPhase({}, p, W.k[p], W.t[p]) BY <1>2 DEF InPhase, Plain, Phased
<1> QED BY <1>1, <1>3, <1>4, <1>5 DEF Steady

\* Sound and Steady are inductive together.
LEMMA StaysSteady == ASSUME BatchFits PROVE Spec => [](Sound(W) /\ Steady(W, {}))
<1>1. Init => Steady(W, {}) BY InitiallySteady DEF BatchFits
<1>2. ASSUME Sound(W), Steady(W, {}), [Next]_vars PROVE Steady(W', {})
  <2>1. CASE \E p \in P, c \in Calls : Call(p, c) BY <1>2, <2>1, GuestSteady
  <2>2. CASE \E p \in P : Return(p) \/ KernelWait(p) \/ TakeStop(p) \/ Signal(p) \/ Die(p)
    BY <1>2, <2>2, GuestSteady
  <2>3. CASE \E p \in P : Event(p) \/ Free(p)
    BY <1>2, <2>3, EventSteady, FreeSteady DEF BatchFits
  <2>4. CASE Quiet \/ UNCHANGED vars
    <3>1. UNCHANGED <<k, t, crashed>> BY <2>4 DEF Quiet, vars
    <3>2. W' = W BY <3>1, ZenonT(30) DEF W
    <3> QED BY <1>2, <3>2
  <2> QED BY <1>2, <2>1, <2>2, <2>3, <2>4 DEF Next
<1>3. IInv => Sound(W) BY DEF IInv
<1>4. ASSUME IInv, Steady(W, {}), [Next]_vars PROVE Steady(W, {})'
  BY <1>2, <1>3, <1>4
<1> QED BY <1>1, <1>3, <1>4, Invariant, PTL DEF Spec

\* Waiting stays in step with what is waited for, whatever the guests call and whenever
\* they die: who waits is stopped, has ptracees, and none of them has an event for it that
\* it was not told (wait.c, translate_wait_exit() and handle_ptracee_event()); and as long
\* as nobody was killed every stop of a system call is handled once (handle_tracee_event()
\* and, for an event that was held, translate_ptrace_exit()), and who stays stopped waits
\* or has a ptracer that can restart it.
THEOREM WaitsStaySound == ASSUME BatchFits PROVE Spec => []WaitSound
<1>1. ASSUME Sound(W), Steady(W, {}) PROVE WaitSound
  <2>1. W \in Worlds /\ W.k = k /\ W.t = t BY <1>1 DEF Sound, W
  <2>2. \A p \in P : Local({}, p, k[p], t[p]) /\ HeardBy(W, p, {}) BY <1>1, <2>1 DEF Steady
  <2>3. NoMissedEvent
    <3> SUFFICES ASSUME NEW p \in P, t[p].wait_pid # None
                 PROVE  /\ t[p].nb_ptracees > 0
                        /\ Zombies(W, p, t[p].wait_pid) = {}
                        /\ \A q \in Stopped(W, p, t[p].wait_pid, TRUE) :
                             ~t[q].terminated /\ (k[q].st = "dead" \/ t[q].wait_pid # None)
      BY DEF NoMissedEvent
    <3>1. t[p].nb_ptracees \in Nat /\ t[p].nb_ptracees # 0
      BY <2>1, <2>2, Parts DEF HeardBy
    <3>2. Zombies(W, p, t[p].wait_pid) = {} BY <2>1, <2>2 DEF HeardBy, Zombies
    <3>3. ASSUME NEW q \in Stopped(W, p, t[p].wait_pid, TRUE) PROVE Excused(k[q], t[q])
      <4>1. q \in P /\ Exposed(t[q], p) /\ Expects(t[p].wait_pid, q)
        BY <2>1, <3>3 DEF Stopped, Exposed
      <4> QED BY <2>1, <2>2, <4>1 DEF HeardBy
    <3>4. t[p].nb_ptracees > 0 BY <3>1
    <3>5. \A q \in Stopped(W, p, t[p].wait_pid, TRUE) :
            ~t[q].terminated /\ (k[q].st = "dead" \/ t[q].wait_pid # None)
      BY <3>3 DEF Excused
    <3> QED BY <3>2, <3>4, <3>5
  <2>4. WaiterIsStopped
    BY <1>1, <2>1, <2>2 DEF WaiterIsStopped, Live, Local, WaiterHeld, Killed, Reaped
  <2>5. StageAgrees /\ StoppedForPtracer
    <3>1. NobodyKilled => Alive(W) BY <2>1 DEF NobodyKilled, Alive, Killed
    <3>2. ASSUME NobodyKilled, NEW p \in P PROVE Phased(k[p], t[p])
      BY <1>1, <2>1, <3>1, <3>2 DEF Steady, InPhase
    <3> QED BY <3>2 DEF StageAgrees, StoppedForPtracer, Phased
  <2> QED BY <2>3, <2>4, <2>5 DEF WaitSound
<1> QED BY <1>1, StaysSteady, PTL
=============================================================================
