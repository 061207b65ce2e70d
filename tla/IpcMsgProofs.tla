---------------------------- MODULE IpcMsgProofs ----------------------------
(***************************************************************************)
(* The message queues, for any number of guests, queues and messages:      *)
(*   - WaitersAgree.  It is nearly inductive: what it needs besides is the *)
(*     shape of the configurations (Shape), and that whatever a call of    *)
(*     one guest does to the others is a wake-up (Touched).                *)
(*   - Delivered and ReceiversServed, from one invariant (MInv): the       *)
(*     configuration of every guest agrees with what its call was given    *)
(*     (GuestsOK), every message is at exactly one place (QueuesOK), and   *)
(*     who waits waits on a queue that is there for a message that has not *)
(*     come, or that somebody is on the way to fetch (Expected).           *)
(***************************************************************************)
EXTENDS IpcMsg, SequenceTheorems, FiniteSetTheorems, WellFoundedInduction, TLAPS

\* The fields of a configuration.
Fields == {"wait_reason", "wait_state", "chain_state", "status_after_wait",
           "waiting_object_index", "args"}

\* Every guest has a place and a configuration.
Shape ==
    /\ DOMAIN kern = Tracee
    /\ DOMAIN cfg = Tracee
    /\ \A p \in Tracee : DOMAIN cfg[p] = Fields

\* The inductive invariant.
IInv == Shape /\ WaitersAgree

\* In the configurations c guest u is as it was, or was woken.
Touched(c, u) ==
    /\ DOMAIN c[u] = Fields
    /\ \/ c[u].wait_reason = cfg[u].wait_reason /\ c[u].wait_state = cfg[u].wait_state
       \/ /\ c[u].wait_reason = "none"
          /\ c[u].wait_state = CASE cfg[u].wait_state = "entered" -> "signaled"
                                 [] cfg[u].wait_state = "restarted" -> "canceled"
                                 [] OTHER -> cfg[u].wait_state

-----------------------------------------------------------------------------
\* sysvipc_wake_tracee() is a wake-up in this sense, whatever the reason it is called for.
LEMMA WokenTouches ==
    ASSUME NEW c, DOMAIN c = Fields, NEW st
    PROVE  /\ DOMAIN Woken(c, st) = Fields
           /\ Woken(c, st).wait_reason = "none"
           /\ Woken(c, st).wait_state = CASE c.wait_state = "entered" -> "signaled"
                                          [] c.wait_state = "restarted" -> "canceled"
                                          [] OTHER -> c.wait_state
BY DEF Woken, Fields

\* What sysvipc_msgsnd() and IPC_RMID do to the configurations.
LEMMA SendTouches ==
    ASSUME Shape, NEW i, NEW mtype
    PROVE  /\ DOMAIN WakeReceiver(i, mtype) = Tracee
           /\ \A u \in Tracee : Touched(WakeReceiver(i, mtype), u)
<1> DEFINE R == Receivers(i, mtype)
           c == WakeReceiver(i, mtype)
<1>1. CASE R = {}
  BY <1>1 DEF WakeReceiver, Touched, Shape
<1>2. CASE R # {}
  <2> DEFINE f == First(R)
             w == [cfg[f] EXCEPT !.chain_state = "retry"]
  <2>1. c = [cfg EXCEPT ![f] = Woken(w, EAGAIN)]
    BY <1>2 DEF WakeReceiver
  <2>2. DOMAIN c = Tracee
    BY <2>1 DEF Shape
  <2>3. ASSUME NEW u \in Tracee PROVE Touched(c, u)
    <3>1. CASE u = f
      <4>1. /\ DOMAIN w = Fields
            /\ w.wait_state = cfg[u].wait_state
        BY <3>1 DEF Shape, Fields
      <4>2. c[u] = Woken(w, EAGAIN)
        BY <2>1, <3>1 DEF Shape
      <4>3. /\ DOMAIN Woken(w, EAGAIN) = Fields
            /\ Woken(w, EAGAIN).wait_reason = "none"
            /\ Woken(w, EAGAIN).wait_state = CASE w.wait_state = "entered" -> "signaled"
                                               [] w.wait_state = "restarted" -> "canceled"
                                               [] OTHER -> w.wait_state
        BY <4>1, WokenTouches
      <4> HIDE DEF c, w, f
      <4>. QED
        BY <4>1, <4>2, <4>3 DEF Touched
    <3>2. CASE u # f
      BY <2>1, <3>2 DEF Shape, Touched
    <3>. QED
      BY <3>1, <3>2
  <2>. QED
    BY <2>2, <2>3
<1>. QED
  BY <1>1, <1>2

\* What IPC_RMID does to the configurations.
LEMMA RemoveTouches ==
    ASSUME Shape, NEW i
    PROVE  /\ DOMAIN RemoveWakes(i) = Tracee
           /\ \A u \in Tracee : Touched(RemoveWakes(i), u)
<1>1. DOMAIN RemoveWakes(i) = Tracee
  BY DEF RemoveWakes
<1>2. ASSUME NEW u \in Tracee PROVE Touched(RemoveWakes(i), u)
  <2>1. RemoveWakes(i)[u] = Woken(cfg[u], EIDRM) \/ RemoveWakes(i)[u] = cfg[u]
    BY DEF RemoveWakes
  <2>2. DOMAIN cfg[u] = Fields
    BY DEF Shape
  <2>. QED
    BY <2>1, <2>2, WokenTouches DEF Touched
<1>. QED
  BY <1>1, <1>2

\* The configurations a call leaves unchanged.
LEMMA NobodyTouched ==
    ASSUME Shape
    PROVE  DOMAIN cfg = Tracee /\ \A u \in Tracee : Touched(cfg, u)
BY DEF Shape, Touched

\* sysvipc_syscall_common() keeps the invariant if the call did not change the state of
\* its own wait and at most woke the others.
LEMMA CommonKeeps ==
    ASSUME IInv, NEW p \in Tracee, kern[p] = "user",
           NEW s \in BOOLEAN, NEW c, NEW st,
           DOMAIN c = Tracee, DOMAIN c[p] = Fields, c[p].wait_state = "not",
           \A u \in Tracee \ {p} : Touched(c, u),
           syscall_common(p, s, c, st)
    PROVE  IInv'
<1>0. /\ sigstop' = sigstop \cup Signaled(c)
      /\ DOMAIN kern = Tracee
  BY DEF syscall_common, IInv, Shape
<1>1. /\ DOMAIN cfg' = Tracee
      /\ DOMAIN kern' = Tracee
      /\ \A u \in Tracee \ {p} : cfg'[u] = c[u] /\ kern'[u] = kern[u]
  BY <1>0 DEF syscall_common
<1>2. /\ DOMAIN cfg'[p] = Fields
      /\ \/ /\ kern'[p] = "restart" /\ cfg'[p].wait_state = "restarted"
            /\ cfg'[p].wait_reason # "none"
         \/ /\ kern'[p] = "ppoll" /\ cfg'[p].wait_state = "entered"
            /\ cfg'[p].wait_reason # "none"
         \/ /\ kern'[p] = "user" /\ cfg'[p].wait_state = "not"
            /\ cfg'[p].wait_reason = "none"
         \/ /\ kern'[p] = "exit" /\ cfg'[p].wait_state = "getpid"
            /\ cfg'[p].wait_reason = "none"
  BY <1>0 DEF syscall_common, Fields
<1>3. Shape'
  BY <1>1, <1>2 DEF Shape, Touched
<1>4. ASSUME NEW u \in Tracee \ {p}
      PROVE  /\ kern[u] = "ppoll" /\ c[u].wait_state = "signaled"
                  => u \in sigstop'
             /\ kern[u] = "ppoll" => \/ c[u].wait_state = "entered" /\ c[u].wait_reason # "none"
                                     \/ c[u].wait_state = "signaled"
  BY <1>0 DEF IInv, WaitersAgree, Touched, Signaled
<1>5. WaitersAgree'
  <2> SUFFICES ASSUME NEW u \in Tracee
               PROVE  /\ kern'[u] = "user" => cfg'[u].wait_state = "not" /\ cfg'[u].wait_reason = "none"
                      /\ kern'[u] = "restart" => cfg'[u].wait_state \in {"restarted", "canceled"}
                      /\ kern'[u] = "ppoll" => \/ cfg'[u].wait_state = "entered" /\ cfg'[u].wait_reason # "none"
                                               \/ cfg'[u].wait_state = "signaled" /\ u \in sigstop'
                      /\ kern'[u] = "exit" => cfg'[u].wait_state \in {"entered", "signaled", "getpid"}
                      /\ cfg'[u].wait_state \in {"restarted", "entered"} => cfg'[u].wait_reason # "none"
                      /\ cfg'[u].wait_state \in {"not", "canceled", "signaled", "getpid"}
                            => cfg'[u].wait_reason = "none"
    BY DEF WaitersAgree
  <2>1. CASE u = p
    BY <1>2, <2>1
  <2>2. CASE u # p
    BY <1>1, <1>4, <2>2 DEF IInv, WaitersAgree, Touched
  <2>. QED
    BY <2>1, <2>2
<1>. QED
  BY <1>3, <1>5 DEF IInv

\* The end of a system call keeps the invariant.
LEMMA ReturnKeeps ==
    ASSUME IInv, NEW p \in Tracee, cfg' = [cfg EXCEPT ![p] = Idle],
           kern' = [kern EXCEPT ![p] = "user"], sigstop' \in {sigstop, sigstop \ {p}}
    PROVE  IInv'
<1>1. /\ DOMAIN cfg' = Tracee /\ DOMAIN kern' = Tracee
      /\ cfg'[p] = Idle /\ kern'[p] = "user"
      /\ \A u \in Tracee \ {p} : cfg'[u] = cfg[u] /\ kern'[u] = kern[u]
      /\ \A u \in Tracee \ {p} : u \in sigstop => u \in sigstop'
  BY DEF IInv, Shape
<1>2. DOMAIN Idle = Fields /\ Idle.wait_state = "not" /\ Idle.wait_reason = "none"
  BY DEF Idle, Fields
<1>3. Shape'
  BY <1>1, <1>2 DEF IInv, Shape
<1>4. WaitersAgree'
  BY <1>1, <1>2 DEF IInv, WaitersAgree
<1>. QED
  BY <1>3, <1>4 DEF IInv

\* A guest that only changes its place, and only to one its wait allows.
LEMMA MoveKeeps ==
    ASSUME IInv, NEW p \in Tracee, NEW k \in {"exit", "dead", "gone"},
           kern' = [kern EXCEPT ![p] = k], UNCHANGED cfg,
           k = "exit" => kern[p] = "ppoll",
           sigstop' \in {sigstop, sigstop \ {p}}
    PROVE  IInv'
<1>1. /\ DOMAIN kern' = Tracee /\ kern'[p] = k
      /\ \A u \in Tracee \ {p} : kern'[u] = kern[u] /\ (u \in sigstop => u \in sigstop')
  BY DEF IInv, Shape
<1>2. Shape'
  BY <1>1 DEF IInv, Shape
<1>3. WaitersAgree'
  BY <1>1 DEF IInv, WaitersAgree
<1>. QED
  BY <1>2, <1>3 DEF IInv

-----------------------------------------------------------------------------
\* The invariant holds at the beginning: no guest waits.
LEMMA InitIInv == Init => IInv
BY DEF Init, IInv, Shape, WaitersAgree, Idle, Fields

\* The calls: each one meets the conditions of CommonKeeps.
LEMMA CallKeeps ==
    ASSUME IInv, NEW p \in Tracee, Call(p)
    PROVE  IInv'
<1>0. PICK s \in FromSigsys[p] :
        \/ \E key \in Keys, flg \in Creates : msgget(p, key, flg, s)
        \/ \E id \in Ids, mtype \in Types, len \in Lengths, ok \in BOOLEAN : msgsnd(p, id, mtype, len, ok, s)
        \/ \E id \in Ids, r \in Requests[p] : msgrcv(p, id, r, s)
        \/ \E id \in Ids : msgctl_RMID(p, id, s)
  BY DEF Call
<1>1. s \in BOOLEAN
  BY FromSigsysAssumption DEF Tracee
<1>2. Shape
  BY DEF IInv
<1>3. kern[p] = "user" => cfg[p].wait_state = "not" /\ DOMAIN cfg[p] = Fields
  BY DEF IInv, WaitersAgree, Shape
<1>4. ASSUME NEW c, NEW st, kern[p] = "user", syscall_common(p, s, c, st),
             DOMAIN c = Tracee, \A u \in Tracee : Touched(c, u)
      PROVE  IInv'
  <2>1. DOMAIN c[p] = Fields /\ c[p].wait_state = "not"
    BY <1>3, <1>4 DEF Touched
  <2>. QED
    BY <1>1, <1>4, <2>1, CommonKeeps
<1>5. ASSUME NEW key \in Keys, NEW flg \in Creates, msgget(p, key, flg, s) PROVE IInv'
  <2>1. kern[p] = "user" /\ \E st : syscall_common(p, s, cfg, st)
    BY <1>5 DEF msgget
  <2>. QED
    BY <1>2, <1>4, <2>1, NobodyTouched
<1>6. ASSUME NEW id \in Ids, NEW mtype \in Types, NEW len \in Lengths, NEW ok \in BOOLEAN,
             msgsnd(p, id, mtype, len, ok, s)
      PROVE  IInv'
  <2>1. /\ kern[p] = "user"
        /\ \/ \E st : syscall_common(p, s, cfg, st)
           \/ \E i : syscall_common(p, s, WakeReceiver(i, mtype), 0)
    BY <1>6 DEF msgsnd
  <2>2. ASSUME NEW i, syscall_common(p, s, WakeReceiver(i, mtype), 0) PROVE IInv'
    BY <1>2, <1>4, <2>1, <2>2, SendTouches
  <2>. QED
    BY <1>2, <1>4, <2>1, <2>2, NobodyTouched
<1>7. ASSUME NEW id \in Ids, NEW r \in Requests[p], msgrcv(p, id, r, s) PROVE IInv'
  <2>1. /\ kern[p] = "user"
        /\ \/ \E st : syscall_common(p, s, cfg, st)
           \/ \E i, st : syscall_common(p, s, [cfg EXCEPT ![p].wait_reason = "msgrcv", ![p].args = r,
                                                          ![p].waiting_object_index = i], st)
    BY <1>7 DEF msgrcv
  <2>2. ASSUME NEW i, NEW st,
               syscall_common(p, s, [cfg EXCEPT ![p].wait_reason = "msgrcv", ![p].args = r,
                                                ![p].waiting_object_index = i], st)
        PROVE  IInv'
    <3> DEFINE c == [cfg EXCEPT ![p].wait_reason = "msgrcv", ![p].args = r,
                                ![p].waiting_object_index = i]
    <3>1. DOMAIN c = Tracee /\ \A u \in Tracee \ {p} : c[u] = cfg[u]
      BY <1>2 DEF Shape
    <3>2. DOMAIN c[p] = Fields /\ c[p].wait_state = "not"
      BY <1>2, <1>3, <2>1 DEF Shape, Fields
    <3>3. \A u \in Tracee \ {p} : Touched(c, u)
      BY <1>2, <3>1 DEF Shape, Touched
    <3>4. syscall_common(p, s, c, st)
      BY <2>2
    <3> HIDE DEF c
    <3>. QED
      BY <1>1, <2>1, <3>1, <3>2, <3>3, <3>4, CommonKeeps
  <2>. QED
    BY <1>2, <1>4, <2>1, <2>2, NobodyTouched
<1>8. ASSUME NEW id \in Ids, msgctl_RMID(p, id, s) PROVE IInv'
  <2>1. /\ kern[p] = "user"
        /\ \/ \E st : syscall_common(p, s, cfg, st)
           \/ \E i : syscall_common(p, s, RemoveWakes(i), 0)
    BY <1>8 DEF msgctl_RMID
  <2>2. ASSUME NEW i, syscall_common(p, s, RemoveWakes(i), 0) PROVE IInv'
    BY <1>2, <1>4, <2>1, <2>2, RemoveTouches
  <2>. QED
    BY <1>2, <1>4, <2>1, <2>2, NobodyTouched
<1>. QED
  BY <1>0, <1>5, <1>6, <1>7, <1>8

\* The ends of calls.
LEMMA AnswerKeeps ==
    ASSUME IInv, NEW p \in Tracee, msgrcv_retry(p) \/ msgAnswered(p) \/ msgInterrupted(p)
    PROVE  IInv'
<1>1. /\ cfg' = [cfg EXCEPT ![p] = Idle]
      /\ kern' = [kern EXCEPT ![p] = "user"]
      /\ sigstop' \in {sigstop, sigstop \ {p}}
  BY DEF msgrcv_retry, msgAnswered, msgInterrupted, Answer, PpollCanceled,
         ExitAnswered, ExitInterrupted, ReturnsWith
<1>. QED
  BY <1>1, ReturnKeeps

\* The kernel's steps, and the death of a guest.
LEMMA KernelKeeps ==
    ASSUME IInv, NEW p \in Tracee, Kernel(p)
    PROVE  IInv'
<1>1. CASE PpollEnter(p)
  <2>1. /\ kern' = [kern EXCEPT ![p] = "ppoll"]
        /\ cfg' = [cfg EXCEPT ![p].wait_state = "entered"]
        /\ cfg[p].wait_state = "restarted" /\ sigstop' = sigstop
    BY <1>1 DEF PpollEnter
  <2>2. /\ DOMAIN kern' = Tracee /\ DOMAIN cfg' = Tracee
        /\ \A u \in Tracee \ {p} : kern'[u] = kern[u] /\ cfg'[u] = cfg[u]
        /\ kern'[p] = "ppoll"
        /\ DOMAIN cfg'[p] = Fields
        /\ cfg'[p].wait_state = "entered"
        /\ cfg'[p].wait_reason = cfg[p].wait_reason
    BY <2>1 DEF IInv, Shape, Fields
  <2>3. Shape'
    BY <2>2 DEF IInv, Shape
  <2>4. WaitersAgree'
    BY <2>1, <2>2 DEF IInv, WaitersAgree
  <2>. QED
    BY <2>3, <2>4 DEF IInv
<1>2. CASE PpollInterrupted(p) \/ PpollStopped(p)
  BY <1>2, MoveKeeps DEF PpollInterrupted, PpollStopped
<1>3. CASE GuestDies(p)
  BY <1>3, MoveKeeps DEF GuestDies
<1>4. CASE FreeGuest(p)
  BY <1>4, MoveKeeps DEF FreeGuest
<1>. QED
  BY <1>1, <1>2, <1>3, <1>4 DEF Kernel

\* A step of nobody.
LEMMA StutterKeeps ==
    ASSUME IInv, UNCHANGED vars
    PROVE  IInv'
BY DEF IInv, Shape, WaitersAgree, vars, Tracee

\* Whatever the order of sends, removals, signals, timeouts and deaths, a sleeping guest
\* is recorded as waiting or has a SIGSTOP under way, so none of them is forgotten asleep
\* (sysvipc_wake_tracee() and the exit of ppoll() agree on the state of the wait).
THEOREM WaitersAgreeHolds == Spec => []WaitersAgree
<1>1. IInv /\ [Next]_vars => IInv'
  BY CallKeeps, AnswerKeeps, KernelKeeps, StutterKeeps DEF Next
<1>2. IInv => WaitersAgree
  BY DEF IInv
<1>. QED
  BY InitIInv, <1>1, <1>2, PTL DEF Spec

-----------------------------------------------------------------------------
\* What the guests call msgrcv() with.
AllRequests == UNION {Requests[p] : p \in Tracee}
Request == [sz : Nat, typ : Int, nowait : BOOLEAN, noerror : BOOLEAN,
            copy : BOOLEAN, except : BOOLEAN, ok : BOOLEAN]
Config == [wait_reason : {"none", "msgrcv"}, wait_state : WaitStates,
           chain_state : {"none", "retry"}, status_after_wait : Errors \cup Nat,
           waiting_object_index : 0 .. MaxQueue, args : AllRequests \cup {<<>>}]
Results == (Errors \ {EAGAIN}) \cup Nat
Queue == [key : Keys, generation : Nat, valid : BOOLEAN, items : Seq(Message)]

\* A guest that has been, or is being, made to wait in msgrcv().
Held == {"restarted", "entered", "canceled", "signaled"}

\* The configuration c of a guest that is at k, whose last call returned r and was given
\* message g: who waits has been given nothing, a receiver that was woken is told to fetch
\* a message or that the queue is gone, and an answer says what was given.
GuestOK(c, k, r, g) ==
    /\ c \in Config /\ k \in Kern /\ r \in Results /\ g \in -1 .. MaxSend
    /\ c.wait_reason = "msgrcv" <=> c.wait_state \in {"restarted", "entered"}
    /\ c.wait_state \in Held => g = 0 /\ c.waiting_object_index # 0 /\ c.args \in AllRequests
    /\ c.wait_state \in {"canceled", "signaled"} => c.status_after_wait \in {EAGAIN, EIDRM}
    /\ c.chain_state = "retry" <=> c.status_after_wait = EAGAIN
    /\ c.chain_state = "retry" => c.wait_state \in {"canceled", "signaled"}
    /\ c.wait_state = "getpid" /\ g # -1 => (c.status_after_wait >= 0 <=> g # 0)
    /\ k = "user" => c.wait_state = "not" /\ (g # -1 => (r >= 0 <=> g # 0))

\* Every guest has such a configuration.
GuestsOK ==
    /\ cfg \in [Tracee -> Config] /\ kern \in [Tracee -> Kern]
    /\ result \in [Tracee -> Results] /\ got \in [Tracee -> -1 .. MaxSend]
    /\ \A p \in Tracee : GuestOK(cfg[p], kern[p], result[p], got[p])

\* Message m is item j of queue i of q.
Holds(q, i, j, m) ==
    i \in 1 .. Len(q) /\ j \in 1 .. Len(q[i].items) /\ q[i].items[j].num = m
Kept(q, m) == \E i, j \in Nat : Holds(q, i, j, m)

\* Every message that was sent is at exactly one of: a place of a queue, a receiver, the
\* messages that went with their queue.
OnceEach ==
    \A m \in 1 .. MaxSend :
      /\ \A i, j, v, w \in Nat : Holds(queues, i, j, m) /\ Holds(queues, v, w, m) => i = v /\ j = w
      /\ taken[m] \in {0, 1}
      /\ m > nsend => ~Kept(queues, m) /\ taken[m] = 0 /\ m \notin dropped
      /\ m <= nsend => \/ Kept(queues, m) /\ taken[m] = 0 /\ m \notin dropped
                       \/ ~Kept(queues, m) /\ taken[m] = 1 /\ m \notin dropped
                       \/ ~Kept(queues, m) /\ taken[m] = 0 /\ m \in dropped

\* The queues, and the history of the messages.
QueuesOK ==
    /\ queues \in Seq(Queue) /\ Len(queues) <= MaxQueue
    /\ nsend \in 0 .. MaxSend /\ taken \in [1 .. MaxSend -> Nat] /\ dropped \subseteq 1 .. MaxSend
    /\ \A i \in 1 .. Len(queues) : /\ Len(queues[i].items) <= nsend
                                   /\ ~queues[i].valid => queues[i].items = <<>>
    /\ OnceEach

\* The types of the other variables.
RestOK ==
    /\ sigstop \subseteq Tracee /\ nintr \in 0 .. MaxIntr /\ ndeath \in 0 .. MaxDeath
    /\ retired \subseteq Nat /\ wokenFor \in [Tracee -> 0 .. MaxSend] /\ left \in BOOLEAN
    /\ nrmid \in 0 .. MaxRmid

\* Who is held was held on a queue there is.
InRange == \A p \in Tracee : cfg[p].wait_state \in Held
                               => cfg[p].waiting_object_index \in 1 .. Len(queues)

-----------------------------------------------------------------------------
\* What MsgAssumption says of the parameters, for use.
LEMMA Params ==
    /\ MaxSend \in Nat /\ MaxQueue \in Nat /\ MaxRmid \in Nat /\ MaxSize \in Nat
    /\ IdBase \in Nat /\ MaxQueue < IdBase /\ MaxIntr \in Nat /\ MaxDeath \in Nat
    /\ Keys \subseteq Nat /\ Types \subseteq Int /\ Lengths \subseteq Nat
    /\ AllRequests \subseteq Request
<1>1. AllRequests \subseteq Request
  BY MsgAssumption DEF AllRequests, Request
<1> QED BY <1>1, MsgAssumption, IntrAssumption

\* One queue of the array is replaced.
LEMMA SlotReplaced ==
    ASSUME NEW q \in Seq(Queue), NEW i \in 1 .. Len(q), NEW r \in Queue
    PROVE  LET s == [q EXCEPT ![i] = r]
           IN  /\ s \in Seq(Queue) /\ Len(s) = Len(q) /\ s[i] = r
               /\ \A v \in 1 .. Len(q) \ {i} : s[v] = q[v]
BY ExceptSeq

\* A list of items without one of them (STAILQ_REMOVE).
LEMMA ItemRemoved ==
    ASSUME NEW s \in Seq(Message), NEW k \in 1 .. Len(s)
    PROVE  LET r == SubSeq(s, 1, k - 1) \o SubSeq(s, k + 1, Len(s))
           IN  /\ r \in Seq(Message) /\ Len(r) = Len(s) - 1
               /\ \A j \in 1 .. Len(r) : r[j] = IF j < k THEN s[j] ELSE s[j + 1]
<1> DEFINE a == SubSeq(s, 1, k - 1)
           b == SubSeq(s, k + 1, Len(s))
<1>1. /\ a \in Seq(Message) /\ Len(a) = k - 1
      /\ \A j \in 1 .. k - 1 : a[j] = s[j]
  OBVIOUS
<1>2. /\ b \in Seq(Message) /\ Len(b) = Len(s) - k
      /\ \A j \in 1 .. Len(s) - k : b[j] = s[j + k]
  OBVIOUS
<1> HIDE DEF a, b
<1>3. /\ a \o b \in Seq(Message) /\ Len(a \o b) = Len(s) - 1
      /\ \A j \in 1 .. Len(s) - 1 : (a \o b)[j] = IF j < k THEN a[j] ELSE b[j - (k - 1)]
  <2>1. /\ a \o b \in Seq(Message) /\ Len(a \o b) = Len(a) + Len(b)
        /\ \A j \in 1 .. Len(a) + Len(b) : (a \o b)[j] = IF j <= Len(a) THEN a[j] ELSE b[j - Len(a)]
    BY <1>1, <1>2, ConcatProperties
  <2> QED BY <1>1, <1>2, <2>1
<1>4. \A j \in k .. Len(s) - 1 : b[j - (k - 1)] = s[j + 1]
  BY <1>2
<1>5. \A j \in 1 .. Len(s) - 1 : (a \o b)[j] = IF j < k THEN s[j] ELSE s[j + 1]
  BY <1>1, <1>3, <1>4
<1> QED BY <1>3, <1>5 DEF a, b

\* Its end (STAILQ_INSERT_TAIL).
LEMMA ItemAppended ==
    ASSUME NEW s \in Seq(Message), NEW x \in Message
    PROVE  LET r == Append(s, x)
           IN  /\ r \in Seq(Message) /\ Len(r) = Len(s) + 1 /\ r[Len(s) + 1] = x
               /\ \A j \in 1 .. Len(s) : r[j] = s[j]
OBVIOUS

\* The first of a set of indices is one of them, and no later than any.
LEMMA FirstIn ==
    ASSUME NEW n \in Nat, NEW S \in SUBSET (1 .. n), S # {}
    PROVE  First(S) \in S /\ \A j \in S : First(S) <= j
<1>1. \E i \in S : \A j \in S : i <= j
  <2> DEFINE Less == {ss \in Nat \X Nat : ss[1] < ss[2]}
  <2>1. IsWellFoundedOn(Less, Nat) BY NatLessThanWellFounded DEF OpToRel
  <2>2. S \subseteq Nat OBVIOUS
  <2> HIDE DEF Less
  <2>3. PICK i \in S : \A j \in S : ~(<<j, i>> \in Less) BY <2>1, <2>2, WFMin
  <2>4. ASSUME NEW j \in S PROVE i <= j
    <3>1. i \in Nat /\ j \in Nat /\ ~(<<j, i>> \in Less) BY <2>2, <2>3
    <3>2. ~(j < i) BY <3>1 DEF Less
    <3> QED BY <3>1, <3>2
  <2> QED BY <2>4
<1> QED BY <1>1 DEF First

\* What a woken receiver is told.
LEMMA WokenOK ==
    ASSUME NEW c, NEW k, NEW r, NEW g, GuestOK(c, k, r, g), c.wait_reason = "msgrcv"
    PROVE  /\ GuestOK(Woken(c, EIDRM), k, r, g)
           /\ GuestOK(Woken([c EXCEPT !.chain_state = "retry"], EAGAIN), k, r, g)
<1> DEFINE s == IF c.wait_state = "entered" THEN "signaled" ELSE "canceled"
           d == [c EXCEPT !.wait_reason = "none", !.wait_state = s, !.status_after_wait = EIDRM]
           e == [c EXCEPT !.wait_reason = "none", !.wait_state = s, !.chain_state = "retry",
                          !.status_after_wait = EAGAIN]
<1>1. c \in Config /\ c.wait_state \in {"restarted", "entered"} BY DEF GuestOK
<1>2. Woken(c, EIDRM) = d BY <1>1 DEF Woken, Config
<1>3. Woken([c EXCEPT !.chain_state = "retry"], EAGAIN) = e BY <1>1 DEF Woken, Config
<1>4. s \in {"signaled", "canceled"} OBVIOUS
<1>5. EAGAIN \in Errors /\ EIDRM \in Errors /\ EAGAIN # EIDRM BY DEF Errors, EAGAIN, EIDRM
<1> HIDE DEF s
<1>6. GuestOK(d, k, r, g)
  <2>1. c.chain_state = "none" BY <1>1 DEF GuestOK, Config
  <2>2. /\ d \in Config /\ d.wait_reason = "none" /\ d.wait_state = s
        /\ d.chain_state = "none" /\ d.status_after_wait = EIDRM
        /\ d.waiting_object_index = c.waiting_object_index /\ d.args = c.args
    BY <1>1, <1>4, <1>5, <2>1 DEF Config, WaitStates
  <2> HIDE DEF d
  <2> QED BY <1>1, <1>4, <1>5, <2>2 DEF GuestOK, Held
<1>7. GuestOK(e, k, r, g)
  <2>2. /\ e \in Config /\ e.wait_reason = "none" /\ e.wait_state = s
        /\ e.chain_state = "retry" /\ e.status_after_wait = EAGAIN
        /\ e.waiting_object_index = c.waiting_object_index /\ e.args = c.args
    BY <1>1, <1>4, <1>5 DEF Config, WaitStates
  <2> HIDE DEF e
  <2> QED BY <1>1, <1>4, <1>5, <2>2 DEF GuestOK, Held
<1> QED BY <1>2, <1>3, <1>6, <1>7

-----------------------------------------------------------------------------
\* The types of the fields of a queue.
LEMMA QueueAt ==
    ASSUME QueuesOK, NEW i \in 1 .. Len(queues)
    PROVE  /\ queues[i] \in Queue /\ queues[i].items \in Seq(Message)
           /\ queues[i].key \in Keys /\ queues[i].generation \in Nat /\ queues[i].valid \in BOOLEAN
<1>1. queues \in Seq(Queue) BY DEF QueuesOK
<1>2. queues[i] \in Queue BY <1>1, ElementOfSeq
<1> QED BY <1>2 DEF Queue

\* sysvipc_msgget() may add a queue, which is empty.
LEMMA NewQueueOnce ==
    ASSUME QueuesOK, UNCHANGED <<nsend, taken, dropped>>,
           queues' \in Seq(Queue), Len(queues') <= MaxQueue, Len(queues) <= Len(queues'),
           \A i \in 1 .. Len(queues') :
             IF i <= Len(queues) /\ queues[i].valid THEN queues'[i] = queues[i]
                                                    ELSE queues'[i].items = <<>>
    PROVE  QueuesOK'
<1>1. ASSUME NEW i \in Nat, NEW j \in Nat, NEW m
      PROVE  Holds(queues', i, j, m) <=> Holds(queues, i, j, m)
  BY DEF QueuesOK, Holds
<1>2. \A m : Kept(queues', m) <=> Kept(queues, m) BY <1>1 DEF Kept
<1>3. OnceEach'
  <2>1. OnceEach BY DEF QueuesOK
  <2>2. \A m \in 1 .. MaxSend, i, j, v, w \in Nat :
          Holds(queues', i, j, m) /\ Holds(queues', v, w, m) => i = v /\ j = w
    BY <1>1, <2>1 DEF OnceEach
  <2> QED BY <1>2, <2>1, <2>2 DEF OnceEach
<1>4. \A i \in 1 .. Len(queues') : /\ Len(queues'[i].items) <= nsend'
                                   /\ ~queues'[i].valid => queues'[i].items = <<>>
  BY DEF QueuesOK
<1> QED BY <1>3, <1>4 DEF QueuesOK

\* sysvipc_msgsnd() puts the message it numbers nsend + 1 at the end of a queue.
LEMMA SentOnce ==
    ASSUME QueuesOK, NEW i \in 1 .. Len(queues), queues[i].valid,
           NEW x \in Message, x.num = nsend + 1, nsend < MaxSend,
           nsend' = nsend + 1, UNCHANGED <<taken, dropped>>,
           queues' = [queues EXCEPT ![i].items = Append(@, x)]
    PROVE  /\ QueuesOK' /\ Len(queues') = Len(queues)
           /\ \A v \in 1 .. Len(queues) : queues'[v].valid = queues[v].valid
           /\ \A v \in 1 .. Len(queues) \ {i} : queues'[v] = queues[v]
           /\ Len(queues'[i].items) = Len(queues[i].items) + 1
           /\ queues'[i].items[Len(queues[i].items) + 1] = x
           /\ \A j \in 1 .. Len(queues[i].items) : queues'[i].items[j] = queues[i].items[j]
<1> DEFINE s == Append(queues[i].items, x)
           r == [queues[i] EXCEPT !.items = s]
<1>1. queues[i] \in Queue /\ queues[i].items \in Seq(Message) /\ queues[i].generation \in Nat
  BY QueueAt
<1>2. /\ s \in Seq(Message) /\ Len(s) = Len(queues[i].items) + 1
      /\ s[Len(queues[i].items) + 1] = x
      /\ \A j \in 1 .. Len(queues[i].items) : s[j] = queues[i].items[j]
  BY <1>1, ItemAppended
<1> HIDE DEF s
<1>3. r \in Queue /\ r.items = s /\ r.valid BY <1>1, <1>2 DEF Queue
<1>4. queues' = [queues EXCEPT ![i] = r] BY DEF s
<1> HIDE DEF r
<1>5. queues \in Seq(Queue) BY DEF QueuesOK
<1>6. /\ queues' \in Seq(Queue) /\ Len(queues') = Len(queues) /\ queues'[i] = r
      /\ \A v \in 1 .. Len(queues) \ {i} : queues'[v] = queues[v]
  <2>1. r \in Queue BY <1>3
  <2> DEFINE q == [queues EXCEPT ![i] = r]
  <2>2. /\ q \in Seq(Queue) /\ Len(q) = Len(queues) /\ q[i] = r
        /\ \A v \in 1 .. Len(queues) \ {i} : q[v] = queues[v]
    BY <1>5, <2>1, SlotReplaced
  <2> QED BY <1>4, <2>2, Zenon
<1>7. ASSUME NEW v \in Nat, NEW j \in Nat, NEW m
      PROVE  Holds(queues', v, j, m) <=> \/ Holds(queues, v, j, m)
                                         \/ v = i /\ j = Len(queues[i].items) + 1 /\ m = nsend + 1
  BY <1>1, <1>2, <1>3, <1>6 DEF Holds
<1>8. ASSUME NEW m \in 1 .. MaxSend
      PROVE  Kept(queues', m) <=> Kept(queues, m) \/ m = nsend + 1
  <2>1. Len(queues[i].items) + 1 \in Nat /\ i \in Nat BY <1>1
  <2> QED BY <1>7, <2>1 DEF Kept
<1>9. OnceEach'
  <2> SUFFICES ASSUME NEW m \in 1 .. MaxSend
               PROVE /\ \A a, j, v, w \in Nat : Holds(queues', a, j, m) /\ Holds(queues', v, w, m)
                                                 => a = v /\ j = w
                     /\ taken[m] \in {0, 1}
                     /\ m > nsend + 1 => ~Kept(queues', m) /\ taken[m] = 0 /\ m \notin dropped
                     /\ m <= nsend + 1 => \/ Kept(queues', m) /\ taken[m] = 0 /\ m \notin dropped
                                          \/ ~Kept(queues', m) /\ taken[m] = 1 /\ m \notin dropped
                                          \/ ~Kept(queues', m) /\ taken[m] = 0 /\ m \in dropped
    BY DEF OnceEach
  <2>1. OnceEach /\ nsend \in Nat BY Params DEF QueuesOK
  <2>2. m = nsend + 1 => \A a, j \in Nat : ~Holds(queues, a, j, m)
    BY <2>1 DEF OnceEach, Kept
  <2>3. \A a, j, v, w \in Nat : Holds(queues', a, j, m) /\ Holds(queues', v, w, m)
                                  => a = v /\ j = w
    <3>1. CASE m = nsend + 1 BY <1>7, <2>2, <3>1
    <3>2. CASE m # nsend + 1 BY <1>7, <2>1, <3>2 DEF OnceEach
    <3> QED BY <3>1, <3>2
  <2>4. /\ taken[m] \in {0, 1}
        /\ m > nsend => ~Kept(queues, m) /\ taken[m] = 0 /\ m \notin dropped
        /\ m <= nsend => \/ Kept(queues, m) /\ taken[m] = 0 /\ m \notin dropped
                         \/ ~Kept(queues, m) /\ taken[m] = 1 /\ m \notin dropped
                         \/ ~Kept(queues, m) /\ taken[m] = 0 /\ m \in dropped
    BY <2>1 DEF OnceEach
  <2>5. CASE m = nsend + 1
    <3>1. m > nsend /\ ~(m > nsend + 1) BY <2>1, <2>5
    <3>2. Kept(queues', m) BY <1>8, <2>5
    <3> QED BY <2>3, <2>4, <3>1, <3>2
  <2>6. CASE m # nsend + 1
    <3>1. Kept(queues', m) <=> Kept(queues, m) BY <1>8, <2>6
    <3>2. (m > nsend + 1 => m > nsend) /\ (m <= nsend + 1 => m <= nsend) BY <2>1, <2>6
    <3> QED BY <2>3, <2>4, <3>1, <3>2
  <2> QED BY <2>5, <2>6
<1>10. \A v \in 1 .. Len(queues') : /\ Len(queues'[v].items) <= nsend'
                                    /\ ~queues'[v].valid => queues'[v].items = <<>>
  <2> SUFFICES ASSUME NEW v \in 1 .. Len(queues)
               PROVE  /\ Len(queues'[v].items) <= nsend + 1
                      /\ ~queues'[v].valid => queues'[v].items = <<>>
    BY <1>6
  <2>1. /\ Len(queues[v].items) <= nsend /\ (~queues[v].valid => queues[v].items = <<>>)
        /\ nsend \in Nat
    BY Params DEF QueuesOK
  <2>2. Len(queues[v].items) \in Nat BY QueueAt
  <2> QED BY <1>2, <1>3, <1>6, <2>1, <2>2
<1>11. QueuesOK' BY <1>6, <1>9, <1>10, Params DEF QueuesOK
<1> QED BY <1>2, <1>3, <1>6, <1>11

\* IPC_RMID drops the messages of the queue.
LEMMA RemovedOnce ==
    ASSUME QueuesOK, NEW i \in 1 .. Len(queues),
           dropped' = dropped \cup {queues[i].items[j].num : j \in 1 .. Len(queues[i].items)},
           queues' = RemoveQueue(i), UNCHANGED <<nsend, taken>>
    PROVE  /\ QueuesOK' /\ Len(queues') = Len(queues) /\ queues'[i].items = <<>>
           /\ \A v \in 1 .. Len(queues) \ {i} : queues'[v] = queues[v]
<1> DEFINE n == queues[i].generation + 1
           r == [queues[i] EXCEPT !.valid = FALSE, !.generation = n, !.items = <<>>]
<1>1. queues[i] \in Queue /\ queues[i].items \in Seq(Message) /\ queues[i].generation \in Nat
  BY QueueAt
<1>2. r \in Queue /\ r.items = <<>>
  <2>1. <<>> \in Seq(Message) OBVIOUS
  <2>2. n \in Nat BY <1>1
  <2> HIDE DEF n
  <2> QED BY <1>1, <2>1, <2>2 DEF Queue
<1>3. queues' = [queues EXCEPT ![i] = r] BY DEF RemoveQueue
<1> HIDE DEF r
<1>4. queues \in Seq(Queue) BY DEF QueuesOK
<1>5. /\ queues' \in Seq(Queue) /\ Len(queues') = Len(queues) /\ queues'[i] = r
      /\ \A v \in 1 .. Len(queues) \ {i} : queues'[v] = queues[v]
  BY <1>2, <1>3, <1>4, SlotReplaced
<1>6. ASSUME NEW v \in Nat, NEW j \in Nat, NEW m
      PROVE  Holds(queues', v, j, m) <=> v # i /\ Holds(queues, v, j, m)
  BY <1>2, <1>5 DEF Holds
<1>7. \A m : m \in dropped' <=> m \in dropped \/ \E j \in Nat : Holds(queues, i, j, m)
  BY <1>1 DEF Holds
<1>8. OnceEach'
  <2> SUFFICES ASSUME NEW m \in 1 .. MaxSend
               PROVE /\ \A a, j, v, w \in Nat : Holds(queues', a, j, m) /\ Holds(queues', v, w, m)
                                                 => a = v /\ j = w
                     /\ taken[m] \in {0, 1}
                     /\ m > nsend => ~Kept(queues', m) /\ taken[m] = 0 /\ m \notin dropped'
                     /\ m <= nsend => \/ Kept(queues', m) /\ taken[m] = 0 /\ m \notin dropped'
                                      \/ ~Kept(queues', m) /\ taken[m] = 1 /\ m \notin dropped'
                                      \/ ~Kept(queues', m) /\ taken[m] = 0 /\ m \in dropped'
    BY DEF OnceEach
  <2>1. OnceEach BY DEF QueuesOK
  <2>2. Kept(queues', m) <=> \E v, j \in Nat : v # i /\ Holds(queues, v, j, m)
    BY <1>6 DEF Kept
  <2>3. CASE \E j \in Nat : Holds(queues, i, j, m)
    <3>1. Kept(queues, m) BY <2>3 DEF Kept
    <3>2. ~Kept(queues', m) BY <2>1, <2>2, <2>3 DEF OnceEach
    <3>4. ~(m > nsend) /\ m <= nsend BY <2>1, <3>1, Params DEF OnceEach, QueuesOK
    <3>3. m \in dropped' /\ taken[m] = 0
      <4>1. m \in dropped' BY <1>7, <2>3
      <4> QED BY <2>1, <3>1, <3>4, <4>1 DEF OnceEach
    <3> QED BY <1>6, <2>1, <3>2, <3>3, <3>4 DEF OnceEach
  <2>4. CASE ~\E j \in Nat : Holds(queues, i, j, m)
    <3>1. Kept(queues', m) <=> Kept(queues, m) BY <2>2, <2>4 DEF Kept
    <3>2. m \in dropped' <=> m \in dropped BY <1>7, <2>4
    <3> QED BY <1>6, <2>1, <3>1, <3>2 DEF OnceEach
  <2> QED BY <2>3, <2>4
<1>9. dropped' \subseteq 1 .. MaxSend
  <2>1. \A j \in 1 .. Len(queues[i].items) : queues[i].items[j] \in Message BY <1>1, ElementOfSeq
  <2>2. \A j \in 1 .. Len(queues[i].items) : queues[i].items[j].num \in 1 .. MaxSend
    BY <2>1 DEF Message
  <2> QED BY <2>2 DEF QueuesOK
<1>10. \A v \in 1 .. Len(queues') : /\ Len(queues'[v].items) <= nsend'
                                    /\ ~queues'[v].valid => queues'[v].items = <<>>
  BY <1>2, <1>5, Params DEF QueuesOK
<1>11. QueuesOK' BY <1>5, <1>8, <1>9, <1>10 DEF QueuesOK
<1> QED BY <1>2, <1>5, <1>11

\* do_msgrcv() takes the message at k from queue i and delivers it.
LEMMA ReceivedOnce ==
    ASSUME QueuesOK, NEW i \in 1 .. Len(queues), NEW k \in 1 .. Len(queues[i].items),
           queues' = [queues EXCEPT ![i].items = SubSeq(@, 1, k - 1) \o SubSeq(@, k + 1, Len(@))],
           taken' = [taken EXCEPT ![queues[i].items[k].num] = @ + 1],
           UNCHANGED <<nsend, dropped>>
    PROVE  /\ QueuesOK' /\ Len(queues') = Len(queues)
           /\ queues[i].items[k].num \in 1 .. MaxSend
           /\ \A v \in 1 .. Len(queues) : queues'[v].valid = queues[v].valid
           /\ \A v \in 1 .. Len(queues) \ {i} : queues'[v] = queues[v]
           /\ \A j \in 1 .. Len(queues'[i].items) :
                \E w \in 1 .. Len(queues[i].items) : queues'[i].items[j] = queues[i].items[w]
<1> DEFINE o == queues[i].items
           s == SubSeq(o, 1, k - 1) \o SubSeq(o, k + 1, Len(o))
           r == [queues[i] EXCEPT !.items = s]
           n == o[k].num
<1>1. queues[i] \in Queue /\ o \in Seq(Message) BY QueueAt
<1>2. s \in Seq(Message) /\ Len(s) = Len(o) - 1
  BY <1>1, ItemRemoved
<1>3. \A j \in 1 .. Len(s) : s[j] = IF j < k THEN o[j] ELSE o[j + 1]
  BY <1>1, ItemRemoved
<1>4. n \in 1 .. MaxSend
  <2>1. o[k] \in Message BY <1>1, ElementOfSeq
  <2> QED BY <2>1 DEF Message
<1> HIDE DEF s
<1>5. r \in Queue /\ r.items = s /\ r.valid = queues[i].valid BY <1>1, <1>2 DEF Queue
<1>6. queues' = [queues EXCEPT ![i] = r] BY DEF s
<1> HIDE DEF r
<1>7. queues \in Seq(Queue) BY DEF QueuesOK
<1>8. /\ queues' \in Seq(Queue) /\ Len(queues') = Len(queues) /\ queues'[i] = r
      /\ \A v \in 1 .. Len(queues) \ {i} : queues'[v] = queues[v]
  <2>1. r \in Queue BY <1>5
  <2> DEFINE q == [queues EXCEPT ![i] = r]
  <2>2. /\ q \in Seq(Queue) /\ Len(q) = Len(queues) /\ q[i] = r
        /\ \A v \in 1 .. Len(queues) \ {i} : q[v] = queues[v]
    BY <1>7, <2>1, SlotReplaced
  <2> QED BY <1>6, <2>2, Zenon
<1>9. taken \in [1 .. MaxSend -> Nat] /\ OnceEach /\ nsend \in Nat BY Params DEF QueuesOK
<1>10. taken'[n] = taken[n] + 1 /\ \A m \in 1 .. MaxSend \ {n} : taken'[m] = taken[m]
  BY <1>4, <1>9
<1>11. taken' \in [1 .. MaxSend -> Nat]
  <2> DEFINE c == taken[n] + 1
  <2>2. taken' = [taken EXCEPT ![n] = c] OBVIOUS
  <2> HIDE DEF n
  <2>1. c \in Nat BY <1>4, <1>9
  <2> HIDE DEF c
  <2> QED BY <1>4, <1>9, <2>1, <2>2
<1>12. i \in Nat /\ k \in Nat /\ Len(o) \in Nat /\ k \in 1 .. Len(o) BY <1>1
<1>13. Holds(queues, i, k, n) BY DEF Holds
<1> HIDE DEF n
<1>14. ASSUME NEW v \in Nat, NEW j \in Nat, NEW m
       PROVE  Holds(queues', v, j, m) <=>
                IF v = i THEN j \in 1 .. Len(o) - 1 /\ Holds(queues, i, IF j < k THEN j ELSE j + 1, m)
                         ELSE Holds(queues, v, j, m)
  <2>1. CASE v # i BY <1>8, <2>1 DEF Holds
  <2>2. CASE v = i
    <3>1. Holds(queues', v, j, m) <=> j \in 1 .. Len(s) /\ s[j].num = m
      BY <1>5, <1>8, <2>2 DEF Holds
    <3>2. j \in 1 .. Len(s) => (IF j < k THEN j ELSE j + 1) \in 1 .. Len(o)
      <4> HIDE DEF o
      <4> QED BY <1>2, <1>12, SMTT(30)
    <3>3. j \in 1 .. Len(s) => s[j] = o[IF j < k THEN j ELSE j + 1]
      BY <1>3
    <3> QED BY <1>2, <2>2, <3>1, <3>2, <3>3 DEF Holds
  <2> QED BY <2>1, <2>2
<1> HIDE DEF o
<1>15. ASSUME NEW m \in 1 .. MaxSend
       PROVE  Kept(queues', m) <=> Kept(queues, m) /\ m # n
  <2>1. ASSUME NEW v \in Nat, NEW j \in Nat, Holds(queues', v, j, m)
        PROVE  Kept(queues, m) /\ m # n
    <3>1. CASE v # i BY <1>9, <1>12, <1>13, <1>14, <2>1, <3>1 DEF Kept, OnceEach
    <3>2. CASE v = i
      <4> DEFINE j2 == IF j < k THEN j ELSE j + 1
      <4>1. Holds(queues, i, j2, m) BY <1>14, <2>1, <3>2
      <4>2. j2 \in Nat /\ j2 # k BY <1>12, SMTT(30)
      <4> HIDE DEF j2
      <4>3. Kept(queues, m) BY <1>12, <4>1, <4>2 DEF Kept
      <4>4. m = n => j2 = k BY <1>9, <1>12, <1>13, <4>1, <4>2 DEF OnceEach
      <4> QED BY <4>2, <4>3, <4>4
    <3> QED BY <3>1, <3>2
  <2>2. ASSUME NEW v \in Nat, NEW j \in Nat, Holds(queues, v, j, m), m # n
        PROVE  Kept(queues', m)
    <3>1. CASE v # i BY <1>14, <2>2, <3>1 DEF Kept
    <3>2. CASE v = i
      <4>1. j # k /\ j \in 1 .. Len(o) BY <2>2, <3>2 DEF Holds, o, n
      <4>2. CASE j < k
        <5>1. j \in 1 .. Len(o) - 1 BY <1>12, <4>1, <4>2
        <5>2. Holds(queues', i, j, m) BY <1>12, <1>14, <2>2, <3>2, <4>2, <5>1
        <5> QED BY <1>12, <5>2 DEF Kept
      <4>3. CASE ~(j < k)
        <5>1. /\ j - 1 \in 1 .. Len(o) - 1 /\ j - 1 \in Nat /\ ~(j - 1 < k) /\ (j - 1) + 1 = j
          BY <1>12, <4>1, <4>3, SMTT(30)
        <5>2. Holds(queues', i, j - 1, m) BY <1>12, <1>14, <2>2, <3>2, <5>1
        <5> QED BY <1>12, <5>1, <5>2 DEF Kept
      <4> QED BY <4>2, <4>3
    <3> QED BY <3>1, <3>2
  <2> QED BY <2>1, <2>2 DEF Kept
<1>16. OnceEach'
  <2> SUFFICES ASSUME NEW m \in 1 .. MaxSend
               PROVE /\ \A a, j, v, w \in Nat : Holds(queues', a, j, m) /\ Holds(queues', v, w, m)
                                                 => a = v /\ j = w
                     /\ taken'[m] \in {0, 1}
                     /\ m > nsend => ~Kept(queues', m) /\ taken'[m] = 0 /\ m \notin dropped
                     /\ m <= nsend => \/ Kept(queues', m) /\ taken'[m] = 0 /\ m \notin dropped
                                      \/ ~Kept(queues', m) /\ taken'[m] = 1 /\ m \notin dropped
                                      \/ ~Kept(queues', m) /\ taken'[m] = 0 /\ m \in dropped
    BY DEF OnceEach
  <2>1. ASSUME NEW a \in Nat, NEW j \in Nat, NEW v \in Nat, NEW w \in Nat,
               Holds(queues', a, j, m), Holds(queues', v, w, m)
        PROVE  a = v /\ j = w
    <3> DEFINE j2 == IF a = i THEN IF j < k THEN j ELSE j + 1 ELSE j
               w2 == IF v = i THEN IF w < k THEN w ELSE w + 1 ELSE w
    <3>1. Holds(queues, a, j2, m) /\ Holds(queues, v, w2, m) BY <1>14, <2>1
    <3>2. j2 \in Nat /\ w2 \in Nat BY SMTT(30)
    <3>3. a = v /\ j2 = w2
      <4> HIDE DEF j2, w2
      <4> QED BY <1>9, <3>1, <3>2 DEF OnceEach
    <3> QED BY <1>12, <3>3
  <2>2. m = n => Kept(queues, m) BY <1>12, <1>13 DEF Kept
  <2>3. CASE m = n
    <3>1. ~Kept(queues', m) BY <1>15, <2>3
    <3>2. m <= nsend /\ ~(m > nsend) /\ taken[m] = 0 /\ m \notin dropped
      BY <1>9, <2>2, <2>3 DEF OnceEach
    <3>3. taken'[m] = 1 BY <1>10, <2>3, <3>2
    <3> QED BY <2>1, <3>1, <3>2, <3>3
  <2>4. CASE m # n
    <3>1. (Kept(queues', m) <=> Kept(queues, m)) /\ taken'[m] = taken[m] BY <1>10, <1>15, <2>4
    <3> QED BY <1>9, <2>1, <3>1 DEF OnceEach
  <2> QED BY <2>3, <2>4
<1>17. Len(o) <= nsend /\ (~queues[i].valid => o = <<>>) BY DEF QueuesOK, o
<1>18. ~queues[i].valid => Len(o) = 0 BY <1>17
<1>19. queues[i].valid BY <1>12, <1>18 DEF o
<1>20. \A v \in 1 .. Len(queues') : /\ Len(queues'[v].items) <= nsend
                                    /\ ~queues'[v].valid => queues'[v].items = <<>>
  <2> SUFFICES ASSUME NEW v \in 1 .. Len(queues)
               PROVE  /\ Len(queues'[v].items) <= nsend
                      /\ ~queues'[v].valid => queues'[v].items = <<>>
    BY <1>8
  <2>1. Len(queues[v].items) <= nsend /\ (~queues[v].valid => queues[v].items = <<>>)
    BY DEF QueuesOK
  <2>2. CASE v # i BY <1>8, <2>1, <2>2
  <2>3. CASE v = i
    <3>1. queues'[v].items = s /\ queues'[v].valid BY <1>5, <1>8, <1>19, <2>3
    <3>2. Len(s) <= nsend BY <1>2, <1>9, <1>12, <1>17
    <3> QED BY <3>1, <3>2
  <2> QED BY <2>2, <2>3
<1>21. QueuesOK' BY <1>8, <1>11, <1>16, <1>20 DEF QueuesOK
<1>22. \A j \in 1 .. Len(s) : \E w \in 1 .. Len(o) : s[j] = o[w]
  <2> SUFFICES ASSUME NEW j \in 1 .. Len(s) PROVE \E w \in 1 .. Len(o) : s[j] = o[w]
    OBVIOUS
  <2>1. CASE j < k
    <3>1. j \in 1 .. Len(o) BY <1>2, <1>12
    <3> QED BY <1>3, <2>1, <3>1
  <2>2. CASE ~(j < k)
    <3>1. j + 1 \in 1 .. Len(o) BY <1>2, <1>12, SMTT(30)
    <3> QED BY <1>3, <2>2, <3>1
  <2> QED BY <2>1, <2>2
<1> QED BY <1>4, <1>5, <1>8, <1>21, <1>22 DEF n, o

\* OnceEach says what Conserved says, in terms of places that are counted.
LEMMA OnceConserved ==
    ASSUME QueuesOK PROVE Conserved
<1> SUFFICES ASSUME NEW m \in 1 .. MaxSend
             PROVE  Cardinality(Places(m)) + taken[m] + (IF m \in dropped THEN 1 ELSE 0)
                      = IF m <= nsend THEN 1 ELSE 0
  BY DEF Conserved
<1>1. OnceEach /\ nsend \in 0 .. MaxSend BY DEF QueuesOK
<1>2. ASSUME NEW at
      PROVE  at \in Places(m) <=> \E i, j \in Nat : at = <<i, j>> /\ Holds(queues, i, j, m)
  <2>1. ASSUME NEW i \in Nat, NEW j \in Nat, Holds(queues, i, j, m)
        PROVE  j \in 1 .. MaxSend
    <3>1. Len(queues[i].items) <= nsend /\ Len(queues[i].items) \in Nat
      BY <2>1, QueueAt DEF QueuesOK, Holds
    <3> QED BY <1>1, <2>1, <3>1, Params DEF Holds
  <2>2. ASSUME at \in Places(m)
        PROVE  \E i, j \in Nat : at = <<i, j>> /\ Holds(queues, i, j, m)
    <3>1. PICK i \in 1 .. Len(queues), j \in 1 .. MaxSend : at = <<i, j>> BY <2>2 DEF Places
    <3>2. Len(queues[i].items) \in Nat BY QueueAt
    <3>3. Holds(queues, i, j, m) BY <2>2, <3>1, <3>2 DEF Places, Holds
    <3> QED BY <3>1, <3>3
  <2>3. ASSUME NEW i \in Nat, NEW j \in Nat, at = <<i, j>>, Holds(queues, i, j, m)
        PROVE  at \in Places(m)
    <3>1. i \in 1 .. Len(queues) /\ j \in 1 .. MaxSend BY <2>1, <2>3 DEF Holds
    <3>2. Len(queues[i].items) \in Nat BY <3>1, QueueAt
    <3> QED BY <2>3, <3>1, <3>2 DEF Places, Holds
  <2> QED BY <2>2, <2>3
<1>3. Kept(queues, m) => Cardinality(Places(m)) = 1
  <2> SUFFICES ASSUME NEW i \in Nat, NEW j \in Nat, Holds(queues, i, j, m)
               PROVE  Cardinality(Places(m)) = 1
    BY DEF Kept
  <2>1. <<i, j>> \in Places(m) BY <1>2
  <2>2. \A at \in Places(m) : at = <<i, j>> BY <1>1, <1>2 DEF OnceEach
  <2>3. Places(m) = {<<i, j>>} BY <2>1, <2>2
  <2> QED BY <2>3, FS_Singleton
<1>4. ~Kept(queues, m) => Cardinality(Places(m)) = 0
  <2>1. ~Kept(queues, m) => Places(m) = {} BY <1>2 DEF Kept
  <2> QED BY <2>1, FS_EmptySet
<1> QED BY <1>1, <1>3, <1>4, Params DEF OnceEach

-----------------------------------------------------------------------------
\* do_msgrcv(): the caller waits only when no message is for it; otherwise it is told a
\* length exactly when it is given a message.
LEMMA TargetIs ==
    ASSUME NEW items \in Seq(Message), NEW r \in Request
    PROVE  /\ Target(items, r) \in 0 .. Len(items)
           /\ Target(items, r) = 0 /\ ~r.copy =>
                \A j \in 1 .. Len(items) : ~msg_match(items[j].mtype, r)
<1> DEFINE S == {i \in 1 .. Len(items) : IF r.copy THEN i = r.typ + 1
                                                   ELSE msg_match(items[i].mtype, r)}
<1>1. CASE S = {}
  <2>1. Target(items, r) = 0 BY <1>1 DEF Target
  <2>2. ~r.copy => \A j \in 1 .. Len(items) : ~msg_match(items[j].mtype, r) BY <1>1
  <2> QED BY <2>1, <2>2
<1>2. CASE S # {}
  <2>1. Target(items, r) = First(S) BY <1>2 DEF Target
  <2>2. Len(items) \in Nat /\ S \in SUBSET (1 .. Len(items)) OBVIOUS
  <2> HIDE DEF S
  <2>3. First(S) \in 1 .. Len(items) BY <1>2, <2>2, FirstIn
  <2> QED BY <2>1, <2>2, <2>3
<1> QED BY <1>1, <1>2

\* The same of the whole result of do_msgrcv().
LEMMA ReceiveIs ==
    ASSUME NEW items \in Seq(Message), NEW r \in Request, NEW d, d = do_msgrcv(items, r)
    PROVE  /\ d.at \in 0 .. Len(items) /\ d.wait \in BOOLEAN /\ d.st \in Results
           /\ d.wait => d.at = 0 /\ \A j \in 1 .. Len(items) : ~msg_match(items[j].mtype, r)
           /\ ~d.wait => (d.st >= 0 <=> d.at # 0)
           /\ d = [st |-> d.st, wait |-> d.wait, at |-> d.at]
<1> DEFINE i == Target(items, r)
           v == msg_deliver(items[i], r)
<1>0. /\ EINVAL \in Results /\ ~(EINVAL >= 0) /\ ENOMSG \in Results /\ ~(ENOMSG >= 0)
      /\ 0 \in Results /\ E2BIG \in Results /\ EFAULT \in Results /\ Nat \subseteq Results
  BY DEF Results, Errors, EINVAL, ENOMSG, E2BIG, EFAULT, EAGAIN
<1>1. i \in 0 .. Len(items) /\ (i = 0 /\ ~r.copy =>
        \A j \in 1 .. Len(items) : ~msg_match(items[j].mtype, r))
  BY TargetIs
<1>2. i # 0 => v \in Results
  <2> SUFFICES ASSUME i # 0 PROVE v \in Results OBVIOUS
  <2>1. items[i] \in Message BY <1>1, ElementOfSeq
  <2>2. items[i].len \in Nat /\ r.sz \in Nat BY <2>1, Params DEF Message, Request
  <2> HIDE DEF i
  <2> QED BY <1>0, <2>2 DEF msg_deliver
<1>3. r.copy \in BOOLEAN /\ r.nowait \in BOOLEAN /\ r.except \in BOOLEAN BY DEF Request
<1> HIDE DEF i, v
<1>8. Len(items) \in Nat OBVIOUS
<1>4. CASE r.copy /\ (~r.nowait \/ r.except)
  <2>1. d = [st |-> EINVAL, wait |-> FALSE, at |-> 0] BY <1>4 DEF do_msgrcv
  <2>2. d.st = EINVAL /\ ~d.wait /\ d.wait \in BOOLEAN /\ d.at = 0 BY <2>1
  <2>3. d = [st |-> d.st, wait |-> d.wait, at |-> d.at] BY <2>1
  <2> QED BY <1>0, <1>8, <2>2, <2>3
<1>5. CASE ~(r.copy /\ (~r.nowait \/ r.except)) /\ i = 0 /\ r.nowait
  <2>1. d = [st |-> ENOMSG, wait |-> FALSE, at |-> 0] BY <1>5 DEF do_msgrcv, i
  <2>2. d.st = ENOMSG /\ ~d.wait /\ d.wait \in BOOLEAN /\ d.at = 0 BY <2>1
  <2>3. d = [st |-> d.st, wait |-> d.wait, at |-> d.at] BY <2>1
  <2> QED BY <1>0, <1>8, <2>2, <2>3
<1>6. CASE ~(r.copy /\ (~r.nowait \/ r.except)) /\ i = 0 /\ ~r.nowait
  <2>1. d = [st |-> 0, wait |-> TRUE, at |-> 0] BY <1>6 DEF do_msgrcv, i
  <2>2. ~r.copy BY <1>6
  <2> QED BY <1>0, <1>1, <1>6, <2>1, <2>2
<1>7. CASE ~(r.copy /\ (~r.nowait \/ r.except)) /\ i # 0
  <2>1. d = [st |-> v, wait |-> FALSE, at |-> IF v >= 0 THEN i ELSE 0]
    BY <1>7 DEF do_msgrcv, i, v
  <2> QED BY <1>1, <1>2, <1>7, <2>1
<1> QED BY <1>3, <1>4, <1>5, <1>6, <1>7

\* What a receive leaves of the messages and says to the receiver.
LEMMA DeliverOnce ==
    ASSUME QueuesOK, NEW p \in Tracee, NEW i \in 1 .. Len(queues), NEW r, NEW d,
           d.at \in 0 .. Len(queues[i].items), got \in [Tracee -> -1 .. MaxSend],
           Deliver(p, i, r, d), UNCHANGED <<nsend, dropped>>
    PROVE  /\ QueuesOK' /\ Len(queues') = Len(queues)
           /\ got' \in [Tracee -> -1 .. MaxSend] /\ got'[p] # -1 /\ (got'[p] # 0 <=> d.at # 0)
           /\ \A u \in Tracee \ {p} : got'[u] = got[u]
           /\ \A v \in 1 .. Len(queues) : queues'[v].valid = queues[v].valid
           /\ \A v \in 1 .. Len(queues) \ {i} : queues'[v] = queues[v]
           /\ \A j \in 1 .. Len(queues'[i].items) :
                \E w \in 1 .. Len(queues[i].items) : queues'[i].items[j] = queues[i].items[w]
<1> DEFINE m == queues[i].items[d.at]
<1>1. queues[i].items \in Seq(Message) BY QueueAt
<1>2. d.at # 0 => m.num \in 1 .. MaxSend
  <2> SUFFICES ASSUME d.at # 0 PROVE m.num \in 1 .. MaxSend OBVIOUS
  <2>1. m \in Message BY <1>1, ElementOfSeq
  <2> QED BY <2>1 DEF Message
<1>3. -1 # 0 /\ 0 \in -1 .. MaxSend /\ 1 .. MaxSend \subseteq -1 .. MaxSend BY Params
<1>4. /\ got' \in [Tracee -> -1 .. MaxSend] /\ got'[p] # -1 /\ (got'[p] # 0 <=> d.at # 0)
      /\ \A u \in Tracee \ {p} : got'[u] = got[u]
  <2> HIDE DEF m
  <2>1. CASE d.at = 0
    <3>1. got' = [got EXCEPT ![p] = 0] BY <2>1 DEF Deliver
    <3> QED BY <1>3, <2>1, <3>1
  <2>2. CASE d.at # 0
    <3>1. got' = [got EXCEPT ![p] = m.num] BY <2>2 DEF Deliver, m
    <3>2. m.num \in -1 .. MaxSend /\ m.num # -1 /\ m.num # 0 BY <1>2, <2>2, Params
    <3> QED BY <2>2, <3>1, <3>2
  <2> QED BY <2>1, <2>2
<1>5. CASE UNCHANGED <<queues, taken>>
  BY <1>4, <1>5, <1>1 DEF QueuesOK, OnceEach
<1>6. CASE d.at # 0 /\ ~UNCHANGED <<queues, taken>>
  <2>1. d.at \in 1 .. Len(queues[i].items) BY <1>1, <1>6
  <2>2. /\ queues' = [queues EXCEPT ![i].items =
                        SubSeq(@, 1, d.at - 1) \o SubSeq(@, d.at + 1, Len(@))]
        /\ taken' = [taken EXCEPT ![queues[i].items[d.at].num] = @ + 1]
    BY <1>6 DEF Deliver
  <2> HIDE DEF m
  <2> QED BY <1>4, <2>1, <2>2, ReceivedOnce
<1>7. d.at = 0 => UNCHANGED <<queues, taken>> BY DEF Deliver
<1> QED BY <1>5, <1>6, <1>7

-----------------------------------------------------------------------------
\* sysvipc_syscall_common(): the caller is answered or made to wait, and the others are
\* as the call left them.
LEMMA CommonGuests ==
    ASSUME GuestsOK, NEW p \in Tracee, kern[p] = "user", NEW s \in BOOLEAN,
           NEW c \in [Tracee -> Config], NEW st \in Results, syscall_common(p, s, c, st),
           \A u \in Tracee \ {p} : GuestOK(c[u], kern[u], result[u], got[u]),
           got' \in [Tracee -> -1 .. MaxSend], \A u \in Tracee \ {p} : got'[u] = got[u],
           c[p].wait_state = "not", c[p].chain_state = "none", c[p].status_after_wait # EAGAIN,
           \/ c[p].wait_reason = "none" /\ (got'[p] # -1 => (st >= 0 <=> got'[p] # 0))
           \/ /\ c[p].wait_reason = "msgrcv" /\ got'[p] = 0
              /\ c[p].waiting_object_index # 0 /\ c[p].args \in AllRequests
    PROVE  /\ GuestsOK'
           /\ \A u \in Tracee \ {p} : cfg'[u] = c[u] /\ kern'[u] = kern[u]
           /\ cfg'[p].wait_reason = c[p].wait_reason /\ cfg'[p].chain_state = "none"
           /\ cfg'[p].waiting_object_index = c[p].waiting_object_index /\ cfg'[p].args = c[p].args
           /\ cfg'[p].wait_state \in Held => c[p].wait_reason = "msgrcv"
           /\ kern'[p] # "gone"
<1>1. /\ c[p] \in Config /\ cfg \in [Tracee -> Config] /\ kern \in [Tracee -> Kern]
      /\ result \in [Tracee -> Results]
  BY DEF GuestsOK
<1>2. EAGAIN \notin Results /\ EAGAIN \in Errors /\ 0 \in Results /\ Results \subseteq Errors \cup Nat
  BY DEF Results, Errors, EAGAIN
<1>3. CASE c[p].wait_reason = "msgrcv"
  <2> DEFINE w == IF s THEN "restarted" ELSE "entered"
             k == IF s THEN "restart" ELSE "ppoll"
             x == [c[p] EXCEPT !.wait_state = w]
  <2>1. /\ cfg' = [c EXCEPT ![p] = x] /\ kern' = [kern EXCEPT ![p] = k]
        /\ result' = [result EXCEPT ![p] = 0]
    BY <1>3 DEF syscall_common
  <2>2. w \in {"restarted", "entered"} /\ k \in {"restart", "ppoll"} OBVIOUS
  <2> HIDE DEF w, k
  <2>3. /\ x \in Config /\ x.wait_state = w /\ x.wait_reason = "msgrcv" /\ x.chain_state = "none"
        /\ x.status_after_wait = c[p].status_after_wait
        /\ x.waiting_object_index = c[p].waiting_object_index /\ x.args = c[p].args
    BY <1>1, <1>3, <2>2 DEF Config, WaitStates
  <2> HIDE DEF x
  <2>4. GuestOK(x, k, 0, 0)
    <3>1. k \in Kern /\ k # "user" /\ 0 \in -1 .. MaxSend BY <2>2, Params DEF Kern
    <3> QED BY <1>2, <1>3, <2>2, <2>3, <3>1 DEF GuestOK, Held
  <2>5. /\ cfg' \in [Tracee -> Config] /\ kern' \in [Tracee -> Kern] /\ result' \in [Tracee -> Results]
        /\ cfg'[p] = x /\ kern'[p] = k /\ result'[p] = 0
        /\ \A u \in Tracee \ {p} : cfg'[u] = c[u] /\ kern'[u] = kern[u] /\ result'[u] = result[u]
    BY <1>1, <1>2, <2>1, <2>2, <2>3 DEF Kern
  <2>6. \A u \in Tracee : GuestOK(cfg'[u], kern'[u], result'[u], got'[u])
    BY <1>3, <2>4, <2>5
  <2> QED BY <1>3, <2>2, <2>3, <2>5, <2>6 DEF GuestsOK
<1>4. CASE c[p].wait_reason = "none" /\ s
  <2>1. cfg' = c /\ kern' = kern /\ result' = [result EXCEPT ![p] = st]
    BY <1>4 DEF syscall_common
  <2>2. /\ result' \in [Tracee -> Results] /\ result'[p] = st
        /\ \A u \in Tracee \ {p} : result'[u] = result[u]
    BY <1>1, <2>1
  <2>3. GuestOK(c[p], "user", st, got'[p])
    <3>1. "user" \in Kern BY DEF Kern
    <3> QED BY <1>1, <1>2, <1>4, <3>1 DEF GuestOK, Held
  <2>4. \A u \in Tracee : GuestOK(cfg'[u], kern'[u], result'[u], got'[u])
    BY <2>1, <2>2, <2>3
  <2> QED BY <1>1, <1>4, <2>1, <2>2, <2>4 DEF GuestsOK, Held
<1>5. CASE c[p].wait_reason = "none" /\ ~s
  <2> DEFINE x == [c[p] EXCEPT !.status_after_wait = st, !.wait_state = "getpid"]
  <2>1. /\ cfg' = [c EXCEPT ![p] = x] /\ kern' = [kern EXCEPT ![p] = "exit"]
        /\ result' = [result EXCEPT ![p] = 0]
    BY <1>5 DEF syscall_common
  <2>2. /\ x \in Config /\ x.wait_state = "getpid" /\ x.wait_reason = "none" /\ x.chain_state = "none"
        /\ x.status_after_wait = st
        /\ x.waiting_object_index = c[p].waiting_object_index /\ x.args = c[p].args
    BY <1>1, <1>2, <1>5 DEF Config, WaitStates
  <2> HIDE DEF x
  <2>3. GuestOK(x, "exit", 0, got'[p])
    <3>1. "exit" \in Kern BY DEF Kern
    <3> QED BY <1>2, <1>5, <2>2, <3>1 DEF GuestOK, Held
  <2>4. /\ cfg' \in [Tracee -> Config] /\ kern' \in [Tracee -> Kern] /\ result' \in [Tracee -> Results]
        /\ cfg'[p] = x /\ kern'[p] = "exit" /\ result'[p] = 0
        /\ \A u \in Tracee \ {p} : cfg'[u] = c[u] /\ kern'[u] = kern[u] /\ result'[u] = result[u]
    BY <1>1, <1>2, <2>1, <2>2 DEF Kern
  <2>5. \A u \in Tracee : GuestOK(cfg'[u], kern'[u], result'[u], got'[u])
    BY <2>3, <2>4
  <2> QED BY <1>5, <2>2, <2>4, <2>5 DEF GuestsOK, Held
<1> QED BY <1>3, <1>4, <1>5

\* The end of a call.
LEMMA ReturnGuests ==
    ASSUME GuestsOK, NEW p \in Tracee, NEW st \in Results,
           cfg' = [cfg EXCEPT ![p] = Idle], kern' = [kern EXCEPT ![p] = "user"],
           result' = [result EXCEPT ![p] = st],
           got' \in [Tracee -> -1 .. MaxSend], \A u \in Tracee \ {p} : got'[u] = got[u],
           got'[p] # -1 => (st >= 0 <=> got'[p] # 0)
    PROVE  /\ GuestsOK' /\ cfg'[p] = Idle /\ kern'[p] = "user"
           /\ \A u \in Tracee \ {p} : cfg'[u] = cfg[u] /\ kern'[u] = kern[u]
<1>1. /\ cfg \in [Tracee -> Config] /\ kern \in [Tracee -> Kern] /\ result \in [Tracee -> Results]
  BY DEF GuestsOK
<1>2. /\ Idle \in Config /\ Idle.wait_state = "not" /\ Idle.wait_reason = "none"
      /\ Idle.chain_state = "none" /\ Idle.status_after_wait = 0
  BY Params DEF Idle, Config, WaitStates
<1>3. "user" \in Kern /\ 0 # EAGAIN BY DEF Kern, EAGAIN
<1>4. GuestOK(Idle, "user", st, got'[p]) BY <1>2, <1>3 DEF GuestOK, Held
<1> HIDE DEF Idle
<1>5. /\ cfg' \in [Tracee -> Config] /\ kern' \in [Tracee -> Kern] /\ result' \in [Tracee -> Results]
      /\ cfg'[p] = Idle /\ kern'[p] = "user" /\ result'[p] = st
      /\ \A u \in Tracee \ {p} : cfg'[u] = cfg[u] /\ kern'[u] = kern[u] /\ result'[u] = result[u]
  BY <1>1, <1>2, <1>3
<1>6. \A u \in Tracee : GuestOK(cfg'[u], kern'[u], result'[u], got'[u])
  BY <1>4, <1>5 DEF GuestsOK
<1> QED BY <1>5, <1>6 DEF GuestsOK

-----------------------------------------------------------------------------
\* Guest u waits in msgrcv() on queue i with the request a.
Waits(u, i, a) ==
    u \in Listed /\ cfg[u].wait_reason = "msgrcv" /\ cfg[u].waiting_object_index = i /\ cfg[u].args = a
\* Guest v is on the way to fetch message n from queue i.
Comes(v, i, n) ==
    v \in Listed /\ Retrying(v) /\ cfg[v].waiting_object_index = i /\ wokenFor[v] = n

\* NoLostWakeup and RemovedReleases in these terms.
Expected ==
    ~left /\ ndeath = 0 =>
    \A u \in Tracee : \A i, a : Waits(u, i, a) =>
      \A j \in 1 .. Len(queues[i].items) : msg_match(queues[i].items[j].mtype, a) =>
        \E v \in Tracee : Comes(v, i, queues[i].items[j].num)
QueueThere == \A u \in Tracee : \A i, a : Waits(u, i, a) => queues[i].valid

\* All of it.
DInv == GuestsOK /\ QueuesOK /\ RestOK /\ InRange /\ Expected /\ QueueThere

\* The parts of the invariant that speak of waiting are what ReceiversServed says.
LEMMA ServedIs == Expected /\ QueueThere => ReceiversServed
<1>1. Listed \subseteq Tracee BY DEF Listed
<1>2. Expected => NoLostWakeup BY <1>1 DEF Expected, NoLostWakeup, Wants, Waits, Comes
<1>3. QueueThere => RemovedReleases BY DEF QueueThere, RemovedReleases, Waits
<1> QED BY <1>2, <1>3 DEF ReceiversServed

\* A wake-up stays one as long as somebody is on the way to every message that was not
\* there before, and whoever came took his message or found it gone.
LEMMA ExpectedStays ==
    ASSUME Expected,
           ~left' /\ ndeath' = 0 =>
             /\ ~left /\ ndeath = 0
             /\ \A u \in Tracee : \A i, a : Waits(u, i, a)' =>
                  \A j \in 1 .. Len(queues'[i].items) : msg_match(queues'[i].items[j].mtype, a) =>
                    \/ \E v \in Tracee : Comes(v, i, queues[i].items[j].num)'
                    \/ /\ Waits(u, i, a)
                       /\ \E w \in 1 .. Len(queues[i].items) : queues'[i].items[j] = queues[i].items[w]
             /\ \A v \in Tracee : \A i, n : Comes(v, i, n) =>
                  \/ Comes(v, i, n)'
                  \/ \A j \in 1 .. Len(queues'[i].items) : queues'[i].items[j].num # n
    PROVE  Expected'
<1> SUFFICES ASSUME ~left', ndeath' = 0, NEW u \in Tracee, NEW i, NEW a, Waits(u, i, a)',
                    NEW j \in 1 .. Len(queues'[i].items), msg_match(queues'[i].items[j].mtype, a)
             PROVE  \E v \in Tracee : Comes(v, i, queues[i].items[j].num)'
  BY DEF Expected
<1>1. CASE \E v \in Tracee : Comes(v, i, queues[i].items[j].num)' BY <1>1
<1>2. CASE /\ Waits(u, i, a)
           /\ \E w \in 1 .. Len(queues[i].items) : queues'[i].items[j] = queues[i].items[w]
  <2>1. PICK w \in 1 .. Len(queues[i].items) : queues'[i].items[j] = queues[i].items[w] BY <1>2
  <2>2. PICK v \in Tracee : Comes(v, i, queues[i].items[w].num) BY <1>2, <2>1 DEF Expected
  <2>3. Comes(v, i, queues'[i].items[j].num) BY <2>1, <2>2
  <2> QED BY <2>3
<1> QED BY <1>1, <1>2

\* p neither waits nor comes for a message after the step, and the others are as before.
LEMMA Frame ==
    ASSUME NEW p \in Tracee, \A u \in Tracee \ {p} : cfg'[u] = cfg[u] /\ kern'[u] = kern[u],
           cfg'[p].wait_reason = "none", cfg'[p].chain_state = "none",
           \A u \in Tracee \ {p} : wokenFor'[u] = wokenFor[u]
    PROVE  /\ \A u \in Tracee : \A i, a : Waits(u, i, a)' => u # p /\ Waits(u, i, a)
           /\ \A v \in Tracee \ {p} : \A i, n : Comes(v, i, n) => Comes(v, i, n)'
<1>1. \A u \in Tracee : u \in Listed <=> kern[u] # "gone" BY DEF Listed
<1>2. \A u \in Tracee : u \in Listed' <=> kern'[u] # "gone" BY DEF Listed
<1> QED BY <1>1, <1>2 DEF Waits, Comes, Retrying

\* Who waits does so on a queue of the array.
LEMMA WaitsInRange ==
    ASSUME GuestsOK, InRange, NEW u \in Tracee, NEW i, NEW a, Waits(u, i, a)
    PROVE  i \in 1 .. Len(queues) /\ cfg[u].wait_state \in {"restarted", "entered"}
BY DEF GuestsOK, GuestOK, InRange, Held, Waits

\* Who makes a call is not on the way to a message.
LEMMA CallerFree ==
    ASSUME GuestsOK, NEW p \in Tracee, kern[p] = "user"
    PROVE  /\ cfg[p].wait_state = "not" /\ cfg[p].wait_reason = "none"
           /\ cfg[p].chain_state = "none" /\ cfg[p].status_after_wait # EAGAIN
           /\ \A i, n : ~Comes(p, i, n)
<1>1. GuestOK(cfg[p], kern[p], result[p], got[p]) BY DEF GuestsOK
<1>2. cfg[p].wait_state = "not" /\ cfg[p] \in Config BY <1>1 DEF GuestOK
<1>3. cfg[p].wait_reason = "none" /\ cfg[p].chain_state = "none" /\ cfg[p].status_after_wait # EAGAIN
  BY <1>1, <1>2 DEF GuestOK, Config
<1> QED BY <1>2, <1>3 DEF Comes, Retrying

\* A call that changes nobody else's configuration and is answered.
LEMMA AnsweredCall ==
    ASSUME DInv, NEW p \in Tracee, kern[p] = "user", NEW s \in BOOLEAN, NEW st \in Results,
           syscall_common(p, s, cfg, st), RestOK', QueuesOK', Len(queues) <= Len(queues'),
           got' \in [Tracee -> -1 .. MaxSend], \A u \in Tracee \ {p} : got'[u] = got[u],
           got'[p] # -1 => (st >= 0 <=> got'[p] # 0),
           UNCHANGED <<left, wokenFor>>,
           \A i \in 1 .. Len(queues) : queues[i].valid =>
             /\ queues'[i].valid
             /\ \A j \in 1 .. Len(queues'[i].items) :
                  \E w \in 1 .. Len(queues[i].items) : queues'[i].items[j] = queues[i].items[w]
    PROVE  DInv'
<1> USE DEF DInv
<1>1. /\ cfg[p].wait_state = "not" /\ cfg[p].wait_reason = "none"
      /\ cfg[p].chain_state = "none" /\ cfg[p].status_after_wait # EAGAIN
      /\ \A i, n : ~Comes(p, i, n)
  BY CallerFree
<1>2. cfg \in [Tracee -> Config] /\ \A u \in Tracee : GuestOK(cfg[u], kern[u], result[u], got[u])
  BY DEF GuestsOK
<1>3. /\ GuestsOK'
      /\ \A u \in Tracee \ {p} : cfg'[u] = cfg[u] /\ kern'[u] = kern[u]
      /\ cfg'[p].wait_reason = cfg[p].wait_reason /\ cfg'[p].chain_state = "none"
      /\ cfg'[p].wait_state \in Held => cfg[p].wait_reason = "msgrcv"
  BY <1>1, <1>2, CommonGuests
<1>4. InRange' BY <1>1, <1>3, SMTT(30) DEF InRange, QueuesOK
<1>5. /\ \A u \in Tracee : \A i, a : Waits(u, i, a)' => u # p /\ Waits(u, i, a)
      /\ \A v \in Tracee \ {p} : \A i, n : Comes(v, i, n) => Comes(v, i, n)'
  BY <1>1, <1>3, Frame
<1>6. ndeath' = ndeath BY DEF syscall_common
<1>7. \A u \in Tracee : \A i, a : Waits(u, i, a) => i \in 1 .. Len(queues) /\ queues[i].valid
  BY WaitsInRange DEF QueueThere
<1>8. QueueThere' BY <1>5, <1>7 DEF QueueThere
<1>9. Expected' BY <1>1, <1>5, <1>6, <1>7, ExpectedStays
<1> QED BY <1>3, <1>4, <1>8, <1>9

\* sysvipc_syscall_common() keeps the types of the other variables.
LEMMA CommonRest ==
    ASSUME RestOK, NEW p, NEW s, NEW c, NEW st, syscall_common(p, s, c, st),
           retired' \subseteq Nat, wokenFor' \in [Tracee -> 0 .. MaxSend],
           nrmid' \in 0 .. MaxRmid, UNCHANGED left
    PROVE  RestOK'
BY DEF syscall_common, Signaled, RestOK

\* LOOKUP_IPC_OBJECT finds a queue that is there.
LEMMA LookupIs ==
    ASSUME QueuesOK, NEW id
    PROVE  Lookup(id) # 0 => Lookup(id) \in 1 .. Len(queues) /\ queues[Lookup(id)].valid
BY DEF Lookup

\* An identifier is a number.
LEMMA IdIs ==
    ASSUME QueuesOK, NEW i \in 1 .. Len(queues)
    PROVE  IpcObjectId(i) \in Nat
<1> DEFINE g == queues[i].generation
<1>1. g \in Nat BY QueueAt
<1> HIDE DEF g
<1>2. g * IdBase \in Nat BY <1>1, Params
<1>3. IpcObjectId(i) = i + g * IdBase BY DEF IpcObjectId, g
<1> QED BY <1>2, <1>3

\* sysvipc_msgget(): a queue is found, or an unused slot becomes an empty one.
LEMMA GetKeeps ==
    ASSUME DInv, NEW p \in Tracee, NEW s \in BOOLEAN, NEW key \in Keys,
           NEW flg \in Creates, msgget(p, key, flg, s)
    PROVE  DInv'
<1> USE DEF DInv
<1> DEFINE same == {i \in 1 .. Len(queues) : queues[i].valid /\ key # IPC_PRIVATE /\ queues[i].key = key}
           free == {i \in 1 .. Len(queues) : ~queues[i].valid}
           slot == IF free # {} THEN First(free) ELSE Len(queues) + 1
<1>1. /\ kern[p] = "user" /\ got' = [got EXCEPT ![p] = -1]
      /\ UNCHANGED <<nsend, taken, dropped, retired, wokenFor, left, nrmid>>
  BY DEF msgget, OtherCall
<1>2. got' \in [Tracee -> -1 .. MaxSend] /\ got'[p] = -1 /\ \A u \in Tracee \ {p} : got'[u] = got[u]
  <2>1. -1 \in -1 .. MaxSend /\ got \in [Tracee -> -1 .. MaxSend] BY Params DEF GuestsOK
  <2> QED BY <1>1, <2>1
<1>3. Len(queues) \in Nat /\ queues \in Seq(Queue) BY DEF QueuesOK
<1>4. CASE UNCHANGED queues /\ \E st \in Results : syscall_common(p, s, cfg, st)
  <2>1. PICK st \in Results : syscall_common(p, s, cfg, st) BY <1>4
  <2>2. RestOK' BY <1>1, <2>1, CommonRest DEF RestOK
  <2>3. QueuesOK' BY <1>1, <1>4 DEF QueuesOK, OnceEach
  <2> QED BY <1>1, <1>2, <1>3, <1>4, <2>1, <2>2, <2>3, AnsweredCall
<1>5. CASE /\ same = {} /\ slot <= MaxQueue
           /\ queues' = IF free # {} THEN [queues EXCEPT ![slot] = NewQueue(key)]
                                     ELSE Append(queues, NewQueue(key))
           /\ syscall_common(p, s, cfg, slot)
  <2>1. NewQueue(key) \in Queue /\ NewQueue(key).items = <<>>
    <3>1. <<>> \in Seq(Message) OBVIOUS
    <3> QED BY <3>1 DEF NewQueue, Queue
  <2>2. slot \in Nat /\ (free # {} => slot \in 1 .. Len(queues) /\ ~queues[slot].valid)
    <3>1. free # {} => First(free) \in free
      <4>1. free \in SUBSET (1 .. Len(queues)) OBVIOUS
      <4> HIDE DEF free
      <4> QED BY <1>3, <4>1, FirstIn
    <3> QED BY <1>3, <3>1
  <2> HIDE DEF slot
  <2>3. /\ queues' \in Seq(Queue) /\ Len(queues') <= MaxQueue /\ Len(queues) <= Len(queues')
        /\ \A i \in 1 .. Len(queues') :
             IF i <= Len(queues) /\ queues[i].valid THEN queues'[i] = queues[i]
                                                    ELSE queues'[i].items = <<>>
    <3>1. CASE free # {}
      <4>1. queues' = [queues EXCEPT ![slot] = NewQueue(key)] BY <1>5, <3>1
      <4> DEFINE q == [queues EXCEPT ![slot] = NewQueue(key)]
      <4>2. /\ q \in Seq(Queue) /\ Len(q) = Len(queues) /\ q[slot] = NewQueue(key)
            /\ \A v \in 1 .. Len(queues) \ {slot} : q[v] = queues[v]
        BY <1>3, <2>1, <2>2, <3>1, SlotReplaced
      <4>3. \A v \in 1 .. Len(queues) : ~queues[v].valid => queues[v].items = <<>> BY DEF QueuesOK
      <4>4. /\ queues' \in Seq(Queue) /\ Len(queues') = Len(queues) /\ queues'[slot] = NewQueue(key)
            /\ \A v \in 1 .. Len(queues) \ {slot} : queues'[v] = queues[v]
        BY <4>1, <4>2, Zenon
      <4>5. Len(queues) <= MaxQueue BY DEF QueuesOK
      <4> QED BY <1>3, <2>1, <2>2, <3>1, <4>3, <4>4, <4>5
    <3>2. CASE free = {}
      <4>1. queues' = Append(queues, NewQueue(key)) /\ slot = Len(queues) + 1 BY <1>5, <3>2 DEF slot
      <4>2. /\ queues' \in Seq(Queue) /\ Len(queues') = Len(queues) + 1
            /\ queues'[Len(queues) + 1] = NewQueue(key)
            /\ \A v \in 1 .. Len(queues) : queues'[v] = queues[v]
        BY <1>3, <2>1, <4>1
      <4>3. \A v \in 1 .. Len(queues) : queues[v].valid BY <3>2
      <4>4. Len(queues) + 1 <= MaxQueue BY <1>5, <4>1
      <4> QED BY <1>3, <2>1, <4>2, <4>3, <4>4
    <3> QED BY <3>1, <3>2
  <2>4. QueuesOK' BY <1>1, <2>3, NewQueueOnce
  <2>5. RestOK' BY <1>1, <1>5, CommonRest DEF RestOK
  <2>6. slot \in Results BY <2>2 DEF Results
  <2>7. \A i \in 1 .. Len(queues) : queues[i].valid => queues'[i] = queues[i] BY <1>3, <2>3
  <2>8. syscall_common(p, s, cfg, slot) BY <1>5
  <2> QED BY <1>1, <1>2, <2>3, <2>4, <2>5, <2>6, <2>7, <2>8, AnsweredCall
<1>6. EEXIST \in Results /\ ENOENT \in Results /\ Nat \subseteq Results
  BY DEF Results, Errors, EEXIST, ENOENT, EAGAIN
<1>7. CASE same # {} /\ UNCHANGED queues
           /\ syscall_common(p, s, cfg,
                IF flg.creat /\ flg.excl THEN EEXIST ELSE IpcObjectId(First(same)))
  <2>1. First(same) \in same
    <3>1. same \in SUBSET (1 .. Len(queues)) OBVIOUS
    <3> HIDE DEF same
    <3> QED BY <1>3, <1>7, <3>1, FirstIn
  <2>2. IpcObjectId(First(same)) \in Nat BY <2>1, IdIs
  <2>3. (IF flg.creat /\ flg.excl THEN EEXIST ELSE IpcObjectId(First(same))) \in Results
    BY <1>6, <2>2
  <2> QED BY <1>4, <1>7, <2>3
<1>8. CASE UNCHANGED queues /\ syscall_common(p, s, cfg, ENOENT) BY <1>4, <1>6, <1>8
<1>9. \/ /\ same # {} /\ UNCHANGED queues
         /\ syscall_common(p, s, cfg,
              IF flg.creat /\ flg.excl THEN EEXIST ELSE IpcObjectId(First(same)))
      \/ UNCHANGED queues /\ syscall_common(p, s, cfg, ENOENT)
      \/ /\ same = {} /\ slot <= MaxQueue
         /\ queues' = IF free # {} THEN [queues EXCEPT ![slot] = NewQueue(key)]
                                   ELSE Append(queues, NewQueue(key))
         /\ syscall_common(p, s, cfg, slot)
  BY DEF msgget
<1> HIDE DEF same, free, slot
<1> QED BY <1>5, <1>7, <1>8, <1>9

\* What a woken receiver was and is.
LEMMA WokenIs ==
    ASSUME GuestsOK, NEW u \in Tracee, cfg[u].wait_reason = "msgrcv", NEW d,
           d = Woken(cfg[u], EIDRM) \/ d = Woken([cfg[u] EXCEPT !.chain_state = "retry"], EAGAIN)
    PROVE  /\ cfg[u].wait_state \in Held /\ ~Retrying(u)
           /\ d.wait_reason = "none" /\ d.waiting_object_index = cfg[u].waiting_object_index
           /\ d \in Config /\ GuestOK(d, kern[u], result[u], got[u])
<1>1. GuestOK(cfg[u], kern[u], result[u], got[u]) /\ cfg[u] \in Config BY DEF GuestsOK
<1>2. GuestOK(d, kern[u], result[u], got[u])
  <2>1. /\ GuestOK(Woken(cfg[u], EIDRM), kern[u], result[u], got[u])
        /\ GuestOK(Woken([cfg[u] EXCEPT !.chain_state = "retry"], EAGAIN), kern[u], result[u], got[u])
    BY <1>1, WokenOK
  <2> QED BY <2>1, Zenon
<1>3. cfg[u].wait_state \in {"restarted", "entered"} /\ cfg[u].chain_state # "retry"
  BY <1>1 DEF GuestOK
<1>4. d.wait_reason = "none" /\ d.waiting_object_index = cfg[u].waiting_object_index
  <2>1. CASE d = Woken(cfg[u], EIDRM) BY <1>1, <2>1 DEF Woken, Config
  <2>2. CASE d = Woken([cfg[u] EXCEPT !.chain_state = "retry"], EAGAIN)
    BY <1>1, <2>2 DEF Woken, Config
  <2> QED BY <2>1, <2>2
<1>5. d \in Config BY <1>2 DEF GuestOK
<1> QED BY <1>2, <1>3, <1>4, <1>5 DEF Held, Retrying

\* The others after the call of p woke the guests W: they wait and come as before.
Woke(p, W) ==
    /\ GuestsOK' /\ InRange' /\ p \notin W
    /\ \A u \in Tracee : \A i, a : Waits(u, i, a)' => u \notin W /\ Waits(u, i, a)
    /\ \A v \in Tracee : \A i, n : Comes(v, i, n) => v \notin W
    /\ \A v \in Tracee : \A i, n : Comes(v, i, n) /\ wokenFor'[v] = wokenFor[v] => Comes(v, i, n)'

\* The call of p leaves the configurations c, in which the guests W were woken.
Wakes(p, s, W, c, st) ==
    /\ kern[p] = "user" /\ syscall_common(p, s, c, st)
    /\ got' = [got EXCEPT ![p] = -1] /\ Len(queues') = Len(queues)
    /\ c \in [Tracee -> Config]
    /\ \A u \in Tracee \ W : c[u] = cfg[u]
    /\ \A u \in W : /\ cfg[u].wait_reason = "msgrcv" /\ cfg[u].wait_state \in Held /\ ~Retrying(u)
                    /\ c[u].wait_reason = "none"
                    /\ c[u].waiting_object_index = cfg[u].waiting_object_index
                    /\ GuestOK(c[u], kern[u], result[u], got[u])

\* Such a call makes nobody wait, and nobody who was on the way to a message is woken.
LEMMA WakeOthers ==
    ASSUME DInv, NEW p \in Tracee, NEW s \in BOOLEAN, NEW st \in Results,
           NEW W \in SUBSET Tracee, NEW c, Wakes(p, s, W, c, st)
    PROVE  Woke(p, W) /\ \A u \in Tracee \ {p} : cfg'[u] = c[u] /\ kern'[u] = kern[u]
<1> USE DEF DInv, Wakes
<1>1. /\ cfg[p].wait_state = "not" /\ cfg[p].wait_reason = "none"
      /\ cfg[p].chain_state = "none" /\ cfg[p].status_after_wait # EAGAIN
      /\ \A i, n : ~Comes(p, i, n)
  BY CallerFree
<1>2. /\ cfg \in [Tracee -> Config] /\ \A u \in Tracee : GuestOK(cfg[u], kern[u], result[u], got[u])
      /\ got \in [Tracee -> -1 .. MaxSend]
  BY DEF GuestsOK
<1>3. p \notin W /\ c[p] = cfg[p] BY <1>1
<1>5. \A u \in Tracee : GuestOK(c[u], kern[u], result[u], got[u]) BY <1>2
<1>7. got' \in [Tracee -> -1 .. MaxSend] /\ got'[p] = -1 /\ \A u \in Tracee \ {p} : got'[u] = got[u]
  <2>1. -1 \in -1 .. MaxSend BY Params
  <2> QED BY <1>2, <2>1
<1>8. /\ GuestsOK'
      /\ \A u \in Tracee \ {p} : cfg'[u] = c[u] /\ kern'[u] = kern[u]
      /\ cfg'[p].wait_reason = "none" /\ cfg'[p].wait_state \notin Held
  <2>1. c[p].wait_reason = "none" /\ c[p].wait_reason # "msgrcv" /\ c[p].wait_state = "not"
        /\ c[p].chain_state = "none" /\ c[p].status_after_wait # EAGAIN
    BY <1>1, <1>3
  <2> QED BY <1>5, <1>7, <2>1, CommonGuests
<1>9. InRange'
  <2>1. \A u \in Tracee \ {p} : cfg'[u].wait_state \in Held => cfg[u].wait_state \in Held
    BY <1>8
  <2>2. \A u \in Tracee \ {p} : cfg'[u].waiting_object_index = cfg[u].waiting_object_index
    BY <1>8
  <2> QED BY <1>8, <2>1, <2>2 DEF InRange
<1>10. \A u \in Tracee : u \in Listed <=> kern[u] # "gone" BY DEF Listed
<1>11. \A u \in Tracee : u \in Listed' <=> kern'[u] # "gone" BY DEF Listed
<1>12. \A u \in Tracee : \A i, a : Waits(u, i, a)' => u \notin W /\ Waits(u, i, a)
  <2> SUFFICES ASSUME NEW u \in Tracee, NEW i, NEW a, Waits(u, i, a)'
               PROVE  u \notin W /\ Waits(u, i, a)
    OBVIOUS
  <2>1. /\ kern'[u] # "gone" /\ cfg'[u].wait_reason = "msgrcv" /\ cfg'[u].args = a
        /\ cfg'[u].waiting_object_index = i
    BY <1>11 DEF Waits
  <2>2. u # p BY <1>8, <2>1
  <2>3. cfg'[u] = c[u] /\ kern'[u] = kern[u] BY <1>8, <2>2
  <2>4. u \notin W BY <2>1, <2>3
  <2>5. c[u] = cfg[u] BY <2>4
  <2> QED BY <1>10, <2>1, <2>3, <2>4, <2>5 DEF Waits
<1>13. \A v \in Tracee : \A i, n : Comes(v, i, n) => v \notin W BY DEF Comes
<1>14. \A v \in Tracee : \A i, n : Comes(v, i, n) /\ wokenFor'[v] = wokenFor[v] => Comes(v, i, n)'
  BY <1>1, <1>8, <1>10, <1>11, <1>13 DEF Comes, Retrying
<1> QED BY <1>3, <1>8, <1>9, <1>12, <1>13, <1>14 DEF Woke

\* Whom a message wakes, and what that does to the others.
Chosen(R) == IF R = {} THEN {} ELSE {First(R)}
\* p sends a message of this type to queue i.
Sends(p, s, i, mtype) ==
    /\ kern[p] = "user" /\ syscall_common(p, s, WakeReceiver(i, mtype), 0)
    /\ got' = [got EXCEPT ![p] = -1] /\ Len(queues') = Len(queues)
Fetches(f, i) ==
    /\ f \in Tracee /\ f \in Listed' /\ cfg'[f].chain_state = "retry"
    /\ cfg'[f].status_after_wait = EAGAIN /\ cfg'[f].waiting_object_index = i

\* The first guest of R is woken, and goes to fetch the message.
LEMMA SendWakes ==
    ASSUME DInv, NEW p \in Tracee, NEW s \in BOOLEAN, NEW i, NEW mtype, Sends(p, s, i, mtype),
           NEW R, R = Receivers(i, mtype), NEW f, f = First(R)
    PROVE  Woke(p, Chosen(R)) /\ (R # {} => Fetches(f, i))
<1> DEFINE e == Woken([cfg[f] EXCEPT !.chain_state = "retry"], EAGAIN)
<1>1. cfg \in [Tracee -> Config] BY DEF DInv, GuestsOK
<1>2. \A u \in R : /\ u \in Tracee /\ kern[u] # "gone"
                   /\ cfg[u].wait_reason = "msgrcv" /\ cfg[u].waiting_object_index = i
  BY DEF Receivers, Listed
<1>3. R # {} => f \in R
  <2>1. R \in SUBSET (1 .. N) /\ N \in Nat BY <1>2, NAssumption DEF Tracee
  <2> QED BY <2>1, FirstIn
<1>4. WakeReceiver(i, mtype) = IF R = {} THEN cfg ELSE [cfg EXCEPT ![f] = e] BY DEF WakeReceiver
<1> HIDE DEF e
<1>5. 0 \in Results BY DEF Results
<1>6. CASE R = {}
  <2>1. WakeReceiver(i, mtype) = cfg BY <1>4, <1>6
  <2>2. Wakes(p, s, {}, cfg, 0) BY <1>1, <2>1 DEF Wakes, Sends
  <2>3. Woke(p, {}) BY <1>5, <2>2, WakeOthers
  <2> QED BY <1>6, <2>3 DEF Chosen
<1>7. CASE R # {}
  <2>1. /\ f \in Tracee /\ kern[f] # "gone"
        /\ cfg[f].wait_reason = "msgrcv" /\ cfg[f].waiting_object_index = i
    BY <1>2, <1>3, <1>7
  <2>2. /\ cfg[f].wait_state \in Held /\ ~Retrying(f) /\ e.wait_reason = "none" /\ e \in Config
        /\ e.waiting_object_index = cfg[f].waiting_object_index
        /\ GuestOK(e, kern[f], result[f], got[f])
    BY <2>1, WokenIs DEF e, DInv
  <2>3. PICK c : c = [cfg EXCEPT ![f] = e] OBVIOUS
  <2>4. c \in [Tracee -> Config] /\ c[f] = e /\ \A u \in Tracee \ {f} : c[u] = cfg[u]
    BY <1>1, <2>1, <2>2, <2>3
  <2>5. Wakes(p, s, {f}, c, 0)
    <3>1. WakeReceiver(i, mtype) = c BY <1>4, <1>7, <2>3
    <3>2. \A u \in {f} : /\ cfg[u].wait_reason = "msgrcv" /\ cfg[u].wait_state \in Held /\ ~Retrying(u)
                         /\ c[u].wait_reason = "none"
                         /\ c[u].waiting_object_index = cfg[u].waiting_object_index
                         /\ GuestOK(c[u], kern[u], result[u], got[u])
      BY <2>1, <2>2, <2>4
    <3> QED BY <2>4, <3>1, <3>2 DEF Wakes, Sends
  <2>6. Woke(p, {f}) /\ \A u \in Tracee \ {p} : cfg'[u] = c[u] /\ kern'[u] = kern[u]
    <3>1. {f} \in SUBSET Tracee BY <2>1
    <3> QED BY <1>5, <2>5, <3>1, WakeOthers, ZenonT(40)
  <2>7. f # p BY <2>6 DEF Woke
  <2>8. cfg'[f] = e /\ kern'[f] = kern[f] BY <2>1, <2>4, <2>6, <2>7
  <2>9. e.chain_state = "retry" /\ e.status_after_wait = EAGAIN
    <3>1. cfg[f] \in Config BY <1>1, <2>1
    <3> QED BY <3>1 DEF Woken, Config, e
  <2>10. f \in Listed' BY <2>1, <2>8 DEF Listed
  <2>11. Fetches(f, i) BY <2>1, <2>2, <2>8, <2>9, <2>10 DEF Fetches
  <2>12. Chosen(R) = {f} BY <1>7 DEF Chosen
  <2> QED BY <2>6, <2>11, <2>12
<1> QED BY <1>6, <1>7

\* Message n is sent to queue i, where the guests R wait for one of its type.
Sent(p, s, i, mtype, n, R) ==
    /\ Sends(p, s, i, mtype) /\ UNCHANGED <<retired, left, nrmid>>
    /\ \A u \in Tracee : wokenFor'[u] = IF R # {} /\ u = First(R) THEN n ELSE wokenFor[u]
    /\ wokenFor' = [u \in Tracee |-> wokenFor'[u]]
    /\ QueuesOK' /\ Len(queues') = Len(queues)
    /\ \A v \in 1 .. Len(queues) : queues'[v].valid = queues[v].valid
    /\ \A v \in 1 .. Len(queues) \ {i} : queues'[v] = queues[v]
    /\ Len(queues'[i].items) = Len(queues[i].items) + 1
    /\ \A j \in 1 .. Len(queues[i].items) : queues'[i].items[j] = queues[i].items[j]
    /\ queues'[i].items[Len(queues[i].items) + 1].num = n
    /\ queues'[i].items[Len(queues[i].items) + 1].mtype = mtype

\* A message that is sent wakes the first receiver that wants it.
LEMMA SendServes ==
    ASSUME DInv, NEW p \in Tracee, NEW s \in BOOLEAN, NEW mtype, NEW i \in 1 .. Len(queues),
           NEW n \in 0 .. MaxSend, NEW R, R = Receivers(i, mtype), Sent(p, s, i, mtype, n, R)
    PROVE  DInv'
<1> USE DEF DInv
<1>1. Len(queues) \in Nat BY DEF QueuesOK
<1>2. PICK f : f = First(R) OBVIOUS
<1>3. PICK W : W = Chosen(R) OBVIOUS
<1>4. /\ Sends(p, s, i, mtype) /\ UNCHANGED <<retired, left, nrmid>>
      /\ \A u \in Tracee : wokenFor'[u] = IF R # {} /\ u = f THEN n ELSE wokenFor[u]
      /\ wokenFor' = [u \in Tracee |-> wokenFor'[u]]
      /\ QueuesOK' /\ Len(queues') = Len(queues)
      /\ \A v \in 1 .. Len(queues) : queues'[v].valid = queues[v].valid
      /\ \A v \in 1 .. Len(queues) \ {i} : queues'[v] = queues[v]
      /\ Len(queues'[i].items) = Len(queues[i].items) + 1
      /\ \A j \in 1 .. Len(queues[i].items) : queues'[i].items[j] = queues[i].items[j]
      /\ queues'[i].items[Len(queues[i].items) + 1].num = n
      /\ queues'[i].items[Len(queues[i].items) + 1].mtype = mtype
  BY <1>2 DEF Sent
<1>5. Woke(p, W) /\ (R # {} => Fetches(f, i))
  <2> HIDE DEF DInv
  <2> QED BY <1>2, <1>3, <1>4, SendWakes
<1>6. /\ GuestsOK' /\ InRange' /\ p \notin W
      /\ \A u \in Tracee : \A v, a : Waits(u, v, a)' => u \notin W /\ Waits(u, v, a)
      /\ \A v \in Tracee : \A z, m : Comes(v, z, m) => v \notin W
      /\ \A v \in Tracee : \A z, m : Comes(v, z, m) /\ wokenFor'[v] = wokenFor[v]
                                       => Comes(v, z, m)'
  BY <1>5 DEF Woke
<1>7. RestOK'
  <2>1. \A u \in Tracee : wokenFor'[u] \in 0 .. MaxSend BY <1>4 DEF RestOK
  <2>2. wokenFor' \in [Tracee -> 0 .. MaxSend] BY <1>4, <2>1
  <2> QED BY <1>4, <2>2, CommonRest DEF RestOK, Sends
<1>8. QueueThere' BY <1>4, <1>6, WaitsInRange DEF QueueThere
<1>9. ASSUME R # {} PROVE f \in Tracee /\ Comes(f, i, n)'
  <2>1. f \in Tracee /\ wokenFor'[f] = n BY <1>4, <1>5, <1>9 DEF Fetches
  <2> QED BY <1>5, <1>9, <2>1 DEF Comes, Retrying, Fetches
<1>10. ASSUME NEW u \in Tracee, NEW v, NEW a, Waits(u, v, a)',
              NEW j \in 1 .. Len(queues'[v].items), msg_match(queues'[v].items[j].mtype, a)
       PROVE  \/ \E z \in Tracee : Comes(z, v, queues[v].items[j].num)'
              \/ /\ Waits(u, v, a)
                 /\ \E w \in 1 .. Len(queues[v].items) : queues'[v].items[j] = queues[v].items[w]
  <2>1. Waits(u, v, a) /\ v \in 1 .. Len(queues) BY <1>6, <1>10, WaitsInRange
  <2>2. CASE v # i BY <1>4, <1>10, <2>1, <2>2
  <2>3. CASE v = i /\ j \in 1 .. Len(queues[i].items) BY <1>4, <1>10, <2>1, <2>3
  <2>4. CASE v = i /\ j \notin 1 .. Len(queues[i].items)
    <3>1. Len(queues[i].items) \in Nat BY QueueAt
    <3>2. j = Len(queues[i].items) + 1 BY <1>4, <1>10, <2>4, <3>1
    <3>3. queues'[v].items[j].num = n /\ queues'[v].items[j].mtype = mtype BY <1>4, <2>4, <3>2
    <3>4. msg_match(mtype, a) BY <1>10, <3>3
    <3>5. u \in R BY <2>1, <2>4, <3>4 DEF Receivers, Waits
    <3>6. f \in Tracee /\ Comes(f, i, n)' BY <1>9, <3>5
    <3>7. (queues[v].items[j].num)' = n BY <3>3
    <3>8. Comes(f, v, queues[v].items[j].num)' BY <2>4, <3>6, <3>7 DEF Comes
    <3> QED BY <3>6, <3>8
  <2> QED BY <2>2, <2>3, <2>4
<1>11. \A v \in Tracee : \A z, m : Comes(v, z, m) => Comes(v, z, m)'
  <2>1. \A v \in Tracee : v \notin W => wokenFor'[v] = wokenFor[v]
    BY <1>2, <1>3, <1>4 DEF Chosen
  <2> QED BY <1>6, <2>1
<1>12. ndeath' = ndeath BY <1>4 DEF Sends, syscall_common
<1>13. Expected' BY <1>4, <1>10, <1>11, <1>12, ExpectedStays
<1> QED BY <1>4, <1>6, <1>7, <1>8, <1>13

\* sysvipc_msgsnd(), with its errors.
LEMMA SendKeeps ==
    ASSUME DInv, NEW p \in Tracee, NEW s \in BOOLEAN, NEW id, NEW mtype \in Types,
           NEW len \in Lengths, NEW ok \in BOOLEAN, msgsnd(p, id, mtype, len, ok, s)
    PROVE  DInv'
<1> USE DEF DInv
<1>1. /\ kern[p] = "user" /\ got' = [got EXCEPT ![p] = -1]
      /\ UNCHANGED <<taken, dropped, retired, left, nrmid>>
  BY DEF msgsnd, OtherCall
<1>2. /\ EINVAL \in Results /\ EFAULT \in Results /\ EINVAL # 0 /\ EFAULT # 0
  BY DEF Results, Errors, EINVAL, EFAULT, EAGAIN
<1>3. Len(queues) \in Nat BY DEF QueuesOK
<1>4. ASSUME NEW st \in Results, syscall_common(p, s, cfg, st), UNCHANGED <<queues, nsend, wokenFor>>
      PROVE  DInv'
  <2>1. got' \in [Tracee -> -1 .. MaxSend] /\ got'[p] = -1 /\ \A u \in Tracee \ {p} : got'[u] = got[u]
    <3>1. -1 \in -1 .. MaxSend /\ got \in [Tracee -> -1 .. MaxSend] BY Params DEF GuestsOK
    <3> QED BY <1>1, <3>1
  <2>2. RestOK' BY <1>1, <1>4, CommonRest DEF RestOK
  <2>3. QueuesOK' BY <1>1, <1>4 DEF QueuesOK, OnceEach
  <2> QED BY <1>1, <1>3, <1>4, <2>1, <2>2, <2>3, AnsweredCall
<1>5. PICK i, R, f, x :
        i = Lookup(id) /\ R = Receivers(i, mtype) /\ f = First(R)
        /\ x = [num |-> nsend + 1, mtype |-> mtype, len |-> len]
  OBVIOUS
<1>6. \/ /\ \E st \in Results : syscall_common(p, s, cfg, st)
         /\ UNCHANGED <<queues, nsend, wokenFor>>
      \/ /\ i # 0 /\ nsend < MaxSend /\ nsend' = nsend + 1
         /\ syscall_common(p, s, WakeReceiver(i, mtype), 0)
         /\ wokenFor' = [u \in Tracee |-> IF R # {} /\ u = f THEN nsend + 1 ELSE wokenFor[u]]
         /\ queues' = [queues EXCEPT ![i].items = Append(@, x)]
  <2>1. len \in Nat /\ MaxSize \in Nat BY Params
  <2>2. len = 0 \/ len > MaxSize \/ len \in 1 .. MaxSize BY <2>1
  <2> QED BY <1>2, <1>5, <2>1, <2>2 DEF msgsnd
<1>7. CASE /\ i # 0 /\ nsend < MaxSend /\ nsend' = nsend + 1
           /\ syscall_common(p, s, WakeReceiver(i, mtype), 0)
           /\ wokenFor' = [u \in Tracee |-> IF R # {} /\ u = f THEN nsend + 1 ELSE wokenFor[u]]
           /\ queues' = [queues EXCEPT ![i].items = Append(@, x)]
  <2>1. i \in 1 .. Len(queues) /\ queues[i].valid BY <1>5, <1>7, LookupIs
  <2>2. x \in Message /\ x.num = nsend + 1 /\ x.mtype = mtype
    <3>1. nsend + 1 \in 1 .. MaxSend BY <1>7, Params DEF QueuesOK
    <3> QED BY <1>5, <3>1 DEF Message
  <2>3. PICK n : n = nsend + 1 OBVIOUS
  <2>4. nsend < MaxSend /\ nsend' = nsend + 1 /\ n \in 0 .. MaxSend
    BY <1>7, <2>3, Params DEF QueuesOK
  <2>5. /\ \A u \in Tracee : wokenFor'[u] = IF R # {} /\ u = f THEN n ELSE wokenFor[u]
        /\ wokenFor' = [u \in Tracee |-> wokenFor'[u]]
    BY <1>7, <2>3
  <2>6. R = Receivers(i, mtype) /\ f = First(R) /\ syscall_common(p, s, WakeReceiver(i, mtype), 0)
    BY <1>5, <1>7
  <2>7. queues' = [queues EXCEPT ![i].items = Append(@, x)] BY <1>7
  <2>8. /\ QueuesOK' /\ Len(queues') = Len(queues)
        /\ \A v \in 1 .. Len(queues) : queues'[v].valid = queues[v].valid
        /\ \A v \in 1 .. Len(queues) \ {i} : queues'[v] = queues[v]
        /\ Len(queues'[i].items) = Len(queues[i].items) + 1
        /\ queues'[i].items[Len(queues[i].items) + 1] = x
        /\ \A j \in 1 .. Len(queues[i].items) : queues'[i].items[j] = queues[i].items[j]
    BY <1>1, <2>1, <2>2, <2>4, <2>7, SentOnce
  <2>9. Sends(p, s, i, mtype) BY <1>1, <2>6, <2>8 DEF Sends
  <2>10. Sent(p, s, i, mtype, n, R) BY <1>1, <2>2, <2>3, <2>5, <2>6, <2>8, <2>9 DEF Sent
  <2> HIDE DEF DInv
  <2> QED BY <2>1, <2>4, <2>6, <2>10, SendServes
<1> QED BY <1>4, <1>6, <1>7

\* A receiver that finds no message waits for one.
LEMMA WaitKeeps ==
    ASSUME DInv, NEW p \in Tracee, kern[p] = "user", NEW s \in BOOLEAN,
           NEW i \in 1 .. Len(queues), queues[i].valid, NEW r \in AllRequests, NEW st \in Results,
           \A j \in 1 .. Len(queues[i].items) : ~msg_match(queues[i].items[j].mtype, r),
           syscall_common(p, s, [cfg EXCEPT ![p].wait_reason = "msgrcv", ![p].args = r,
                                            ![p].waiting_object_index = i], st),
           got' = [got EXCEPT ![p] = 0],
           UNCHANGED <<queues, nsend, taken, dropped, retired, wokenFor, left, nrmid>>
    PROVE  DInv'
<1> USE DEF DInv
<1>1. /\ cfg[p].wait_state = "not" /\ cfg[p].wait_reason = "none"
      /\ cfg[p].chain_state = "none" /\ cfg[p].status_after_wait # EAGAIN
      /\ \A j, n : ~Comes(p, j, n)
  BY CallerFree
<1>2. /\ cfg \in [Tracee -> Config] /\ \A u \in Tracee : GuestOK(cfg[u], kern[u], result[u], got[u])
      /\ got \in [Tracee -> -1 .. MaxSend]
  BY DEF GuestsOK
<1> DEFINE x == [cfg[p] EXCEPT !.wait_reason = "msgrcv", !.args = r, !.waiting_object_index = i]
<1>3. /\ x \in Config /\ x.wait_reason = "msgrcv" /\ x.args = r /\ x.waiting_object_index = i
      /\ x.wait_state = "not" /\ x.chain_state = "none"
      /\ x.status_after_wait = cfg[p].status_after_wait
  <2>1. cfg[p] \in Config /\ i \in 0 .. MaxQueue /\ i # 0 BY <1>2, Params DEF QueuesOK
  <2> QED BY <1>1, <2>1 DEF Config
<1>4. [cfg EXCEPT ![p].wait_reason = "msgrcv", ![p].args = r, ![p].waiting_object_index = i]
        = [cfg EXCEPT ![p] = x]
  BY <1>2
<1> HIDE DEF x
<1>5. PICK c : c = [cfg EXCEPT ![p] = x] OBVIOUS
<1>6. c \in [Tracee -> Config] /\ c[p] = x /\ \A u \in Tracee \ {p} : c[u] = cfg[u]
  BY <1>2, <1>3, <1>5
<1>7. syscall_common(p, s, c, st) BY <1>4, <1>5
<1>8. got' \in [Tracee -> -1 .. MaxSend] /\ got'[p] = 0 /\ \A u \in Tracee \ {p} : got'[u] = got[u]
  <2>1. 0 \in -1 .. MaxSend BY Params
  <2> QED BY <1>2, <2>1
<1>9. /\ GuestsOK'
      /\ \A u \in Tracee \ {p} : cfg'[u] = cfg[u] /\ kern'[u] = kern[u]
      /\ cfg'[p].chain_state = "none"
      /\ cfg'[p].waiting_object_index = i /\ cfg'[p].args = r
  <2>1. /\ c[p].wait_state = "not" /\ c[p].chain_state = "none" /\ c[p].status_after_wait # EAGAIN
        /\ c[p].wait_reason = "msgrcv" /\ c[p].waiting_object_index = i
        /\ c[p].waiting_object_index # 0 /\ c[p].args = r /\ c[p].args \in AllRequests
    BY <1>1, <1>3, <1>6
  <2>2. \A u \in Tracee \ {p} : GuestOK(c[u], kern[u], result[u], got[u]) BY <1>2, <1>6
  <2>3. GuestsOK BY DEF DInv
  <2> HIDE DEF DInv
  <2>4. /\ GuestsOK'
        /\ \A u \in Tracee \ {p} : cfg'[u] = c[u] /\ kern'[u] = kern[u]
        /\ cfg'[p].chain_state = "none"
        /\ cfg'[p].waiting_object_index = c[p].waiting_object_index /\ cfg'[p].args = c[p].args
    BY <1>6, <1>7, <1>8, <2>1, <2>2, <2>3, CommonGuests
  <2> QED BY <1>6, <2>1, <2>4
<1>10. QueuesOK' BY DEF QueuesOK, OnceEach
<1>11. InRange' BY <1>9 DEF InRange
<1>12. RestOK' BY <1>7, CommonRest DEF RestOK
<1>13. \A u \in Tracee : u \in Listed <=> kern[u] # "gone" BY DEF Listed
<1>14. \A u \in Tracee : u \in Listed' <=> kern'[u] # "gone" BY DEF Listed
<1>15. ASSUME NEW u \in Tracee, NEW v, NEW a, Waits(u, v, a)'
       PROVE  (u = p /\ v = i /\ a = r) \/ Waits(u, v, a)
  <2>1. CASE u = p BY <1>9, <1>15, <2>1 DEF Waits
  <2>2. CASE u # p BY <1>9, <1>13, <1>14, <1>15, <2>2 DEF Waits
  <2> QED BY <2>1, <2>2
<1>16. \A v \in Tracee : \A j, n : Comes(v, j, n) => Comes(v, j, n)'
  BY <1>1, <1>9, <1>13, <1>14 DEF Comes, Retrying
<1>17. QueueThere' BY <1>15 DEF QueueThere
<1>18. ndeath' = ndeath BY DEF syscall_common
<1>19. Expected' BY <1>15, <1>16, <1>18, ExpectedStays
<1> QED BY <1>9, <1>10, <1>11, <1>12, <1>17, <1>19

\* sysvipc_msgrcv(): an error, a message or a wait.
LEMMA ReceiveKeeps ==
    ASSUME DInv, NEW p \in Tracee, NEW s \in BOOLEAN, NEW id, NEW r \in Requests[p],
           msgrcv(p, id, r, s)
    PROVE  DInv'
<1> USE DEF DInv
<1>1. kern[p] = "user" /\ UNCHANGED <<nsend, dropped, retired, wokenFor, left, nrmid>>
  BY DEF msgrcv
<1>2. EINVAL \in Results /\ ~(EINVAL >= 0) BY DEF Results, Errors, EINVAL, EAGAIN
<1>3. Len(queues) \in Nat /\ got \in [Tracee -> -1 .. MaxSend] BY DEF QueuesOK, GuestsOK
<1>4. r \in AllRequests /\ r \in Request BY Params DEF AllRequests
<1>5. PICK i : i = Lookup(id) OBVIOUS
<1>6. CASE i = 0
  <2>1. syscall_common(p, s, cfg, EINVAL) /\ got' = [got EXCEPT ![p] = 0] /\ UNCHANGED <<queues, taken>>
    BY <1>5, <1>6 DEF msgrcv
  <2>2. got' \in [Tracee -> -1 .. MaxSend] /\ got'[p] = 0 /\ \A u \in Tracee \ {p} : got'[u] = got[u]
    <3>1. 0 \in -1 .. MaxSend BY Params
    <3> QED BY <1>3, <2>1, <3>1
  <2>3. RestOK' BY <1>1, <2>1, CommonRest DEF RestOK
  <2>4. QueuesOK' BY <1>1, <2>1 DEF QueuesOK, OnceEach
  <2> QED BY <1>1, <1>2, <1>3, <2>1, <2>2, <2>3, <2>4, AnsweredCall
<1>7. CASE i # 0
  <2>1. i \in 1 .. Len(queues) /\ queues[i].valid BY <1>5, <1>7, LookupIs
  <2>2. queues[i].items \in Seq(Message) BY <2>1, QueueAt
  <2>3. PICK d : d = do_msgrcv(queues[i].items, r) OBVIOUS
  <2>4. /\ d.at \in 0 .. Len(queues[i].items) /\ d.wait \in BOOLEAN /\ d.st \in Results
        /\ d.wait => d.at = 0 /\ \A j \in 1 .. Len(queues[i].items) : ~msg_match(queues[i].items[j].mtype, r)
        /\ ~d.wait => (d.st >= 0 <=> d.at # 0)
    BY <1>4, <2>2, <2>3, ReceiveIs
  <2>5. /\ Deliver(p, i, r, d)
        /\ syscall_common(p, s, IF d.wait THEN [cfg EXCEPT ![p].wait_reason = "msgrcv", ![p].args = r,
                                              ![p].waiting_object_index = i] ELSE cfg, d.st)
    BY <1>5, <1>7, <2>3 DEF msgrcv
  <2>6. CASE d.wait
    <3>1. got' = [got EXCEPT ![p] = 0] /\ UNCHANGED <<queues, taken>>
      BY <2>4, <2>5, <2>6 DEF Deliver
    <3>2. syscall_common(p, s, [cfg EXCEPT ![p].wait_reason = "msgrcv", ![p].args = r,
                                           ![p].waiting_object_index = i], d.st)
      BY <2>5, <2>6
    <3>3. \A j \in 1 .. Len(queues[i].items) : ~msg_match(queues[i].items[j].mtype, r) BY <2>4, <2>6
    <3> HIDE DEF DInv
    <3> QED BY <1>1, <1>4, <2>1, <2>4, <3>1, <3>2, <3>3, WaitKeeps
  <2>7. CASE ~d.wait
    <3>1. syscall_common(p, s, cfg, d.st) BY <2>5, <2>7
    <3>2. /\ QueuesOK' /\ Len(queues') = Len(queues)
          /\ got' \in [Tracee -> -1 .. MaxSend] /\ got'[p] # -1 /\ (got'[p] # 0 <=> d.at # 0)
          /\ \A u \in Tracee \ {p} : got'[u] = got[u]
          /\ \A v \in 1 .. Len(queues) : queues'[v].valid = queues[v].valid
          /\ \A v \in 1 .. Len(queues) \ {i} : queues'[v] = queues[v]
          /\ \A j \in 1 .. Len(queues'[i].items) :
               \E w \in 1 .. Len(queues[i].items) : queues'[i].items[j] = queues[i].items[w]
      BY <1>1, <1>3, <2>1, <2>4, <2>5, DeliverOnce
    <3>3. RestOK' BY <1>1, <3>1, CommonRest DEF RestOK
    <3>4. got'[p] # -1 => (d.st >= 0 <=> got'[p] # 0) BY <2>4, <2>7, <3>2
    <3>5. \A v \in 1 .. Len(queues) : queues[v].valid =>
             /\ queues'[v].valid
             /\ \A j \in 1 .. Len(queues'[v].items) :
                  \E w \in 1 .. Len(queues[v].items) : queues'[v].items[j] = queues[v].items[w]
      BY <3>2, ZenonT(40)
    <3>6. Len(queues) <= Len(queues') BY <1>3, <3>2
    <3> HIDE DEF DInv
    <3> QED BY <1>1, <2>4, <3>1, <3>2, <3>3, <3>4, <3>5, <3>6, AnsweredCall
  <2> QED BY <2>4, <2>6, <2>7
<1> QED BY <1>6, <1>7

\* sysvipc_msgctl(IPC_RMID): the messages go with the queue and everybody is told.
LEMMA RemoveKeeps ==
    ASSUME DInv, NEW p \in Tracee, NEW s \in BOOLEAN, NEW id, msgctl_RMID(p, id, s)
    PROVE  DInv'
<1> USE DEF DInv
<1>1. /\ kern[p] = "user" /\ got' = [got EXCEPT ![p] = -1]
      /\ UNCHANGED <<nsend, taken, wokenFor, left>>
  BY DEF msgctl_RMID, OtherCall
<1>2. EINVAL \in Results /\ 0 \in Results BY DEF Results, Errors, EINVAL, EAGAIN
<1>3. Len(queues) \in Nat /\ cfg \in [Tracee -> Config] BY DEF QueuesOK, GuestsOK
<1>4. PICK i : i = Lookup(id) OBVIOUS
<1>5. CASE i = 0
  <2>1. syscall_common(p, s, cfg, EINVAL) /\ UNCHANGED <<queues, dropped, retired, nrmid>>
    BY <1>4, <1>5 DEF msgctl_RMID
  <2>2. got' \in [Tracee -> -1 .. MaxSend] /\ got'[p] = -1 /\ \A u \in Tracee \ {p} : got'[u] = got[u]
    <3>1. -1 \in -1 .. MaxSend /\ got \in [Tracee -> -1 .. MaxSend] BY Params DEF GuestsOK
    <3> QED BY <1>1, <3>1
  <2>3. RestOK' BY <1>1, <2>1, CommonRest DEF RestOK
  <2>4. QueuesOK' BY <1>1, <2>1 DEF QueuesOK, OnceEach
  <2> QED BY <1>1, <1>2, <1>3, <2>1, <2>2, <2>3, <2>4, AnsweredCall
<1>6. CASE i # 0
  <2>1. i \in 1 .. Len(queues) /\ queues[i].valid BY <1>4, <1>6, LookupIs
  <2>2. /\ nrmid < MaxRmid /\ nrmid' = nrmid + 1
        /\ syscall_common(p, s, RemoveWakes(i), 0)
        /\ dropped' = dropped \cup {queues[i].items[j].num : j \in 1 .. Len(queues[i].items)}
        /\ retired' = retired \cup {IpcObjectId(i)}
        /\ queues' = RemoveQueue(i)
    BY <1>4, <1>6 DEF msgctl_RMID
  <2>3. /\ QueuesOK' /\ Len(queues') = Len(queues) /\ queues'[i].items = <<>>
        /\ \A v \in 1 .. Len(queues) \ {i} : queues'[v] = queues[v]
    BY <1>1, <2>1, <2>2, RemovedOnce
  <2>4. PICK W : W = {u \in Tracee : /\ u \in Listed /\ cfg[u].wait_reason = "msgrcv"
                                     /\ cfg[u].waiting_object_index = i}
    OBVIOUS
  <2>5. PICK c : c = RemoveWakes(i) OBVIOUS
  <2>6. /\ c = [u \in Tracee |-> c[u]] /\ \A u \in Tracee \ W : c[u] = cfg[u]
        /\ \A u \in W : c[u] = Woken(cfg[u], EIDRM)
    BY <2>4, <2>5 DEF RemoveWakes
  <2>7. \A u \in W : /\ cfg[u].wait_reason = "msgrcv" /\ cfg[u].wait_state \in Held /\ ~Retrying(u)
                     /\ c[u].wait_reason = "none" /\ c[u] \in Config
                     /\ c[u].waiting_object_index = cfg[u].waiting_object_index
                     /\ GuestOK(c[u], kern[u], result[u], got[u])
    <3> SUFFICES ASSUME NEW u \in W
                 PROVE  /\ cfg[u].wait_reason = "msgrcv" /\ cfg[u].wait_state \in Held /\ ~Retrying(u)
                        /\ c[u].wait_reason = "none" /\ c[u] \in Config
                        /\ c[u].waiting_object_index = cfg[u].waiting_object_index
                        /\ GuestOK(c[u], kern[u], result[u], got[u])
      OBVIOUS
    <3>1. u \in Tracee /\ cfg[u].wait_reason = "msgrcv" /\ c[u] = Woken(cfg[u], EIDRM) BY <2>4, <2>6
    <3>2. GuestsOK BY DEF DInv
    <3>3. PICK d : d = c[u] OBVIOUS
    <3>4. d = Woken(cfg[u], EIDRM) BY <3>1, <3>3
    <3> QED BY <3>1, <3>2, <3>3, <3>4, WokenIs
  <2>8. c \in [Tracee -> Config]
    <3>1. \A u \in Tracee : c[u] \in Config BY <1>3, <2>6, <2>7
    <3> QED BY <2>6, <3>1
  <2>9. Wakes(p, s, W, c, 0)
    <3>1. syscall_common(p, s, c, 0) BY <2>2, <2>5
    <3> QED BY <1>1, <2>3, <2>6, <2>7, <2>8, <3>1 DEF Wakes
  <2>10. Woke(p, W)
    <3>1. W \in SUBSET Tracee BY <2>4
    <3> HIDE DEF DInv
    <3> QED BY <1>2, <2>9, <3>1, WakeOthers
  <2>11. /\ GuestsOK' /\ InRange'
         /\ \A u \in Tracee : \A v, a : Waits(u, v, a)' => u \notin W /\ Waits(u, v, a)
         /\ \A v \in Tracee : \A z, n : Comes(v, z, n) => Comes(v, z, n)'
    BY <1>1, <2>10 DEF Woke
  <2>12. RestOK'
    <3>1. IpcObjectId(i) \in Nat BY <2>1, IdIs
    <3>2. retired' \subseteq Nat BY <2>2, <3>1 DEF RestOK
    <3>3. nrmid' \in 0 .. MaxRmid BY <2>2, Params DEF RestOK
    <3> QED BY <1>1, <2>2, <3>2, <3>3, CommonRest DEF RestOK
  <2>13. ASSUME NEW u \in Tracee, NEW v, NEW a, Waits(u, v, a)'
         PROVE  Waits(u, v, a) /\ v \in 1 .. Len(queues) /\ v # i
    <3>1. u \notin W /\ Waits(u, v, a) BY <2>11, <2>13
    <3>2. v # i BY <2>4, <3>1 DEF Waits
    <3> QED BY <3>1, <3>2, WaitsInRange
  <2>14. QueueThere' BY <2>3, <2>13 DEF QueueThere
  <2>15. ndeath' = ndeath BY <2>2 DEF syscall_common
  <2>16. Expected'
    <3>1. ASSUME NEW u \in Tracee, NEW v, NEW a, Waits(u, v, a)', NEW j \in 1 .. Len(queues'[v].items)
          PROVE  Waits(u, v, a) /\ \E w \in 1 .. Len(queues[v].items) :
                                      queues'[v].items[j] = queues[v].items[w]
      BY <2>3, <2>13, <3>1
    <3> QED BY <1>1, <2>11, <2>15, <3>1, ExpectedStays
  <2> QED BY <2>3, <2>11, <2>12, <2>14, <2>16
<1> QED BY <1>5, <1>6

\* The call of p is over with the answer st; if it was on the way to a message, it has it
\* or the message is gone.
Ends(p, st) ==
    /\ cfg' = [cfg EXCEPT ![p] = Idle] /\ kern' = [kern EXCEPT ![p] = "user"]
    /\ result' = [result EXCEPT ![p] = st] /\ ndeath' = ndeath
    /\ got' \in [Tracee -> -1 .. MaxSend] /\ \A u \in Tracee \ {p} : got'[u] = got[u]
    /\ got'[p] # -1 => (st >= 0 <=> got'[p] # 0)
    /\ QueuesOK' /\ RestOK' /\ Len(queues') = Len(queues)
    /\ \A v \in 1 .. Len(queues) :
         /\ queues'[v].valid = queues[v].valid
         /\ \A j \in 1 .. Len(queues'[v].items) :
              \E w \in 1 .. Len(queues[v].items) : queues'[v].items[j] = queues[v].items[w]
    /\ \A u \in Tracee \ {p} : wokenFor'[u] = wokenFor[u]
    /\ ~left' => /\ ~left
                 /\ Retrying(p) => \A j \in 1 .. Len(queues'[cfg[p].waiting_object_index].items) :
                      queues'[cfg[p].waiting_object_index].items[j].num # wokenFor[p]

\* The end of a call keeps the invariant.
LEMMA EndKeeps ==
    ASSUME DInv, NEW p \in Tracee, NEW st \in Results, Ends(p, st)
    PROVE  DInv'
<1> USE DEF DInv, Ends
<1>1. /\ GuestsOK' /\ cfg'[p] = Idle /\ kern'[p] = "user"
      /\ \A u \in Tracee \ {p} : cfg'[u] = cfg[u] /\ kern'[u] = kern[u]
  BY ReturnGuests
<1>2. Idle.wait_reason = "none" /\ Idle.chain_state = "none" /\ Idle.wait_state \notin Held
  BY DEF Idle, Held
<1>3. InRange' BY <1>1, <1>2 DEF InRange
<1>4. /\ \A u \in Tracee : \A i, a : Waits(u, i, a)' => u # p /\ Waits(u, i, a)
      /\ \A v \in Tracee \ {p} : \A i, n : Comes(v, i, n) => Comes(v, i, n)'
  <2>1. cfg'[p].wait_reason = "none" /\ cfg'[p].chain_state = "none" BY <1>1, <1>2
  <2>2. \A u \in Tracee \ {p} : wokenFor'[u] = wokenFor[u] OBVIOUS
  <2> HIDE DEF DInv, Ends
  <2> QED BY <1>1, <2>1, <2>2, Frame
<1>5. QueueThere' BY <1>4, WaitsInRange DEF QueueThere
<1>6. ASSUME NEW u \in Tracee, NEW v, NEW a, Waits(u, v, a)', NEW j \in 1 .. Len(queues'[v].items)
      PROVE  Waits(u, v, a) /\ \E w \in 1 .. Len(queues[v].items) : queues'[v].items[j] = queues[v].items[w]
  <2>1. Waits(u, v, a) /\ v \in 1 .. Len(queues) BY <1>4, <1>6, WaitsInRange
  <2>2. \E w \in 1 .. Len(queues[v].items) : queues'[v].items[j] = queues[v].items[w] BY <1>6, <2>1
  <2> QED BY <2>1, <2>2
<1>7. ASSUME ~left', NEW v \in Tracee, NEW i, NEW n, Comes(v, i, n)
      PROVE  \/ Comes(v, i, n)'
             \/ \A j \in 1 .. Len(queues'[i].items) : queues'[i].items[j].num # n
  <2>1. CASE v = p
    <3>1. Retrying(p) /\ i = cfg[p].waiting_object_index /\ n = wokenFor[p] BY <1>7, <2>1 DEF Comes
    <3> QED BY <1>7, <3>1
  <2>2. CASE v # p BY <1>4, <1>7, <2>2
  <2> QED BY <2>1, <2>2
<1>8. Expected'
  <2>1. /\ ~left' /\ ndeath' = 0 => ~left /\ ndeath = 0
        /\ Expected
    OBVIOUS
  <2>2. \A u \in Tracee : \A v, a : Waits(u, v, a)' =>
          \A j \in 1 .. Len(queues'[v].items) : msg_match(queues'[v].items[j].mtype, a) =>
            /\ Waits(u, v, a)
            /\ \E w \in 1 .. Len(queues[v].items) : queues'[v].items[j] = queues[v].items[w]
    BY <1>6
  <2>3. ~left' => \A v \in Tracee : \A i, n : Comes(v, i, n) =>
          \/ Comes(v, i, n)'
          \/ \A j \in 1 .. Len(queues'[i].items) : queues'[i].items[j].num # n
    BY <1>7
  <2> HIDE DEF DInv, Ends
  <2> QED BY <2>1, <2>2, <2>3, ExpectedStays
<1> QED BY <1>1, <1>3, <1>5, <1>8

\* Whose call is answered was woken, or called something that is answered at once.
LEMMA AnswerIs ==
    ASSUME GuestsOK, NEW p \in Tracee, NEW st, Answer(p, st)
    PROVE  /\ cfg[p].wait_state \in {"canceled", "signaled", "getpid"}
           /\ cfg' = [cfg EXCEPT ![p] = Idle] /\ kern' = [kern EXCEPT ![p] = "user"]
           /\ result' = [result EXCEPT ![p] = st] /\ UNCHANGED <<nintr, ndeath>>
           /\ sigstop' \in {sigstop, sigstop \ {p}}
BY DEF Answer, PpollCanceled, ExitAnswered, ReturnsWith

\* The answer of a call that was made at once, or of one that was told EIDRM.
LEMMA AnsweredKeeps ==
    ASSUME DInv, NEW p \in Tracee, msgAnswered(p)
    PROVE  DInv'
<1> USE DEF DInv
<1>1. PICK st : st = cfg[p].status_after_wait OBVIOUS
<1>2. /\ ~Retrying(p) /\ Answer(p, st)
      /\ UNCHANGED <<queues, got, nsend, taken, dropped, retired, wokenFor, left, nrmid>>
  BY <1>1 DEF msgAnswered
<1>3. /\ cfg[p].wait_state \in {"canceled", "signaled", "getpid"}
      /\ cfg' = [cfg EXCEPT ![p] = Idle] /\ kern' = [kern EXCEPT ![p] = "user"]
      /\ result' = [result EXCEPT ![p] = st] /\ UNCHANGED <<nintr, ndeath>>
      /\ sigstop' \in {sigstop, sigstop \ {p}}
  BY <1>2, AnswerIs
<1>4. GuestOK(cfg[p], kern[p], result[p], got[p]) /\ got \in [Tracee -> -1 .. MaxSend]
  BY DEF GuestsOK
<1>5. EIDRM \in Results /\ ~(EIDRM >= 0) BY DEF Results, Errors, EIDRM, EAGAIN
<1>6. st \in Results /\ (got[p] # -1 => (st >= 0 <=> got[p] # 0))
  <2>1. CASE cfg[p].wait_state \in {"canceled", "signaled"}
    <3>1. got[p] = 0 /\ st \in {EAGAIN, EIDRM} /\ (cfg[p].chain_state = "retry" <=> st = EAGAIN)
      BY <1>1, <1>4, <2>1 DEF GuestOK, Held
    <3>2. st = EIDRM BY <1>1, <1>2, <3>1 DEF Retrying
    <3> QED BY <1>5, <3>1, <3>2
  <2>2. CASE cfg[p].wait_state = "getpid"
    <3>1. st # EAGAIN /\ (got[p] # -1 => (st >= 0 <=> got[p] # 0)) BY <1>1, <1>4, <2>2 DEF GuestOK
    <3>2. st \in Errors \cup Nat BY <1>1, <1>4 DEF GuestOK, Config
    <3>3. EAGAIN \notin Nat BY DEF EAGAIN
    <3> QED BY <3>1, <3>2, <3>3 DEF Results
  <2> QED BY <1>3, <2>1, <2>2
<1>7. RestOK' BY <1>2, <1>3 DEF RestOK
<1>8. QueuesOK' BY <1>2 DEF QueuesOK, OnceEach
<1>9. Ends(p, st) BY <1>2, <1>3, <1>4, <1>6, <1>7, <1>8 DEF Ends
<1> QED BY <1>6, <1>9, EndKeeps

\* A ppoll() ended by a signal or its timeout: the receiver was given nothing.
LEMMA InterruptedKeeps ==
    ASSUME DInv, NEW p \in Tracee, msgInterrupted(p)
    PROVE  DInv'
<1> USE DEF DInv
<1>1. /\ cfg[p].wait_state = "entered"
      /\ cfg' = [cfg EXCEPT ![p] = Idle] /\ kern' = [kern EXCEPT ![p] = "user"]
      /\ result' = [result EXCEPT ![p] = EINTR] /\ UNCHANGED <<nintr, ndeath>>
      /\ sigstop' = sigstop \ {p}
      /\ UNCHANGED <<queues, got, nsend, taken, dropped, retired, wokenFor, left, nrmid>>
  BY DEF msgInterrupted, ExitInterrupted, ReturnsWith
<1>2. GuestOK(cfg[p], kern[p], result[p], got[p]) /\ got \in [Tracee -> -1 .. MaxSend]
  BY DEF GuestsOK
<1>3. got[p] = 0 /\ cfg[p].chain_state # "retry" BY <1>1, <1>2 DEF GuestOK, Held
<1>4. ~Retrying(p) BY <1>3 DEF Retrying
<1>5. EINTR \in Results /\ ~(EINTR >= 0) BY DEF Results, Errors, EINTR, EAGAIN
<1>6. RestOK' BY <1>1 DEF RestOK
<1>7. QueuesOK' BY <1>1 DEF QueuesOK, OnceEach
<1>8. Ends(p, EINTR) BY <1>1, <1>2, <1>3, <1>4, <1>5, <1>6, <1>7 DEF Ends
<1> QED BY <1>5, <1>8, EndKeeps

\* sysvipc_msgrcv_retry(): the woken receiver takes what is there now.
LEMMA RetryKeeps ==
    ASSUME DInv, NEW p \in Tracee, msgrcv_retry(p)
    PROVE  DInv'
<1> USE DEF DInv
<1>1. PICK i, r, d, e : /\ i = cfg[p].waiting_object_index /\ r = cfg[p].args
                        /\ d = do_msgrcv(queues[i].items, r) /\ e = RetryResult(p)
  OBVIOUS
<1>2. /\ Retrying(p) /\ Deliver(p, i, r, e) /\ Answer(p, e.st)
      /\ left' = (left \/ \E j \in 1 .. Len(queues'[i].items) : queues'[i].items[j].num = wokenFor[p])
      /\ wokenFor' = [wokenFor EXCEPT ![p] = 0]
      /\ UNCHANGED <<nsend, dropped, retired, nrmid>>
  BY <1>1 DEF msgrcv_retry
<1>3. GuestOK(cfg[p], kern[p], result[p], got[p]) /\ got \in [Tracee -> -1 .. MaxSend]
  BY DEF GuestsOK
<1>4. i \in 1 .. Len(queues) /\ r \in AllRequests /\ r \in Request
  <2>1. cfg[p].wait_state \in Held BY <1>2, <1>3 DEF Retrying, GuestOK, Held
  <2>2. r \in AllRequests BY <1>1, <1>3, <2>1 DEF GuestOK
  <2> QED BY <1>1, <2>1, <2>2, Params DEF InRange
<1>5. queues[i].items \in Seq(Message) BY <1>4, QueueAt
<1>6. /\ d.at \in 0 .. Len(queues[i].items) /\ d.wait \in BOOLEAN /\ d.st \in Results
      /\ d.wait => d.at = 0
      /\ ~d.wait => (d.st >= 0 <=> d.at # 0)
      /\ d = [st |-> d.st, wait |-> d.wait, at |-> d.at]
  BY <1>1, <1>4, <1>5, ReceiveIs
<1>7. e = [d EXCEPT !.st = IF d.wait THEN EINTR ELSE @] BY <1>1 DEF RetryResult
<1>8. e.at = d.at /\ e.st = IF d.wait THEN EINTR ELSE d.st BY <1>6, <1>7
<1>9. EINTR \in Results /\ ~(EINTR >= 0) BY DEF Results, Errors, EINTR, EAGAIN
<1>10. e.st \in Results /\ (e.st >= 0 <=> e.at # 0) BY <1>6, <1>8, <1>9
<1>11. /\ QueuesOK' /\ Len(queues') = Len(queues)
       /\ got' \in [Tracee -> -1 .. MaxSend] /\ got'[p] # -1 /\ (got'[p] # 0 <=> e.at # 0)
       /\ \A u \in Tracee \ {p} : got'[u] = got[u]
       /\ \A v \in 1 .. Len(queues) : queues'[v].valid = queues[v].valid
       /\ \A v \in 1 .. Len(queues) \ {i} : queues'[v] = queues[v]
       /\ \A j \in 1 .. Len(queues'[i].items) :
            \E w \in 1 .. Len(queues[i].items) : queues'[i].items[j] = queues[i].items[w]
  <2>1. QueuesOK /\ e.at \in 0 .. Len(queues[i].items) BY <1>6, <1>8
  <2>2. UNCHANGED <<nsend, dropped>> BY <1>2
  <2> QED BY <1>2, <1>3, <1>4, <2>1, <2>2, DeliverOnce
<1>12. /\ cfg' = [cfg EXCEPT ![p] = Idle] /\ kern' = [kern EXCEPT ![p] = "user"]
       /\ result' = [result EXCEPT ![p] = e.st] /\ UNCHANGED <<nintr, ndeath>>
       /\ sigstop' \in {sigstop, sigstop \ {p}}
  BY <1>2, AnswerIs
<1>13. /\ wokenFor' \in [Tracee -> 0 .. MaxSend] /\ \A u \in Tracee \ {p} : wokenFor'[u] = wokenFor[u]
  <2>1. 0 \in 0 .. MaxSend /\ wokenFor \in [Tracee -> 0 .. MaxSend] BY Params DEF RestOK
  <2> QED BY <1>2, <2>1
<1>14. RestOK' BY <1>2, <1>12, <1>13 DEF RestOK
<1>15. ~left' => /\ ~left
                 /\ \A j \in 1 .. Len(queues'[i].items) : queues'[i].items[j].num # wokenFor[p]
  BY <1>2
<1>16. Ends(p, e.st)
  <2>1. \A v \in 1 .. Len(queues) :
          /\ queues'[v].valid = queues[v].valid
          /\ \A j \in 1 .. Len(queues'[v].items) :
               \E w \in 1 .. Len(queues[v].items) : queues'[v].items[j] = queues[v].items[w]
    BY <1>11, SMTT(30)
  <2> QED BY <1>1, <1>10, <1>11, <1>12, <1>13, <1>14, <1>15, <2>1 DEF Ends
<1> QED BY <1>10, <1>16, EndKeeps

-----------------------------------------------------------------------------
\* No guest is dead before one was killed.
DeathsCounted == ndeath = 0 => \A p \in Tracee : kern[p] \notin {"dead", "gone"}

\* The inductive invariant of Delivered and ReceiversServed.
MInv == DInv /\ DeathsCounted

\* Deaths are counted when they happen, and nobody comes back.
LEMMA DeathsKeep ==
    ASSUME MInv, [Next]_vars
    PROVE  DeathsCounted'
<1> USE DEF MInv, DeathsCounted
<1>1. kern \in [Tracee -> Kern] /\ ndeath \in Nat BY Params DEF DInv, GuestsOK, RestOK
<1>2. CASE UNCHANGED vars BY <1>2 DEF vars
<1>3. ASSUME NEW p \in Tracee, NEW k \in {"user", "restart", "ppoll", "exit"},
             kern' = [kern EXCEPT ![p] = k], ndeath' = ndeath
      PROVE  DeathsCounted'
  BY <1>1, <1>3
<1>4. ASSUME NEW p \in Tracee, Call(p) PROVE DeathsCounted'
  <2>1. \E s, c, st : kern[p] = "user" /\ syscall_common(p, s, c, st)
    <3>1. PICK s \in FromSigsys[p] :
            \/ \E key, flg : msgget(p, key, flg, s)
            \/ \E id, mtype, len, ok : msgsnd(p, id, mtype, len, ok, s)
            \/ \E id, r : msgrcv(p, id, r, s)
            \/ \E id : msgctl_RMID(p, id, s)
      BY <1>4 DEF Call
    <3>2. ASSUME NEW key, NEW flg, msgget(p, key, flg, s)
          PROVE  kern[p] = "user" /\ \E c, st : syscall_common(p, s, c, st)
      BY <3>2 DEF msgget
    <3>3. ASSUME NEW id, NEW mtype, NEW len, NEW ok, msgsnd(p, id, mtype, len, ok, s)
          PROVE  kern[p] = "user" /\ \E c, st : syscall_common(p, s, c, st)
      BY <3>3 DEF msgsnd
    <3>4. ASSUME NEW id, NEW r, msgrcv(p, id, r, s)
          PROVE  kern[p] = "user" /\ \E c, st : syscall_common(p, s, c, st)
      BY <3>4 DEF msgrcv
    <3>5. ASSUME NEW id, msgctl_RMID(p, id, s)
          PROVE  kern[p] = "user" /\ \E c, st : syscall_common(p, s, c, st)
      BY <3>5 DEF msgctl_RMID
    <3> QED BY <3>1, <3>2, <3>3, <3>4, <3>5
  <2> QED BY <1>1, <2>1 DEF syscall_common
<1>5. ASSUME NEW p \in Tracee, msgrcv_retry(p) \/ msgAnswered(p) \/ msgInterrupted(p)
      PROVE  DeathsCounted'
  <2>1. kern' = [kern EXCEPT ![p] = "user"] /\ ndeath' = ndeath
    BY <1>5 DEF msgrcv_retry, msgAnswered, msgInterrupted, Answer, PpollCanceled,
                ExitAnswered, ExitInterrupted, ReturnsWith
  <2> QED BY <1>3, <2>1
<1>6. ASSUME NEW p \in Tracee, Kernel(p) PROVE DeathsCounted'
  <2>1. CASE PpollEnter(p) BY <1>3, <2>1 DEF PpollEnter
  <2>2. CASE PpollInterrupted(p) \/ PpollStopped(p)
    BY <1>3, <2>2 DEF PpollInterrupted, PpollStopped
  <2>3. CASE GuestDies(p) BY <1>1, <2>3 DEF GuestDies
  <2>4. CASE FreeGuest(p) BY <1>1, <2>4 DEF FreeGuest
  <2> QED BY <1>6, <2>1, <2>2, <2>3, <2>4 DEF Kernel
<1> QED BY <1>2, <1>4, <1>5, <1>6 DEF Next

\* The kernel's steps, and the death of a guest.
LEMMA KernelServes ==
    ASSUME MInv, NEW p \in Tracee, Kernel(p)
    PROVE  DInv'
<1> USE DEF MInv, DInv
<1>1. UNCHANGED <<queues, got, nsend, taken, dropped, retired, wokenFor, left, nrmid>> BY DEF Kernel
<1>2. QueuesOK' BY <1>1 DEF QueuesOK, OnceEach
<1>3. /\ cfg \in [Tracee -> Config] /\ kern \in [Tracee -> Kern] /\ result \in [Tracee -> Results]
      /\ got \in [Tracee -> -1 .. MaxSend]
      /\ \A u \in Tracee : GuestOK(cfg[u], kern[u], result[u], got[u])
  BY DEF GuestsOK
<1>4. \A u \in Tracee : u \in Listed <=> kern[u] # "gone" BY DEF Listed
<1>5. \A u \in Tracee : u \in Listed' <=> kern'[u] # "gone" BY DEF Listed
<1>6. CASE PpollEnter(p)
  <2> DEFINE x == [cfg[p] EXCEPT !.wait_state = "entered"]
  <2>1. /\ cfg[p].wait_state = "restarted" /\ cfg' = [cfg EXCEPT ![p] = x]
        /\ kern' = [kern EXCEPT ![p] = "ppoll"] /\ kern[p] = "restart"
        /\ UNCHANGED <<sigstop, result, nintr, ndeath>>
    BY <1>6 DEF PpollEnter
  <2>2. /\ x \in Config /\ x.wait_state = "entered" /\ x.wait_reason = cfg[p].wait_reason
        /\ x.chain_state = cfg[p].chain_state /\ x.status_after_wait = cfg[p].status_after_wait
        /\ x.waiting_object_index = cfg[p].waiting_object_index /\ x.args = cfg[p].args
    BY <1>3, ZenonT(30) DEF Config, WaitStates
  <2> HIDE DEF x
  <2>3. GuestOK(x, "ppoll", result[p], got[p])
    <3>1. GuestOK(cfg[p], kern[p], result[p], got[p]) BY <1>3
    <3>2. "ppoll" \in Kern BY DEF Kern
    <3> QED BY <2>1, <2>2, <3>1, <3>2 DEF GuestOK, Held
  <2>4. /\ cfg' \in [Tracee -> Config] /\ kern' \in [Tracee -> Kern] /\ cfg'[p] = x /\ kern'[p] = "ppoll"
        /\ \A u \in Tracee \ {p} : cfg'[u] = cfg[u] /\ kern'[u] = kern[u]
    BY <1>3, <2>1, <2>2 DEF Kern
  <2>5. GuestsOK' BY <1>1, <1>3, <2>1, <2>3, <2>4 DEF GuestsOK
  <2>6. InRange' BY <1>1, <2>1, <2>2, <2>4 DEF InRange, Held
  <2>7. RestOK' BY <1>1, <2>1 DEF RestOK
  <2>8. \A u \in Tracee : \A i, a : Waits(u, i, a)' <=> Waits(u, i, a)
    BY <1>4, <1>5, <2>1, <2>2, <2>4 DEF Waits
  <2>9. \A v \in Tracee : \A i, n : Comes(v, i, n)' <=> Comes(v, i, n)
    BY <1>1, <1>4, <1>5, <2>1, <2>2, <2>4 DEF Comes, Retrying
  <2>10. QueueThere' BY <1>1, <2>8 DEF QueueThere
  <2>11. Expected' BY <1>1, <2>1, <2>8, <2>9, ExpectedStays
  <2> QED BY <1>2, <2>5, <2>6, <2>7, <2>10, <2>11
<1>7. ASSUME NEW k \in {"exit", "dead", "gone"},
             kern' = [kern EXCEPT ![p] = k] /\ UNCHANGED <<cfg, result>>,
             k = "gone" => kern[p] = "dead" /\ ndeath' = ndeath,
             k # "gone" => kern[p] # "gone",
             sigstop' \in {sigstop, sigstop \ {p}},
             ndeath' = ndeath \/ (ndeath < MaxDeath /\ ndeath' = ndeath + 1),
             nintr' = nintr \/ (nintr < MaxIntr /\ nintr' = nintr + 1)
      PROVE  DInv'
  <2>2. /\ kern' \in [Tracee -> Kern] /\ kern'[p] = k /\ k # "user"
        /\ \A u \in Tracee \ {p} : kern'[u] = kern[u]
    BY <1>3, <1>7 DEF Kern
  <2>3. GuestsOK'
    <3>1. GuestOK(cfg[p], k, result[p], got[p])
      <4>1. GuestOK(cfg[p], kern[p], result[p], got[p]) /\ k \in Kern BY <1>3, <2>2
      <4> QED BY <2>2, <4>1 DEF GuestOK
    <3>2. \A u \in Tracee : GuestOK(cfg'[u], kern'[u], result'[u], got'[u])
      BY <1>1, <1>3, <1>7, <2>2, <3>1
    <3> QED BY <1>1, <1>3, <1>7, <2>2, <3>2 DEF GuestsOK
  <2>4. InRange' BY <1>1, <1>7 DEF InRange
  <2>5. RestOK' BY <1>1, <1>7, Params DEF RestOK
  <2>6. \A u \in Tracee : \A i, a : Waits(u, i, a)' => Waits(u, i, a)
    BY <1>4, <1>5, <1>7, <2>2 DEF Waits
  <2>7. ndeath' = 0 => ndeath = 0 /\ k # "gone"
    BY <1>7, Params DEF RestOK, DeathsCounted
  <2>8. k # "gone" => \A v \in Tracee : \A i, n : Comes(v, i, n) => Comes(v, i, n)'
    BY <1>1, <1>4, <1>5, <1>7, <2>2 DEF Comes, Retrying
  <2>9. QueueThere' BY <1>1, <2>6 DEF QueueThere
  <2>10. Expected' BY <1>1, <2>6, <2>7, <2>8, ExpectedStays
  <2> QED BY <1>2, <2>3, <2>4, <2>5, <2>9, <2>10
<1>8. CASE PpollInterrupted(p)
  <2> HIDE DEF MInv, DInv
  <2>1. /\ kern' = [kern EXCEPT ![p] = "exit"] /\ UNCHANGED <<cfg, result>>
        /\ kern[p] # "gone"
        /\ sigstop' \in {sigstop, sigstop \ {p}}
        /\ ndeath' = ndeath \/ (ndeath < MaxDeath /\ ndeath' = ndeath + 1)
        /\ nintr' = nintr \/ (nintr < MaxIntr /\ nintr' = nintr + 1)
    BY <1>8 DEF PpollInterrupted
  <2> QED BY <1>7, <2>1
<1>9. CASE PpollStopped(p)
  <2> HIDE DEF MInv, DInv
  <2>1. /\ kern' = [kern EXCEPT ![p] = "exit"] /\ UNCHANGED <<cfg, result>>
        /\ kern[p] # "gone"
        /\ sigstop' \in {sigstop, sigstop \ {p}}
        /\ ndeath' = ndeath \/ (ndeath < MaxDeath /\ ndeath' = ndeath + 1)
        /\ nintr' = nintr \/ (nintr < MaxIntr /\ nintr' = nintr + 1)
    BY <1>9 DEF PpollStopped
  <2> QED BY <1>7, <2>1
<1>10. CASE GuestDies(p)
  <2> HIDE DEF MInv, DInv
  <2>1. /\ kern' = [kern EXCEPT ![p] = "dead"] /\ UNCHANGED <<cfg, result>>
        /\ kern[p] # "gone"
        /\ sigstop' \in {sigstop, sigstop \ {p}}
        /\ ndeath' = ndeath \/ (ndeath < MaxDeath /\ ndeath' = ndeath + 1)
        /\ nintr' = nintr \/ (nintr < MaxIntr /\ nintr' = nintr + 1)
    BY <1>10 DEF GuestDies
  <2> QED BY <1>7, <2>1
<1>11. CASE FreeGuest(p)
  <2> HIDE DEF MInv, DInv
  <2>1. /\ kern' = [kern EXCEPT ![p] = "gone"] /\ UNCHANGED <<cfg, result>>
        /\ kern[p] = "dead" /\ ndeath' = ndeath
        /\ sigstop' \in {sigstop, sigstop \ {p}}
        /\ ndeath' = ndeath \/ (ndeath < MaxDeath /\ ndeath' = ndeath + 1)
        /\ nintr' = nintr \/ (nintr < MaxIntr /\ nintr' = nintr + 1)
    BY <1>11 DEF FreeGuest
  <2> QED BY <1>7, <2>1
<1> QED BY <1>6, <1>8, <1>9, <1>10, <1>11 DEF Kernel

\* At the beginning there are no queues, no messages and no calls.
LEMMA InitMInv == Init => MInv
<1> SUFFICES ASSUME Init PROVE MInv OBVIOUS
<1> USE DEF Init
<1>1. /\ Idle \in Config /\ Idle.wait_state = "not" /\ Idle.wait_reason = "none"
      /\ Idle.chain_state = "none" /\ Idle.status_after_wait = 0
  BY Params DEF Idle, Config, WaitStates
<1>2. /\ "user" \in Kern /\ 0 # EAGAIN /\ 0 \in Results /\ -1 \in -1 .. MaxSend /\ 0 \in 0 .. MaxSend
      /\ 0 \in 0 .. MaxIntr /\ 0 \in 0 .. MaxDeath /\ 0 \in 0 .. MaxRmid
  BY Params DEF Kern, Results, EAGAIN
<1> HIDE DEF Idle
<1>3. GuestsOK
  <2>1. GuestOK(Idle, "user", 0, -1) BY <1>1, <1>2 DEF GuestOK, Held
  <2> QED BY <1>1, <1>2, <2>1 DEF GuestsOK
<1>4. queues \in Seq(Queue) /\ Len(queues) = 0 OBVIOUS
<1>5. \A m : ~Kept(queues, m) BY <1>4 DEF Kept, Holds
<1>6. OnceEach BY <1>2, <1>4, <1>5, Params DEF OnceEach, Kept
<1>7. QueuesOK BY <1>2, <1>4, <1>6, Params DEF QueuesOK
<1>8. RestOK BY <1>2 DEF RestOK
<1>9. InRange BY <1>1 DEF InRange, Held
<1>10. \A u \in Tracee : \A i, a : ~Waits(u, i, a) BY <1>1 DEF Waits
<1>11. Expected /\ QueueThere BY <1>10 DEF Expected, QueueThere
<1>12. DeathsCounted BY DEF DeathsCounted
<1> QED BY <1>3, <1>7, <1>8, <1>9, <1>11, <1>12 DEF MInv, DInv

\* A step of nobody.
LEMMA StutterServes ==
    ASSUME DInv, UNCHANGED vars PROVE DInv'
<1> USE DEF vars
<1>1. GuestsOK' /\ RestOK' /\ InRange' BY DEF DInv, GuestsOK, RestOK, InRange
<1>2. QueuesOK' BY DEF DInv, QueuesOK, OnceEach
<1>3. \A u \in Tracee : \A i, a : Waits(u, i, a)' <=> Waits(u, i, a) BY DEF Waits, Listed
<1>4. \A v \in Tracee : \A i, n : Comes(v, i, n)' <=> Comes(v, i, n) BY DEF Comes, Retrying, Listed
<1>5. QueueThere' BY <1>3 DEF DInv, QueueThere
<1>6. Expected' BY <1>3, <1>4, ExpectedStays DEF DInv
<1> QED BY <1>1, <1>2, <1>5, <1>6 DEF DInv

\* Every step keeps the invariant.
LEMMA StepKeeps ==
    ASSUME MInv, [Next]_vars PROVE MInv'
<1>1. DInv /\ DeathsCounted' BY DeathsKeep DEF MInv
<1>2. ASSUME NEW p \in Tracee, Call(p) PROVE DInv'
  <2>1. PICK s \in FromSigsys[p] :
          \/ \E key \in Keys, flg \in Creates : msgget(p, key, flg, s)
          \/ \E id \in Ids, mtype \in Types, len \in Lengths, ok \in BOOLEAN :
                msgsnd(p, id, mtype, len, ok, s)
          \/ \E id \in Ids, r \in Requests[p] : msgrcv(p, id, r, s)
          \/ \E id \in Ids : msgctl_RMID(p, id, s)
    BY <1>2 DEF Call
  <2>2. s \in BOOLEAN BY FromSigsysAssumption DEF Tracee
  <2> QED BY <1>1, <2>1, <2>2, GetKeeps, SendKeeps, ReceiveKeeps, RemoveKeeps
<1>3. ASSUME NEW p \in Tracee, Kernel(p) \/ msgrcv_retry(p) \/ msgAnswered(p) \/ msgInterrupted(p)
      PROVE  DInv'
  BY <1>1, <1>3, KernelServes, RetryKeeps, AnsweredKeeps, InterruptedKeeps
<1>4. CASE UNCHANGED vars BY <1>1, <1>4, StutterServes DEF MInv
<1> QED BY <1>1, <1>2, <1>3, <1>4 DEF MInv, Next

\* The invariant contains what Delivered says.
LEMMA DeliveredIs == DInv => Delivered
<1> SUFFICES ASSUME DInv PROVE Delivered OBVIOUS
<1>1. Conserved BY OnceConserved DEF DInv
<1>2. Reported BY DEF DInv, GuestsOK, GuestOK, Reported
<1>3. cfg \in [Tracee -> Config] /\ result \in [Tracee -> Results] BY DEF DInv, GuestsOK
<1>4. queues \in Seq(Queue) BY DEF DInv, QueuesOK
<1>5. TypeOK
  <2>6. Config = [wait_reason : {"none", "msgrcv"}, wait_state : WaitStates,
                 chain_state : {"none", "retry"}, status_after_wait : Errors \cup Nat,
                 waiting_object_index : 0 .. MaxQueue,
                 args : (UNION {Requests[p] : p \in Tracee}) \cup {<<>>}]
    BY Zenon DEF Config, AllRequests
  <2>1. cfg \in [Tracee -> [wait_reason : {"none", "msgrcv"}, wait_state : WaitStates,
                           chain_state : {"none", "retry"}, status_after_wait : Errors \cup Nat,
                           waiting_object_index : 0 .. MaxQueue,
                           args : (UNION {Requests[p] : p \in Tracee}) \cup {<<>>}]]
    BY <1>3, <2>6, Zenon
  <2>4. result \in [Tracee -> (Errors \ {EAGAIN}) \cup Nat] BY <1>3 DEF Results
  <2>5. queues \in Seq([key : Keys, generation : Nat, valid : BOOLEAN, items : Seq(Message)])
    BY <1>4 DEF Queue
  <2>2. /\ kern \in [Tracee -> Kern] /\ got \in [Tracee -> -1 .. MaxSend]
        /\ Len(queues) <= MaxQueue /\ nsend \in 0 .. MaxSend
        /\ taken \in [1 .. MaxSend -> Nat] /\ dropped \subseteq 1 .. MaxSend
    BY DEF DInv, GuestsOK, QueuesOK
  <2>3. RestOK BY DEF DInv
  <2> QED BY <2>1, <2>2, <2>3, <2>4, <2>5, Zenon DEF TypeOK, RestOK
<1> QED BY <1>1, <1>2, <1>5 DEF Delivered

\* Whatever the order of calls, wake-ups, signals, timeouts, removals and deaths: every
\* message that was sent is in one queue, or was given to one call, or went with its queue,
\* and a msgrcv() returns a length exactly when it was given one (do_msgrcv(),
\* sysvipc_msgrcv_retry(), IPC_RMID); every variable keeps its type.
THEOREM MessagesDelivered == Spec => []Delivered
<1>1. MInv => Delivered BY DeliveredIs DEF MInv
<1> QED BY InitMInv, StepKeeps, <1>1, PTL DEF Spec

\* Who waits in msgrcv() waits on a queue that exists, and for a message that is not there
\* or that the receiver sysvipc_msgsnd() woke for it has not come to fetch, until one of
\* these leaves its message or is killed.
THEOREM ReceiversAreServed == Spec => []ReceiversServed
<1>1. MInv => ReceiversServed BY ServedIs DEF MInv, DInv
<1> QED BY InitMInv, StepKeeps, <1>1, PTL DEF Spec
=============================================================================
