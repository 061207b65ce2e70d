------------------------------- MODULE IpcSem -------------------------------
(***************************************************************************)
(* Semaphore sets of the System V IPC emulation                            *)
(* (src/src/extension/sysvipc/sysvipc_sem.c) on the waiting mechanism of   *)
(* IpcWait.                                                                *)
(*                                                                         *)
(* A guest's semop() applies all of its operations or none.  If it cannot, *)
(* it waits; whoever changes the set afterwards applies the operations of  *)
(* the waiters on their behalf and wakes them with the result.             *)
(***************************************************************************)
EXTENDS IpcWait

CONSTANTS
    Does,       \* which of the calls every guest makes: subsets of CallNames
    Keys,       \* keys of semget()
    Creates,    \* its flags: a set of [creat, excl : BOOLEAN]
    Sizes,      \* its numbers of semaphores
    Calls,      \* every guest's arrays of operations: sequences of [num, op, nowait]
    Values,     \* arguments of SETVAL
    MaxVal,     \* SYSVIPC_MAX_SEMVAL
    MaxNsems,   \* SYSVIPC_MAX_NSEMS
    MaxSets,    \* SYSVIPC_MAX_SEMS
    MaxRmid,    \* how many sets are removed
    IdBase      \* 2^12: the identifier's share for the index

CallNames == {"semget", "semop", "semctl"}

\* What the constants are.
SemAssumption ==
    /\ Does \in [Tracee -> SUBSET CallNames]
    /\ Keys \subseteq Nat /\ Sizes \subseteq Int /\ Values \subseteq Nat
    /\ Creates \subseteq [creat : BOOLEAN, excl : BOOLEAN]
    /\ \A p \in Tracee : Calls[p] \subseteq Seq([num : Nat, op : Int, nowait : BOOLEAN])
    /\ MaxVal \in Nat /\ MaxNsems \in Nat /\ MaxSets \in Nat /\ MaxRmid \in Nat
    /\ IdBase \in Nat /\ MaxSets < IdBase

VARIABLES
    semaphores,  \* the array ipc_namespace->semaphores
    doing,       \* the operations of the semop() every guest is in, with its set
    credited,    \* for every set, the sum of the operations that returned 0
    passed,      \* waiters that nobody looked at since the set last changed
    nrmid

vars == <<cfg, kern, sigstop, result, nintr, ndeath, semaphores, doing, credited, passed, nrmid>>

ENOSPC == -28

NoCall == [i |-> 0, ops |-> <<>>]

Zeros(n) == [s \in 0 .. n - 1 |-> 0]

Init ==
    /\ cfg = [p \in Tracee |-> Idle]
    /\ kern = [p \in Tracee |-> "user"]
    /\ sigstop = {} /\ nintr = 0 /\ ndeath = 0
    /\ result = [p \in Tracee |-> 0]
    /\ semaphores = <<>>
    /\ doing = [p \in Tracee |-> NoCall]
    /\ credited = [i \in 1 .. MaxSets |-> Zeros(0)]
    /\ passed = {} /\ nrmid = 0

\* IPC_OBJECT_ID and LOOKUP_IPC_OBJECT; 0 stands for EINVAL.
IpcObjectId(i) == i + semaphores[i].generation * IdBase

Lookup(id) ==
    LET i == id % IdBase IN
    IF i \in 1 .. Len(semaphores) /\ semaphores[i].valid
         /\ semaphores[i].generation = id \div IdBase
      THEN i ELSE 0

Ids == {IpcObjectId(i) : i \in {j \in 1 .. Len(semaphores) : semaphores[j].valid}} \cup {0}

\* One operation of sem_check() on the values so far: the new values, and a status
\* that is 0, 1 for "wait", or an error.
Step(sems, o) ==
    LET v == sems[o.num] + o.op IN
    CASE o.num \notin DOMAIN sems -> [st |-> EFBIG, sems |-> sems]
      [] o.num \in DOMAIN sems /\ (IF o.op = 0 THEN v # 0 ELSE v < 0) ->
            [st |-> IF o.nowait THEN EAGAIN ELSE 1, sems |-> sems]
      [] o.num \in DOMAIN sems /\ o.op # 0 /\ v > MaxVal -> [st |-> ERANGE, sems |-> sems]
      [] OTHER -> [st |-> 0, sems |-> [sems EXCEPT ![o.num] = v]]

\* Mutant: the set's values are changed in place.
sem_check_InPlace(sems, ops) ==
    LET after[k \in 0 .. Len(ops)] ==
          IF k = 0 THEN [st |-> 0, sems |-> sems]
          ELSE IF after[k - 1].st # 0 THEN after[k - 1]
          ELSE Step(after[k - 1].sems, ops[k])
    IN  after[Len(ops)]

\* sem_check(): all operations in turn on a copy, which becomes the set's values if
\* none of them failed.
sem_check(sems, ops) ==
    LET after[k \in 0 .. Len(ops)] ==
          IF k = 0 THEN [st |-> 0, sems |-> sems]
          ELSE IF after[k - 1].st # 0 THEN after[k - 1]
          ELSE Step(after[k - 1].sems, ops[k])
        r == after[Len(ops)]
    IN  IF r.st = 0 THEN r ELSE [st |-> r.st, sems |-> sems]

Waiters(c, i) == {u \in Listed : c[u].wait_reason = "semop" /\ c[u].waiting_object_index = i}

\* Mutant: only one waiter is woken.
TryWaiter_One(b, k) ==
    LET r == sem_check(b.sems, b.cfg[k].args)
        first == \A u \in Tracee : cfg[u].wait_reason = "semop" => b.cfg[u].wait_reason = "semop"
    IN  IF r.st = 1
          THEN [b EXCEPT !.tried = @ \cup {k}, !.passed = @ \ {k}]
          ELSE IF first
          THEN [b EXCEPT !.sems = r.sems, !.cfg[k] = Woken(@, r.st),
                         !.passed = (IF r.st = 0 THEN @ \cup b.tried ELSE @) \ {k}]
          ELSE b

\* A waiter is woken unless it still has to wait.
TryWaiter(b, k) ==
    LET r == sem_check(b.sems, b.cfg[k].args)
    IN  IF r.st = 1
          THEN [b EXCEPT !.tried = @ \cup {k}, !.passed = @ \ {k}]
          ELSE [b EXCEPT !.sems = r.sems, !.cfg[k] = Woken(@, r.st),
                         !.passed = (IF r.st = 0 THEN @ \cup b.tried ELSE @) \ {k}]

\* One pass over the list of tracees after p's own operations: each waiter of set i is
\* tried once, with the values its predecessors left.
WakeOthers(p, i, sems, c) ==
    LET pass[k \in 0 .. N] ==
          IF k = 0 THEN [sems |-> sems, cfg |-> c, tried |-> Waiters(c, i) \cap {p}, passed |-> passed]
          ELSE IF k = p \/ k \notin Waiters(pass[k - 1].cfg, i) THEN pass[k - 1]
          ELSE TryWaiter(pass[k - 1], k)
    IN  pass[N]

First(S) == CHOOSE i \in S : \A j \in S : i <= j

Add(f, ops) ==
    LET upto[k \in 0 .. Len(ops)] ==
          IF k = 0 THEN f ELSE [upto[k - 1] EXCEPT ![ops[k].num] = @ + ops[k].op]
    IN  upto[Len(ops)]

\* The books: what p's call did is credited when the call returns 0.
Credit(p, status) ==
    /\ credited' = IF status = 0 /\ doing[p].i # 0
                     THEN [credited EXCEPT ![doing[p].i] = Add(@, doing[p].ops)]
                     ELSE credited
    /\ doing' = [doing EXCEPT ![p] = NoCall]

-----------------------------------------------------------------------------
NewSet(key, nsems) == [key |-> key, generation |-> 0, valid |-> TRUE, sems |-> Zeros(nsems)]

semget(p, key, nsems, flg, sigsys) ==
    LET same == {i \in 1 .. Len(semaphores) : semaphores[i].valid /\ key # 0 /\ semaphores[i].key = key}
        free == {i \in 1 .. Len(semaphores) : ~semaphores[i].valid}
        slot == IF free # {} THEN First(free) ELSE Len(semaphores) + 1
        old  == First(same)
        status == CASE nsems \notin 1 .. MaxNsems -> EINVAL
                    [] nsems \in 1 .. MaxNsems /\ same # {} ->
                         IF flg.creat /\ flg.excl THEN EEXIST
                         ELSE IF Cardinality(DOMAIN semaphores[old].sems) < nsems THEN EINVAL
                         ELSE IpcObjectId(old)
                    [] nsems \in 1 .. MaxNsems /\ same = {} ->
                         IF ~flg.creat THEN ENOENT ELSE IF slot > MaxSets THEN ENOSPC ELSE slot
    IN
    /\ kern[p] = "user"
    /\ syscall_common(p, sigsys, cfg, status)
    /\ IF status > 0 /\ same = {}
         THEN /\ semaphores' = IF free # {} THEN [semaphores EXCEPT ![slot] = NewSet(key, nsems)]
                                            ELSE Append(semaphores, NewSet(key, nsems))
              /\ credited' = [credited EXCEPT ![slot] = Zeros(nsems)]
         ELSE UNCHANGED <<semaphores, credited>>
    /\ UNCHANGED <<doing, passed, nrmid>>

\* sysvipc_semop() whose arguments are refused.
semopRefused(p, id, ops, sigsys) ==
    LET i == Lookup(id) IN
    /\ kern[p] = "user"
    /\ \/ i = 0 /\ syscall_common(p, sigsys, cfg, EINVAL)
       \/ i # 0 /\ ops = <<>> /\ syscall_common(p, sigsys, cfg, EINVAL)
       \/ /\ i # 0
          /\ \E k \in 1 .. Len(ops) : ops[k].num \notin DOMAIN semaphores[i].sems
          /\ syscall_common(p, sigsys, cfg, EFBIG)
    /\ UNCHANGED <<semaphores, doing, credited, passed, nrmid>>

\* sysvipc_semop(): the caller's operations, then those of the waiters.
semop(p, id, ops, sigsys) ==
    LET i == Lookup(id)
        own == sem_check(semaphores[i].sems, ops)
        c == IF own.st = 1
               THEN [cfg EXCEPT ![p].wait_reason = "semop", ![p].args = ops,
                                ![p].waiting_object_index = i]
               ELSE cfg
        w == WakeOthers(p, i, own.sems, c)
    IN
    /\ kern[p] = "user"
    /\ i # 0 /\ ops # <<>>
    /\ \A k \in 1 .. Len(ops) : ops[k].num \in DOMAIN semaphores[i].sems
    /\ semaphores' = [semaphores EXCEPT ![i].sems = w.sems]
    /\ passed' = w.passed
    /\ syscall_common(p, sigsys, w.cfg, own.st)
    /\ IF own.st # 1 /\ sigsys
         THEN /\ credited' = IF own.st = 0 THEN [credited EXCEPT ![i] = Add(@, ops)] ELSE credited
              /\ UNCHANGED doing
         ELSE /\ doing' = [doing EXCEPT ![p] = [i |-> i, ops |-> ops]]
              /\ UNCHANGED credited
    /\ UNCHANGED nrmid

\* The sum of what is applied to semaphore s of set i and not yet returned.
Pending(i, s) ==
    LET sum[k \in 0 .. N] ==
          IF k = 0 THEN 0
          ELSE sum[k - 1] + IF /\ doing[k].i = i
                               /\ cfg[k].wait_state \in {"signaled", "canceled", "getpid"}
                               /\ cfg[k].status_after_wait = 0
                              THEN Add(Zeros(Cardinality(DOMAIN semaphores[i].sems)), doing[k].ops)[s]
                              ELSE 0
    IN  sum[N]

\* sysvipc_semctl(SETVAL): nobody is woken.
semctl_SETVAL(p, id, s, v, sigsys) ==
    LET i == Lookup(id)
        status == IF i = 0 THEN EINVAL
                  ELSE IF s \notin DOMAIN semaphores[i].sems THEN EINVAL
                  ELSE IF v > MaxVal THEN ERANGE ELSE 0
    IN
    /\ kern[p] = "user"
    /\ syscall_common(p, sigsys, cfg, status)
    /\ IF status = 0
         THEN /\ semaphores' = [semaphores EXCEPT ![i].sems[s] = v]
              /\ credited' = [credited EXCEPT ![i][s] = v - Pending(i, s)]
              /\ passed' = passed \cup Waiters(cfg, i)
         ELSE UNCHANGED <<semaphores, credited, passed>>
    /\ UNCHANGED <<doing, nrmid>>

\* Mutant: nobody is told.
RemoveWakes_Nobody(i) == cfg

\* sysvipc_semctl(IPC_RMID).
RemoveWakes(i) ==
    [u \in Tracee |-> IF u \in Waiters(cfg, i) THEN Woken(cfg[u], EIDRM) ELSE cfg[u]]

semctl_RMID(p, id, sigsys) ==
    LET i == Lookup(id) IN
    /\ kern[p] = "user"
    /\ \/ /\ i = 0
          /\ syscall_common(p, sigsys, cfg, EINVAL)
          /\ UNCHANGED <<semaphores, doing, passed, nrmid>>
       \/ /\ i # 0
          /\ nrmid < MaxRmid
          /\ nrmid' = nrmid + 1
          /\ syscall_common(p, sigsys, RemoveWakes(i), 0)
          /\ semaphores' = [semaphores EXCEPT ![i].valid = FALSE, ![i].generation = @ + 1,
                                              ![i].sems = Zeros(0)]
          /\ passed' = passed \ Waiters(cfg, i)
          /\ doing' = [u \in Tracee |-> IF doing[u].i = i THEN NoCall ELSE doing[u]]
    /\ UNCHANGED credited

-----------------------------------------------------------------------------
semAnswered(p) ==
    /\ PpollCanceled(p, cfg[p].status_after_wait) \/ ExitAnswered(p, cfg[p].status_after_wait)
    /\ Credit(p, cfg[p].status_after_wait)
    /\ UNCHANGED <<semaphores, passed, nrmid>>

\* sysvipc_semop_timedout() and what follows it.
semop_timedout(p) ==
    /\ ExitInterrupted(p)
    /\ Credit(p, EINTR)
    /\ passed' = passed \ {p}
    /\ UNCHANGED <<semaphores, nrmid>>

Kernel(p) ==
    /\ PpollEnter(p) \/ PpollInterrupted(p) \/ PpollStopped(p) \/ GuestDies(p) \/ FreeGuest(p)
    /\ UNCHANGED <<semaphores, doing, credited, passed, nrmid>>

Call(p) ==
    \E sig \in FromSigsys[p] :
      \/ /\ "semget" \in Does[p]
         /\ \E key \in Keys, n \in Sizes, flg \in Creates : semget(p, key, n, flg, sig)
      \/ /\ "semop" \in Does[p]
         /\ \E id \in Ids, ops \in Calls[p] : semop(p, id, ops, sig) \/ semopRefused(p, id, ops, sig)
      \/ /\ "semctl" \in Does[p]
         /\ \E id \in Ids : \/ \E s \in {0, 1}, v \in Values : semctl_SETVAL(p, id, s, v, sig)
                           \/ semctl_RMID(p, id, sig)

Next == \E p \in Tracee : Call(p) \/ Kernel(p) \/ semAnswered(p) \/ semop_timedout(p)

Spec == Init /\ [][Next]_vars

-----------------------------------------------------------------------------
\* Every variable keeps its type: no semaphore is negative or above SEMVMX, and the 1
\* of sem_check(), which means "wait", never reaches a guest as the result of semop().
TypeOK ==
    /\ \A p \in Tracee :
         /\ cfg[p].wait_reason \in {"none", "semop"} /\ cfg[p].wait_state \in WaitStates
         /\ cfg[p].status_after_wait \in Errors \cup {ENOSPC} \cup Nat
         /\ doing[p].i # 0 => cfg[p].status_after_wait # 1
         /\ cfg[p].waiting_object_index \in 0 .. MaxSets
    /\ kern \in [Tracee -> Kern]
    /\ sigstop \subseteq Tracee
    /\ result \in [Tracee -> Errors \cup {ENOSPC} \cup Nat]
    /\ passed \subseteq Tracee
    /\ Len(semaphores) <= MaxSets
    /\ \A i \in 1 .. Len(semaphores) :
         \A s \in DOMAIN semaphores[i].sems : semaphores[i].sems[s] \in 0 .. MaxVal

\* The value of every semaphore is what the programs were told: the sum of the
\* operations of the calls that returned 0, or are about to, since it was set.  No
\* operation is applied in part, twice, for a caller that then gets an error, or not at
\* all for one that gets 0, whoever applied it and however the caller's wait ended.
ValueExplained ==
    \A i \in 1 .. Len(semaphores) : \A s \in DOMAIN semaphores[i].sems :
      semaphores[i].sems[s] = credited[i][s] + Pending(i, s)

\* A guest in WR_WAIT_SEMOP waits for its operations to become possible: they are not
\* possible now.  The exceptions are those sysvipc_semop() makes by looking for such
\* guests in a single pass and semctl(SETVAL) by not looking at all: a guest the pass
\* went by before the operations of a later one changed the set again, and one that
\* waited when a value was set, until somebody's semop() tries them again.
NoEnabledSleeper ==
    \A p \in Listed : cfg[p].wait_reason = "semop" /\ p \notin passed =>
      sem_check(semaphores[cfg[p].waiting_object_index].sems, cfg[p].args).st = 1

\* A removed set keeps nobody waiting for it, so the slot's next user meets no waiter
\* of the old one.
RemovedReleases ==
    \A p \in Listed : cfg[p].wait_reason = "semop" =>
      semaphores[cfg[p].waiting_object_index].valid

\* Every value is in its range and is the one the programs were told (do_semop()).
ValuesRight == TypeOK /\ ValueExplained

\* Whoever waits in semop() does so for operations that are not possible on a set that
\* exists (sysvipc_semop() and IPC_RMID wake the others).
PostersServed == NoEnabledSleeper /\ RemovedReleases
=============================================================================
