------------------------------- MODULE IpcShm -------------------------------
(***************************************************************************)
(* Shared memory of the System V IPC emulation                             *)
(* (src/src/extension/sysvipc/sysvipc_shm.c) on the waiting mechanism of   *)
(* IpcWait.                                                                *)
(*                                                                         *)
(* The segments are files a helper process keeps open.  A guest attaches   *)
(* one by a chain of system calls the tracer makes it execute: socket(),   *)
(* connect() to the helper, recvmsg() of the file descriptor the tracer    *)
(* has the helper distribute, mmap().  The helper serves one connection    *)
(* per request, in the order the connections were made, so a guest that    *)
(* finds another one at it waits.  A mapping is entered in the lists       *)
(* before the chain starts and has size 0 until it ends; a removed segment *)
(* lives until its last mapping is gone.  An mmap() that fails is seen     *)
(* only if its result is -1: any other errno becomes the address of a      *)
(* mapping that is not there, listed until shmdt(), execve() or the end of *)
(* the process.                                                            *)
(*                                                                         *)
(* Here "call" is one more place for a guest: in a call of the chain.      *)
(***************************************************************************)
EXTENDS IpcWait

CONSTANTS
    Proc,        \* the process every guest is a thread of
    Born,        \* the guests there are at the beginning
    Keys, Creates, Sizes,   \* arguments of shmget()
    Detach,      \* addresses shmdt() is called with
    Exec,        \* the guests that call execve()
    MaxAddr,     \* how many mappings a process has, and addresses for them
    MaxShm,      \* how many slots the array of segments grows to
    MaxSize,     \* SYSVIPC_MAX_SHM_SIZE
    MaxSerial,   \* how many segments are created
    MaxFail,     \* how often a call of a chain, or the helper, fails
    IdBase       \* 2^12: the identifier's share for the index

ASSUME ShmAssumption ==
    /\ DOMAIN Proc = 1 .. N /\ Born \subseteq 1 .. N /\ Exec \subseteq 1 .. N
    /\ Keys \subseteq Nat /\ Sizes \subseteq Nat /\ Detach \subseteq Int
    /\ Creates \subseteq [creat : BOOLEAN, excl : BOOLEAN]
    /\ {MaxAddr, MaxShm, MaxSize, MaxSerial, MaxFail} \subseteq Nat
    /\ IdBase \in Nat /\ MaxShm < IdBase

VARIABLES
    shms,      \* the array ipc_namespace->shms; fd tells the segments apart
    mapped,    \* mapped_shms of every process, newest first: [idx, addr, fd]; the
               \* address is 0 until the chain ends, and an errno if mmap() failed
    backlog,   \* guests connected to the helper and not accepted
    requests,  \* SHMHELPER_DISTRIBUTE requests in the pipe
    inbox,     \* the descriptor the helper sent to every guest, or 0
    serial,    \* segments created so far
    nfail

shmvars == <<cfg, kern, sigstop, result, nintr, ndeath,
          shms, mapped, backlog, requests, inbox, serial, nfail>>

Procs == {Proc[p] : p \in Tracee}

ENOMEM == -12
ENOSPC == -28

ShmInit ==
    /\ cfg = [p \in Tracee |-> Idle]
    /\ kern = [p \in Tracee |-> IF p \in Born THEN "user" ELSE "gone"]
    /\ sigstop = {} /\ nintr = 0 /\ ndeath = 0
    /\ result = [p \in Tracee |-> 0]
    /\ shms = <<>>
    /\ mapped = [q \in Procs |-> <<>>]
    /\ backlog = <<>> /\ requests = <<>>
    /\ inbox = [p \in Tracee |-> 0]
    /\ serial = 0 /\ nfail = 0

\* IPC_OBJECT_ID and LOOKUP_IPC_OBJECT; 0 stands for EINVAL.
IpcObjectId(i) == i + shms[i].generation * IdBase

Lookup(id) ==
    LET i == id % IdBase IN
    IF i \in 1 .. Len(shms) /\ shms[i].valid /\ shms[i].generation = id \div IdBase THEN i ELSE 0

Ids == {IpcObjectId(i) : i \in {j \in 1 .. Len(shms) : shms[j].valid}} \cup {0}

First(S) == CHOOSE i \in S : \A j \in S : i <= j

Members(s) == {s[k] : k \in 1 .. Len(s)}

RemoveAt(s, k) == SubSeq(s, 1, k - 1) \o SubSeq(s, k + 1, Len(s))

\* Mutant: a segment that is being attached counts as unused.
NoMapping_Mapped(mp, i) == \A q \in Procs : \A m \in Members(mp[q]) : m.idx # i \/ m.fd = 0

\* shm->mappings is empty when the processes' lists are mp.
NoMapping(mp, i) == \A q \in Procs : \A m \in Members(mp[q]) : m.idx # i

\* sysvipc_do_rmid().
do_rmid(s) == [s EXCEPT !.valid = FALSE, !.rmid_pending = FALSE, !.generation = @ + 1, !.fd = 0]

\* Mutant: the last mapping does not take a removed segment with it.
Unmap_Keep(mp) == mapped' = mp /\ UNCHANGED shms

\* sysvipc_shm_memmap_destructor() of the mappings that mp no longer has.
Unmap(mp) ==
    /\ mapped' = mp
    /\ shms' = [i \in DOMAIN shms |-> IF shms[i].rmid_pending /\ NoMapping(mp, i)
                                        THEN do_rmid(shms[i]) ELSE shms[i]]

ShmatChain == {"socket", "connect", "recvmsg", "mmap"}

\* Mutant: a guest that has not entered ppoll() yet is passed over.
WakePending_Asleep(c) ==
    LET W == {u \in Listed : c[u].wait_reason = "shmat" /\ c[u].wait_state = "entered"} IN
    IF W = {} THEN c
    ELSE [c EXCEPT ![First(W)] = Woken([@ EXCEPT !.chain_state = "socket"], 0)]

\* sysvipc_shm_wake_pending_shmat(): the first guest that waits for the helper is woken
\* with the chain's first call registered.
WakePending(c) ==
    LET W == {u \in Listed : c[u].wait_reason = "shmat"} IN
    IF W = {} THEN c
    ELSE [c EXCEPT ![First(W)] = Woken([@ EXCEPT !.chain_state = "socket"], 0)]

-----------------------------------------------------------------------------
\* sysvipc_shmget(): the slot with this key, or the first free one, or a new one, for which
\* the helper makes a file; without one the slot is left cleared.
shmget(p, key, size, flg, sigsys) ==
    LET same == {i \in 1 .. Len(shms) : shms[i].valid /\ key # 0 /\ shms[i].key = key}
        free == {i \in 1 .. Len(shms) : ~shms[i].valid}
        slot == IF free # {} THEN First(free) ELSE Len(shms) + 1
        old  == First(same)
        create == same = {} /\ flg.creat /\ size <= MaxSize
        answer == IF same = {} THEN IF flg.creat THEN EINVAL ELSE ENOENT
                  ELSE IF flg.creat /\ flg.excl THEN EEXIST
                  ELSE IF size # 0 /\ size # shms[old].size THEN EINVAL ELSE IpcObjectId(old)
        cleared == [key |-> 0, generation |-> 0, valid |-> FALSE, rmid_pending |-> FALSE,
                    fd |-> 0, size |-> 0]
        put(x) == IF free # {} THEN [shms EXCEPT ![slot] = x] ELSE Append(shms, x)
    IN
    /\ kern[p] = "user"
    /\ \/ /\ ~create
          /\ syscall_common(p, sigsys, cfg, answer)
          /\ UNCHANGED <<shms, serial, nfail>>
       \/ /\ create /\ slot <= MaxShm /\ serial < MaxSerial
          /\ serial' = serial + 1
          /\ shms' = put([cleared EXCEPT !.key = key, !.valid = TRUE, !.fd = serial + 1, !.size = size])
          /\ syscall_common(p, sigsys, cfg, slot)
          /\ UNCHANGED nfail
       \/ /\ create /\ slot <= MaxShm /\ nfail < MaxFail
          /\ nfail' = nfail + 1
          /\ shms' = put(cleared)
          /\ syscall_common(p, sigsys, cfg, ENOSPC)
          /\ UNCHANGED serial
    /\ UNCHANGED <<mapped, backlog, requests, inbox>>

\* sysvipc_shmat() looks whether another guest is at the helper.
HelperBusy == \E u \in Listed : cfg[u].chain_state \in ShmatChain \ {"socket"}

\* sysvipc_shmat(): the mapping is entered, then the chain starts or the guest waits.
shmat(p, id, sigsys) ==
    LET i == Lookup(id)
        c == [cfg EXCEPT ![p].waiting_object_index = i]
        new == [idx |-> i, addr |-> 0, fd |-> 0]
    IN
    /\ kern[p] = "user"
    /\ \/ /\ i = 0
          /\ syscall_common(p, sigsys, cfg, EINVAL)
          /\ UNCHANGED mapped
       \/ /\ i # 0
          /\ Len(mapped[Proc[p]]) < MaxAddr
          /\ mapped' = [mapped EXCEPT ![Proc[p]] = <<new>> \o @]
          /\ \/ /\ HelperBusy
                /\ syscall_common(p, sigsys, [c EXCEPT ![p].wait_reason = "shmat"], 0)
             \/ /\ ~HelperBusy
                /\ cfg' = [c EXCEPT ![p].chain_state = "socket"]
                /\ kern' = [kern EXCEPT ![p] = "call"]
                /\ result' = [result EXCEPT ![p] = 0]
                /\ UNCHANGED <<sigstop, nintr, ndeath>>
    /\ UNCHANGED <<shms, backlog, requests, inbox, serial, nfail>>

\* SYSCALL_CHAINED_ENTER of a ppoll() that is canceled: it gets a bad argument.
ChainedEnter(p) ==
    /\ kern[p] = "restart" /\ cfg[p].wait_state = "canceled"
    /\ cfg' = [cfg EXCEPT ![p].wait_state = "signaled"]
    /\ kern' = [kern EXCEPT ![p] = "exit"]
    /\ UNCHANGED <<sigstop, result, nintr, ndeath>>
    /\ UNCHANGED <<shms, mapped, backlog, requests, inbox, serial, nfail>>

\* SYSCALL_CHAINED_EXIT of a woken ppoll(): the chain goes on with socket().
ChainedExit(p) ==
    /\ kern[p] = "exit" /\ cfg[p].wait_state = "signaled"
    /\ cfg' = [cfg EXCEPT ![p].wait_state = "not"]
    /\ kern' = [kern EXCEPT ![p] = "call"]
    /\ sigstop' = sigstop \ {p}
    /\ UNCHANGED <<result, nintr, ndeath>>
    /\ UNCHANGED <<shms, mapped, backlog, requests, inbox, serial, nfail>>

\* SYSCALL_EXIT_START of a getpid(), and of a ppoll() nobody has woken.
ExitStart(p) ==
    /\ \/ cfg[p].wait_state = "getpid" /\ ExitAnswered(p, cfg[p].status_after_wait)
       \/ ExitInterrupted(p)
    /\ UNCHANGED <<shms, mapped, backlog, requests, inbox, serial, nfail>>

\* The kernel: connect() of the chain.
Connect(p) ==
    /\ kern[p] = "call" /\ cfg[p].chain_state = "connect"
    /\ p \notin Members(backlog)
    /\ backlog' = Append(backlog, p)
    /\ kern' = [kern EXCEPT ![p] = "connected"]
    /\ UNCHANGED <<cfg, sigstop, result, nintr, ndeath>>
    /\ UNCHANGED <<shms, mapped, requests, inbox, serial, nfail>>

\* The helper: accepts a connection for the request it read and sends the descriptor.
HelperDistribute ==
    /\ requests # <<>> /\ backlog # <<>>
    /\ inbox' = IF kern[Head(backlog)] \in {"dead", "gone"} THEN inbox
                ELSE [inbox EXCEPT ![Head(backlog)] = Head(requests)]
    /\ backlog' = Tail(backlog)
    /\ requests' = Tail(requests)
    /\ UNCHANGED <<cfg, kern, sigstop, result, nintr, ndeath, shms, mapped, serial, nfail>>

\* A mapping has size 0 until its chain has ended, and after it if the segment is empty.
SizeZero(m) == m.fd = 0 \/ shms[m.idx].size = 0

\* sysvipc_shm_find_pending_mapping(): the position in the list of p's process, or 0,
\* where the code has undefined behaviour.
PendingAt(p) ==
    LET l == mapped[Proc[p]]
        S == {k \in 1 .. Len(l) : l[k].idx = cfg[p].waiting_object_index /\ SizeZero(l[k])}
    IN  IF S = {} THEN 0 ELSE First(S)

\* sysvipc_shmat_chain() up to the last call of the chain.
ChainSocket(p) ==
    /\ kern[p] = "call" /\ cfg[p].chain_state = "socket" /\ cfg[p].wait_state = "not"
    /\ cfg' = [cfg EXCEPT ![p].chain_state = "connect"]
    /\ UNCHANGED <<kern, sigstop, result, nintr, ndeath>>
    /\ UNCHANGED <<shms, mapped, backlog, requests, inbox, serial, nfail>>

ChainConnect(p) ==
    /\ kern[p] = "connected" /\ cfg[p].chain_state = "connect"
    /\ requests' = Append(requests, shms[cfg[p].waiting_object_index].fd)
    /\ cfg' = [cfg EXCEPT ![p].chain_state = "recvmsg"]
    /\ kern' = [kern EXCEPT ![p] = "call"]
    /\ UNCHANGED <<sigstop, result, nintr, ndeath>>
    /\ UNCHANGED <<shms, mapped, backlog, inbox, serial, nfail>>

ChainRecvmsg(p) ==
    /\ kern[p] = "call" /\ cfg[p].chain_state = "recvmsg"
    /\ inbox[p] # 0
    /\ cfg' = [cfg EXCEPT ![p].chain_state = "mmap"]
    /\ UNCHANGED <<kern, sigstop, result, nintr, ndeath>>
    /\ UNCHANGED <<shms, mapped, backlog, requests, inbox, serial, nfail>>

\* Mutant: the guest that leaves the chain is still recorded in it.
ChainEnds_Chained(p, status) ==
    LET c == WakePending([cfg EXCEPT ![p] = [Idle EXCEPT !.chain_state = cfg[p].chain_state]]) IN
    /\ cfg' = c
    /\ sigstop' = sigstop \cup Signaled(c)
    /\ kern' = [kern EXCEPT ![p] = "user"]
    /\ result' = [result EXCEPT ![p] = status]
    /\ inbox' = [inbox EXCEPT ![p] = 0]
    /\ UNCHANGED <<nintr, ndeath, serial>>

\* The chain of p ends with this status and somebody else's may start.
ChainEnds(p, status) ==
    LET c == WakePending([cfg EXCEPT ![p] = Idle]) IN
    /\ cfg' = c
    /\ sigstop' = sigstop \cup Signaled(c)
    /\ kern' = [kern EXCEPT ![p] = "user"]
    /\ result' = [result EXCEPT ![p] = status]
    /\ inbox' = [inbox EXCEPT ![p] = 0]
    /\ UNCHANGED <<nintr, ndeath, serial>>

\* What mmap() can return for a segment of this size, other than -1: an address of its
\* own, or an errno, which is always EINVAL when there is nothing to map.
Mmapped(l, size) ==
    IF size = 0 THEN {EINVAL}
    ELSE {a \in 1 .. MaxAddr : \A m \in Members(l) : m.addr # a}
         \cup (IF nfail < MaxFail THEN {ENOMEM} ELSE {})

\* The last call of the chain: what mmap() returned is the address of the mapping and the
\* result of shmat(), an errno too.
ChainMmap(p) ==
    /\ kern[p] = "call" /\ cfg[p].chain_state = "mmap"
    /\ PendingAt(p) # 0
    /\ \E a \in Mmapped(mapped[Proc[p]], shms[cfg[p].waiting_object_index].size) :
         /\ mapped' = [mapped EXCEPT ![Proc[p]][PendingAt(p)] = [@ EXCEPT !.addr = a, !.fd = inbox[p]]]
         /\ nfail' = nfail + (IF a = ENOMEM THEN 1 ELSE 0)
         /\ ChainEnds(p, a)
    /\ UNCHANGED <<shms, backlog, requests>>

\* Mutant: the mapping of a chain that failed stays in the list.
DropPending_Keep(p) == Unmap(mapped)

\* The pending mapping of a chain that failed is freed.
DropPending(p) == Unmap([mapped EXCEPT ![Proc[p]] = RemoveAt(@, PendingAt(p))])

\* fail_close_socket and fail_dont_close, at any call of the chain: of mmap() only when it
\* returns -1.  The request of a recvmsg() that fails stays with the helper.
ChainFails(p) ==
    /\ kern[p] \in {"call", "connected"} /\ cfg[p].chain_state \in ShmatChain
    /\ cfg[p].wait_state = "not"
    /\ cfg[p].chain_state = "recvmsg" => inbox[p] # 0
    /\ PendingAt(p) # 0
    /\ nfail < MaxFail
    /\ nfail' = nfail + 1
    /\ DropPending(p)
    /\ ChainEnds(p, ENOMEM)
    /\ UNCHANGED <<backlog, requests>>

\* sysvipc_shmdt(): the first mapping with this address, then munmap(), which refuses what
\* is no address.
shmdt(p, addr, sigsys) ==
    LET l == mapped[Proc[p]]
        S == {k \in 1 .. Len(l) : l[k].addr = addr}
    IN
    /\ kern[p] = "user"
    /\ \/ /\ S = {}
          /\ syscall_common(p, sigsys, cfg, EINVAL)
          /\ UNCHANGED <<mapped, shms>>
       \/ /\ S # {}
          /\ Unmap([mapped EXCEPT ![Proc[p]] = RemoveAt(@, First(S))])
          /\ result' = [result EXCEPT ![p] = IF addr > 0 THEN 0 ELSE EINVAL]
          /\ UNCHANGED <<cfg, kern, sigstop, nintr, ndeath>>
    /\ UNCHANGED <<backlog, requests, inbox, serial, nfail>>

\* sysvipc_shmctl(IPC_RMID).
shmctl_RMID(p, id, sigsys) ==
    LET i == Lookup(id) IN
    /\ kern[p] = "user"
    /\ syscall_common(p, sigsys, cfg, IF i = 0 THEN EINVAL ELSE 0)
    /\ shms' = IF i = 0 THEN shms
               ELSE IF NoMapping(mapped, i) THEN [shms EXCEPT ![i] = do_rmid(@)]
               ELSE [shms EXCEPT ![i].rmid_pending = TRUE]
    /\ UNCHANGED <<mapped, backlog, requests, inbox, serial, nfail>>

-----------------------------------------------------------------------------
\* INHERIT_CHILD of a new process: sysvipc_shm_inherit_process().
Fork(p, u) ==
    /\ kern[p] = "user" /\ kern[u] = "gone"
    /\ \A v \in Tracee : Proc[v] = Proc[u] => kern[v] = "gone"
    /\ kern' = [kern EXCEPT ![u] = "user"]
    /\ cfg' = [cfg EXCEPT ![u] = Idle]
    /\ mapped' = [mapped EXCEPT ![Proc[u]] = mapped[Proc[p]]]
    /\ result' = [result EXCEPT ![u] = 0]
    /\ UNCHANGED <<sigstop, nintr, ndeath, shms, backlog, requests, inbox, serial, nfail>>

\* SYSCALL_ENTER_END of execve(): sysvipc_shm_remove_mappings_from_process().  The other
\* threads of the process are still there.
Execve(p) ==
    /\ p \in Exec
    /\ kern[p] = "user"
    /\ Unmap([mapped EXCEPT ![Proc[p]] = <<>>])
    /\ UNCHANGED <<cfg, kern, sigstop, result, nintr, ndeath, backlog, requests, inbox, serial, nfail>>

\* A guest ends of its own accord.
ExitGroup(p) ==
    /\ kern[p] = "user"
    /\ kern' = [kern EXCEPT ![p] = "dead"]
    /\ UNCHANGED <<cfg, sigstop, result, nintr, ndeath>>
    /\ UNCHANGED <<shms, mapped, backlog, requests, inbox, serial, nfail>>

\* The Tracee is freed, and with the last one of a process the process's mappings.
FreeTracee(p) ==
    /\ FreeGuest(p)
    /\ IF \E u \in Listed \ {p} : Proc[u] = Proc[p]
         THEN UNCHANGED <<mapped, shms>>
         ELSE Unmap([mapped EXCEPT ![Proc[p]] = <<>>])
    /\ inbox' = [inbox EXCEPT ![p] = 0]
    /\ UNCHANGED <<backlog, requests, serial, nfail>>

Kernel(p) ==
    /\ PpollEnter(p) \/ PpollInterrupted(p) \/ PpollStopped(p) \/ GuestDies(p)
    /\ UNCHANGED <<shms, mapped, backlog, requests, inbox, serial, nfail>>

ShmCall(p) ==
    \E sig \in FromSigsys[p] :
      \/ \E key \in Keys, size \in Sizes, flg \in Creates : shmget(p, key, size, flg, sig)
      \/ \E id \in Ids : shmat(p, id, sig) \/ shmctl_RMID(p, id, sig)
      \/ \E a \in Detach : shmdt(p, a, sig)

Chain(p) == \/ ChainedEnter(p) \/ ChainedExit(p) \/ ExitStart(p)
            \/ ChainSocket(p) \/ Connect(p) \/ ChainConnect(p) \/ ChainRecvmsg(p) \/ ChainMmap(p)

ShmNext ==
    \/ HelperDistribute
    \/ \E p \in Tracee : \/ ShmCall(p) \/ Kernel(p) \/ Chain(p) \/ ChainFails(p)
                         \/ Execve(p) \/ ExitGroup(p) \/ FreeTracee(p)
                         \/ \E u \in Tracee : Fork(p, u)

\* The helper runs, the kernel runs every guest, and waitpid() reports every stop.
Progress(p) ==
    \/ Chain(p)
    \/ /\ PpollEnter(p) \/ PpollStopped(p)
       /\ UNCHANGED <<shms, mapped, backlog, requests, inbox, serial, nfail>>

ShmSpec == ShmInit /\ [][ShmNext]_shmvars
             /\ WF_shmvars(HelperDistribute) /\ \A p \in Tracee : WF_shmvars(Progress(p))

-----------------------------------------------------------------------------
\* Every variable keeps its type; a mapping has an address, or an errno for one, exactly
\* when its chain has ended, and two mappings of a process differ in their address.
ShmTypes ==
    /\ \A p \in Tracee :
         /\ cfg[p].wait_reason \in {"none", "shmat"} /\ cfg[p].wait_state \in WaitStates
         /\ cfg[p].chain_state \in ShmatChain \cup {"none"}
         /\ cfg[p].waiting_object_index \in 0 .. Len(shms)
    /\ kern \in [Tracee -> Kern \cup {"call", "connected"}]
    /\ \A i \in 1 .. Len(shms) : shms[i].valid => shms[i].fd \in 1 .. serial
    /\ \A q \in Procs : \A k, l \in 1 .. Len(mapped[q]) :
         /\ mapped[q][k].addr = 0 <=> mapped[q][k].fd = 0
         /\ mapped[q][k].addr > 0 /\ k # l => mapped[q][k].addr # mapped[q][l].addr
    /\ inbox \in [Tracee -> 0 .. MaxSerial]

\* A segment lives as long as somebody has it: what is in a process's list, attached or
\* being attached, is valid, and a removed segment nobody has any more is gone
\* (the assertions of sysvipc_shmat_chain() and sysvipc_do_rmid()).  An mmap() that failed
\* with another errno than EPERM counts here as having it: the process lists a mapping that
\* does not exist, at a negative address, and keeps the segment with it.
LivesWhileMapped ==
    /\ \A q \in Procs : \A m \in Members(mapped[q]) : shms[m.idx].valid
    /\ \A i \in 1 .. Len(shms) : shms[i].rmid_pending => ~NoMapping(mapped, i)

InChain(p) == p \in Listed /\ kern[p] # "dead" /\ cfg[p].chain_state \in ShmatChain

\* sysvipc_shm_find_pending_mapping() always finds the mapping of a chain it is called
\* for: its other end is marked unreachable.
ChainHasMapping == \A p \in Tracee : InChain(p) => PendingAt(p) # 0

\* A guest that waits for the helper waits for somebody: another guest is in the chain
\* and will wake it.  Only the end of a chain wakes, so this holds as long as nobody is
\* killed.
NoStrandedWaiter ==
    ndeath = 0 =>
      \A p \in Listed : cfg[p].wait_reason = "shmat" => \E u \in Tracee : InChain(u)

\* The segment a mapping stands for is the one that was mapped.
MapsItsSegment ==
    \A q \in Procs : \A m \in Members(mapped[q]) : m.fd # 0 => m.fd = shms[m.idx].fd

\* The list of mappings holds what is attached, or is being attached by a thread of the
\* process, as long as no wait for the helper is interrupted: that exit has no cleanup.
PendingHasOwner ==
    nintr = 0 =>
    \A q \in Procs : \A m \in Members(mapped[q]) : m.fd = 0 =>
      \E p \in Listed : /\ Proc[p] = q /\ cfg[p].waiting_object_index = m.idx
                        /\ cfg[p].chain_state \in ShmatChain \/ cfg[p].wait_reason = "shmat"

\* shmat() returns: the helper is handed from guest to guest, every connection is served
\* and every sleeper is woken.
ShmatReturns ==
    \A p \in Tracee : (cfg[p].chain_state \in ShmatChain \/ cfg[p].wait_reason = "shmat")
                        ~> (cfg[p].chain_state = "none" /\ cfg[p].wait_reason = "none")

\* The lists and the array agree: what a process has or is getting is a segment there is,
\* and a chain finds the mapping it was started for.
MappingsSound == ShmTypes /\ LivesWhileMapped /\ ChainHasMapping

\* What waits is waited for: a mapping that is not done yet has its thread, and a guest
\* that waits for the helper another guest at it.
PendingServed == PendingHasOwner /\ NoStrandedWaiter

\* Both: no segment goes under a guest that has it or is getting it, and no chain leaves a
\* mapping without its result or a guest behind.  The result may be an errno: a mapping that
\* mmap() refused, except with EPERM, is listed like one that is there.
SegmentsSound == MappingsSound /\ PendingServed
=============================================================================
