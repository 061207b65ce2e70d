------------------------------- MODULE IpcMsg -------------------------------
(***************************************************************************)
(* Message queues of the System V IPC emulation                            *)
(* (src/src/extension/sysvipc/sysvipc_msg.c) on the waiting mechanism of   *)
(* IpcWait.                                                                *)
(*                                                                         *)
(* A message is [num, mtype, len]; num tells messages apart and stands for *)
(* the text.  A request is what msgrcv() caches of its arguments; ok says  *)
(* whether the guest's buffer can be written.  An identifier is the number *)
(* IPC_OBJECT_ID makes of the index and the generation, with IdBase for    *)
(* 2^12.                                                                   *)
(***************************************************************************)
EXTENDS IpcWait

CONSTANTS
    Does,       \* which of the calls every guest makes: subsets of CallNames
    Keys,       \* keys of msgget(), IPC_PRIVATE (0) possibly among them
    Creates,    \* flags of msgget(): a set of [creat, excl : BOOLEAN]
    Types,      \* message types sent, also one that is not positive
    Lengths,    \* lengths of the messages sent
    Requests,   \* what every guest calls msgrcv() with
    MaxSend,    \* how many messages are sent
    MaxQueue,   \* how many slots the array of queues grows to
    MaxRmid,    \* how many queues are removed
    IdBase,     \* 2^12: the identifier's share for the index
    MaxSize     \* SYSVIPC_MAX_MSG_SIZE

CallNames == {"msgget", "msgsnd", "msgrcv", "msgctl"}

ASSUME MsgAssumption ==
    /\ Does \in [Tracee -> SUBSET CallNames]
    /\ Keys \subseteq Nat /\ Types \subseteq Int /\ Lengths \subseteq Nat
    /\ Creates \subseteq [creat : BOOLEAN, excl : BOOLEAN]
    /\ \A p \in Tracee :
         Requests[p] \subseteq [sz : Nat, typ : Int, nowait : BOOLEAN, noerror : BOOLEAN,
                                copy : BOOLEAN, except : BOOLEAN, ok : BOOLEAN]
    /\ MaxSend \in Nat /\ MaxQueue \in Nat /\ MaxRmid \in Nat /\ MaxSize \in Nat
    /\ IdBase \in Nat /\ MaxQueue < IdBase

VARIABLES
    queues,   \* the array ipc_namespace->queues
    got,      \* message delivered to every guest's last msgrcv(), 0, or -1 for another call
    nsend,    \* number of the last message sent
    taken,    \* how many calls each message was delivered to
    dropped,  \* messages that were removed with their queue
    retired,  \* identifiers of removed queues
    wokenFor, \* number of the message every guest was woken for and has not come for, or 0
    left,     \* a guest that was woken for a message came and left it in its queue
    nrmid

vars == <<cfg, kern, sigstop, result, nintr, ndeath, queues, got, nsend, taken, dropped, retired,
          wokenFor, left, nrmid>>

IPC_PRIVATE == 0

NoRequest == [sz |-> 0, typ |-> 0, nowait |-> FALSE, noerror |-> FALSE,
              copy |-> FALSE, except |-> FALSE, ok |-> TRUE]

Init ==
    /\ cfg = [p \in Tracee |-> Idle]
    /\ kern = [p \in Tracee |-> "user"]
    /\ sigstop = {} /\ nintr = 0 /\ ndeath = 0
    /\ result = [p \in Tracee |-> 0]
    /\ queues = <<>>
    /\ got = [p \in Tracee |-> -1]
    /\ nsend = 0
    /\ taken = [m \in 1 .. MaxSend |-> 0]
    /\ dropped = {}
    /\ retired = {} /\ left = FALSE
    /\ wokenFor = [p \in Tracee |-> 0]
    /\ nrmid = 0

\* IPC_OBJECT_ID and LOOKUP_IPC_OBJECT; 0 stands for EINVAL.
IpcObjectId(i) == i + queues[i].generation * IdBase

Lookup(id) ==
    LET i == id % IdBase IN
    IF i \in 1 .. Len(queues) /\ queues[i].valid /\ queues[i].generation = id \div IdBase
      THEN i ELSE 0

\* Identifiers a program can have: those msgget() returned, and a wrong one.
Ids == {IpcObjectId(i) : i \in {j \in 1 .. Len(queues) : queues[j].valid}} \cup retired \cup {0}

msg_match(mtype, r) ==
    LET matched == r.typ = 0 \/ mtype = r.typ \/ (r.typ < 0 /\ mtype <= -r.typ)
    IN  IF r.except THEN ~matched ELSE matched

First(S) == CHOOSE i \in S : \A j \in S : i <= j

\* The message do_msgrcv() picks, or 0: the one with the given number for
\* MSG_COPY, the first that matches otherwise.
Target(items, r) ==
    LET S == {i \in 1 .. Len(items) : IF r.copy THEN i = r.typ + 1
                                                ELSE msg_match(items[i].mtype, r)}
    IN  IF S = {} THEN 0 ELSE First(S)

\* msg_deliver(): the number of bytes written or an error.
msg_deliver(m, r) ==
    IF m.len > r.sz /\ ~r.noerror THEN E2BIG
    ELSE IF ~r.ok THEN EFAULT
    ELSE IF m.len > r.sz THEN r.sz ELSE m.len

\* do_msgrcv(): the result, whether the caller waits, the message delivered.
do_msgrcv(items, r) ==
    LET i == Target(items, r) IN
    CASE r.copy /\ (~r.nowait \/ r.except) -> [st |-> EINVAL, wait |-> FALSE, at |-> 0]
      [] OTHER ->
         IF i = 0
           THEN [st |-> IF r.nowait THEN ENOMSG ELSE 0, wait |-> ~r.nowait, at |-> 0]
           ELSE LET st == msg_deliver(items[i], r)
                IN  [st |-> st, wait |-> FALSE, at |-> IF st >= 0 THEN i ELSE 0]

\* Mutant: the message stays in the queue when it had to be cut.
Deliver_KeepCut(p, i, r, d) ==
    LET m == queues[i].items[d.at] IN
    IF d.at = 0 THEN UNCHANGED <<queues, taken>> /\ got' = [got EXCEPT ![p] = 0]
    ELSE /\ got' = [got EXCEPT ![p] = m.num]
         /\ taken' = IF r.copy THEN taken ELSE [taken EXCEPT ![m.num] = @ + 1]
         /\ IF r.copy \/ m.len > r.sz
              THEN UNCHANGED queues
              ELSE queues' = [queues EXCEPT ![i].items =
                                SubSeq(@, 1, d.at - 1) \o SubSeq(@, d.at + 1, Len(@))]

\* The queue, the receiver and the history after do_msgrcv() of p on queue i.
Deliver(p, i, r, d) ==
    LET m == queues[i].items[d.at] IN
    IF d.at = 0 THEN UNCHANGED <<queues, taken>> /\ got' = [got EXCEPT ![p] = 0]
    ELSE /\ got' = [got EXCEPT ![p] = m.num]
         /\ IF r.copy
              THEN UNCHANGED <<queues, taken>>
              ELSE /\ queues' = [queues EXCEPT ![i].items =
                                   SubSeq(@, 1, d.at - 1) \o SubSeq(@, d.at + 1, Len(@))]
                   /\ taken' = [taken EXCEPT ![m.num] = @ + 1]

OtherCall(p) == got' = [got EXCEPT ![p] = -1]

-----------------------------------------------------------------------------
\* sysvipc_msgget(): the slot with this key, or the first free one, or a new one.
NewQueue(key) == [key |-> key, generation |-> 0, valid |-> TRUE, items |-> <<>>]

msgget(p, key, flg, sigsys) ==
    LET same == {i \in 1 .. Len(queues) : queues[i].valid /\ key # IPC_PRIVATE /\ queues[i].key = key}
        free == {i \in 1 .. Len(queues) : ~queues[i].valid}
        slot == IF free # {} THEN First(free) ELSE Len(queues) + 1
    IN
    /\ kern[p] = "user"
    /\ OtherCall(p)
    /\ \/ /\ same # {}
          /\ syscall_common(p, sigsys, cfg,
                            IF flg.creat /\ flg.excl THEN EEXIST ELSE IpcObjectId(First(same)))
          /\ UNCHANGED queues
       \/ /\ same = {} /\ ~flg.creat
          /\ syscall_common(p, sigsys, cfg, ENOENT)
          /\ UNCHANGED queues
       \/ /\ same = {} /\ flg.creat
          /\ slot <= MaxQueue
          /\ queues' = IF free # {} THEN [queues EXCEPT ![slot] = NewQueue(key)]
                                    ELSE Append(queues, NewQueue(key))
          /\ syscall_common(p, sigsys, cfg, slot)
    /\ UNCHANGED <<nsend, taken, dropped, retired, wokenFor, left, nrmid>>

\* sysvipc_msgsnd(): who is woken by a message of this type in queue i.
Receivers(i, mtype) ==
    {u \in Listed : /\ cfg[u].wait_reason = "msgrcv"
                    /\ cfg[u].waiting_object_index = i
                    /\ msg_match(mtype, cfg[u].args)}

WakeReceiver(i, mtype) ==
    LET R == Receivers(i, mtype) IN
    IF R = {} THEN cfg
    ELSE [cfg EXCEPT ![First(R)] = Woken([@ EXCEPT !.chain_state = "retry"], EAGAIN)]

\* Its guards: the queue, the length, the buffer, the type, in this order.
msgsnd(p, id, mtype, len, ok, sigsys) ==
    LET i == Lookup(id)
        error == CASE i = 0 -> EINVAL
                   [] i # 0 /\ (len = 0 \/ len > MaxSize) -> EINVAL
                   [] i # 0 /\ len \in 1 .. MaxSize /\ ~ok -> EFAULT
                   [] i # 0 /\ len \in 1 .. MaxSize /\ ok -> IF mtype < 1 THEN EINVAL ELSE 0
    IN
    /\ kern[p] = "user"
    /\ OtherCall(p)
    /\ \/ /\ error # 0
          /\ syscall_common(p, sigsys, cfg, error)
          /\ UNCHANGED <<queues, nsend, wokenFor>>
       \/ /\ error = 0
          /\ nsend < MaxSend
          /\ nsend' = nsend + 1
          /\ syscall_common(p, sigsys, WakeReceiver(i, mtype), 0)
          /\ wokenFor' = [u \in Tracee |-> IF Receivers(i, mtype) # {} /\ u = First(Receivers(i, mtype))
                                             THEN nsend + 1 ELSE wokenFor[u]]
          /\ queues' = [queues EXCEPT ![i].items =
                          Append(@, [num |-> nsend + 1, mtype |-> mtype, len |-> len])]
    /\ UNCHANGED <<taken, dropped, retired, left, nrmid>>

\* sysvipc_msgrcv() caches the request and tries to receive.
msgrcv(p, id, r, sigsys) ==
    LET i == Lookup(id) IN
    /\ kern[p] = "user"
    /\ \/ /\ i = 0
          /\ syscall_common(p, sigsys, cfg, EINVAL)
          /\ got' = [got EXCEPT ![p] = 0]
          /\ UNCHANGED <<queues, taken>>
       \/ /\ i # 0
          /\ LET d == do_msgrcv(queues[i].items, r) IN
             /\ Deliver(p, i, r, d)
             /\ syscall_common(p, sigsys,
                   IF d.wait THEN [cfg EXCEPT ![p].wait_reason = "msgrcv", ![p].args = r,
                                              ![p].waiting_object_index = i] ELSE cfg, d.st)
    /\ UNCHANGED <<nsend, dropped, retired, wokenFor, left, nrmid>>

\* Mutant: who has not reached ppoll() yet is not told.
RemoveWakes_Asleep(i) ==
    [u \in Tracee |-> IF u \in Listed /\ cfg[u].wait_reason = "msgrcv"
                         /\ cfg[u].waiting_object_index = i /\ cfg[u].wait_state = "entered"
                        THEN Woken(cfg[u], EIDRM) ELSE cfg[u]]

\* sysvipc_msgctl(IPC_RMID): everybody who waits is told.
RemoveWakes(i) ==
    [u \in Tracee |-> IF u \in Listed /\ cfg[u].wait_reason = "msgrcv"
                         /\ cfg[u].waiting_object_index = i
                        THEN Woken(cfg[u], EIDRM) ELSE cfg[u]]

\* Mutant: the messages are not freed with their queue.
RemoveQueue_KeepItems(i) == [queues EXCEPT ![i].valid = FALSE, ![i].generation = @ + 1]

RemoveQueue(i) == [queues EXCEPT ![i].valid = FALSE, ![i].generation = @ + 1, ![i].items = <<>>]

msgctl_RMID(p, id, sigsys) ==
    LET i == Lookup(id) IN
    /\ kern[p] = "user"
    /\ OtherCall(p)
    /\ \/ /\ i = 0
          /\ syscall_common(p, sigsys, cfg, EINVAL)
          /\ UNCHANGED <<queues, dropped, retired, nrmid>>
       \/ /\ i # 0
          /\ nrmid < MaxRmid
          /\ nrmid' = nrmid + 1
          /\ syscall_common(p, sigsys, RemoveWakes(i), 0)
          /\ dropped' = dropped \cup {queues[i].items[j].num : j \in 1 .. Len(queues[i].items)}
          /\ retired' = retired \cup {IpcObjectId(i)}
          /\ queues' = RemoveQueue(i)
    /\ UNCHANGED <<nsend, taken, wokenFor, left>>

-----------------------------------------------------------------------------
\* sysvipc_msgrcv_retry() when a guest that was woken for a message is back in the
\* tracer.  Its assertion is the guard: without the queue the tracer aborts.
Retrying(p) == cfg[p].chain_state = "retry" /\ cfg[p].status_after_wait = EAGAIN

\* Mutant: the answer of a retry that finds nothing is the one of the wake-up.
RetryResult_Again(p) ==
    LET d == do_msgrcv(queues[cfg[p].waiting_object_index].items, cfg[p].args)
    IN  [d EXCEPT !.st = IF d.wait THEN 0 ELSE @]

RetryResult(p) ==
    LET d == do_msgrcv(queues[cfg[p].waiting_object_index].items, cfg[p].args)
    IN  [d EXCEPT !.st = IF d.wait THEN EINTR ELSE @]

\* A woken or answered call returns, from the void call or from the exit stop.
Answer(p, status) == PpollCanceled(p, status) \/ ExitAnswered(p, status)

msgrcv_retry(p) ==
    /\ Retrying(p)
    /\ queues[cfg[p].waiting_object_index].valid
    /\ LET i == cfg[p].waiting_object_index
           d == RetryResult(p)
       IN  /\ Deliver(p, i, cfg[p].args, d)
           /\ Answer(p, d.st)
           /\ left' = (left \/ \E j \in 1 .. Len(queues'[i].items) :
                                 queues'[i].items[j].num = wokenFor[p])
    /\ wokenFor' = [wokenFor EXCEPT ![p] = 0]
    /\ UNCHANGED <<nsend, dropped, retired, nrmid>>

msgAnswered(p) ==
    /\ ~Retrying(p)
    /\ Answer(p, cfg[p].status_after_wait)
    /\ UNCHANGED <<queues, got, nsend, taken, dropped, retired, wokenFor, left, nrmid>>

msgInterrupted(p) ==
    /\ ExitInterrupted(p)
    /\ UNCHANGED <<queues, got, nsend, taken, dropped, retired, wokenFor, left, nrmid>>

Kernel(p) ==
    /\ PpollEnter(p) \/ PpollInterrupted(p) \/ PpollStopped(p) \/ GuestDies(p) \/ FreeGuest(p)
    /\ UNCHANGED <<queues, got, nsend, taken, dropped, retired, wokenFor, left, nrmid>>

Call(p) ==
    \E s \in FromSigsys[p] :
      \/ /\ "msgget" \in Does[p]
         /\ \E key \in Keys, flg \in Creates : msgget(p, key, flg, s)
      \/ /\ "msgsnd" \in Does[p]
         /\ \E id \in Ids, mtype \in Types, len \in Lengths, ok \in BOOLEAN :
               msgsnd(p, id, mtype, len, ok, s)
      \/ /\ "msgrcv" \in Does[p]
         /\ \E id \in Ids, r \in Requests[p] : msgrcv(p, id, r, s)
      \/ /\ "msgctl" \in Does[p]
         /\ \E id \in Ids : msgctl_RMID(p, id, s)

Next == \E p \in Tracee : \/ Call(p) \/ Kernel(p)
                          \/ msgrcv_retry(p) \/ msgAnswered(p) \/ msgInterrupted(p)

Spec == Init /\ [][Next]_vars

-----------------------------------------------------------------------------
Message == [num : 1 .. MaxSend, mtype : Types, len : Lengths]

\* Every variable keeps its type; what a call returns is an identifier, a length or an
\* error, and never EAGAIN, which only means "fetch it yourself" between msgsnd() and
\* msgrcv_retry().
TypeOK ==
    /\ cfg \in [Tracee -> [wait_reason : {"none", "msgrcv"}, wait_state : WaitStates,
                           chain_state : {"none", "retry"}, status_after_wait : Errors \cup Nat,
                           waiting_object_index : 0 .. MaxQueue,
                           args : (UNION {Requests[p] : p \in Tracee}) \cup {<<>>}]]
    /\ kern \in [Tracee -> Kern]
    /\ sigstop \subseteq Tracee
    /\ result \in [Tracee -> (Errors \ {EAGAIN}) \cup Nat]
    /\ nintr \in 0 .. MaxIntr /\ ndeath \in 0 .. MaxDeath
    /\ queues \in Seq([key : Keys, generation : Nat, valid : BOOLEAN, items : Seq(Message)])
    /\ Len(queues) <= MaxQueue
    /\ got \in [Tracee -> -1 .. MaxSend]
    /\ nsend \in 0 .. MaxSend
    /\ taken \in [1 .. MaxSend -> Nat]
    /\ dropped \subseteq 1 .. MaxSend
    /\ retired \subseteq Nat /\ wokenFor \in [Tracee -> 0 .. MaxSend] /\ left \in BOOLEAN /\ nrmid \in 0 .. MaxRmid

\* Where message m is kept: in how many places of how many queues.
Places(m) == {at \in (1 .. Len(queues)) \X (1 .. MaxSend) :
                /\ at[2] <= Len(queues[at[1]].items)
                /\ queues[at[1]].items[at[2]].num = m}

\* Every message that was sent is in one queue, or was delivered to one call, or went
\* with its queue: do_msgrcv(), its retry after a wake-up and IPC_RMID neither lose nor
\* duplicate one, also when the receiver that was woken for it is interrupted, overtaken
\* by another one, refused for its buffer, or killed.
Conserved ==
    \A m \in 1 .. MaxSend :
      Cardinality(Places(m)) + taken[m] + (IF m \in dropped THEN 1 ELSE 0)
        = IF m <= nsend THEN 1 ELSE 0

\* A guest is told the truth: its msgrcv() returned a length exactly when it was given a
\* message (msg_deliver() writes the guest's memory long before the result is poked).
Reported ==
    \A p \in Tracee : kern[p] = "user" /\ got[p] # -1 => (result[p] >= 0 <=> got[p] # 0)

\* Guest p waits for a message like message j of its queue.
Wants(p, j) == msg_match(queues[cfg[p].waiting_object_index].items[j].mtype, cfg[p].args)

\* A guest in WR_WAIT_QUEUE_RECV waits for a message to come: one it wants is in the
\* queue only while the guest that sysvipc_msgsnd() woke for that message has not come to
\* fetch it.  A message wakes one receiver, so this ends when that one leaves it there,
\* because its buffer is wrong or another message is before it, or is killed.
NoLostWakeup ==
    ~left /\ ndeath = 0 =>
    \A p \in Listed : cfg[p].wait_reason = "msgrcv" =>
      LET i == cfg[p].waiting_object_index IN
      \A j \in 1 .. Len(queues[i].items) : Wants(p, j) =>
        \E u \in Listed : /\ Retrying(u) /\ cfg[u].waiting_object_index = i
                          /\ wokenFor[u] = queues[i].items[j].num

\* The generation tells a queue from the removed one whose slot it has: the identifier
\* of a removed queue is never accepted again.
RemovedIdRefused == \A id \in retired : Lookup(id) = 0

\* A removed queue keeps nobody waiting for it.
RemovedReleases ==
    \A p \in Tracee : cfg[p].wait_reason = "msgrcv" /\ p \in Listed
                        => queues[cfg[p].waiting_object_index].valid

\* Messages and answers: none is lost or delivered twice, and the guest that is told of
\* one has it (do_msgrcv(), sysvipc_msgrcv_retry(), IPC_RMID).
Delivered == TypeOK /\ Conserved /\ Reported

\* Whoever waits in msgrcv() does so for a message to come to a queue that exists
\* (sysvipc_msgsnd() and IPC_RMID wake the others).
ReceiversServed == NoLostWakeup /\ RemovedReleases
=============================================================================
