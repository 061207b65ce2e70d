-------------------------------- MODULE Netlink ---------------------------------
(* The emulation of NETLINK_ROUTE sockets of enter.c and exit.c. If the host denies       *)
(* them a socket of another kind is put in their place, and requests are answered by the  *)
(* tracer; if it does not, a thread that believes to have a network name space of its      *)
(* own gets an acknowledgement where the kernel denies it a change. Both go by numbers     *)
(* of descriptors, kept per thread. An answer is a sequence of kinds of messages.          *)
EXTENDS Naturals, Sequences, SequencesExt, FiniteSets, Functions

CONSTANTS Tids, First, Fds, None,
          MaxFds,    \* MAX_FAKE_NETLINK_FDS and MAX_NETLINK_ROUTE_FDS
          MaxLinks,  \* bound: interfaces, addresses and routes of the host
          MaxQueue,  \* bound: answers waiting in a real socket
          MaxNet     \* bound: calls

(* A socket, and a request to be acknowledged, go by the number of the call.               *)
Socket == [kind : {"fake", "real", "other"}, id : 1..MaxNet]
Pending == [fd : Fds, seq : 1..MaxNet]

ASSUME NetlinkAssumption ==
  /\ First \in Tids /\ None \notin Tids \cup Socket \cup Pending
  /\ MaxLinks \in Nat /\ MaxNet \in Nat

VARIABLES
  blocked,  \* host_blocks_af_netlink()
  group,    \* thread -> owner of its descriptor table
  files,    \* owner -> descriptor -> [kind, id] of the socket
  fake,     \* thread -> fake_netlink_fds: descriptor -> [id, reply], id a ghost
  real,     \* thread -> netlink_route_fds: descriptor -> id
  netns,    \* threads with fake_netns
  ack,      \* thread -> netlink_ack_fd and _seq, or None
  queue,    \* id of a real socket -> answers of the kernel
  loose,    \* ghost: <<thread, descriptor>> closed or replaced, and its tables do not notice
  told,     \* ghost: the last answer of a real socket, and what the thread was told
  uses

netvars == <<blocked, group, files, fake, real, netns, ack, queue, loose, told, uses>>

Live == {t \in Tids : group[t] # None}
File(t, fd) == files[group[t]][fd]
Others(t, S) == {u \in Live \ {t} : group[u] = group[t]} \X S
With(f, x, v) == [y \in DOMAIN f \cup {x} |-> IF y = x THEN v ELSE f[y]]
Without(f, S) == [y \in DOMAIN f \ S |-> f[y]]

-------------------------------------------------------------------------------
(* build_fake_netlink_reply(): n is what the host has to tell, or 0 if it cannot be asked.   *)
Some(what, n) == [i \in 1..n |-> what]
Done(dump) == IF dump THEN <<"done">> ELSE <<>>
links(dump, n, loopback) ==
  (IF n > 0 THEN Some("link", IF dump THEN n ELSE 1)
   ELSE IF dump \/ loopback THEN <<"link">> ELSE <<"error">>) \o Done(dump)
addrs(dump, n, families) == Some("addr", IF n > 0 THEN n ELSE families) \o Done(dump)

(* A mistake: the relayed routes of the host were cut off, and nothing follows.           *)
relay_route_dump_Cut(n, cut) == IF cut THEN Some("route", n) ELSE Some("route", n) \o <<"done">>

relay_route_dump(n, cut) ==
  IF cut /\ n = 0 THEN <<>> ELSE Some("route", n) \o <<"done">>

Answer(type, dump, n, x) ==
  LET r == CASE type = "link"  -> links(dump, n, x = 1)
             [] type = "addr"  -> addrs(dump, n, x)
             [] type = "route" -> IF ~dump THEN <<"ack">>
                                  ELSE IF relay_route_dump(n, x = 0) = <<>> THEN <<"done">>
                                       ELSE relay_route_dump(n, x = 0)
             [] type = "other" -> IF dump THEN <<"done">> ELSE <<"ack">>
             [] type = "short" -> <<>> IN
  IF r = <<>> THEN <<"error">> ELSE r

(* fake_netlink_datagram_len(): up to the message that ends a dump, which comes alone.     *)
datagram(reply) ==
  LET ends == {i \in DOMAIN reply : reply[i] = "done"} IN
  IF ends = {} \/ 1 \in ends THEN Len(reply) ELSE (CHOOSE i \in ends : TRUE) - 1

-------------------------------------------------------------------------------
NetInit ==
  /\ blocked \in BOOLEAN
  /\ group = [t \in Tids |-> IF t = First THEN First ELSE None]
  /\ files = [t \in Tids |-> [fd \in Fds |-> None]]
  /\ fake = [t \in Tids |-> <<>>] /\ real = [t \in Tids |-> <<>>]
  /\ netns \in {{}, {First}} /\ ack = [t \in Tids |-> None]
  /\ queue = [i \in 1..MaxNet |-> <<>>]
  /\ loose = {} /\ told = None /\ uses = 0

Tick == uses < MaxNet /\ uses' = uses + 1
Sets(t, S, v) == files' = [files EXCEPT ![group[t]] = [fd \in Fds |-> IF fd \in S THEN v ELSE @[fd]]]

(* A number the table has already keeps its old entry; a ninth socket is not entered.     *)
Marked(table, fd, v) ==
  IF fd \in DOMAIN table \/ Cardinality(DOMAIN table) >= MaxFds THEN table ELSE With(table, fd, v)

socket(t, fd, route) ==
  /\ t \in Live /\ File(t, fd) = None /\ Tick
  /\ Sets(t, {fd}, [kind |-> IF ~route THEN "other" ELSE IF blocked THEN "fake" ELSE "real",
                    id |-> uses + 1])
  /\ fake' = IF route /\ blocked
             THEN [fake EXCEPT ![t] = Marked(@, fd, [id |-> uses + 1, reply |-> <<>>])] ELSE fake
  /\ real' = IF route /\ ~blocked THEN [real EXCEPT ![t] = Marked(@, fd, uses + 1)] ELSE real
  /\ UNCHANGED <<blocked, group, netns, ack, queue, loose, told>>

Drop(t, fd) == ack' = IF ack[t] # None /\ ack[t].fd = fd THEN [ack EXCEPT ![t] = None] ELSE ack

(* A mistake: the answer of the socket is freed, and its entry stays.                   *)
unmark_Bare(t, fd) ==
  /\ fake' = IF fd \in DOMAIN fake[t] THEN [fake EXCEPT ![t][fd].reply = <<>>] ELSE fake
  /\ real' = real /\ Drop(t, fd)

unmark(t, fd) ==
  /\ fake' = [fake EXCEPT ![t] = Without(@, {fd})]
  /\ real' = [real EXCEPT ![t] = Without(@, {fd})] /\ Drop(t, fd)

close(t, fd) ==
  /\ t \in Live /\ Tick /\ Sets(t, {fd}, None) /\ unmark(t, fd)
  /\ loose' = (loose \ {<<t, fd>>}) \cup Others(t, {fd})
  /\ UNCHANGED <<blocked, group, netns, queue, told>>

(* close_range(), and execve() of a descriptor marked for it: the tables stay.            *)
CloseUnseen(t, S) ==
  /\ t \in Live /\ Tick /\ Sets(t, S, None)
  /\ loose' = loose \cup ({t} \X S) \cup Others(t, S)
  /\ UNCHANGED <<blocked, group, fake, real, netns, ack, queue, told>>

(* dup2() and dup3() of the thread itself, dup() and F_DUPFD: the number names a socket     *)
(* that it is not entered for, and keeps the entry of the one it named before.             *)
Duplicate(t, fd, to) ==
  /\ t \in Live /\ to # fd /\ File(t, fd) # None /\ Tick /\ Sets(t, {to}, File(t, fd))
  /\ loose' = loose \cup {<<t, to>>} \cup Others(t, {to})
  /\ UNCHANGED <<blocked, group, fake, real, netns, ack, queue, told>>

(* A child knows the sockets of its parent, not the answers that wait in them.            *)
new_child(t, u, shared, newnet) ==
  /\ t \in Live /\ u \notin Live /\ Tick
  /\ group' = [group EXCEPT ![u] = IF shared THEN group[t] ELSE u]
  /\ files' = IF shared THEN files ELSE [files EXCEPT ![u] = files[group[t]]]
  /\ fake' = [fake EXCEPT ![u] = [fd \in DOMAIN fake[t] |-> [id |-> fake[t][fd].id, reply |-> <<>>]]]
  /\ real' = [real EXCEPT ![u] = real[t]]
  /\ netns' = IF t \in netns \/ newnet THEN netns \cup {u} ELSE netns
  /\ loose' = loose \cup {<<u, fd>> : fd \in {g \in Fds : <<t, g>> \in loose}}
  /\ UNCHANGED <<blocked, ack, queue, told>>

(* A request to a socket the tracer answers for: it forgets what was not read before.     *)
Replies ==
  {Answer(type, dump, n, x) : type \in {"link", "addr", "route", "other", "short"},
                              dump \in BOOLEAN, n \in 0..MaxLinks, x \in 0..2}
SendFake(t, fd, r) ==
  /\ t \in Live /\ fd \in DOMAIN fake[t] /\ File(t, fd) # None /\ Tick
  /\ fake' = [fake EXCEPT ![t][fd].reply = r]
  /\ UNCHANGED <<blocked, group, files, real, netns, ack, queue, loose, told>>

(* A request to a real one: note_netns_netlink_request(), then the kernel's answer.        *)
note_netns_netlink_request(t, fd, changes) ==
  ack' = IF t \in netns /\ fd \in DOMAIN real[t] /\ changes
         THEN [ack EXCEPT ![t] = [fd |-> fd, seq |-> uses + 1]] ELSE ack

SendReal(t, fd, changes, error) ==
  /\ t \in Live /\ fd \notin DOMAIN fake[t] /\ File(t, fd) # None /\ File(t, fd).kind = "real"
  /\ LET i == File(t, fd).id
         alone == \A u \in Live, g \in Fds : files[group[u]][g] # None
                     => queue[files[group[u]][g].id] = <<>> IN
     /\ Len(queue[i]) < MaxQueue /\ Tick
     /\ queue' = [j \in DOMAIN queue |->
          LET q == [k \in DOMAIN queue[j] |-> [queue[j][k] EXCEPT !.alone = FALSE]] IN
          IF j = i THEN Append(q, [seq |-> uses + 1, by |-> t, fd |-> fd, changes |-> changes,
                                   error |-> error, alone |-> alone]) ELSE q]
  /\ note_netns_netlink_request(t, fd, changes)
  /\ UNCHANGED <<blocked, group, files, fake, real, netns, loose, told>>

RecvFake(t, fd) ==
  /\ t \in Live /\ fd \in DOMAIN fake[t] /\ File(t, fd) # None /\ fake[t][fd].reply # <<>> /\ Tick
  /\ fake' = [fake EXCEPT ![t][fd].reply = SubSeq(@, datagram(@) + 1, Len(@))]
  /\ UNCHANGED <<blocked, group, files, real, netns, ack, queue, loose, told>>

(* A mistake: every refusal is acknowledged.                                         *)
Shown_All(t, fd, e) == IF ack[t] # None /\ ack[t].fd = fd /\ e.error = "denied" THEN "ack" ELSE e.error

(* handle_netlink_reply_exit()                                                      *)
Shown(t, fd, e) ==
  IF ack[t] # None /\ ack[t].fd = fd /\ e.error = "denied" /\ e.seq = ack[t].seq THEN "ack" ELSE e.error

RecvReal(t, fd, peek) ==
  /\ t \in Live /\ fd \notin DOMAIN fake[t] /\ File(t, fd) # None /\ queue[File(t, fd).id] # <<>>
  /\ Tick
  /\ LET i == File(t, fd).id  e == Head(queue[i]) IN
     /\ told' = [e |-> e, to |-> t, as |-> Shown(t, fd, e),
                 known |-> e.fd = fd /\ <<t, fd>> \notin loose /\ fd \in DOMAIN real[t]]
     /\ queue' = IF peek THEN queue ELSE [queue EXCEPT ![i] = Tail(@)]
  /\ ack' = IF ack[t] # None /\ ack[t].fd = fd /\ ~peek THEN [ack EXCEPT ![t] = None] ELSE ack
  /\ UNCHANGED <<blocked, group, files, fake, real, netns, loose>>

NetNext ==
  \/ \E t \in Tids, fd \in Fds :
       \/ \E route \in BOOLEAN : socket(t, fd, route)
       \/ close(t, fd)
       \/ \E r \in Replies : SendFake(t, fd, r)
       \/ RecvFake(t, fd)
       \/ \E changes \in BOOLEAN, error \in {"ack", "denied", "invalid"} : SendReal(t, fd, changes, error)
       \/ \E peek \in BOOLEAN : RecvReal(t, fd, peek)
  \/ \E t \in Tids, S \in (SUBSET Fds) \ {{}} : CloseUnseen(t, S)
  \/ \E t \in Tids, fd, to \in Fds : Duplicate(t, fd, to)
  \/ \E t, u \in Tids, shared, newnet \in BOOLEAN : new_child(t, u, shared, newnet)

NetSpec == NetInit /\ [][NetNext]_netvars

-------------------------------------------------------------------------------
(* A number in a thread's table is the socket it was entered for, as long as the thread     *)
(* did not close it with close_range() or by execve(), nor dup2() another descriptor to it,  *)
(* and no other thread closed or replaced it; what waits to be read there answers a dump to  *)
(* its end, once, and is never empty.                                                       *)
SocketsKnown ==
  \A t \in Live :
    /\ \A fd \in DOMAIN fake[t] : <<t, fd>> \notin loose => File(t, fd) = [kind |-> "fake", id |-> fake[t][fd].id]
    /\ \A fd \in DOMAIN real[t] : <<t, fd>> \notin loose => File(t, fd) = [kind |-> "real", id |-> real[t][fd]]
AnswersEnd ==
  \A t \in Live : \A fd \in DOMAIN fake[t] :
    LET r == fake[t][fd].reply IN
    r # <<>> => /\ \A i \in DOMAIN r : r[i] = "done" => i = Len(r)
                /\ "route" \in ToSet(r) => Last(r) = "done"

(* A thread in a name space of its own is told that its change was made, though it was      *)
(* denied, if it waits for one answer before the next request and asks and reads by one      *)
(* number; and nothing else is changed of what the kernel says, to anybody.             *)
AckedRight ==
  told # None =>
    /\ told.as # told.e.error => told.e.error = "denied" /\ told.e.changes /\ told.e.by = told.to
                                 /\ told.to \in netns
    /\ told.e.error = "denied" /\ told.e.changes /\ told.e.by = told.to /\ told.e.alone
         /\ told.to \in netns /\ told.known => told.as = "ack"

(* Fake and real sockets of routes: who has which, and what is answered.                     *)
NetlinkSound == SocketsKnown /\ AnswersEnd /\ AckedRight
===============================================================================
