---------------------------- MODULE IpcShmProofs ----------------------------
(***************************************************************************)
(* Shared memory, for any number of processes of one thread each, and any   *)
(* number of segments, mappings, failing calls, signals and deaths:         *)
(* SegmentsSound.  The inductive invariant (ShmInv) says of every guest     *)
(* where it may be in its call (Placed), that what it asked for is the      *)
(* newest in its process's list until the call is over (Asked), and that    *)
(* nothing else is half mapped unless an interrupted wait left it there     *)
(* (Owned); of the                                                          *)
(* helper, that every request and every descriptor it sent is a segment's   *)
(* (Descriptors); and of the waiters that somebody is on the way to wake    *)
(* them (Handed).                                                           *)
(***************************************************************************)
EXTENDS IpcShm, SequenceTheorems, WellFoundedInduction, TLAPS

\* Every process has one thread.  With more of them the properties do not hold: a mapping
\* that is not done yet has address 0, and shmdt(0) or the start of an execve() in another
\* thread takes it from the list of the process.
SingleThreaded == \A p, u \in Tracee : Proc[p] = Proc[u] => p = u

Fields == {"wait_reason", "wait_state", "chain_state", "status_after_wait",
           "waiting_object_index", "args"}

Slot == [key : Nat, generation : Nat, valid : BOOLEAN, rmid_pending : BOOLEAN,
         fd : Nat, size : Nat]
Mapping == [idx : Nat, addr : Int, fd : Nat]

\* Every guest has a configuration and a place, and the counters count.
Shape ==
    /\ DOMAIN cfg = Tracee /\ kern \in [Tracee -> Kern \cup {"call", "connected"}]
    /\ nintr \in Nat /\ ndeath \in Nat

Config(p) ==
    /\ DOMAIN cfg[p] = Fields
    /\ cfg[p].wait_reason \in {"none", "shmat"} /\ cfg[p].wait_state \in WaitStates
    /\ cfg[p].chain_state \in ShmatChain \cup {"none"}
    /\ cfg[p].waiting_object_index \in 0 .. Len(shms)

\* What is in use has a file.
Slots ==
    /\ shms \in Seq(Slot) /\ serial \in 0 .. MaxSerial
    /\ \A i \in 1 .. Len(shms) : shms[i].valid => shms[i].fd \in 1 .. serial

\* A list of mappings: those whose chain has ended, and only they, have an address of their
\* own, or an errno for one, and all are of segments there are in s.
Listing(l, s) ==
    /\ l \in Seq(Mapping)
    /\ \A k \in 1 .. Len(l) :
         /\ l[k].addr = 0 <=> l[k].fd = 0
         /\ l[k].idx \in 1 .. Len(s) /\ s[l[k].idx].valid
    /\ \A j, k \in 1 .. Len(l) : l[j].addr > 0 /\ j # k => l[j].addr # l[k].addr

Lists ==
    /\ DOMAIN mapped = Procs
    /\ \A q \in Procs : Listing(mapped[q], shms)

\* A segment that is removed when its last mapping goes has one.
Removed == \A i \in 1 .. Len(shms) : shms[i].rmid_pending => ~NoMapping(mapped, i)

Waits(p) == cfg[p].wait_reason = "shmat"
Chained(p) == cfg[p].chain_state \in ShmatChain
Alive(p) == kern[p] \notin {"dead", "gone"}

Sleeps(p, state) == Waits(p) /\ ~Chained(p) /\ cfg[p].wait_state = state
Woke(p, state) == ~Waits(p) /\ cfg[p].chain_state = "socket" /\ cfg[p].wait_state = state
Rests(p, state) == ~Waits(p) /\ ~Chained(p) /\ cfg[p].wait_state = state

\* How far a guest is in a call of shmat() that waits, or in the chain.
Placed(p) ==
    /\ kern[p] = "user" => Rests(p, "not")
    /\ kern[p] = "restart" => Sleeps(p, "restarted") \/ Woke(p, "canceled")
    /\ kern[p] = "ppoll" => Sleeps(p, "entered") \/ Woke(p, "signaled")
    /\ kern[p] = "exit" => \/ Rests(p, "getpid") \/ Woke(p, "signaled")
                           \/ Sleeps(p, "entered") /\ nintr > 0
    /\ kern[p] \in {"call", "connected"} =>
         ~Waits(p) /\ Chained(p) /\ cfg[p].wait_state = "not"
    /\ kern[p] = "connected" => cfg[p].chain_state = "connect"
    /\ p \in sigstop => kern[p] # "gone" /\ cfg[p].wait_state = "signaled"

\* What is half mapped in a list, and what a guest asks for.
Half(l, k) == k \in 1 .. Len(l) /\ l[k].fd = 0
ForCall(l, k, p) == Half(l, k) /\ l[k].idx = cfg[p].waiting_object_index

\* It is the newest in the list.
Asked(p) ==
    Alive(p) /\ (Chained(p) \/ Waits(p)) => ForCall(mapped[Proc[p]], 1, p)

Owned(p) ==
    /\ kern[p] = "gone" => mapped[Proc[p]] = <<>>
    /\ nintr = 0 =>
         \A k \in Nat : Half(mapped[Proc[p]], k) =>
           /\ kern[p] # "gone" /\ (Chained(p) \/ Waits(p))
           /\ ForCall(mapped[Proc[p]], k, p)
           /\ \A j \in Nat : Half(mapped[Proc[p]], j) => j = k

Guest(p) == Config(p) /\ Placed(p) /\ Asked(p) /\ Owned(p)

Descriptors ==
    /\ requests \in Seq(1 .. MaxSerial)
    /\ inbox \in [Tracee -> 0 .. MaxSerial]
    /\ \A p \in Tracee : Alive(p) /\ cfg[p].chain_state = "mmap" => inbox[p] # 0

\* Nobody dies unless it is killed, or has nothing to wait for; and who waits does so for
\* a guest that is alive.
Handed ==
    ndeath = 0 =>
      \A p \in Tracee :
        /\ kern[p] = "dead" => ~Waits(p) /\ ~Chained(p)
        /\ kern[p] # "gone" /\ Waits(p) => \E u \in Tracee : Alive(u) /\ Chained(u)

ShmInv ==
    /\ Shape /\ Slots /\ Lists /\ Removed
    /\ \A p \in Tracee : Guest(p)
    /\ Descriptors /\ Handed

-----------------------------------------------------------------------------
\* Lists.

\* The first of a set of indices is one of them, and no later than any.
LEMMA FirstIn ==
    ASSUME NEW n \in Nat, NEW S \in SUBSET (1 .. n), S # {}
    PROVE  First(S) \in S /\ \A j \in S : First(S) <= j
<1>1. \E i \in S : \A j \in S : i <= j
  <2> DEFINE Less == {ss \in Nat \X Nat : ss[1] < ss[2]}
  <2>1. IsWellFoundedOn(Less, Nat) BY NatLessThanWellFounded DEF OpToRel
  <2>2. S \subseteq Nat OBVIOUS
  <2> HIDE DEF Less
  <2>3. PICK i \in S : \A j \in S : ~(<<j, i>> \in Less) BY <2>1, <2>2, WFMin
  <2>4. ASSUME NEW j \in S PROVE i <= j
    <3>1. i \in Nat /\ j \in Nat /\ ~(<<j, i>> \in Less) BY <2>2, <2>3
    <3>2. ~(j < i) BY <3>1 DEF Less
    <3> QED BY <3>1, <3>2
  <2> QED BY <2>4
<1> QED BY <1>1 DEF First

\* A list without its k-th element.
LEMMA Without ==
    ASSUME NEW S, NEW s \in Seq(S), NEW k \in 1 .. Len(s)
    PROVE  /\ RemoveAt(s, k) \in Seq(S) /\ Len(RemoveAt(s, k)) = Len(s) - 1
           /\ \A j \in 1 .. Len(s) - 1 : RemoveAt(s, k)[j] = s[IF j < k THEN j ELSE j + 1]
<1> DEFINE a == SubSeq(s, 1, k - 1)
           b == SubSeq(s, k + 1, Len(s))
<1>1. a \in Seq(S) /\ Len(a) = k - 1 /\ \A j \in 1 .. k - 1 : a[j] = s[j]
  <2>1. \A j \in 1 .. k - 1 : s[j] \in S OBVIOUS
  <2> QED BY <2>1, SubSeqProperties
<1>2. b \in Seq(S) /\ Len(b) = Len(s) - k /\ \A j \in 1 .. Len(s) - k : b[j] = s[k + j]
  <2>1. \A j \in k + 1 .. Len(s) : s[j] \in S OBVIOUS
  <2> QED BY <2>1, SubSeqProperties
<1>3. RemoveAt(s, k) = a \o b BY DEF RemoveAt
<1> HIDE DEF a, b
<1>4. /\ a \o b \in Seq(S) /\ Len(a \o b) = Len(s) - 1
      /\ \A j \in 1 .. Len(s) - 1 : (a \o b)[j] = IF j <= k - 1 THEN a[j] ELSE b[j - (k - 1)]
  BY <1>1, <1>2, ConcatProperties
<1>5. ASSUME NEW j \in 1 .. Len(s) - 1 PROVE (a \o b)[j] = s[IF j < k THEN j ELSE j + 1]
  <2>1. CASE j < k BY <1>1, <1>4, <2>1
  <2>2. CASE ~(j < k)
    <3>1. j - (k - 1) \in 1 .. Len(s) - k BY <2>2
    <3>2. b[j - (k - 1)] = s[k + (j - (k - 1))] BY <1>2, <3>1
    <3>3. k + (j - (k - 1)) = j + 1 OBVIOUS
    <3> QED BY <1>4, <2>2, <3>2, <3>3
  <2> QED BY <2>1, <2>2
<1> QED BY <1>3, <1>4, <1>5

LEMMA ListingWithout ==
    ASSUME NEW l, NEW s, Listing(l, s), NEW k \in 1 .. Len(l)
    PROVE  Listing(RemoveAt(l, k), s)
<1> DEFINE r == RemoveAt(l, k)
           at(j) == IF j < k THEN j ELSE j + 1
<1>1. l \in Seq(Mapping) BY DEF Listing
<1>2. r \in Seq(Mapping) /\ Len(r) = Len(l) - 1 BY <1>1, Without
<1>3. \A j \in 1 .. Len(r) : at(j) \in 1 .. Len(l) /\ r[j] = l[at(j)]
  <2>1. \A j \in 1 .. Len(l) - 1 : r[j] = l[at(j)] BY <1>1, Without
  <2>2. Len(l) \in Nat BY <1>1
  <2>3. \A j \in 1 .. Len(r) : j \in 1 .. Len(l) - 1 /\ at(j) \in 1 .. Len(l) BY <1>2, <2>2
  <2> HIDE DEF at
  <2> QED BY <2>1, <2>3
<1>4. \A i, j \in 1 .. Len(r) : i # j => at(i) # at(j) BY <1>1, <1>2
<1> HIDE DEF r, at
<1>5. \A j \in 1 .. Len(r) : /\ r[j].addr = 0 <=> r[j].fd = 0
                             /\ r[j].idx \in 1 .. Len(s) /\ s[r[j].idx].valid
  <2> SUFFICES ASSUME NEW j \in 1 .. Len(r)
               PROVE  /\ r[j].addr = 0 <=> r[j].fd = 0
                      /\ r[j].idx \in 1 .. Len(s) /\ s[r[j].idx].valid
    OBVIOUS
  <2>1. at(j) \in 1 .. Len(l) /\ r[j] = l[at(j)] BY <1>3
  <2> QED BY ONLY <2>1, Listing(l, s) DEF Listing
<1>6. \A i, j \in 1 .. Len(r) : r[i].addr > 0 /\ i # j => r[i].addr # r[j].addr
  <2> SUFFICES ASSUME NEW i \in 1 .. Len(r), NEW j \in 1 .. Len(r), r[i].addr > 0, i # j
               PROVE  r[i].addr # r[j].addr
    OBVIOUS
  <2>1. /\ at(i) \in 1 .. Len(l) /\ r[i] = l[at(i)]
        /\ at(j) \in 1 .. Len(l) /\ r[j] = l[at(j)] /\ at(i) # at(j)
    BY <1>3, <1>4
  <2>2. l[at(i)].addr > 0 BY <2>1
  <2> QED BY ONLY <2>1, <2>2, Listing(l, s) DEF Listing
<1>7. Listing(r, s) BY ONLY <1>2, <1>5, <1>6 DEF Listing
<1> QED BY <1>7 DEF r

\* A mapping that begins is put in front.
LEMMA ListingBegun ==
    ASSUME NEW l, NEW s, Listing(l, s), NEW i \in 1 .. Len(s), s[i].valid, Len(s) \in Nat
    PROVE  LET r == <<[idx |-> i, addr |-> 0, fd |-> 0]>> \o l
           IN  /\ Listing(r, s) /\ Len(r) = Len(l) + 1
               /\ r[1] = [idx |-> i, addr |-> 0, fd |-> 0]
               /\ \A k \in 2 .. Len(r) : r[k] = l[k - 1]
<1> DEFINE m == [idx |-> i, addr |-> 0, fd |-> 0]
           r == <<m>> \o l
<1>1. l \in Seq(Mapping) /\ m \in Mapping BY DEF Listing, Mapping
<1>2. <<m>> \in Seq(Mapping) /\ Len(<<m>>) = 1 /\ <<m>>[1] = m BY <1>1
<1> HIDE DEF m
<1>3. /\ r \in Seq(Mapping) /\ Len(r) = Len(l) + 1
      /\ \A k \in 1 .. 1 + Len(l) : r[k] = IF k <= 1 THEN <<m>>[k] ELSE l[k - 1]
  BY <1>1, <1>2, ConcatProperties
<1>4. Len(l) \in Nat BY <1>1
<1> HIDE DEF r
<1>5. r[1] = m BY <1>2, <1>3, <1>4
<1>6. \A k \in 2 .. Len(r) : k - 1 \in 1 .. Len(l) /\ r[k] = l[k - 1] BY <1>3, <1>4
<1>7. m.addr = 0 /\ m.fd = 0 /\ m.idx = i BY DEF m
<1>8. \A k \in 1 .. Len(r) : /\ r[k].addr = 0 <=> r[k].fd = 0
                             /\ r[k].idx \in 1 .. Len(s) /\ s[r[k].idx].valid
  <2> SUFFICES ASSUME NEW k \in 1 .. Len(r)
               PROVE  /\ r[k].addr = 0 <=> r[k].fd = 0
                      /\ r[k].idx \in 1 .. Len(s) /\ s[r[k].idx].valid
    OBVIOUS
  <2>1. CASE k = 1 BY <1>5, <1>7, <2>1
  <2>2. CASE k # 1
    <3>1. k \in 2 .. Len(r) BY <1>3, <1>4, <2>2
    <3>2. k - 1 \in 1 .. Len(l) /\ r[k] = l[k - 1] BY <1>6, <3>1
    <3>3. PICK j \in 1 .. Len(l) : r[k] = l[j] BY <3>2
    <3> QED BY <3>3 DEF Listing
  <2> QED BY <2>1, <2>2
<1>9. \A j, k \in 1 .. Len(r) : r[j].addr > 0 /\ j # k => r[j].addr # r[k].addr
  <2> SUFFICES ASSUME NEW j \in 1 .. Len(r), NEW k \in 1 .. Len(r), r[j].addr > 0, j # k
               PROVE  r[j].addr # r[k].addr
    OBVIOUS
  <2>1. j # 1 BY <1>5, <1>7
  <2>2. j \in 2 .. Len(r) BY <1>3, <1>4, <2>1
  <2>3. CASE k = 1 BY <1>5, <1>7, <2>3
  <2>4. CASE k # 1
    <3>1. k \in 2 .. Len(r) BY <1>3, <1>4, <2>4
    <3>2. j - 1 # k - 1 BY <2>2, <3>1
    <3>3. /\ j - 1 \in 1 .. Len(l) /\ r[j] = l[j - 1]
          /\ k - 1 \in 1 .. Len(l) /\ r[k] = l[k - 1]
      BY <1>6, <2>2, <3>1
    <3>4. PICK h \in 1 .. Len(l), n \in 1 .. Len(l) : h # n /\ r[j] = l[h] /\ r[k] = l[n]
      BY ONLY <3>2, <3>3
    <3>5. l[h].addr > 0 BY <3>4
    <3>6. l[h].addr # l[n].addr BY ONLY <3>4, <3>5, Listing(l, s) DEF Listing
    <3> QED BY <3>4, <3>6
  <2> QED BY <2>3, <2>4
<1>10. Listing(r, s) BY <1>3, <1>8, <1>9 DEF Listing
<1> QED BY <1>3, <1>5, <1>6, <1>10 DEF r, m

-----------------------------------------------------------------------------
\* Segments and lists.

LEMMA ListFacts ==
    ASSUME Lists, NEW p \in Tracee
    PROVE  /\ Proc[p] \in Procs /\ Listing(mapped[Proc[p]], shms)
           /\ mapped[Proc[p]] \in Seq(Mapping) /\ Len(mapped[Proc[p]]) \in Nat
<1>1. Proc[p] \in Procs BY DEF Procs
<1> DEFINE l == mapped[Proc[p]]
<1>2. Listing(l, shms) BY <1>1 DEF Lists
<1> HIDE DEF l
<1>3. l \in Seq(Mapping) BY ONLY <1>2 DEF Listing
<1>4. Len(l) \in Nat BY ONLY <1>3
<1> QED BY <1>1, <1>2, <1>3, <1>4 DEF l

\* sysvipc_shm_find_pending_mapping() finds the mapping of the guest's call, which is the
\* newest, before any other one of size 0.
LEMMA PendingFound ==
    ASSUME Lists, NEW p \in Tracee, ForCall(mapped[Proc[p]], 1, p)
    PROVE  PendingAt(p) = 1 /\ 1 \in 1 .. Len(mapped[Proc[p]])
<1> DEFINE l == mapped[Proc[p]]
           S == {k \in 1 .. Len(l) : l[k].idx = cfg[p].waiting_object_index /\ SizeZero(l[k])}
<1>1. Len(l) \in Nat BY ListFacts
<1>2. S \in SUBSET (1 .. Len(l)) OBVIOUS
<1>3. 1 \in S BY DEF ForCall, Half, SizeZero
<1>4. PendingAt(p) = First(S) BY <1>3 DEF PendingAt
<1> HIDE DEF S, l
<1>5. First(S) \in S /\ First(S) <= 1 BY <1>1, <1>2, <1>3, FirstIn
<1>6. First(S) \in 1 .. Len(l) /\ 1 \in 1 .. Len(l) BY <1>2, <1>3, <1>5
<1> QED BY <1>1, <1>4, <1>5, <1>6 DEF l

LEMMA DataKept ==
    ASSUME Slots, Lists, Removed, UNCHANGED <<shms, mapped, serial>>
    PROVE  Slots' /\ Lists' /\ Removed' /\ Len(shms') = Len(shms)
BY DEF Slots, Lists, Removed

\* The index of a segment.
LEMMA LookupIs ==
    ASSUME Slots, NEW id, Lookup(id) # 0
    PROVE  Lookup(id) \in 1 .. Len(shms) /\ shms[Lookup(id)].valid
BY DEF Lookup

LEMMA RmidKeeps ==
    ASSUME NEW s \in Slot
    PROVE  do_rmid(s) \in Slot /\ ~do_rmid(s).valid /\ ~do_rmid(s).rmid_pending
<1> DEFINE g == s.generation + 1
<1>1. g \in Nat BY DEF Slot
<1>2. do_rmid(s) = [s EXCEPT !.valid = FALSE, !.rmid_pending = FALSE, !.generation = g, !.fd = 0]
  BY DEF do_rmid
<1> HIDE DEF g
<1>3. [s EXCEPT !.valid = FALSE] \in Slot BY DEF Slot
<1> DEFINE a == [s EXCEPT !.valid = FALSE]
<1>4. [a EXCEPT !.rmid_pending = FALSE] \in Slot /\ ~[a EXCEPT !.rmid_pending = FALSE].valid
  BY <1>3 DEF Slot
<1> DEFINE b == [a EXCEPT !.rmid_pending = FALSE]
<1>5. ~b.valid /\ ~b.rmid_pending BY <1>3, <1>4 DEF Slot
<1> HIDE DEF a
<1> HIDE DEF b
<1>6. /\ [b EXCEPT !.generation = g] \in Slot
      /\ ~[b EXCEPT !.generation = g].valid /\ ~[b EXCEPT !.generation = g].rmid_pending
  BY <1>1, <1>4, <1>5 DEF b, Slot
<1> DEFINE c == [b EXCEPT !.generation = g]
<1>7. do_rmid(s) = [c EXCEPT !.fd = 0] BY <1>2 DEF a, b
<1> HIDE DEF c
<1>8. c \in Slot /\ ~c.valid /\ ~c.rmid_pending BY <1>6 DEF c
<1>9. [c EXCEPT !.fd = 0] \in Slot BY <1>8 DEF Slot
<1>10. ~[c EXCEPT !.fd = 0].valid /\ ~[c EXCEPT !.fd = 0].rmid_pending BY <1>8 DEF Slot
<1> QED BY <1>7, <1>9, <1>10

\* sysvipc_shm_memmap_destructor() of what goes from the lists, if what is left in them is
\* sound: the segments of that stay.
LEMMA UnmapKeeps ==
    ASSUME Slots, Lists, Removed, NEW mp, Unmap(mp), serial' = serial,
           DOMAIN mp = Procs, \A q \in Procs : Listing(mp[q], shms)
    PROVE  Slots' /\ Lists' /\ Removed' /\ Len(shms') = Len(shms) /\ mapped' = mp
<1> DEFINE new(i) == IF shms[i].rmid_pending /\ NoMapping(mp, i) THEN do_rmid(shms[i]) ELSE shms[i]
<1>1. mapped' = mp /\ shms' = [i \in DOMAIN shms |-> new(i)] BY DEF Unmap
<1>2. DOMAIN shms = 1 .. Len(shms) /\ Len(shms) \in Nat /\ \A i \in 1 .. Len(shms) : shms[i] \in Slot
  BY DEF Slots
<1>3. \A i \in 1 .. Len(shms) : new(i) \in Slot /\ (new(i).valid => new(i) = shms[i])
                               /\ (new(i).rmid_pending => ~NoMapping(mp, i))
                               /\ (~NoMapping(mp, i) => new(i) = shms[i])
  BY <1>2, RmidKeeps
<1>4. shms' = [i \in 1 .. Len(shms) |-> new(i)] BY <1>1, <1>2
<1> HIDE DEF new
<1>5. shms' \in Seq(Slot) /\ Len(shms') = Len(shms) /\ \A i \in 1 .. Len(shms) : shms'[i] = new(i)
  BY <1>2, <1>3, <1>4, IsASeq
<1>6. Slots'
  <2>1. ASSUME NEW i \in 1 .. Len(shms'), shms'[i].valid PROVE shms'[i].fd \in 1 .. serial'
    BY <1>3, <1>5, <2>1 DEF Slots
  <2>2. serial' \in 0 .. MaxSerial BY DEF Slots
  <2> QED BY <1>5, <2>1, <2>2 DEF Slots
<1>7. ASSUME NEW q \in Procs PROVE Listing(mp[q], shms')
  <2>1. ASSUME NEW k \in 1 .. Len(mp[q]) PROVE ~NoMapping(mp, mp[q][k].idx)
    BY DEF NoMapping, Members
  <2>2. \A k \in 1 .. Len(mp[q]) : shms'[mp[q][k].idx].valid
    BY <1>3, <1>5, <2>1 DEF Listing
  <2> QED BY <1>5, <2>2 DEF Listing
<1>8. Lists' BY <1>1, <1>7 DEF Lists
<1>9. Removed' BY <1>1, <1>3, <1>5 DEF Removed, NoMapping
<1> QED BY <1>1, <1>5, <1>6, <1>8, <1>9

-----------------------------------------------------------------------------
\* Guests.

\* A guest that another one's step leaves alone, or wakes.
LEMMA OtherKept ==
    ASSUME NEW u \in Tracee, Guest(u), Len(shms) \in Nat, Len(shms') \in Nat, Len(shms) <= Len(shms'),
           nintr \in Nat, nintr' \in Nat, nintr <= nintr',
           kern'[u] = kern[u], mapped'[Proc[u]] = mapped[Proc[u]],
           \/ cfg'[u] = cfg[u] /\ (u \in sigstop' => u \in sigstop)
           \/ /\ kern[u] # "gone" /\ Waits(u)
              /\ cfg'[u] = Woken([cfg[u] EXCEPT !.chain_state = "socket"], 0)
              /\ u \in sigstop' => u \in sigstop \/ cfg[u].wait_state = "entered"
    PROVE  Guest(u)' /\ cfg'[u].waiting_object_index = cfg[u].waiting_object_index
           /\ (Chained(u) => Chained(u)') /\ (Waits(u)' => Waits(u))
           /\ (cfg'[u].chain_state = "mmap" => cfg[u].chain_state = "mmap")
<1>1. CASE cfg'[u] = cfg[u] /\ (u \in sigstop' => u \in sigstop)
  <2>1. Config(u)' BY <1>1 DEF Guest, Config
  <2>2. Placed(u)' BY <1>1 DEF Guest, Placed, Rests, Sleeps, Woke, Waits, Chained
  <2>3. Asked(u)' /\ Owned(u)'
    BY <1>1 DEF Guest, Asked, Owned, Alive, Waits, Chained, ForCall, Half
  <2> QED BY <1>1, <2>1, <2>2, <2>3 DEF Guest, Waits, Chained
<1>2. CASE /\ kern[u] # "gone" /\ Waits(u)
           /\ cfg'[u] = Woken([cfg[u] EXCEPT !.chain_state = "socket"], 0)
           /\ u \in sigstop' => u \in sigstop \/ cfg[u].wait_state = "entered"
  <2>1. /\ DOMAIN cfg'[u] = Fields /\ cfg'[u].wait_reason = "none"
        /\ cfg'[u].chain_state = "socket"
        /\ cfg'[u].waiting_object_index = cfg[u].waiting_object_index
        /\ cfg'[u].wait_state = CASE cfg[u].wait_state = "entered" -> "signaled"
                                  [] cfg[u].wait_state = "restarted" -> "canceled"
                                  [] OTHER -> cfg[u].wait_state
    BY <1>2 DEF Woken, Guest, Config, Fields
  <2>2. Config(u)' BY <2>1 DEF Guest, Config, WaitStates, ShmatChain
  <2>3. Placed(u)'
    BY <1>2, <2>1 DEF Guest, Placed, Rests, Sleeps, Woke, Waits, Chained, ShmatChain
  <2>4. Asked(u)' /\ Owned(u)'
    BY <1>2, <2>1 DEF Guest, Asked, Owned, Alive, Waits, Chained, ForCall, Half, ShmatChain
  <2> QED BY <2>1, <2>2, <2>3, <2>4 DEF Guest, Waits, Chained, ShmatChain
<1> QED BY <1>1, <1>2

\* A guest that is left alone, and one that is woken.
Left(u) == cfg'[u] = cfg[u] /\ (u \in sigstop' => u \in sigstop)
Roused(u) == /\ kern[u] # "gone" /\ Waits(u)
             /\ cfg'[u] = Woken([cfg[u] EXCEPT !.chain_state = "socket"], 0)
             /\ u \in sigstop' => u \in sigstop \/ cfg[u].wait_state = "entered"

Places == Kern \cup {"call", "connected"}

\* A step of guest p: what is to be shown of it, given what it does to the others.
LEMMA StepKeeps ==
    ASSUME ShmInv, NEW p \in Tracee,
           DOMAIN cfg' = Tracee, kern' \in [Tracee -> Places],
           nintr' \in Nat, nintr <= nintr', ndeath' \in Nat, ndeath <= ndeath',
           Slots', Lists', Removed', Len(shms) <= Len(shms'),
           \A u \in Tracee \ {p} : /\ kern'[u] = kern[u] /\ mapped'[Proc[u]] = mapped[Proc[u]]
                                   /\ Left(u) \/ Roused(u)
                                   /\ inbox'[u] = inbox[u] \/ inbox'[u] # 0,
           Guest(p)',
           requests' \in Seq(1 .. MaxSerial), inbox' \in [Tracee -> 0 .. MaxSerial],
           Alive(p)' /\ cfg'[p].chain_state = "mmap" => inbox'[p] # 0,
           \/ Handed'
           \/ ndeath' = 0 => /\ kern'[p] = "dead" => ~Waits(p)' /\ ~Chained(p)'
                             /\ kern'[p] # "gone" /\ Waits(p)' => kern[p] # "gone" /\ Waits(p)
                             /\ Alive(p) /\ Chained(p) => Alive(p)' /\ Chained(p)'
    PROVE  ShmInv'
<1>1. Len(shms) \in Nat /\ Len(shms') \in Nat BY DEF ShmInv, Slots
<1>2. nintr \in Nat /\ ndeath \in Nat BY DEF ShmInv, Shape
<1>3. ASSUME NEW u \in Tracee \ {p}
      PROVE  /\ Guest(u)' /\ (Chained(u) => Chained(u)') /\ (Waits(u)' => Waits(u))
             /\ cfg'[u].chain_state = "mmap" => cfg[u].chain_state = "mmap"
  <2>1. Guest(u) BY DEF ShmInv
  <2> QED BY <1>1, <1>2, <2>1, OtherKept DEF Left, Roused
<1>4. \A u \in Tracee : Guest(u)' BY <1>3
<1>5. Shape' BY DEF Shape, Places
<1>6. Descriptors'
  <2>1. ASSUME NEW u \in Tracee, Alive(u)', cfg'[u].chain_state = "mmap" PROVE inbox'[u] # 0
    <3>1. CASE u = p BY <2>1, <3>1
    <3>2. CASE u # p
      <4>1. Alive(u) /\ cfg[u].chain_state = "mmap" BY <1>3, <2>1, <3>2 DEF Alive
      <4> QED BY <3>2, <4>1 DEF ShmInv, Descriptors
    <3> QED BY <3>1, <3>2
  <2> QED BY <2>1 DEF Descriptors
<1>7. Handed'
  <2> SUFFICES ASSUME ~Handed', ndeath' = 0 PROVE FALSE BY DEF Handed
  <2>1. /\ kern'[p] = "dead" => ~Waits(p)' /\ ~Chained(p)'
        /\ kern'[p] # "gone" /\ Waits(p)' => kern[p] # "gone" /\ Waits(p)
        /\ Alive(p) /\ Chained(p) => Alive(p)' /\ Chained(p)'
    OBVIOUS
  <2>2. ndeath = 0 BY <1>2
  <2>3. ASSUME NEW q \in Tracee
        PROVE  /\ kern'[q] = "dead" => ~Waits(q)' /\ ~Chained(q)'
               /\ kern'[q] # "gone" /\ Waits(q)' => kern[q] # "gone" /\ Waits(q)
               /\ Alive(q) /\ Chained(q) => Alive(q)' /\ Chained(q)'
    <3>1. CASE q = p BY <2>1, <3>1
    <3>2. CASE q # p
      <4>1. kern'[q] = kern[q] /\ (Left(q) \/ Roused(q)) BY <3>2
      <4>2. (Chained(q) => Chained(q)') /\ (Waits(q)' => Waits(q)) BY <1>3, <3>2
      <4>3. kern[q] = "dead" => ~Waits(q) /\ ~Chained(q) BY <2>2 DEF ShmInv, Handed
      <4>4. kern[q] = "dead" => ~Chained(q)' BY <4>1, <4>3 DEF Left, Roused, Chained
      <4> QED BY <4>1, <4>2, <4>3, <4>4 DEF Alive
    <3> QED BY <3>1, <3>2
  <2>4. ASSUME NEW q \in Tracee, kern'[q] # "gone", Waits(q)'
        PROVE  \E u \in Tracee : Alive(u)' /\ Chained(u)'
    <3>1. kern[q] # "gone" /\ Waits(q) BY <2>3, <2>4
    <3>2. PICK u \in Tracee : Alive(u) /\ Chained(u) BY <2>2, <3>1 DEF ShmInv, Handed
    <3> QED BY <2>3, <3>2
  <2> QED BY <2>3, <2>4 DEF Handed
<1> QED BY <1>4, <1>5, <1>6, <1>7 DEF ShmInv

-----------------------------------------------------------------------------
\* Calls that are answered at once.

\* A guest outside the chain has no part in what is under way.
LEMMA UserFacts ==
    ASSUME ShmInv, NEW p \in Tracee, kern[p] = "user"
    PROVE  /\ Config(p) /\ Rests(p, "not") /\ ~Waits(p) /\ ~Chained(p) /\ p \notin sigstop
           /\ cfg[p].wait_reason = "none" /\ cfg[p].chain_state = "none"
           /\ nintr = 0 => \A k \in Nat : ~Half(mapped[Proc[p]], k)
<1>1. Guest(p) BY DEF ShmInv
<1>2. Config(p) /\ Rests(p, "not") BY <1>1 DEF Guest, Placed
<1>3. ~Waits(p) /\ ~Chained(p) BY <1>2 DEF Rests
<1>4. p \notin sigstop BY <1>1, <1>2 DEF Guest, Placed, Rests
<1>5. nintr = 0 => \A k \in Nat : ~Half(mapped[Proc[p]], k) BY <1>1, <1>3 DEF Guest, Owned
<1>6. cfg[p].wait_reason = "none" /\ cfg[p].chain_state = "none"
  BY <1>2, <1>3 DEF Config, Waits, Chained
<1> QED BY <1>2, <1>3, <1>4, <1>5, <1>6

LEMMA AnswerIs ==
    ASSUME ShmInv, NEW p \in Tracee, kern[p] = "user", NEW s, NEW st, syscall_common(p, s, cfg, st)
    PROVE  /\ DOMAIN cfg' = Tracee /\ kern' \in [Tracee -> Places]
           /\ nintr' = nintr /\ ndeath' = ndeath /\ sigstop' = sigstop
           /\ \A u \in Tracee \ {p} : cfg'[u] = cfg[u] /\ kern'[u] = kern[u]
           /\ DOMAIN cfg'[p] = Fields /\ cfg'[p].wait_reason = "none"
           /\ cfg'[p].chain_state = "none"
           /\ cfg'[p].waiting_object_index = cfg[p].waiting_object_index
           /\ \/ kern'[p] = "user" /\ cfg'[p].wait_state = "not"
              \/ kern'[p] = "exit" /\ cfg'[p].wait_state = "getpid"
<1>1. /\ cfg[p].wait_reason = "none" /\ cfg[p].chain_state = "none" /\ DOMAIN cfg[p] = Fields
      /\ cfg[p].wait_state = "not"
  BY UserFacts DEF Config, Rests
<1>2. DOMAIN cfg = Tracee /\ kern \in [Tracee -> Places] BY DEF ShmInv, Shape, Places
<1>3. Signaled(cfg) = {} BY DEF Signaled
<1>4. nintr' = nintr /\ ndeath' = ndeath /\ sigstop' = sigstop BY <1>3 DEF syscall_common
<1>5. CASE cfg' = cfg /\ kern' = kern
  BY <1>1, <1>2, <1>4, <1>5
<1>6. CASE /\ cfg' = [cfg EXCEPT ![p].status_after_wait = st, ![p].wait_state = "getpid"]
           /\ kern' = [kern EXCEPT ![p] = "exit"]
  <2>1. kern' \in [Tracee -> Places] /\ kern'[p] = "exit" /\ \A u \in Tracee \ {p} : kern'[u] = kern[u]
    BY <1>2, <1>6 DEF Places, Kern
  <2>2. DOMAIN cfg' = Tracee /\ \A u \in Tracee \ {p} : cfg'[u] = cfg[u] BY <1>2, <1>6
  <2>3. /\ DOMAIN cfg'[p] = Fields /\ cfg'[p].wait_reason = "none" /\ cfg'[p].chain_state = "none"
        /\ cfg'[p].waiting_object_index = cfg[p].waiting_object_index
        /\ cfg'[p].wait_state = "getpid"
    BY <1>1, <1>2, <1>6 DEF Fields
  <2> QED BY <1>4, <2>1, <2>2, <2>3
<1> QED BY <1>1, <1>5, <1>6 DEF syscall_common

LEMMA AnswerKeeps ==
    ASSUME ShmInv, NEW p \in Tracee, kern[p] = "user", NEW s, NEW st, syscall_common(p, s, cfg, st),
           UNCHANGED <<mapped, requests, inbox>>,
           Slots', Lists', Removed', Len(shms) <= Len(shms')
    PROVE  ShmInv'
<1>1. Len(shms) \in Nat /\ Len(shms') \in Nat BY DEF ShmInv, Slots
<1>2. nintr \in Nat /\ ndeath \in Nat BY DEF ShmInv, Shape
<1>3. Guest(p)'
  <2>1. Config(p)'
    BY <1>1, AnswerIs, UserFacts DEF Config, WaitStates
  <2>2. Placed(p)'
    BY AnswerIs, UserFacts DEF Placed, Rests, Waits, Chained, ShmatChain
  <2>3. Asked(p)'
    BY AnswerIs DEF Asked, Waits, Chained, ShmatChain
  <2>4. Owned(p)'
    BY AnswerIs, UserFacts DEF Owned, Half
  <2> QED BY <2>1, <2>2, <2>3, <2>4 DEF Guest
<1>4. \A u \in Tracee \ {p} : /\ kern'[u] = kern[u] /\ mapped'[Proc[u]] = mapped[Proc[u]]
                              /\ Left(u) /\ inbox'[u] = inbox[u]
  BY AnswerIs DEF Left
<1>5. requests' \in Seq(1 .. MaxSerial) /\ inbox' \in [Tracee -> 0 .. MaxSerial]
  BY DEF ShmInv, Descriptors
<1>6. /\ cfg'[p].chain_state # "mmap"
      /\ kern'[p] # "dead" /\ ~Waits(p)' /\ ~Chained(p)
  BY AnswerIs, UserFacts DEF Waits
<1>7. /\ DOMAIN cfg' = Tracee /\ kern' \in [Tracee -> Places]
      /\ nintr' \in Nat /\ nintr <= nintr' /\ ndeath' \in Nat /\ ndeath <= ndeath'
  BY <1>2, AnswerIs
<1> QED BY <1>3, <1>4, <1>5, <1>6, <1>7, StepKeeps

\* Calls that change the list of the guest's process.
LEMMA UserUnmaps ==
    ASSUME ShmInv, SingleThreaded, NEW p \in Tracee, kern[p] = "user",
           UNCHANGED <<cfg, kern, sigstop, nintr, ndeath, requests, inbox, serial>>,
           NEW l, Listing(l, shms),
           \A k \in Nat : Half(l, k) => \E j \in Nat : Half(mapped[Proc[p]], j),
           Unmap([mapped EXCEPT ![Proc[p]] = l])
    PROVE  ShmInv'
<1> DEFINE mp == [mapped EXCEPT ![Proc[p]] = l]
<1>1. Slots /\ Lists /\ Removed /\ Len(shms) \in Nat BY DEF ShmInv, Slots
<1>2. nintr \in Nat /\ ndeath \in Nat BY DEF ShmInv, Shape
<1>3. DOMAIN mp = Procs /\ \A q \in Procs : mp[q] = IF q = Proc[p] THEN l ELSE mapped[q]
  BY <1>1 DEF Lists
<1>4. \A q \in Procs : Listing(mp[q], shms) BY <1>1, <1>3 DEF Lists
<1>5. Unmap(mp) OBVIOUS
<1>6. serial' = serial OBVIOUS
<1> HIDE DEF mp
<1>7. Slots' /\ Lists' /\ Removed' /\ Len(shms') = Len(shms) /\ mapped' = mp
  BY <1>1, <1>3, <1>4, <1>5, <1>6, UnmapKeeps
<1>8. Proc[p] \in Procs /\ mapped'[Proc[p]] = l BY <1>3, <1>7 DEF Procs
<1>9. \A u \in Tracee \ {p} : mapped'[Proc[u]] = mapped[Proc[u]]
  BY <1>3, <1>7 DEF Procs, SingleThreaded
<1>10. Guest(p)'
  <2>1. Config(p)' BY <1>7, UserFacts DEF Config
  <2>2. Placed(p)' BY UserFacts DEF Placed, Rests, Waits, Chained
  <2>3. Asked(p)' BY UserFacts DEF Asked, Waits, Chained
  <2>4. Owned(p)'
    BY <1>8, UserFacts DEF Owned
  <2> QED BY <2>1, <2>2, <2>3, <2>4 DEF Guest
<1>11. \A u \in Tracee \ {p} : /\ kern'[u] = kern[u] /\ mapped'[Proc[u]] = mapped[Proc[u]]
                               /\ Left(u) /\ inbox'[u] = inbox[u]
  BY <1>9 DEF Left
<1>12. requests' \in Seq(1 .. MaxSerial) /\ inbox' \in [Tracee -> 0 .. MaxSerial]
  BY DEF ShmInv, Descriptors
<1>13. cfg'[p].chain_state # "mmap" /\ kern'[p] # "dead" /\ ~Waits(p)' /\ ~Chained(p)
  BY UserFacts DEF Waits
<1>14. /\ DOMAIN cfg' = Tracee /\ kern' \in [Tracee -> Places]
       /\ nintr' \in Nat /\ nintr <= nintr' /\ ndeath' \in Nat /\ ndeath <= ndeath'
  BY <1>2 DEF ShmInv, Shape, Places
<1>15. Len(shms) <= Len(shms') BY <1>1, <1>7
<1> QED BY <1>7, <1>10, <1>11, <1>12, <1>13, <1>14, <1>15, StepKeeps

\* A slot that is free, or a new one, is filled.
LEMMA PutKeeps ==
    ASSUME Slots, Lists, Removed, NEW x \in Slot, ~x.rmid_pending, UNCHANGED mapped,
           serial' \in serial .. MaxSerial, x.valid => x.fd \in 1 .. serial',
           \/ shms' = Append(shms, x)
           \/ \E i \in 1 .. Len(shms) : ~shms[i].valid /\ shms' = [shms EXCEPT ![i] = x]
    PROVE  Slots' /\ Lists' /\ Removed' /\ Len(shms) <= Len(shms')
<1>1. shms \in Seq(Slot) /\ Len(shms) \in Nat /\ serial \in Nat BY DEF Slots
<1>2. /\ shms' \in Seq(Slot) /\ Len(shms) <= Len(shms')
      /\ \A i \in 1 .. Len(shms') : shms'[i] = x \/ (i \in 1 .. Len(shms) /\ shms'[i] = shms[i])
      /\ \A i \in 1 .. Len(shms) : shms[i].valid => shms'[i] = shms[i]
  <2>1. CASE shms' = Append(shms, x)
    <3>1. /\ shms' \in Seq(Slot) /\ Len(shms') = Len(shms) + 1
          /\ \A i \in 1 .. Len(shms) : shms'[i] = shms[i]
          /\ shms'[Len(shms) + 1] = x
      BY <1>1, <2>1, AppendProperties
    <3>2. \A i \in 1 .. Len(shms') : i = Len(shms) + 1 \/ i \in 1 .. Len(shms) BY <1>1, <3>1
    <3> QED BY <1>1, <3>1, <3>2
  <2>2. CASE \E i \in 1 .. Len(shms) : ~shms[i].valid /\ shms' = [shms EXCEPT ![i] = x]
    <3>1. PICK i \in 1 .. Len(shms) : ~shms[i].valid /\ shms' = [shms EXCEPT ![i] = x] BY <2>2
    <3>2. /\ shms' \in Seq(Slot) /\ Len(shms') = Len(shms)
          /\ \A j \in 1 .. Len(shms) : shms'[j] = IF j = i THEN x ELSE shms[j]
      BY <1>1, <3>1, ExceptSeq
    <3>3. \A j \in 1 .. Len(shms) : shms[j].valid => shms'[j] = shms[j] BY <3>1, <3>2
    <3>4. \A j \in 1 .. Len(shms') : shms'[j] = x \/ (j \in 1 .. Len(shms) /\ shms'[j] = shms[j])
      BY <3>2
    <3> QED BY <1>1, <3>2, <3>3, <3>4
  <2> QED BY <2>1, <2>2
<1>3. Len(shms') \in Nat BY <1>2
<1>4. Slots' BY <1>1, <1>2, <1>3 DEF Slots
<1>5. Lists'
  <2>1. \A i \in 1 .. Len(shms) : i \in 1 .. Len(shms') BY ONLY <1>1, <1>2, <1>3
  <2>2. \A i \in 1 .. Len(shms) : shms[i].valid => i \in 1 .. Len(shms') /\ shms'[i].valid
    BY ONLY <1>2, <2>1
  <2>3. ASSUME NEW q \in Procs PROVE Listing(mapped'[q], shms')
    <3>1. Listing(mapped[q], shms) /\ mapped'[q] = mapped[q] BY DEF Lists
    <3>2. \A k \in 1 .. Len(mapped[q]) :
            /\ mapped[q][k].idx \in 1 .. Len(shms')
            /\ shms'[mapped[q][k].idx].valid
      BY ONLY <2>2, <3>1 DEF Listing
    <3>3. Listing(mapped[q], shms') BY ONLY <3>1, <3>2 DEF Listing
    <3> QED BY ONLY <3>1, <3>3
  <2> QED BY <2>3 DEF Lists
<1>6. Removed' BY <1>1, <1>2, <1>3 DEF Removed, NoMapping
<1> QED BY <1>2, <1>4, <1>5, <1>6

LEMMA ShmgetKeeps ==
    ASSUME ShmInv, NEW p \in Tracee, NEW key \in Keys, NEW size \in Sizes, NEW flg, NEW s,
           shmget(p, key, size, flg, s)
    PROVE  ShmInv'
<1> DEFINE free == {i \in 1 .. Len(shms) : ~shms[i].valid}
           slot == IF free # {} THEN First(free) ELSE Len(shms) + 1
           cleared == [key |-> 0, generation |-> 0, valid |-> FALSE, rmid_pending |-> FALSE,
                       fd |-> 0, size |-> 0]
           made == [cleared EXCEPT !.key = key, !.valid = TRUE, !.fd = serial + 1, !.size = size]
           put(x) == IF free # {} THEN [shms EXCEPT ![slot] = x] ELSE Append(shms, x)
<1>1. kern[p] = "user" /\ UNCHANGED <<mapped, requests, inbox>> BY DEF shmget
<1>2. Slots /\ Lists /\ Removed /\ Len(shms) \in Nat /\ serial \in 0 .. MaxSerial BY DEF ShmInv, Slots
<1>3. free # {} => slot \in 1 .. Len(shms) /\ ~shms[slot].valid
  <2>1. free \in SUBSET (1 .. Len(shms)) OBVIOUS
  <2>2. free # {} => First(free) \in free
    <3> HIDE DEF free
    <3> QED BY <1>2, <2>1, FirstIn
  <2> QED BY <2>2
<1>4. ASSUME NEW x, shms' = put(x)
      PROVE  \/ shms' = Append(shms, x)
             \/ \E i \in 1 .. Len(shms) : ~shms[i].valid /\ shms' = [shms EXCEPT ![i] = x]
  <2> HIDE DEF free, slot
  <2> QED BY <1>3, <1>4
<1>5. MaxSerial \in Nat /\ key \in Nat /\ size \in Nat BY ShmAssumption
<1>6. cleared \in Slot /\ ~cleared.rmid_pending /\ ~cleared.valid BY DEF Slot
<1>7. made \in Slot /\ ~made.rmid_pending /\ made.fd = serial + 1
  <2>1. serial + 1 \in Nat BY <1>2, <1>5
  <2> DEFINE a == [cleared EXCEPT !.key = key]
             b == [a EXCEPT !.valid = TRUE]
             c == [b EXCEPT !.fd = serial + 1]
             d == [c EXCEPT !.size = size]
  <2>2. made = d OBVIOUS
  <2>3. a \in Slot /\ ~a.rmid_pending BY <1>5, <1>6 DEF Slot
  <2> HIDE DEF made, cleared, a
  <2>4. b \in Slot /\ ~b.rmid_pending BY <2>3 DEF Slot
  <2> HIDE DEF b
  <2>5. c \in Slot /\ ~c.rmid_pending /\ c.fd = serial + 1 BY <2>1, <2>4 DEF Slot
  <2> HIDE DEF c
  <2>6. d \in Slot /\ ~d.rmid_pending /\ d.fd = serial + 1 BY <1>5, <2>5 DEF Slot
  <2> QED BY <2>2, <2>6
<1>8. \/ \E st : syscall_common(p, s, cfg, st) /\ UNCHANGED <<shms, serial>>
      \/ /\ serial < MaxSerial /\ serial' = serial + 1 /\ shms' = put(made)
         /\ syscall_common(p, s, cfg, slot)
      \/ shms' = put(cleared) /\ syscall_common(p, s, cfg, ENOSPC) /\ serial' = serial
  BY DEF shmget
<1> HIDE DEF free, slot, cleared, made, put
<1>9. CASE \E st : syscall_common(p, s, cfg, st) /\ UNCHANGED <<shms, serial>>
  <2>1. PICK st : syscall_common(p, s, cfg, st) /\ UNCHANGED <<shms, serial>> BY <1>9
  <2>2. Slots' /\ Lists' /\ Removed' /\ Len(shms') = Len(shms) BY <1>1, <1>2, <2>1, DataKept
  <2>3. Len(shms) <= Len(shms') BY <1>2, <2>2
  <2> QED BY <1>1, <2>1, <2>2, <2>3, AnswerKeeps
<1>10. CASE /\ serial < MaxSerial /\ serial' = serial + 1 /\ shms' = put(made)
            /\ syscall_common(p, s, cfg, slot)
  <2>1. serial' \in serial .. MaxSerial /\ (made.valid => made.fd \in 1 .. serial')
    BY <1>2, <1>5, <1>7, <1>10
  <2>2. Slots' /\ Lists' /\ Removed' /\ Len(shms) <= Len(shms')
    BY <1>1, <1>2, <1>4, <1>7, <1>10, <2>1, PutKeeps
  <2> QED BY <1>1, <1>10, <2>2, AnswerKeeps
<1>11. CASE shms' = put(cleared) /\ syscall_common(p, s, cfg, ENOSPC) /\ serial' = serial
  <2>1. serial' \in serial .. MaxSerial BY <1>2, <1>5, <1>11
  <2>2. Slots' /\ Lists' /\ Removed' /\ Len(shms) <= Len(shms')
    BY <1>1, <1>2, <1>4, <1>6, <1>11, <2>1, PutKeeps
  <2> QED BY <1>1, <1>11, <2>2, AnswerKeeps
<1> QED BY <1>8, <1>9, <1>10, <1>11

LEMMA ShmctlKeeps ==
    ASSUME ShmInv, NEW p \in Tracee, NEW id, NEW s, shmctl_RMID(p, id, s)
    PROVE  ShmInv'
<1> DEFINE i == Lookup(id)
<1>1. /\ kern[p] = "user" /\ UNCHANGED <<mapped, requests, inbox, serial>>
      /\ syscall_common(p, s, cfg, IF i = 0 THEN EINVAL ELSE 0)
      /\ shms' = IF i = 0 THEN shms
                 ELSE IF NoMapping(mapped, i) THEN [shms EXCEPT ![i] = do_rmid(@)]
                 ELSE [shms EXCEPT ![i].rmid_pending = TRUE]
  BY DEF shmctl_RMID
<1>2. Slots /\ Lists /\ Removed /\ Len(shms) \in Nat BY DEF ShmInv, Slots
<1>3. Slots' /\ Lists' /\ Removed' /\ Len(shms') = Len(shms)
  <2>1. CASE i = 0
    <3>1. shms' = shms BY <1>1, <2>1
    <3> QED BY <1>1, <1>2, <3>1, DataKept
  <2>2. CASE i # 0
    <3>1. i \in 1 .. Len(shms) /\ shms[i].valid BY <1>2, <2>2, LookupIs
    <3> DEFINE x == IF NoMapping(mapped, i) THEN do_rmid(shms[i])
                    ELSE [shms[i] EXCEPT !.rmid_pending = TRUE]
    <3>2. shms[i] \in Slot BY <1>2, <3>1 DEF Slots
    <3>3. x \in Slot /\ (x.valid => x.fd = shms[i].fd) /\ (x.rmid_pending => ~NoMapping(mapped, i))
          /\ (~NoMapping(mapped, i) => x.valid)
      <4>1. CASE NoMapping(mapped, i) BY <3>2, <4>1, RmidKeeps
      <4>2. CASE ~NoMapping(mapped, i) BY <3>1, <3>2, <4>2 DEF Slot
      <4> QED BY <4>1, <4>2
    <3>4. shms' = [shms EXCEPT ![i] = x] BY <1>1, <2>2
    <3> HIDE DEF x, i
    <3>5. /\ shms' \in Seq(Slot) /\ Len(shms') = Len(shms)
          /\ \A j \in 1 .. Len(shms) : shms'[j] = IF j = i THEN x ELSE shms[j]
      BY <1>2, <3>1, <3>3, <3>4, ExceptSeq DEF Slots
    <3>6. Slots' BY <1>1, <1>2, <3>1, <3>3, <3>5 DEF Slots
    <3>7. Removed' BY <1>1, <1>2, <3>3, <3>5 DEF Removed, NoMapping
    <3>8. ASSUME NEW q \in Procs PROVE Listing(mapped[q], shms')
      <4>1. Listing(mapped[q], shms) BY <1>2 DEF Lists
      <4>2. ASSUME NEW k \in 1 .. Len(mapped[q]) PROVE shms'[mapped[q][k].idx].valid
        <5>1. mapped[q][k].idx \in 1 .. Len(shms) /\ shms[mapped[q][k].idx].valid BY <4>1 DEF Listing
        <5>2. mapped[q][k].idx = i => ~NoMapping(mapped, i) BY DEF NoMapping, Members
        <5> QED BY <3>3, <3>5, <5>1, <5>2
      <4> QED BY <3>5, <4>1, <4>2 DEF Listing
    <3>9. Lists' BY <1>1, <1>2, <3>8 DEF Lists
    <3> QED BY <3>5, <3>6, <3>7, <3>9
  <2> QED BY <2>1, <2>2
<1>4. Len(shms) <= Len(shms') BY <1>2, <1>3
<1> QED BY <1>1, <1>3, <1>4, AnswerKeeps

LEMMA ShmdtKeeps ==
    ASSUME ShmInv, SingleThreaded, NEW p \in Tracee, NEW addr, NEW s, shmdt(p, addr, s)
    PROVE  ShmInv'
<1> DEFINE l == mapped[Proc[p]]
           S == {k \in 1 .. Len(l) : l[k].addr = addr}
<1>1. kern[p] = "user" /\ UNCHANGED <<requests, inbox, serial>> BY DEF shmdt
<1>2. Slots /\ Lists /\ Removed /\ Len(shms) \in Nat BY DEF ShmInv, Slots
<1>3. Listing(l, shms) /\ l \in Seq(Mapping) /\ Len(l) \in Nat BY <1>2, ListFacts
<1>4. CASE S = {}
  <2>1. syscall_common(p, s, cfg, EINVAL) /\ UNCHANGED <<mapped, shms>> BY <1>4 DEF shmdt
  <2>2. Slots' /\ Lists' /\ Removed' /\ Len(shms') = Len(shms) BY <1>1, <1>2, <2>1, DataKept
  <2>3. Len(shms) <= Len(shms') BY <1>2, <2>2
  <2> QED BY <1>1, <2>1, <2>2, <2>3, AnswerKeeps
<1>5. CASE S # {}
  <2> DEFINE f == First(S)
             r == RemoveAt(l, f)
  <2>1. /\ Unmap([mapped EXCEPT ![Proc[p]] = RemoveAt(@, f)])
        /\ UNCHANGED <<cfg, kern, sigstop, nintr, ndeath>>
    BY <1>5 DEF shmdt
  <2>2. f \in 1 .. Len(l)
    <3>1. S \in SUBSET (1 .. Len(l)) OBVIOUS
    <3> HIDE DEF S, l
    <3> QED BY <1>3, <1>5, <3>1, FirstIn
  <2>3. [mapped EXCEPT ![Proc[p]] = RemoveAt(@, f)] = [mapped EXCEPT ![Proc[p]] = r]
    BY <1>2 DEF Lists
  <2>4. Listing(r, shms) BY <1>3, <2>2, ListingWithout
  <2>5. \A k \in Nat : Half(r, k) => \E j \in Nat : Half(l, j)
    <3> HIDE DEF f
    <3> SUFFICES ASSUME NEW k \in Nat, Half(r, k) PROVE \E j \in Nat : Half(l, j) OBVIOUS
    <3>1. Len(r) = Len(l) - 1 BY <1>3, <2>2, Without
    <3>2. k \in 1 .. Len(l) - 1 /\ r[k].fd = 0 BY <3>1 DEF Half
    <3>3. r[k] = l[IF k < f THEN k ELSE k + 1] BY <1>3, <2>2, <3>2, Without
    <3>4. (IF k < f THEN k ELSE k + 1) \in 1 .. Len(l) BY <1>3, <3>2
    <3>5. PICK j \in 1 .. Len(l) : r[k] = l[j] BY <3>3, <3>4
    <3>6. j \in Nat /\ Half(l, j) BY <1>3, <3>2, <3>5 DEF Half
    <3> QED BY <3>6
  <2> HIDE DEF r, f
  <2> QED BY <1>1, <2>1, <2>3, <2>4, <2>5, UserUnmaps
<1> QED BY <1>4, <1>5

LEMMA ExecveKeeps ==
    ASSUME ShmInv, SingleThreaded, NEW p \in Tracee, Execve(p)
    PROVE  ShmInv'
<1>1. kern[p] = "user" /\ UNCHANGED <<cfg, kern, sigstop, nintr, ndeath, requests, inbox, serial>>
      /\ Unmap([mapped EXCEPT ![Proc[p]] = <<>>])
  BY DEF Execve
<1>2. Listing(<<>>, shms) BY DEF Listing
<1>3. \A k \in Nat : ~Half(<<>>, k) BY DEF Half
<1> QED BY <1>1, <1>2, <1>3, UserUnmaps

-----------------------------------------------------------------------------
\* A wait and a chain, one step of them.

LEMMA IdleIs ==
    /\ DOMAIN Idle = Fields /\ Idle.wait_reason = "none" /\ Idle.wait_state = "not"
    /\ Idle.chain_state = "none" /\ Idle.waiting_object_index = 0
BY DEF Idle, Fields

\* A guest that stays in its call.
LEMMA LocalKeeps ==
    ASSUME ShmInv, NEW p \in Tracee, UNCHANGED <<shms, mapped, serial, ndeath>>,
           DOMAIN cfg' = Tracee, kern' \in [Tracee -> Places], nintr' \in Nat, nintr <= nintr',
           \A u \in Tracee \ {p} : kern'[u] = kern[u] /\ Left(u) /\ inbox'[u] = inbox[u],
           cfg'[p].waiting_object_index = cfg[p].waiting_object_index,
           Alive(p), Alive(p)', Config(p)', Placed(p)',
           Chained(p) \/ Waits(p) <=> Chained(p)' \/ Waits(p)',
           Waits(p)' => Waits(p), Chained(p) => Chained(p)',
           requests' \in Seq(1 .. MaxSerial), inbox' \in [Tracee -> 0 .. MaxSerial],
           cfg'[p].chain_state = "mmap" => inbox'[p] # 0
    PROVE  ShmInv'
<1>1. Slots /\ Lists /\ Removed /\ Len(shms) \in Nat BY DEF ShmInv, Slots
<1>2. Slots' /\ Lists' /\ Removed' /\ Len(shms') = Len(shms) BY <1>1, DataKept
<1>3. nintr \in Nat /\ ndeath \in Nat BY DEF ShmInv, Shape
<1>4. Guest(p) BY DEF ShmInv
<1>5. Asked(p)' BY <1>4 DEF Guest, Asked, ForCall, Half
<1>6. Owned(p)'
  <2>1. kern'[p] # "gone" BY DEF Alive
  <2>2. nintr' = 0 => nintr = 0 BY <1>3
  <2> QED BY <1>4, <2>1, <2>2 DEF Guest, Owned, ForCall, Half
<1>7. Guest(p)' BY <1>5, <1>6 DEF Guest
<1>8. \A u \in Tracee \ {p} : /\ kern'[u] = kern[u] /\ mapped'[Proc[u]] = mapped[Proc[u]]
                              /\ Left(u) \/ Roused(u)
                              /\ inbox'[u] = inbox[u] \/ inbox'[u] # 0
  OBVIOUS
<1>9. /\ kern'[p] = "dead" => ~Waits(p)' /\ ~Chained(p)'
      /\ kern'[p] # "gone" /\ Waits(p)' => kern[p] # "gone" /\ Waits(p)
      /\ Alive(p) /\ Chained(p) => Alive(p)' /\ Chained(p)'
  BY DEF Alive
<1>10. Len(shms) <= Len(shms') /\ ndeath' \in Nat /\ ndeath <= ndeath' BY <1>1, <1>2, <1>3
<1> QED BY <1>2, <1>7, <1>8, <1>9, <1>10, StepKeeps

\* What a step that sets one field of a configuration, and one place, leaves.
LEMMA FieldSet ==
    ASSUME ShmInv, NEW p \in Tracee, NEW f \in Fields, NEW v,
           cfg' = [cfg EXCEPT ![p] = [@ EXCEPT ![f] = v]]
    PROVE  /\ DOMAIN cfg' = Tracee /\ \A u \in Tracee \ {p} : cfg'[u] = cfg[u]
           /\ DOMAIN cfg'[p] = Fields
           /\ \A g \in Fields : cfg'[p][g] = IF g = f THEN v ELSE cfg[p][g]
<1>1. DOMAIN cfg = Tracee BY DEF ShmInv, Shape
<1>2. DOMAIN cfg[p] = Fields BY DEF ShmInv, Guest, Config
<1> QED BY <1>1, <1>2

LEMMA PlaceSet ==
    ASSUME ShmInv, NEW p \in Tracee, NEW k \in Places, kern' = [kern EXCEPT ![p] = k]
    PROVE  /\ kern' \in [Tracee -> Places] /\ kern'[p] = k
           /\ \A u \in Tracee \ {p} : kern'[u] = kern[u]
BY DEF ShmInv, Shape, Places

LEMMA Unmoved ==
    ASSUME ShmInv, UNCHANGED kern
    PROVE  kern' \in [Tracee -> Places]
BY DEF ShmInv, Shape, Places

LEMMA InvFacts ==
    ASSUME ShmInv, NEW p \in Tracee
    PROVE  /\ Config(p) /\ Placed(p) /\ Asked(p) /\ Owned(p)
           /\ DOMAIN cfg = Tracee /\ kern[p] \in Places
           /\ nintr \in Nat /\ ndeath \in Nat /\ Len(shms) \in Nat
           /\ requests \in Seq(1 .. MaxSerial) /\ inbox \in [Tracee -> 0 .. MaxSerial]
           /\ Slots /\ Lists /\ Removed
BY DEF ShmInv, Shape, Slots, Descriptors, Guest, Places

LEMMA PpollEnterKeeps ==
    ASSUME ShmInv, NEW p \in Tracee, PpollEnter(p),
           UNCHANGED <<shms, mapped, backlog, requests, inbox, serial, nfail>>
    PROVE  ShmInv'
<1> USE InvFacts
<1>1. /\ kern[p] = "restart" /\ cfg[p].wait_state = "restarted"
      /\ cfg' = [cfg EXCEPT ![p] = [@ EXCEPT !["wait_state"] = "entered"]]
      /\ kern' = [kern EXCEPT ![p] = "ppoll"]
      /\ UNCHANGED <<sigstop, nintr, ndeath>>
  BY DEF PpollEnter
<1>2. kern' \in [Tracee -> Places] /\ kern'[p] = "ppoll" /\ \A u \in Tracee \ {p} : kern'[u] = kern[u]
  BY <1>1, PlaceSet DEF Places, Kern
<1>3. "wait_state" \in Fields BY DEF Fields
<1>4. /\ DOMAIN cfg' = Tracee /\ \A u \in Tracee \ {p} : cfg'[u] = cfg[u]
      /\ DOMAIN cfg'[p] = Fields
      /\ \A g \in Fields : cfg'[p][g] = IF g = "wait_state" THEN "entered" ELSE cfg[p][g]
  BY ONLY ShmInv, <1>1, <1>3, FieldSet
<1>5. /\ cfg'[p].wait_reason = cfg[p].wait_reason /\ cfg'[p].chain_state = cfg[p].chain_state
      /\ cfg'[p].waiting_object_index = cfg[p].waiting_object_index
      /\ cfg'[p].wait_state = "entered"
  BY <1>4 DEF Fields
<1>6. Sleeps(p, "restarted") /\ p \notin sigstop BY <1>1 DEF Placed, Woke
<1>7. Alive(p) /\ Alive(p)' BY <1>1, <1>2 DEF Alive
<1>8. Config(p)' BY <1>4, <1>5 DEF Config, WaitStates
<1>9. Placed(p)' BY <1>1, <1>2, <1>5, <1>6 DEF Placed, Sleeps, Waits, Chained
<1>10. \A u \in Tracee \ {p} : kern'[u] = kern[u] /\ Left(u) /\ inbox'[u] = inbox[u]
  BY <1>1, <1>2, <1>4 DEF Left
<1>11. (Chained(p) <=> Chained(p)') /\ (Waits(p) <=> Waits(p)') BY <1>5 DEF Chained, Waits
<1>12. cfg'[p].chain_state # "mmap" BY <1>5, <1>6 DEF Sleeps, Chained, ShmatChain
<1> QED BY <1>1, <1>2, <1>4, <1>5, <1>7, <1>8, <1>9, <1>10, <1>11, <1>12, LocalKeeps

LEMMA PpollEndKeeps ==
    ASSUME ShmInv, NEW p \in Tracee, PpollInterrupted(p) \/ PpollStopped(p),
           UNCHANGED <<shms, mapped, backlog, requests, inbox, serial, nfail>>
    PROVE  ShmInv'
<1> USE InvFacts
<1>1. /\ kern[p] = "ppoll" /\ kern' = [kern EXCEPT ![p] = "exit"]
      /\ UNCHANGED <<cfg, sigstop, ndeath>>
      /\ nintr' = nintr + 1 \/ (nintr' = nintr /\ p \in sigstop)
  BY DEF PpollInterrupted, PpollStopped
<1>2. kern' \in [Tracee -> Places] /\ kern'[p] = "exit" /\ \A u \in Tracee \ {p} : kern'[u] = kern[u]
  BY <1>1, PlaceSet DEF Places, Kern
<1>3. Alive(p) /\ Alive(p)' BY <1>1, <1>2 DEF Alive
<1>4. nintr' \in Nat /\ nintr <= nintr' /\ (nintr' = nintr + 1 => nintr' > 0) BY <1>1
<1>5. Config(p)' BY <1>1 DEF Config
<1>6. Placed(p)'
  BY <1>1, <1>2, <1>4 DEF Placed, Sleeps, Woke, Waits, Chained
<1>7. \A u \in Tracee \ {p} : kern'[u] = kern[u] /\ Left(u) /\ inbox'[u] = inbox[u]
  BY <1>1, <1>2 DEF Left
<1>8. (Chained(p) <=> Chained(p)') /\ (Waits(p) <=> Waits(p)') BY <1>1 DEF Chained, Waits
<1>9. cfg'[p].chain_state # "mmap"
  BY <1>1 DEF Placed, Sleeps, Woke, Chained, ShmatChain
<1> QED BY <1>1, <1>2, <1>3, <1>4, <1>5, <1>6, <1>7, <1>8, <1>9, LocalKeeps

LEMMA ChainedEnterKeeps ==
    ASSUME ShmInv, NEW p \in Tracee, ChainedEnter(p)
    PROVE  ShmInv'
<1> USE InvFacts
<1>1. /\ kern[p] = "restart" /\ cfg[p].wait_state = "canceled"
      /\ cfg' = [cfg EXCEPT ![p] = [@ EXCEPT !["wait_state"] = "signaled"]]
      /\ kern' = [kern EXCEPT ![p] = "exit"]
      /\ UNCHANGED <<sigstop, nintr, ndeath, shms, mapped, requests, inbox, serial>>
  BY DEF ChainedEnter
<1>2. kern' \in [Tracee -> Places] /\ kern'[p] = "exit" /\ \A u \in Tracee \ {p} : kern'[u] = kern[u]
  BY <1>1, PlaceSet DEF Places, Kern
<1>3. "wait_state" \in Fields BY DEF Fields
<1>4. /\ DOMAIN cfg' = Tracee /\ \A u \in Tracee \ {p} : cfg'[u] = cfg[u]
      /\ DOMAIN cfg'[p] = Fields
      /\ \A g \in Fields : cfg'[p][g] = IF g = "wait_state" THEN "signaled" ELSE cfg[p][g]
  BY ONLY ShmInv, <1>1, <1>3, FieldSet
<1>5. /\ cfg'[p].wait_reason = cfg[p].wait_reason /\ cfg'[p].chain_state = cfg[p].chain_state
      /\ cfg'[p].waiting_object_index = cfg[p].waiting_object_index
      /\ cfg'[p].wait_state = "signaled"
  BY <1>4 DEF Fields
<1>6. Woke(p, "canceled") BY <1>1 DEF Placed, Sleeps
<1>7. Alive(p) /\ Alive(p)' BY <1>1, <1>2 DEF Alive
<1>8. Config(p)' BY <1>1, <1>4, <1>5 DEF Config, WaitStates
<1>9. Placed(p)' BY <1>1, <1>2, <1>5, <1>6 DEF Placed, Woke, Waits
<1>10. \A u \in Tracee \ {p} : kern'[u] = kern[u] /\ Left(u) /\ inbox'[u] = inbox[u]
  BY <1>1, <1>2, <1>4 DEF Left
<1>11. (Chained(p) <=> Chained(p)') /\ (Waits(p) <=> Waits(p)') BY <1>5 DEF Chained, Waits
<1>12. cfg'[p].chain_state # "mmap" BY <1>5, <1>6 DEF Woke
<1> QED BY <1>1, <1>2, <1>4, <1>5, <1>7, <1>8, <1>9, <1>10, <1>11, <1>12, LocalKeeps

LEMMA ChainedExitKeeps ==
    ASSUME ShmInv, NEW p \in Tracee, ChainedExit(p)
    PROVE  ShmInv'
<1> USE InvFacts
<1>1. /\ kern[p] = "exit" /\ cfg[p].wait_state = "signaled"
      /\ cfg' = [cfg EXCEPT ![p] = [@ EXCEPT !["wait_state"] = "not"]]
      /\ kern' = [kern EXCEPT ![p] = "call"] /\ sigstop' = sigstop \ {p}
      /\ UNCHANGED <<nintr, ndeath, shms, mapped, requests, inbox, serial>>
  BY DEF ChainedExit
<1>2. kern' \in [Tracee -> Places] /\ kern'[p] = "call" /\ \A u \in Tracee \ {p} : kern'[u] = kern[u]
  BY <1>1, PlaceSet DEF Places
<1>3. "wait_state" \in Fields BY DEF Fields
<1>4. /\ DOMAIN cfg' = Tracee /\ \A u \in Tracee \ {p} : cfg'[u] = cfg[u]
      /\ DOMAIN cfg'[p] = Fields
      /\ \A g \in Fields : cfg'[p][g] = IF g = "wait_state" THEN "not" ELSE cfg[p][g]
  BY ONLY ShmInv, <1>1, <1>3, FieldSet
<1>5. /\ cfg'[p].wait_reason = cfg[p].wait_reason /\ cfg'[p].chain_state = cfg[p].chain_state
      /\ cfg'[p].waiting_object_index = cfg[p].waiting_object_index
      /\ cfg'[p].wait_state = "not"
  BY <1>4 DEF Fields
<1>6. Woke(p, "signaled") BY <1>1 DEF Placed, Sleeps, Rests
<1>7. Alive(p) /\ Alive(p)' BY <1>1, <1>2 DEF Alive
<1>8. Config(p)' BY <1>1, <1>4, <1>5 DEF Config, WaitStates
<1>9. Placed(p)' BY <1>1, <1>2, <1>5, <1>6 DEF Placed, Woke, Waits, Chained, ShmatChain
<1>10. \A u \in Tracee \ {p} : kern'[u] = kern[u] /\ Left(u) /\ inbox'[u] = inbox[u]
  BY <1>1, <1>2, <1>4 DEF Left
<1>11. (Chained(p) <=> Chained(p)') /\ (Waits(p) <=> Waits(p)') BY <1>5 DEF Chained, Waits
<1>12. cfg'[p].chain_state # "mmap" BY <1>5, <1>6 DEF Woke
<1> QED BY <1>1, <1>2, <1>4, <1>5, <1>7, <1>8, <1>9, <1>10, <1>11, <1>12, LocalKeeps

\* sysvipc_shmat_chain() from one call of the chain to the next.
LEMMA ChainStepKeeps ==
    ASSUME ShmInv, NEW p \in Tracee, kern[p] \in {"call", "connected"}, NEW next \in ShmatChain,
           Chained(p), cfg' = [cfg EXCEPT ![p].chain_state = next],
           kern' = [kern EXCEPT ![p] = "call"],
           UNCHANGED <<sigstop, nintr, ndeath, shms, mapped, inbox, serial>>,
           requests' \in Seq(1 .. MaxSerial), next = "mmap" => inbox[p] # 0
    PROVE  ShmInv'
<1> USE InvFacts
<1>1. cfg' = [cfg EXCEPT ![p] = [@ EXCEPT !["chain_state"] = next]] OBVIOUS
<1>2. kern' \in [Tracee -> Places] /\ kern'[p] = "call" /\ \A u \in Tracee \ {p} : kern'[u] = kern[u]
  BY <1>1, PlaceSet DEF Places
<1>3. "chain_state" \in Fields BY DEF Fields
<1>4. /\ DOMAIN cfg' = Tracee /\ \A u \in Tracee \ {p} : cfg'[u] = cfg[u]
      /\ DOMAIN cfg'[p] = Fields
      /\ \A g \in Fields : cfg'[p][g] = IF g = "chain_state" THEN next ELSE cfg[p][g]
  <2>1. DOMAIN cfg = Tracee /\ DOMAIN cfg[p] = Fields BY DEF Config
  <2>2. cfg'[p] = [cfg[p] EXCEPT !["chain_state"] = next] BY <1>1, <2>1
  <2> QED BY <1>1, <1>3, <2>1, <2>2
<1>5. /\ cfg'[p].wait_reason = cfg[p].wait_reason /\ cfg'[p].chain_state = next
      /\ cfg'[p].waiting_object_index = cfg[p].waiting_object_index
      /\ cfg'[p].wait_state = cfg[p].wait_state
  BY <1>4 DEF Fields
<1>6. ~Waits(p) /\ cfg[p].wait_state = "not" BY DEF Placed
<1>7. Alive(p) /\ Alive(p)' BY <1>2 DEF Alive
<1>8. Config(p)' BY <1>4, <1>5 DEF Config
<1>9. Placed(p)' BY <1>2, <1>5, <1>6 DEF Placed, Waits, Chained
<1>10. \A u \in Tracee \ {p} : kern'[u] = kern[u] /\ Left(u) /\ inbox'[u] = inbox[u]
  BY <1>2, <1>4 DEF Left
<1>11. Chained(p)' /\ (Waits(p) <=> Waits(p)') BY <1>5 DEF Chained, Waits
<1>12. /\ nintr' \in Nat /\ nintr <= nintr' /\ UNCHANGED <<shms, mapped, serial, ndeath>>
       /\ requests' \in Seq(1 .. MaxSerial) /\ inbox' \in [Tracee -> 0 .. MaxSerial]
       /\ Chained(p) /\ (cfg'[p].chain_state = "mmap" => inbox'[p] # 0)
  BY <1>5
<1> QED BY ONLY ShmInv, <1>2, <1>4, <1>5, <1>7, <1>8, <1>9, <1>10, <1>11, <1>12, LocalKeeps

LEMMA ChainSocketKeeps ==
    ASSUME ShmInv, NEW p \in Tracee, ChainSocket(p)
    PROVE  ShmInv'
<1> USE InvFacts
<1>1. kern' = [kern EXCEPT ![p] = "call"] /\ Chained(p)
  BY DEF ChainSocket, ShmInv, Shape, Chained, ShmatChain
<1> QED BY <1>1, ChainStepKeeps DEF ChainSocket, ShmatChain

LEMMA ChainConnectKeeps ==
    ASSUME ShmInv, NEW p \in Tracee, ChainConnect(p)
    PROVE  ShmInv'
<1> USE InvFacts
<1> DEFINE i == cfg[p].waiting_object_index
           l == mapped[Proc[p]]
<1>1. kern[p] = "connected" /\ Chained(p) /\ Alive(p) BY DEF ChainConnect, Chained, ShmatChain, Alive
<1>2. ForCall(l, 1, p) BY <1>1 DEF Asked
<1>3. i \in 1 .. Len(shms) /\ shms[i].valid
  <2>1. Listing(l, shms) BY ListFacts
  <2>2. 1 \in 1 .. Len(l) /\ l[1].idx = i BY <1>2 DEF ForCall, Half
  <2> QED BY <2>1, <2>2 DEF Listing
<1>4. shms[i].fd \in 1 .. MaxSerial
  <2>1. MaxSerial \in Nat BY ShmAssumption
  <2> QED BY <1>3, <2>1 DEF Slots
<1>5. requests' \in Seq(1 .. MaxSerial) BY <1>4 DEF ChainConnect
<1> QED BY <1>1, <1>5, ChainStepKeeps DEF ChainConnect, ShmatChain

LEMMA ChainRecvmsgKeeps ==
    ASSUME ShmInv, NEW p \in Tracee, ChainRecvmsg(p)
    PROVE  ShmInv'
<1> USE InvFacts
<1>1. kern' = [kern EXCEPT ![p] = "call"] /\ Chained(p)
  BY DEF ChainRecvmsg, ShmInv, Shape, Chained, ShmatChain
<1> QED BY <1>1, ChainStepKeeps DEF ChainRecvmsg, ShmatChain

LEMMA ConnectKeeps ==
    ASSUME ShmInv, NEW p \in Tracee, Connect(p)
    PROVE  ShmInv'
<1> USE InvFacts
<1>1. /\ kern[p] = "call" /\ cfg[p].chain_state = "connect"
      /\ kern' = [kern EXCEPT ![p] = "connected"]
      /\ UNCHANGED <<cfg, sigstop, nintr, ndeath, shms, mapped, requests, inbox, serial>>
  BY DEF Connect
<1>2. /\ kern' \in [Tracee -> Places] /\ kern'[p] = "connected"
      /\ \A u \in Tracee \ {p} : kern'[u] = kern[u]
  BY <1>1, PlaceSet DEF Places
<1>3. Alive(p) /\ Alive(p)' BY <1>1, <1>2 DEF Alive
<1>4. Config(p)' BY <1>1 DEF Config
<1>5. Placed(p)' BY <1>1, <1>2 DEF Placed, Waits, Chained
<1>6. \A u \in Tracee \ {p} : kern'[u] = kern[u] /\ Left(u) /\ inbox'[u] = inbox[u]
  BY <1>1, <1>2 DEF Left
<1>7. (Chained(p) <=> Chained(p)') /\ (Waits(p) <=> Waits(p)') BY <1>1 DEF Chained, Waits
<1> QED BY <1>1, <1>2, <1>3, <1>4, <1>5, <1>6, <1>7, LocalKeeps

\* A wait that ends: nothing of the guest is pending, unless the wait was interrupted.
LEMMA ExitStartKeeps ==
    ASSUME ShmInv, NEW p \in Tracee, ExitStart(p)
    PROVE  ShmInv'
<1> USE InvFacts
<1>1. /\ kern[p] = "exit" /\ cfg[p].wait_state \in {"getpid", "entered"}
      /\ cfg' = [cfg EXCEPT ![p] = Idle] /\ kern' = [kern EXCEPT ![p] = "user"]
      /\ sigstop' = sigstop \ {p}
      /\ UNCHANGED <<nintr, ndeath, shms, mapped, requests, inbox, serial>>
  BY DEF ExitStart, ExitAnswered, ExitInterrupted, ReturnsWith
<1>2. kern' \in [Tracee -> Places] /\ kern'[p] = "user" /\ \A u \in Tracee \ {p} : kern'[u] = kern[u]
  BY <1>1, PlaceSet DEF Places, Kern
<1>3. DOMAIN cfg' = Tracee /\ cfg'[p] = Idle /\ \A u \in Tracee \ {p} : cfg'[u] = cfg[u] BY <1>1
<1>4. ~Chained(p) /\ (nintr = 0 => ~Waits(p))
  BY <1>1 DEF Placed, Rests, Woke, Sleeps
<1>5. Slots' /\ Lists' /\ Removed' /\ Len(shms') = Len(shms) BY <1>1, DataKept
<1>6. Guest(p)'
  <2>1. Config(p)' BY <1>3, <1>5, IdleIs DEF Config, WaitStates
  <2>2. Placed(p)' BY <1>1, <1>2, <1>3, IdleIs DEF Placed, Rests, Waits, Chained, ShmatChain
  <2>3. Asked(p)' BY <1>3, IdleIs DEF Asked, Waits, Chained, ShmatChain
  <2>4. Owned(p)' BY <1>1, <1>2, <1>4 DEF Owned, Half
  <2> QED BY <2>1, <2>2, <2>3, <2>4 DEF Guest
<1>7. \A u \in Tracee \ {p} : /\ kern'[u] = kern[u] /\ mapped'[Proc[u]] = mapped[Proc[u]]
                              /\ Left(u) /\ inbox'[u] = inbox[u]
  BY <1>1, <1>2, <1>3 DEF Left
<1>8. cfg'[p].chain_state # "mmap" /\ kern'[p] # "dead" /\ ~Waits(p)'
  BY <1>2, <1>3, IdleIs DEF Waits
<1>9. nintr' \in Nat /\ nintr <= nintr' /\ ndeath' \in Nat /\ ndeath <= ndeath'
      /\ Len(shms) <= Len(shms')
  BY <1>1, <1>5
<1> QED BY <1>1, <1>2, <1>3, <1>4, <1>5, <1>6, <1>7, <1>8, <1>9, StepKeeps

LEMMA DeathKeeps ==
    ASSUME ShmInv, NEW p \in Tracee,
           \/ GuestDies(p) /\ UNCHANGED <<shms, mapped, backlog, requests, inbox, serial, nfail>>
           \/ ExitGroup(p)
    PROVE  ShmInv'
<1> USE InvFacts
<1>1. /\ Alive(p) /\ kern' = [kern EXCEPT ![p] = "dead"]
      /\ UNCHANGED <<cfg, sigstop, nintr, shms, mapped, requests, inbox, serial>>
      /\ ndeath' = ndeath + 1 \/ (ndeath' = ndeath /\ kern[p] = "user")
  BY DEF GuestDies, ExitGroup, Alive
<1>2. kern' \in [Tracee -> Places] /\ kern'[p] = "dead" /\ \A u \in Tracee \ {p} : kern'[u] = kern[u]
  BY <1>1, PlaceSet DEF Places, Kern
<1>3. Slots' /\ Lists' /\ Removed' /\ Len(shms') = Len(shms) BY <1>1, DataKept
<1>4. Guest(p)'
  <2>1. Config(p)' BY <1>1 DEF Config
  <2>2. Placed(p)' BY <1>1, <1>2 DEF Placed
  <2>3. Asked(p)' BY <1>2 DEF Asked, Alive
  <2>4. Owned(p)' BY <1>1, <1>2 DEF Owned, Alive, Half, ForCall, Chained, Waits
  <2> QED BY <2>1, <2>2, <2>3, <2>4 DEF Guest
<1>5. \A u \in Tracee \ {p} : /\ kern'[u] = kern[u] /\ mapped'[Proc[u]] = mapped[Proc[u]]
                              /\ Left(u) /\ inbox'[u] = inbox[u]
  BY <1>1, <1>2 DEF Left
<1>6. ~Alive(p)' BY <1>2 DEF Alive
<1>7. ndeath' = 0 => ~Waits(p)' /\ ~Chained(p)' /\ ~Waits(p) /\ ~Chained(p)
  BY <1>1 DEF Placed, Rests, Waits, Chained
<1>8. nintr' \in Nat /\ nintr <= nintr' /\ ndeath' \in Nat /\ ndeath <= ndeath'
      /\ Len(shms) <= Len(shms') /\ DOMAIN cfg' = Tracee
  BY <1>1, <1>3
<1> QED BY <1>1, <1>2, <1>3, <1>4, <1>5, <1>6, <1>7, <1>8, StepKeeps

LEMMA FreeTraceeKeeps ==
    ASSUME ShmInv, SingleThreaded, NEW p \in Tracee, FreeTracee(p)
    PROVE  ShmInv'
<1> USE InvFacts
<1> DEFINE mp == [mapped EXCEPT ![Proc[p]] = <<>>]
<1>1. /\ kern[p] = "dead" /\ kern' = [kern EXCEPT ![p] = "gone"] /\ sigstop' = sigstop \ {p}
      /\ inbox' = [inbox EXCEPT ![p] = 0]
      /\ UNCHANGED <<cfg, nintr, ndeath, requests, serial>>
  BY DEF FreeTracee, FreeGuest
<1>2. ~\E u \in Listed \ {p} : Proc[u] = Proc[p] BY DEF SingleThreaded, Listed
<1>3. Unmap(mp) BY <1>2 DEF FreeTracee
<1>4. kern' \in [Tracee -> Places] /\ kern'[p] = "gone" /\ \A u \in Tracee \ {p} : kern'[u] = kern[u]
  BY <1>1, PlaceSet DEF Places, Kern
<1>5. DOMAIN mp = Procs /\ \A q \in Procs : mp[q] = IF q = Proc[p] THEN <<>> ELSE mapped[q]
  BY DEF Lists
<1>6. \A q \in Procs : Listing(mp[q], shms)
  <2>1. Listing(<<>>, shms) BY DEF Listing
  <2> QED BY <1>5, <2>1 DEF Lists
<1> HIDE DEF mp
<1>7. Slots' /\ Lists' /\ Removed' /\ Len(shms') = Len(shms) /\ mapped' = mp
  BY <1>1, <1>3, <1>5, <1>6, UnmapKeeps
<1>8. mapped'[Proc[p]] = <<>> /\ \A u \in Tracee \ {p} : mapped'[Proc[u]] = mapped[Proc[u]]
  BY <1>5, <1>7 DEF Procs, SingleThreaded
<1>9. Guest(p)'
  <2>1. Config(p)' BY <1>1, <1>7 DEF Config
  <2>2. Placed(p)' BY <1>1, <1>4 DEF Placed
  <2>3. Asked(p)' BY <1>4 DEF Asked, Alive
  <2>4. Owned(p)' BY <1>8 DEF Owned, Half
  <2> QED BY <2>1, <2>2, <2>3, <2>4 DEF Guest
<1>10. \A u \in Tracee \ {p} : /\ kern'[u] = kern[u] /\ mapped'[Proc[u]] = mapped[Proc[u]]
                               /\ Left(u) /\ inbox'[u] = inbox[u]
  BY <1>1, <1>4, <1>8 DEF Left
<1>11. ~Alive(p)' /\ ~Alive(p) BY <1>1, <1>4 DEF Alive
<1>12. inbox' \in [Tracee -> 0 .. MaxSerial]
  <2>1. MaxSerial \in Nat BY ShmAssumption
  <2> QED BY <1>1, <2>1
<1>13. nintr' \in Nat /\ nintr <= nintr' /\ ndeath' \in Nat /\ ndeath <= ndeath'
       /\ Len(shms) <= Len(shms') /\ DOMAIN cfg' = Tracee /\ requests' \in Seq(1 .. MaxSerial)
  BY <1>1, <1>7
<1> QED BY <1>4, <1>7, <1>9, <1>10, <1>11, <1>12, <1>13, StepKeeps

LEMMA ForkKeeps ==
    ASSUME ShmInv, SingleThreaded, NEW p \in Tracee, NEW u \in Tracee, Fork(p, u)
    PROVE  ShmInv'
<1> USE InvFacts
<1>1. /\ kern[p] = "user" /\ kern[u] = "gone" /\ kern' = [kern EXCEPT ![u] = "user"]
      /\ cfg' = [cfg EXCEPT ![u] = Idle]
      /\ mapped' = [mapped EXCEPT ![Proc[u]] = mapped[Proc[p]]]
      /\ UNCHANGED <<sigstop, nintr, ndeath, shms, requests, inbox, serial>>
  BY DEF Fork
<1>2. kern' \in [Tracee -> Places] /\ kern'[u] = "user" /\ \A v \in Tracee \ {u} : kern'[v] = kern[v]
  BY <1>1, PlaceSet DEF Places, Kern
<1>3. DOMAIN cfg' = Tracee /\ cfg'[u] = Idle /\ \A v \in Tracee \ {u} : cfg'[v] = cfg[v] BY <1>1
<1>4. DOMAIN mapped' = Procs
      /\ \A q \in Procs : mapped'[q] = IF q = Proc[u] THEN mapped[Proc[p]] ELSE mapped[q]
  BY <1>1 DEF Lists
<1>5. Slots' /\ Len(shms') = Len(shms) BY <1>1 DEF Slots
<1>6. Lists'
  <2>1. Proc[p] \in Procs BY DEF Procs
  <2> QED BY <1>1, <1>4, <2>1 DEF Lists
<1>7. Removed'
  <2>1. mapped[Proc[u]] = <<>> BY <1>1 DEF Owned
  <2>2. ASSUME NEW i \in 1 .. Len(shms), shms[i].rmid_pending PROVE ~NoMapping(mapped', i)
    <3>1. PICK q \in Procs : \E m \in Members(mapped[q]) : m.idx = i BY <2>2 DEF Removed, NoMapping
    <3>2. q # Proc[u] BY <2>1, <3>1 DEF Members
    <3> QED BY <1>4, <3>1, <3>2 DEF NoMapping
  <2> QED BY <1>1, <2>2 DEF Removed, NoMapping
<1>8. mapped'[Proc[u]] = mapped[Proc[p]] /\ \A v \in Tracee \ {u} : mapped'[Proc[v]] = mapped[Proc[v]]
  BY <1>4 DEF Procs, SingleThreaded
<1>9. Guest(u)'
  <2>1. Config(u)' BY <1>3, <1>5, IdleIs DEF Config, WaitStates
  <2>2. Placed(u)' BY <1>1, <1>2, <1>3, IdleIs DEF Placed, Rests, Waits, Chained, ShmatChain
  <2>3. Asked(u)' BY <1>3, IdleIs DEF Asked, Waits, Chained, ShmatChain
  <2>4. Owned(u)' BY <1>1, <1>2, <1>8, UserFacts DEF Owned
  <2> QED BY <2>1, <2>2, <2>3, <2>4 DEF Guest
<1>10. \A v \in Tracee \ {u} : /\ kern'[v] = kern[v] /\ mapped'[Proc[v]] = mapped[Proc[v]]
                               /\ Left(v) /\ inbox'[v] = inbox[v]
  BY <1>1, <1>2, <1>3, <1>8 DEF Left
<1>11. cfg'[u].chain_state # "mmap" /\ kern'[u] # "dead" /\ ~Waits(u)' /\ ~Alive(u)
  BY <1>1, <1>2, <1>3, IdleIs DEF Waits, Alive
<1>12. nintr' \in Nat /\ nintr <= nintr' /\ ndeath' \in Nat /\ ndeath <= ndeath'
       /\ Len(shms) <= Len(shms')
  BY <1>1, <1>5
<1> QED BY <1>1, <1>2, <1>3, <1>5, <1>6, <1>7, <1>9, <1>10, <1>11, <1>12, StepKeeps

\* The helper hands out a descriptor there is.
LEMMA HelperKeeps ==
    ASSUME ShmInv, HelperDistribute
    PROVE  ShmInv'
<1> DEFINE d == Head(requests)
           b == Head(backlog)
<1>1. /\ UNCHANGED <<cfg, kern, sigstop, nintr, ndeath, shms, mapped, serial>>
      /\ requests # <<>> /\ requests' = Tail(requests)
      /\ inbox' = inbox \/ inbox' = [inbox EXCEPT ![b] = d]
  BY DEF HelperDistribute
<1>2. requests \in Seq(1 .. MaxSerial) /\ inbox \in [Tracee -> 0 .. MaxSerial]
  BY DEF ShmInv, Descriptors
<1>3. requests' \in Seq(1 .. MaxSerial) /\ d \in 1 .. MaxSerial BY <1>1, <1>2, HeadTailProperties
<1> HIDE DEF d, b
<1>4. inbox' \in [Tracee -> 0 .. MaxSerial] /\ \A u \in Tracee : inbox[u] # 0 => inbox'[u] # 0
  BY <1>1, <1>2, <1>3
<1>5. Descriptors' BY <1>1, <1>3, <1>4 DEF ShmInv, Descriptors, Alive
<1>6. Shape' /\ Slots' /\ Lists' /\ Removed' BY <1>1 DEF ShmInv, Shape, Slots, Lists, Removed
<1>7. Handed' BY <1>1 DEF ShmInv, Handed, Waits, Chained, Alive
<1>8. \A u \in Tracee : Guest(u)'
  BY <1>1 DEF ShmInv, Guest, Config, Placed, Asked, Owned, Rests, Woke, Sleeps, Waits, Chained, Alive,
              ForCall, Half
<1> QED BY <1>5, <1>6, <1>7, <1>8 DEF ShmInv

-----------------------------------------------------------------------------
\* shmat(), from the entry in the list to its end.

LEMMA ShmatKeeps ==
    ASSUME ShmInv, SingleThreaded, NEW p \in Tracee, NEW id, NEW s, shmat(p, id, s)
    PROVE  ShmInv'
<1> USE InvFacts
<1> DEFINE i == Lookup(id)
           m == [idx |-> i, addr |-> 0, fd |-> 0]
           l == mapped[Proc[p]]
           r == <<m>> \o l
           c == [cfg EXCEPT ![p].waiting_object_index = i]
<1>1. kern[p] = "user" /\ UNCHANGED <<shms, backlog, requests, inbox, serial>> BY DEF shmat
<1>2. CASE i = 0
  <2>1. syscall_common(p, s, cfg, EINVAL) /\ mapped' = mapped
    <3>1. c = cfg \/ c # cfg OBVIOUS
    <3> QED BY <1>2 DEF shmat
  <2>2. Slots' /\ Lists' /\ Removed' /\ Len(shms') = Len(shms) BY <1>1, <2>1, DataKept
  <2>3. Len(shms) <= Len(shms') BY <2>2
  <2> QED BY <1>1, <2>1, <2>2, <2>3, AnswerKeeps
<1>3. CASE i # 0
  <2>1. i \in 1 .. Len(shms) /\ shms[i].valid BY <1>3, LookupIs
  <2>2. mapped' = [mapped EXCEPT ![Proc[p]] = r] BY <1>3 DEF shmat, Lists
  <2>3. \/ HelperBusy /\ syscall_common(p, s, [c EXCEPT ![p].wait_reason = "shmat"], 0)
        \/ /\ cfg' = [c EXCEPT ![p].chain_state = "socket"]
           /\ kern' = [kern EXCEPT ![p] = "call"]
           /\ UNCHANGED <<sigstop, nintr, ndeath>>
    BY <1>3 DEF shmat
  <2>4. Listing(l, shms) /\ Len(l) \in Nat BY ListFacts
  <2>5. /\ Listing(r, shms) /\ Len(r) = Len(l) + 1 /\ r[1] = m
        /\ \A k \in 2 .. Len(r) : r[k] = l[k - 1]
    BY <2>1, <2>4, ListingBegun
  <2>6. m.idx = i /\ m.fd = 0 OBVIOUS
  <2>7. DOMAIN cfg[p] = Fields /\ cfg[p].wait_reason = "none" /\ cfg[p].chain_state = "none"
        /\ cfg[p].wait_state = "not" /\ p \notin sigstop
    BY <1>1, UserFacts DEF Config, Rests
  <2>8. nintr = 0 => \A k \in Nat : ~Half(l, k) BY <1>1, UserFacts
  <2>9. /\ DOMAIN c = Tracee /\ \A u \in Tracee \ {p} : c[u] = cfg[u]
        /\ DOMAIN c[p] = Fields /\ c[p].wait_reason = "none" /\ c[p].chain_state = "none"
        /\ c[p].wait_state = "not" /\ c[p].waiting_object_index = i
    BY <2>7 DEF Fields
  <2> HIDE DEF m, r, l, c, i
  <2>10. DOMAIN mapped' = Procs /\ mapped'[Proc[p]] = r
         /\ \A q \in Procs : mapped'[q] = IF q = Proc[p] THEN r ELSE mapped[q]
    BY <2>2 DEF Lists, Procs
  <2>11. Lists' BY <1>1, <2>5, <2>10 DEF Lists
  <2>12. Slots' /\ Len(shms') = Len(shms) BY <1>1 DEF Slots
  <2>13. Removed'
    <3>1. ASSUME NEW j \in 1 .. Len(shms), shms[j].rmid_pending PROVE ~NoMapping(mapped', j)
      <4>1. PICK q \in Procs : \E k \in 1 .. Len(mapped[q]) : mapped[q][k].idx = j
        BY <3>1 DEF Removed, NoMapping, Members
      <4>2. PICK k \in 1 .. Len(mapped[q]) : mapped[q][k].idx = j BY <4>1
      <4>3. CASE q # Proc[p] BY <2>10, <4>2, <4>3 DEF NoMapping, Members
      <4>4. CASE q = Proc[p]
        <5>1. k \in 1 .. Len(l) /\ l[k].idx = j BY <4>2, <4>4 DEF l
        <5>2. k + 1 \in 2 .. Len(r) /\ (k + 1) - 1 = k BY <2>4, <2>5, <5>1
        <5>3. r[k + 1] = l[(k + 1) - 1] BY <2>5, <5>2
        <5>4. k + 1 \in 1 .. Len(r) /\ r[k + 1].idx = j BY <2>4, <2>5, <5>1, <5>2, <5>3
        <5> QED BY <2>10, <4>4, <5>4 DEF NoMapping, Members
      <4> QED BY <4>3, <4>4
    <3> QED BY <1>1, <3>1 DEF Removed, NoMapping
  <2>14. \A u \in Tracee \ {p} : mapped'[Proc[u]] = mapped[Proc[u]]
    BY <2>10 DEF Procs, SingleThreaded
  <2>15. Half(r, 1) /\ r[1].idx = i BY <2>4, <2>5, <2>6 DEF Half
  <2>16. nintr = 0 => \A k \in Nat : Half(r, k) => k = 1
    <3> SUFFICES ASSUME nintr = 0, NEW k \in Nat, Half(r, k), k # 1 PROVE FALSE OBVIOUS
    <3>1. k \in 2 .. Len(r) /\ r[k].fd = 0 BY <2>4, <2>5 DEF Half
    <3>2. k - 1 \in 1 .. Len(l) /\ l[k - 1].fd = 0 BY <2>4, <2>5, <3>1
    <3> QED BY <2>8, <3>2 DEF Half
  \* The guest has begun to wait, or the chain has begun.
  <2>17. ASSUME /\ DOMAIN cfg'[p] = Fields
                /\ cfg'[p].waiting_object_index = i /\ kern'[p] \in Places
                /\ cfg'[p].chain_state \in {"none", "socket"} /\ Config(p)'
                /\ Placed(p)' /\ Alive(p)' /\ (Waits(p)' \/ Chained(p)')
                /\ DOMAIN cfg' = Tracee /\ kern' \in [Tracee -> Places]
                /\ UNCHANGED <<sigstop, nintr, ndeath>>
                /\ \A u \in Tracee \ {p} : kern'[u] = kern[u] /\ cfg'[u] = cfg[u]
                /\ Handed' \/ ~Waits(p)'
         PROVE  ShmInv'
    <3>1. Asked(p)'
      <4>1. ForCall(mapped[Proc[p]], 1, p)' BY <2>10, <2>15, <2>17 DEF ForCall, Half
      <4> QED BY <2>10, <4>1 DEF Asked
    <3>2. Owned(p)'
      <4>1. kern'[p] # "gone" BY <2>17 DEF Alive
      <4>2. ASSUME nintr' = 0, NEW k \in Nat, Half(r, k)
            PROVE  r[k].idx = cfg'[p].waiting_object_index /\ \A j \in Nat : Half(r, j) => j = k
        BY <2>15, <2>16, <2>17, <4>2
      <4>3. nintr' = 0 => \A k \in Nat : Half(mapped'[Proc[p]], k) =>
                            ForCall(mapped[Proc[p]], k, p)'
                            /\ \A j \in Nat : Half(mapped'[Proc[p]], j) => j = k
        BY <2>10, <4>2 DEF ForCall, Half
      <4> QED BY <2>17, <4>1, <4>3 DEF Owned, Half
    <3>3. Guest(p)' BY <2>17, <3>1, <3>2 DEF Guest
    <3>4. \A u \in Tracee \ {p} : /\ kern'[u] = kern[u] /\ mapped'[Proc[u]] = mapped[Proc[u]]
                                  /\ Left(u) /\ inbox'[u] = inbox[u]
      BY <1>1, <2>14, <2>17 DEF Left
    <3>5. /\ nintr' \in Nat /\ nintr <= nintr' /\ ndeath' \in Nat /\ ndeath <= ndeath'
          /\ Len(shms) <= Len(shms') /\ requests' \in Seq(1 .. MaxSerial)
          /\ inbox' \in [Tracee -> 0 .. MaxSerial] /\ cfg'[p].chain_state # "mmap"
      BY <1>1, <2>12, <2>17
    <3>6. \/ Handed'
          \/ /\ kern'[p] = "dead" => ~Waits(p)' /\ ~Chained(p)'
             /\ kern'[p] # "gone" /\ Waits(p)' => kern[p] # "gone" /\ Waits(p)
             /\ Alive(p) /\ Chained(p) => Alive(p)' /\ Chained(p)'
      BY <1>1, <2>17, UserFacts DEF Alive
    <3> QED BY <2>11, <2>12, <2>13, <2>17, <3>3, <3>4, <3>5, <3>6, StepKeeps
  <2>18. CASE /\ cfg' = [c EXCEPT ![p].chain_state = "socket"]
              /\ kern' = [kern EXCEPT ![p] = "call"]
              /\ UNCHANGED <<sigstop, nintr, ndeath>>
    <3>1. /\ kern' \in [Tracee -> Places] /\ kern'[p] = "call"
          /\ \A u \in Tracee \ {p} : kern'[u] = kern[u]
      BY <2>18, PlaceSet DEF Places
    <3>2. /\ DOMAIN cfg' = Tracee /\ \A u \in Tracee \ {p} : cfg'[u] = cfg[u]
          /\ DOMAIN cfg'[p] = Fields /\ cfg'[p].wait_reason = "none"
          /\ cfg'[p].chain_state = "socket"
          /\ cfg'[p].wait_state = "not" /\ cfg'[p].waiting_object_index = i
      BY <2>9, <2>18 DEF Fields
    <3>3. Config(p)' BY <2>1, <2>12, <3>2 DEF Config, WaitStates, ShmatChain
    <3>4. Chained(p)' /\ ~Waits(p)' /\ Alive(p)' BY <3>1, <3>2 DEF Chained, Waits, Alive, ShmatChain
    <3>5. Placed(p)' BY <2>7, <2>18, <3>1, <3>2, <3>4 DEF Placed
    <3> QED BY <2>17, <2>18, <3>1, <3>2, <3>3, <3>4, <3>5
  <2>19. CASE HelperBusy /\ syscall_common(p, s, [c EXCEPT ![p].wait_reason = "shmat"], 0)
    <3> DEFINE w == [c EXCEPT ![p].wait_reason = "shmat"]
    <3>1. /\ DOMAIN w = Tracee /\ \A u \in Tracee \ {p} : w[u] = cfg[u]
          /\ DOMAIN w[p] = Fields /\ w[p].wait_reason = "shmat" /\ w[p].chain_state = "none"
          /\ w[p].wait_state = "not" /\ w[p].waiting_object_index = i
      BY <2>9 DEF Fields
    <3>2. syscall_common(p, s, w, 0) BY <2>19
    <3> HIDE DEF w
    <3>3. Signaled(w) = {} BY <3>1 DEF Signaled
    <3> DEFINE st == IF s THEN "restarted" ELSE "entered"
               k == IF s THEN "restart" ELSE "ppoll"
    <3>4. /\ cfg' = [w EXCEPT ![p].wait_state = st] /\ kern' = [kern EXCEPT ![p] = k]
          /\ UNCHANGED <<sigstop, nintr, ndeath>>
      BY <3>1, <3>2, <3>3 DEF syscall_common
    <3>5. (st = "restarted" /\ k = "restart") \/ (st = "entered" /\ k = "ppoll") OBVIOUS
    <3> HIDE DEF st, k
    <3>6. k \in Places BY <3>5 DEF Places, Kern
    <3>7. kern' \in [Tracee -> Places] /\ kern'[p] = k /\ \A u \in Tracee \ {p} : kern'[u] = kern[u]
      BY <3>4, <3>6, PlaceSet
    <3>8. /\ DOMAIN cfg' = Tracee /\ \A u \in Tracee \ {p} : cfg'[u] = cfg[u]
          /\ DOMAIN cfg'[p] = Fields /\ cfg'[p].wait_reason = "shmat"
          /\ cfg'[p].chain_state = "none"
          /\ cfg'[p].wait_state = st /\ cfg'[p].waiting_object_index = i
      BY <3>1, <3>4 DEF Fields
    <3>9. Config(p)' BY <2>1, <2>12, <3>5, <3>8 DEF Config, WaitStates
    <3>10. Waits(p)' /\ ~Chained(p)' /\ Alive(p)'
      BY <3>5, <3>7, <3>8 DEF Chained, Waits, Alive, ShmatChain
    <3>11. Placed(p)' BY <2>7, <3>4, <3>5, <3>7, <3>8, <3>10 DEF Placed, Sleeps
    <3>12. Handed'
      <4> SUFFICES ASSUME ndeath' = 0, NEW q \in Tracee
                   PROVE  /\ kern'[q] = "dead" => ~Waits(q)' /\ ~Chained(q)'
                          /\ kern'[q] # "gone" /\ Waits(q)' =>
                                \E u \in Tracee : Alive(u)' /\ Chained(u)'
        BY DEF Handed
      <4>1. ndeath = 0 BY <3>4
      <4>2. PICK u \in Listed : cfg[u].chain_state \in ShmatChain \ {"socket"} BY <2>19 DEF HelperBusy
      <4>3. u \in Tracee /\ kern[u] # "gone" /\ Chained(u) BY <4>2 DEF Listed, Chained
      <4>4. kern[u] # "dead" BY <4>1, <4>3 DEF ShmInv, Handed
      <4>5. u # p BY <1>1, <4>3, UserFacts
      <4>6. Alive(u)' /\ Chained(u)' BY <3>7, <3>8, <4>3, <4>4, <4>5 DEF Alive, Chained
      <4>7. CASE q = p BY <3>10, <4>3, <4>6, <4>7 DEF Alive
      <4>8. CASE q # p
        <5>1. kern'[q] = kern[q] /\ cfg'[q] = cfg[q] BY <3>7, <3>8, <4>8
        <5>2. kern[q] = "dead" => ~Waits(q) /\ ~Chained(q) BY <4>1 DEF ShmInv, Handed
        <5> QED BY <4>3, <4>6, <5>1, <5>2 DEF Waits, Chained
      <4> QED BY <4>7, <4>8
    <3> QED BY <2>17, <3>4, <3>7, <3>8, <3>9, <3>10, <3>11, <3>12
  <2> QED BY <2>3, <2>18, <2>19
<1> QED BY <1>2, <1>3

\* The end of a chain: the guest is back in its program, and the first of those who wait
\* is woken.
LEMMA EndIs ==
    ASSUME ShmInv, NEW p \in Tracee, kern[p] \in {"call", "connected"}, NEW st, ChainEnds(p, st)
    PROVE  /\ DOMAIN cfg' = Tracee /\ cfg'[p] = Idle /\ p \notin sigstop'
           /\ \A u \in Tracee \ {p} : Left(u) \/ Roused(u)
           /\ (\E u \in Tracee \ {p} : kern[u] # "gone" /\ Waits(u)) => \E u \in Tracee \ {p} : Roused(u)
<1> USE InvFacts
<1> DEFINE b == [cfg EXCEPT ![p] = Idle]
           W == {u \in Listed : b[u].wait_reason = "shmat"}
           f == First(W)
<1>1. cfg' = WakePending(b) /\ sigstop' = sigstop \cup Signaled(cfg') BY DEF ChainEnds
<1>2. p \notin sigstop /\ cfg[p].wait_state = "not" BY DEF Placed
<1>3. DOMAIN b = Tracee /\ b[p] = Idle /\ \A u \in Tracee \ {p} : b[u] = cfg[u] OBVIOUS
<1>4. \A u : u \in W <=> u \in Tracee \ {p} /\ kern[u] # "gone" /\ Waits(u)
  BY <1>3, IdleIs DEF Listed, Waits
<1>5. cfg' = IF W = {} THEN b
             ELSE [b EXCEPT ![f] = Woken([@ EXCEPT !.chain_state = "socket"], 0)]
  BY <1>1 DEF WakePending
<1> HIDE DEF b, W
<1>6. W # {} => f \in W
  <2>1. N \in Nat /\ W \in SUBSET (1 .. N) BY <1>4, NAssumption DEF Tracee
  <2> QED BY <2>1, FirstIn
<1> HIDE DEF f
<1>7. CASE W = {}
  <2>1. cfg' = b BY <1>5, <1>7
  <2>2. \A u \in Tracee : cfg[u].wait_state = "entered" => ~(cfg'[u].wait_state = "signaled")
    BY <1>2, <1>3, <2>1
  <2>3. sigstop' = sigstop BY <1>1, <2>2 DEF Signaled
  <2>4. \A u \in Tracee \ {p} : Left(u) BY <1>3, <2>1, <2>3 DEF Left
  <2> QED BY <1>2, <1>3, <1>4, <1>7, <2>1, <2>3, <2>4
<1>8. CASE W # {}
  <2>1. f \in Tracee \ {p} /\ kern[f] # "gone" /\ Waits(f) BY <1>4, <1>6, <1>8
  <2>2. b[f] = cfg[f] BY <1>3, <2>1
  <2>3. /\ DOMAIN cfg' = Tracee /\ cfg'[p] = Idle
        /\ \A u \in Tracee \ {p, f} : cfg'[u] = cfg[u]
        /\ cfg'[f] = Woken([cfg[f] EXCEPT !.chain_state = "socket"], 0)
    BY <1>3, <1>5, <1>8, <2>1, <2>2
  <2>4. \A u \in sigstop' : u \in sigstop \/ (u = f /\ cfg[u].wait_state = "entered")
    <3>1. \A u \in Tracee : cfg[u].wait_state = "entered" /\ cfg'[u].wait_state = "signaled" => u = f
      BY <1>2, <2>3
    <3> QED BY <1>1, <3>1 DEF Signaled
  <2>5. Roused(f) BY <2>1, <2>3, <2>4 DEF Roused
  <2>6. \A u \in Tracee \ {p, f} : Left(u) BY <2>3, <2>4 DEF Left
  <2>7. p \notin sigstop' BY <1>2, <2>1, <2>4
  <2> QED BY <2>1, <2>3, <2>5, <2>6, <2>7
<1> QED BY <1>7, <1>8

LEMMA EndKeeps ==
    ASSUME ShmInv, NEW p \in Tracee, kern[p] \in {"call", "connected"}, NEW st, ChainEnds(p, st),
           Slots', Lists', Removed', Len(shms') = Len(shms), UNCHANGED requests,
           \A u \in Tracee \ {p} : mapped'[Proc[u]] = mapped[Proc[u]],
           nintr = 0 => \A k \in Nat : ~Half(mapped'[Proc[p]], k)
    PROVE  ShmInv'
<1> USE InvFacts
<1>1. /\ kern' = [kern EXCEPT ![p] = "user"] /\ inbox' = [inbox EXCEPT ![p] = 0]
      /\ UNCHANGED <<nintr, ndeath, serial>>
  BY DEF ChainEnds
<1>2. kern' \in [Tracee -> Places] /\ kern'[p] = "user" /\ \A u \in Tracee \ {p} : kern'[u] = kern[u]
  BY <1>1, PlaceSet DEF Places, Kern
<1>3. Guest(p)'
  <2>1. Config(p)' BY EndIs, IdleIs DEF Config, WaitStates
  <2>2. Placed(p)' BY <1>2, EndIs, IdleIs DEF Placed, Rests, Waits, Chained, ShmatChain
  <2>3. Asked(p)' BY EndIs, IdleIs DEF Asked, Waits, Chained, ShmatChain
  <2>4. Owned(p)' BY <1>1, <1>2 DEF Owned, Half
  <2> QED BY <2>1, <2>2, <2>3, <2>4 DEF Guest
<1>4. inbox' \in [Tracee -> 0 .. MaxSerial] /\ \A u \in Tracee \ {p} : inbox'[u] = inbox[u]
  <2>1. MaxSerial \in Nat BY ShmAssumption
  <2> QED BY <1>1, <2>1
<1>5. \A u \in Tracee \ {p} : /\ kern'[u] = kern[u] /\ mapped'[Proc[u]] = mapped[Proc[u]]
                              /\ Left(u) \/ Roused(u)
                              /\ inbox'[u] = inbox[u] \/ inbox'[u] # 0
  BY <1>2, <1>4, EndIs
<1>6. Handed'
  <2> SUFFICES ASSUME ndeath' = 0, NEW q \in Tracee
               PROVE  /\ kern'[q] = "dead" => ~Waits(q)' /\ ~Chained(q)'
                      /\ kern'[q] # "gone" /\ Waits(q)' => \E u \in Tracee : Alive(u)' /\ Chained(u)'
    BY DEF Handed
  <2>1. ndeath = 0 BY <1>1
  <2>2. ~Waits(p)' /\ kern'[p] # "dead" BY <1>2, EndIs, IdleIs DEF Waits
  <2>3. CASE q = p BY <2>2, <2>3
  <2>4. CASE q # p
    <3>1. kern'[q] = kern[q] /\ (Left(q) \/ Roused(q)) BY <1>5, <2>4
    <3>2. kern[q] = "dead" => ~Waits(q) /\ ~Chained(q) BY <2>1 DEF ShmInv, Handed
    <3>3. kern[q] = "dead" => ~Waits(q)' /\ ~Chained(q)'
      BY <3>1, <3>2 DEF Left, Roused, Waits, Chained
    <3>4. ASSUME kern'[q] # "gone", Waits(q)' PROVE \E u \in Tracee : Alive(u)' /\ Chained(u)'
      <4>1. Waits(q)
        <5>1. Config(q) OBVIOUS
        <5>2. Roused(q) => Waits(q) BY DEF Roused
        <5>3. Left(q) => Waits(q) BY <3>4 DEF Left, Waits
        <5> QED BY <3>1, <5>2, <5>3
      <4>2. PICK u \in Tracee \ {p} : Roused(u) BY <2>4, <3>1, <3>4, <4>1, EndIs
      <4>3. kern[u] # "gone" /\ Waits(u) /\ kern'[u] = kern[u] BY <1>2, <4>2 DEF Roused
      <4>4. kern[u] # "dead" BY <2>1, <4>3 DEF ShmInv, Handed
      <4>5. cfg'[u].chain_state = "socket"
        <5>1. DOMAIN cfg[u] = Fields BY DEF Config
        <5> QED BY <4>2, <5>1 DEF Roused, Woken, Fields
      <4>6. Alive(u)' /\ Chained(u)' BY <4>3, <4>4, <4>5 DEF Alive, Chained, ShmatChain
      <4> QED BY <4>6
    <3> QED BY <3>1, <3>3, <3>4
  <2> QED BY <2>3, <2>4
<1>7. cfg'[p].chain_state # "mmap" BY EndIs, IdleIs
<1>8. nintr' \in Nat /\ nintr <= nintr' /\ ndeath' \in Nat /\ ndeath <= ndeath'
      /\ Len(shms) <= Len(shms') /\ requests' \in Seq(1 .. MaxSerial) /\ DOMAIN cfg' = Tracee
  BY <1>1, EndIs
<1> QED BY <1>2, <1>3, <1>4, <1>5, <1>6, <1>7, <1>8, StepKeeps

\* The mapping a chain is for: while nothing was interrupted, the only one that is half
\* mapped.
LEMMA PendingIs ==
    ASSUME ShmInv, NEW p \in Tracee, Alive(p), Chained(p)
    PROVE  LET l == mapped[Proc[p]]
               k == PendingAt(p)
           IN  /\ Listing(l, shms) /\ l \in Seq(Mapping) /\ Len(l) \in Nat
               /\ k \in 1 .. Len(l) /\ Half(l, k)
               /\ nintr = 0 => \A j \in Nat : Half(l, j) => j = k
<1> USE InvFacts
<1>1. /\ PendingAt(p) \in 1 .. Len(mapped[Proc[p]])
      /\ Half(mapped[Proc[p]], PendingAt(p))
  BY PendingFound DEF Asked, ForCall
<1>2. Listing(mapped[Proc[p]], shms) /\ mapped[Proc[p]] \in Seq(Mapping)
      /\ Len(mapped[Proc[p]]) \in Nat
  BY ListFacts
<1>3. PendingAt(p) \in Nat BY <1>1, <1>2
<1> QED BY <1>1, <1>2, <1>3 DEF Owned

LEMMA ChainMmapKeeps ==
    ASSUME ShmInv, SingleThreaded, NEW p \in Tracee, ChainMmap(p)
    PROVE  ShmInv'
<1> USE InvFacts
<1> DEFINE l == mapped[Proc[p]]
           k == PendingAt(p)
           f == inbox[p]
<1>1. /\ kern[p] = "call" /\ cfg[p].chain_state = "mmap" /\ Alive(p) /\ Chained(p)
      /\ UNCHANGED <<shms, backlog, requests>>
  BY DEF ChainMmap, Alive, Chained, ShmatChain
<1>2. PICK a \in Mmapped(l, shms[cfg[p].waiting_object_index].size) :
        /\ mapped' = [mapped EXCEPT ![Proc[p]][k] = [@ EXCEPT !.addr = a, !.fd = f]]
        /\ ChainEnds(p, a)
  BY DEF ChainMmap
<1>3. /\ Listing(l, shms) /\ l \in Seq(Mapping) /\ Len(l) \in Nat /\ k \in 1 .. Len(l)
      /\ nintr = 0 => \A j \in Nat : Half(l, j) => j = k
  BY <1>1, PendingIs
<1>4. f \in Nat \ {0}
  <2>1. f # 0 BY <1>1 DEF ShmInv, Descriptors, Alive
  <2>2. MaxSerial \in Nat /\ f \in 0 .. MaxSerial BY ShmAssumption
  <2> QED BY <2>1, <2>2
<1>5. a \in Int \ {0} /\ (a > 0 => \A j \in 1 .. Len(l) : l[j].addr # a)
  <2>1. MaxAddr \in Nat BY ShmAssumption
  <2>2. a \in {EINVAL, ENOMEM} \/ (a \in 1 .. MaxAddr /\ \A m \in Members(l) : m.addr # a)
    BY <1>2 DEF Mmapped
  <2> QED BY <2>1, <2>2 DEF Members, EINVAL, ENOMEM
<1> DEFINE m == [l[k] EXCEPT !.addr = a, !.fd = f]
           r == [l EXCEPT ![k] = m]
<1>6. mapped' = [mapped EXCEPT ![Proc[p]] = r]
  BY <1>2, ListFacts DEF Lists
<1> HIDE DEF f, k
<1>7. /\ Listing(r, shms) /\ Len(r) = Len(l) /\ r[k].idx = l[k].idx /\ r[k].fd = f
      /\ \A j \in 1 .. Len(l) : j # k => r[j] = l[j]
  <2> HIDE DEF l
  <2>1. Listing(l, shms) /\ k \in 1 .. Len(l) BY <1>3
  <2>2. a \in Int \ {0} /\ (a > 0 => \A j \in 1 .. Len(l) : l[j].addr # a) BY <1>5
  <2>3. m \in Mapping /\ m.idx = l[k].idx /\ m.addr = a /\ m.fd = f
    <3>1. l[k] \in Mapping BY <2>1 DEF Listing
    <3> QED BY <2>2, <3>1, <1>4 DEF Mapping
  <2>4. r = [l EXCEPT ![k] = m] OBVIOUS
  <2> HIDE DEF m, r
  <2>5. /\ r \in Seq(Mapping) /\ Len(r) = Len(l)
        /\ \A j \in 1 .. Len(l) : r[j] = IF j = k THEN m ELSE l[j]
    BY <1>3, <2>1, <2>3, <2>4, ExceptSeq
  \* It gets an address that no other has, or an errno.
  <2>6. \A j \in 1 .. Len(r) : /\ r[j].addr = 0 <=> r[j].fd = 0
                               /\ r[j].idx \in 1 .. Len(shms) /\ shms[r[j].idx].valid
    BY ONLY <2>1, <2>2, <2>3, <2>5, <1>4 DEF Listing
  <2>7. \A i, j \in 1 .. Len(r) : r[i].addr > 0 /\ i # j => r[i].addr # r[j].addr
    <3> SUFFICES ASSUME NEW i \in 1 .. Len(r), NEW j \in 1 .. Len(r), r[i].addr > 0, i # j
                 PROVE  r[i].addr # r[j].addr
      OBVIOUS
    <3>1. i \in 1 .. Len(l) /\ j \in 1 .. Len(l) BY <2>5
    <3>2. CASE i = k BY ONLY <2>2, <2>3, <2>5, <3>1, <3>2, i # j, r[i].addr > 0
    <3>3. CASE j = k BY ONLY <2>2, <2>3, <2>5, <3>1, <3>3, i # j, r[i].addr > 0
    <3>4. CASE i # k /\ j # k
      BY ONLY <2>1, <2>5, <3>1, <3>4, i # j, r[i].addr > 0 DEF Listing
    <3> QED BY <3>2, <3>3, <3>4
  <2>8. Listing(r, shms) BY ONLY <2>5, <2>6, <2>7 DEF Listing
  <2> QED BY <2>1, <2>3, <2>5, <2>8
<1> HIDE DEF r, l
<1>8. DOMAIN mapped' = Procs /\ mapped'[Proc[p]] = r
      /\ \A q \in Procs : mapped'[q] = IF q = Proc[p] THEN r ELSE mapped[q]
  BY <1>6 DEF Lists, Procs
<1>9. Lists' BY <1>1, <1>7, <1>8 DEF Lists
<1>10. Slots' /\ Len(shms') = Len(shms)
  <2>1. serial' = serial BY <1>2 DEF ChainEnds
  <2> QED BY <1>1, <2>1 DEF Slots
<1>11. Removed'
  <2>1. ASSUME NEW i \in 1 .. Len(shms), shms[i].rmid_pending PROVE ~NoMapping(mapped', i)
    <3>1. PICK q \in Procs : \E j \in 1 .. Len(mapped[q]) : mapped[q][j].idx = i
      BY <2>1 DEF Removed, NoMapping, Members
    <3>2. PICK j \in 1 .. Len(mapped[q]) : mapped[q][j].idx = i BY <3>1
    <3>3. CASE q # Proc[p] BY <1>8, <3>2, <3>3 DEF NoMapping, Members
    <3>4. CASE q = Proc[p]
      <4>1. j \in 1 .. Len(l) /\ l[j].idx = i BY <3>2, <3>4 DEF l
      <4>2. j \in 1 .. Len(r) /\ r[j].idx = i BY <1>7, <4>1
      <4> QED BY <1>8, <3>4, <4>2 DEF NoMapping, Members
    <3> QED BY <3>3, <3>4
  <2> QED BY <1>1, <2>1 DEF Removed, NoMapping
<1>12. \A u \in Tracee \ {p} : mapped'[Proc[u]] = mapped[Proc[u]]
  BY <1>8 DEF Procs, SingleThreaded
<1>13. nintr = 0 => \A j \in Nat : ~Half(r, j)
  BY <1>3, <1>4, <1>7 DEF Half
<1> QED BY <1>1, <1>2, <1>8, <1>9, <1>10, <1>11, <1>12, <1>13, EndKeeps

LEMMA ChainFailsKeeps ==
    ASSUME ShmInv, SingleThreaded, NEW p \in Tracee, ChainFails(p)
    PROVE  ShmInv'
<1> USE InvFacts
<1> DEFINE l == mapped[Proc[p]]
           k == PendingAt(p)
           r == RemoveAt(l, k)
           mp == [mapped EXCEPT ![Proc[p]] = r]
<1>1. /\ kern[p] \in {"call", "connected"} /\ UNCHANGED requests
      /\ Alive(p) /\ Chained(p) /\ ChainEnds(p, ENOMEM)
  BY DEF ChainFails, Alive, Chained
<1>2. Unmap(mp) BY DEF ChainFails, DropPending, Lists
<1>3. /\ Listing(l, shms) /\ l \in Seq(Mapping) /\ Len(l) \in Nat /\ k \in 1 .. Len(l)
      /\ nintr = 0 => \A j \in Nat : Half(l, j) => j = k
  BY <1>1, PendingIs
<1> HIDE DEF k
<1>4. Listing(r, shms) BY <1>3, ListingWithout
<1>5. nintr = 0 => \A j \in Nat : ~Half(r, j)
  <2> SUFFICES ASSUME nintr = 0, NEW j \in Nat, Half(r, j) PROVE FALSE OBVIOUS
  <2>1. Len(r) = Len(l) - 1 BY <1>3, Without
  <2>2. j \in 1 .. Len(l) - 1 /\ r[j].fd = 0 BY <2>1 DEF Half
  <2>3. r[j] = l[IF j < k THEN j ELSE j + 1] BY <1>3, <2>2, Without
  <2> DEFINE n == IF j < k THEN j ELSE j + 1
  <2>4. n \in 1 .. Len(l) /\ n \in Nat /\ n # k BY <1>3, <2>2
  <2> HIDE DEF n, r, l
  <2>5. r[j] = l[n] BY <2>3 DEF n
  <2>6. Half(l, n) BY <2>2, <2>4, <2>5 DEF Half
  <2> QED BY <1>3, <2>4, <2>6
<1> HIDE DEF r, l
<1>6. DOMAIN mp = Procs /\ \A q \in Procs : mp[q] = IF q = Proc[p] THEN r ELSE mapped[q]
  BY DEF Lists
<1>7. \A q \in Procs : Listing(mp[q], shms) BY <1>4, <1>6 DEF Lists
<1>8. serial' = serial BY <1>1 DEF ChainEnds
<1> HIDE DEF mp
<1>9. Slots' /\ Lists' /\ Removed' /\ Len(shms') = Len(shms) /\ mapped' = mp
  BY <1>2, <1>6, <1>7, <1>8, UnmapKeeps
<1>10. mapped'[Proc[p]] = r /\ \A u \in Tracee \ {p} : mapped'[Proc[u]] = mapped[Proc[u]]
  BY <1>6, <1>9 DEF Procs, SingleThreaded
<1> QED BY <1>1, <1>5, <1>9, <1>10, EndKeeps

-----------------------------------------------------------------------------
LEMMA ShmInvInit == ShmInit => ShmInv
<1> SUFFICES ASSUME ShmInit PROVE ShmInv OBVIOUS
<1>1. MaxSerial \in Nat BY ShmAssumption
<1>2. shms = <<>> /\ Len(shms) = 0 /\ shms \in Seq(Slot) BY DEF ShmInit
<1>3. \A p \in Tracee : cfg[p] = Idle /\ kern[p] \in {"user", "gone"} /\ p \notin sigstop
  BY DEF ShmInit
<1>4. \A q \in Procs : mapped[q] = <<>> BY DEF ShmInit
<1>5. Shape BY DEF ShmInit, Shape, Kern
<1>6. Slots BY <1>1, <1>2 DEF ShmInit, Slots
<1>7. Lists BY DEF ShmInit, Lists, Listing
<1>8. Removed BY <1>2 DEF Removed
<1>9. ASSUME NEW p \in Tracee PROVE Guest(p)
  <2>1. Config(p) BY <1>2, <1>3, IdleIs DEF Config, WaitStates
  <2>2. Placed(p) BY <1>3, IdleIs DEF Placed, Rests, Waits, Chained, ShmatChain
  <2>3. Asked(p) BY <1>3, IdleIs DEF Asked, Waits, Chained, ShmatChain
  <2>4. Owned(p) BY <1>4 DEF Owned, Half, Procs
  <2> QED BY <2>1, <2>2, <2>3, <2>4 DEF Guest
<1>10. Descriptors
  <2>1. requests = <<>> /\ inbox = [p \in Tracee |-> 0] BY DEF ShmInit
  <2>2. requests \in Seq(1 .. MaxSerial) BY <2>1
  <2>3. inbox \in [Tracee -> 0 .. MaxSerial] BY <1>1, <2>1
  <2> QED BY <1>3, <2>2, <2>3, IdleIs DEF Descriptors
<1>11. Handed BY <1>3, IdleIs DEF Handed, Waits, Chained
<1> QED BY <1>5, <1>6, <1>7, <1>8, <1>9, <1>10, <1>11 DEF ShmInv

LEMMA ShmInvNext == ASSUME SingleThreaded PROVE ShmInv /\ [ShmNext]_shmvars => ShmInv'
<1> SUFFICES ASSUME ShmInv, [ShmNext]_shmvars PROVE ShmInv' OBVIOUS
<1>1. CASE HelperDistribute BY <1>1, HelperKeeps
<1>2. ASSUME NEW p \in Tracee, ShmCall(p) PROVE ShmInv'
  BY <1>2, ShmgetKeeps, ShmatKeeps, ShmctlKeeps, ShmdtKeeps DEF ShmCall
<1>3. ASSUME NEW p \in Tracee, Kernel(p) PROVE ShmInv'
  BY <1>3, PpollEnterKeeps, PpollEndKeeps, DeathKeeps DEF Kernel
<1>4. ASSUME NEW p \in Tracee, Chain(p) PROVE ShmInv'
  BY <1>4, ChainedEnterKeeps, ChainedExitKeeps, ExitStartKeeps, ChainSocketKeeps, ConnectKeeps,
     ChainConnectKeeps, ChainRecvmsgKeeps, ChainMmapKeeps DEF Chain
<1>5. ASSUME NEW p \in Tracee, ChainFails(p) \/ Execve(p) \/ ExitGroup(p) \/ FreeTracee(p)
      PROVE  ShmInv'
  BY <1>5, ChainFailsKeeps, ExecveKeeps, DeathKeeps, FreeTraceeKeeps
<1>6. ASSUME NEW p \in Tracee, NEW u \in Tracee, Fork(p, u) PROVE ShmInv'
  BY <1>6, ForkKeeps
<1>7. CASE UNCHANGED shmvars
  <2>1. UNCHANGED <<cfg, kern, sigstop, nintr, ndeath, shms, mapped, requests, inbox, serial>>
    BY <1>7 DEF shmvars
  <2>2. Shape' /\ Slots' /\ Lists' /\ Removed' BY <2>1 DEF ShmInv, Shape, Slots, Lists, Removed
  <2>3. Descriptors' /\ Handed'
    BY <2>1 DEF ShmInv, Descriptors, Handed, Waits, Chained, Alive
  <2>4. \A u \in Tracee : Guest(u)'
    BY <2>1 DEF ShmInv, Guest, Config, Placed, Asked, Owned, Rests, Woke, Sleeps, Waits, Chained,
                Alive, ForCall, Half
  <2> QED BY <2>2, <2>3, <2>4 DEF ShmInv
<1> QED BY <1>1, <1>2, <1>3, <1>4, <1>5, <1>6, <1>7 DEF ShmNext

LEMMA ShmInvSound == ASSUME ShmInv, SingleThreaded PROVE SegmentsSound
<1> USE InvFacts
<1>1. ShmTypes
  <2>1. \A p \in Tracee :
         /\ cfg[p].wait_reason \in {"none", "shmat"} /\ cfg[p].wait_state \in WaitStates
         /\ cfg[p].chain_state \in ShmatChain \cup {"none"}
         /\ cfg[p].waiting_object_index \in 0 .. Len(shms)
    BY DEF Config
  <2>2. \A i \in 1 .. Len(shms) : shms[i].valid => shms[i].fd \in 1 .. serial
    BY DEF ShmInv, Slots
  <2>3. \A q \in Procs : \A k, l \in 1 .. Len(mapped[q]) :
         /\ mapped[q][k].addr = 0 <=> mapped[q][k].fd = 0
         /\ mapped[q][k].addr > 0 /\ k # l => mapped[q][k].addr # mapped[q][l].addr
    BY DEF ShmInv, Lists, Listing
  <2> QED BY <2>1, <2>2, <2>3 DEF ShmTypes, ShmInv, Shape, Descriptors
<1>2. LivesWhileMapped
  BY DEF LivesWhileMapped, ShmInv, Lists, Listing, Members, Removed
<1>3. ChainHasMapping
  <2>1. ASSUME NEW p \in Tracee, InChain(p) PROVE PendingAt(p) # 0
    <3>1. Alive(p) /\ Chained(p) BY <2>1 DEF InChain, Listed, Alive, Chained
    <3>2. ForCall(mapped[Proc[p]], 1, p) BY <3>1 DEF Asked
    <3> QED BY <3>2, PendingFound DEF ShmInv
  <2> QED BY <2>1 DEF ChainHasMapping
<1>4. PendingHasOwner
  <2> SUFFICES ASSUME nintr = 0, NEW q \in Procs, NEW m \in Members(mapped[q]), m.fd = 0
               PROVE  \E p \in Listed : /\ Proc[p] = q /\ cfg[p].waiting_object_index = m.idx
                                        /\ cfg[p].chain_state \in ShmatChain \/ cfg[p].wait_reason = "shmat"
    BY DEF PendingHasOwner
  <2>1. PICK p \in Tracee : q = Proc[p] BY DEF Procs
  <2>2. PICK k \in 1 .. Len(mapped[q]) : m = mapped[q][k] BY DEF Members
  <2>3. k \in Nat /\ Half(mapped[Proc[p]], k)
    BY <2>1, <2>2, ListFacts DEF Half
  <2>4. kern[p] # "gone" /\ (Chained(p) \/ Waits(p)) /\ ForCall(mapped[Proc[p]], k, p)
    BY <2>3 DEF Owned
  <2> QED BY <2>1, <2>2, <2>4 DEF Listed, Chained, Waits, ForCall
<1>5. NoStrandedWaiter
  BY DEF NoStrandedWaiter, ShmInv, Handed, Waits, Chained, Alive, InChain, Listed
<1> QED BY <1>1, <1>2, <1>3, <1>4, <1>5 DEF SegmentsSound, MappingsSound, PendingServed

\* sysvipc_shmat_chain(), sysvipc_do_rmid() and sysvipc_shm_wake_pending_shmat(): no segment
\* goes while a process has it or is getting it, every call of the chain finds the mapping
\* it is for, none is left without the result of its mmap(), which may be an errno, and who
\* waits for the helper waits for somebody.
THEOREM SegmentsStaySound == ASSUME SingleThreaded PROVE ShmSpec => []SegmentsSound
<1>1. ShmInit => ShmInv BY ShmInvInit
<1>2. ShmInv /\ [ShmNext]_shmvars => ShmInv' BY ShmInvNext
<1>3. ShmInv => SegmentsSound BY ShmInvSound
<1> QED BY <1>1, <1>2, <1>3, PTL DEF ShmSpec

=============================================================================
