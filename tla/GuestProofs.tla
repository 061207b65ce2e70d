------------------------------ MODULE GuestProofs --------------------------------
(* What the emulations of one guest's calls promise, for every set of ids the guest may    *)
(* name, every size of the heap and any number of threads, every set of descriptors and    *)
(* every size of the rings that remember them, and every set of files and their names,    *)
(* plain ones and those with several names.                                               *)
EXTENDS FakeId, Heap, Netlink, HostModes, LinkToSymlink, DirFds, SequenceTheorems,
        FiniteSetTheorems, WellFoundedInduction, TLAPS

(* Ids: fake_id0.                                                                       *)
Value == Ids["u"] \cup Ids["g"] \cup {Unset}
Four == [r : Value, e : Value, s : Value, f : Value]
TypeOK == config \in [Kinds -> Four] /\ program \in DOMAIN Makes

(* What a call may make of the ids c: ids, and no 0 for a kind that had none.           *)
Harmless(c, d) ==
  /\ d \in [Kinds -> Four]
  /\ \A k \in Kinds : 0 \notin AnyOf(c[k]) /\ ~Privileged(c) => 0 \notin AnyOf(d[k])

(* What a call of SETXID may do besides, if the tracer is run by root.                    *)
ByRoot(c, d) ==
  \E k \in Kinds : /\ host[k] = 0 /\ d = SETXID(c, k, 0).config
                   /\ \A j \in Kinds \ {k} : d[j] = c[j]

LEMMA Kind == Kinds = {"u", "g"} /\ Unset # 0
  BY HostAssumption DEF Kinds

(* New ids i of one kind do no harm if they have no 0 that was not there.               *)
LEMMA One ==
  ASSUME NEW c \in [Kinds -> Four], NEW k \in Kinds, NEW i \in Four,
         ~Privileged(c) => AnyOf(i) \subseteq AnyOf(c[k]) \cup (Value \ {0})
  PROVE  Harmless(c, Granted(c, k, i).config)
  BY DEF Harmless, Granted

LEMMA Refusal ==
  ASSUME NEW c \in [Kinds -> Four], NEW error
  PROVE  Harmless(c, Refused(c, error).config)
  BY DEF Harmless, Refused

LEMMA SetHarmless ==
  ASSUME NEW c \in [Kinds -> Four], NEW k \in Kinds, NEW x \in Value
  PROVE  /\ SETXID(c, k, x).config \in [Kinds -> Four]
         /\ Harmless(c, SETXID(c, k, x).config) \/ ByRoot(c, SETXID(c, k, x).config)
  <1>1. c[k] \in Four /\ All(x) \in Four
    BY DEF Four, All
  <1>2. CASE Privileged(c)
    BY <1>1, <1>2, One DEF SETXID, Harmless
  <1>3. CASE ~Privileged(c) /\ (x \in AnyOf(c[k]) \/ (x = host[k] /\ x # 0))
    <2> DEFINE i == [c[k] EXCEPT !.e = x, !.f = x]
    <2>1. i \in Four /\ AnyOf(i) \subseteq AnyOf(c[k]) \cup (Value \ {0})
      BY <1>1, <1>3, Kind DEF Four, AnyOf
    <2>2. Harmless(c, Granted(c, k, i).config)
      BY <2>1, One
    <2> QED
      BY <1>3, <2>2, Refusal DEF SETXID, Harmless
  <1>4. CASE ~Privileged(c) /\ x \notin AnyOf(c[k]) /\ x # host[k]
    BY <1>4, Refusal DEF SETXID, Harmless
  <1>5. CASE ~Privileged(c) /\ x = host[k] /\ x = 0
    <2> DEFINE d == SETXID(c, k, 0).config
    <2>1. d \in {c, [c EXCEPT ![k] = [c[k] EXCEPT !.e = 0, !.f = 0]]}
      BY <1>5 DEF SETXID, Granted, Refused
    <2> HIDE DEF d
    <2>2. 0 \in Value /\ [c[k] EXCEPT !.e = 0, !.f = 0] \in Four
      BY <1>1, <1>5 DEF Four
    <2>3. d \in [Kinds -> Four]
      BY <2>1, <2>2
    <2>4. \A j \in Kinds \ {k} : d[j] = c[j]
      BY <2>1
    <2> QED
      BY <1>5, <2>3, <2>4 DEF ByRoot, d
  <1> QED
    BY <1>2, <1>3, <1>4, <1>5

LEMMA SetfsHarmless ==
  ASSUME NEW c \in [Kinds -> Four], NEW k \in Kinds, NEW x \in Value
  PROVE  Harmless(c, SETFSXID(c, k, x).config)
  <1> DEFINE i == [c[k] EXCEPT !.f = x]
  <1>1. c[k] \in Four /\ i \in Four /\ AnyOf(i) = AnyOf(c[k])
    BY DEF Four, AnyOf
  <1> QED
    BY <1>1, One DEF SETFSXID

LEMMA SetreHarmless ==
  ASSUME NEW c \in [Kinds -> Four], NEW k \in Kinds, NEW r \in Value, NEW e \in Value
  PROVE  Harmless(c, SETREXID(c, k, r, e).config)
  <1> DEFINE saves == e # Unset /\ (e # c[k].r \/ r # Unset)
             i == [r |-> Given(r, c[k].r), e |-> Given(e, c[k].e),
                   s |-> IF saves THEN e ELSE c[k].s, f |-> Given(e, c[k].f)]
  <1>1. c[k] \in Four /\ i \in Four
    BY DEF Four, Given
  <1>2. CASE SETREXID_Allowed(c, c[k], r, e)
    <2>1. ~Privileged(c) => {r, e} \subseteq AnyOf(c[k]) \cup {Unset}
      BY <1>2 DEF SETREXID_Allowed, UNCHANGED_ID, AnyOf
    <2>2. ~Privileged(c) => AnyOf(i) \subseteq AnyOf(c[k]) \cup (Value \ {0})
      BY <2>1 DEF AnyOf, Given
    <2>3. Harmless(c, Granted(c, k, i).config)
      BY <1>1, <2>2, One
    <2> QED
      BY <1>2, <2>3 DEF SETREXID
  <1>3. CASE ~SETREXID_Allowed(c, c[k], r, e)
    BY <1>3, Refusal DEF SETREXID
  <1> QED
    BY <1>2, <1>3

LEMMA SetresHarmless ==
  ASSUME NEW c \in [Kinds -> Four], NEW k \in Kinds,
         NEW r \in Value, NEW e \in Value, NEW s \in Value
  PROVE  Harmless(c, SETRESXID(c, k, r, e, s).config)
  <1> DEFINE i == [r |-> Given(r, c[k].r), e |-> Given(e, c[k].e), s |-> Given(s, c[k].s),
                   f |-> Given(e, c[k].f)]
  <1>1. c[k] \in Four /\ i \in Four
    BY DEF Four, Given
  <1>2. CASE Privileged(c)
    BY <1>1, <1>2, One DEF SETRESXID
  <1>3. CASE ~Privileged(c) /\ \A x \in {r, e, s} : EQUALS_ANY_ID(x, c[k])
    <2>1. AnyOf(i) \subseteq AnyOf(c[k])
      BY <1>3 DEF EQUALS_ANY_ID, AnyOf, Given
    <2>2. Harmless(c, Granted(c, k, i).config)
      BY <1>1, <2>1, One
    <2> QED
      BY <1>3, <2>2 DEF SETRESXID
  <1>4. CASE ~(Privileged(c) \/ \A x \in {r, e, s} : EQUALS_ANY_ID(x, c[k]))
    BY <1>4, Refusal DEF SETRESXID
  <1> QED
    BY <1>2, <1>3, <1>4

(* An exec sets ids only by the bits of the program.                                    *)
LEMMA ExecHarmless ==
  ASSUME NEW c \in [Kinds -> Four], NEW bits \in SUBSET Kinds, NEW nosuid \in BOOLEAN
  PROVE  /\ handle_sysexit_start(c, bits, nosuid).config \in [Kinds -> Four]
         /\ bits = {} \/ nosuid => Harmless(c, handle_sysexit_start(c, bits, nosuid).config)
  <1> DEFINE d == [k \in Kinds |-> IF k \in bits /\ ~nosuid THEN [c[k] EXCEPT !.e = 0, !.s = 0] ELSE c[k]]
  <1>1. handle_sysexit_start(c, bits, nosuid).config = d
    BY DEF handle_sysexit_start
  <1>2. 0 \in Value
    BY HostAssumption DEF Value
  <1>3. d \in [Kinds -> Four]
    BY <1>2 DEF Four
  <1>4. bits = {} \/ nosuid => d = c
    OBVIOUS
  <1> QED
    BY <1>1, <1>3, <1>4 DEF Harmless

(* What a call looks like.                                                              *)
LEMMA CallKinds ==
  ASSUME NEW asked \in Calls
  PROVE  \/ \E k \in Kinds : \E x \in Wish(k) : asked \in {<<"set", k, <<x>>>>, <<"setfs", k, <<x>>>>}
         \/ \E k \in Kinds : \E r \in Wish(k), e \in Wish(k) : asked = <<"setre", k, <<r, e>>>>
         \/ \E k \in Kinds : \E r \in Wish(k), e \in Wish(k), s \in Wish(k) :
              asked = <<"setres", k, <<r, e, s>>>>
         \/ \E bits \in SUBSET Kinds, nosuid \in BOOLEAN : asked = <<"exec", bits, <<nosuid>>>>
  <1> DEFINE SetOne(k) == {<<by, k, <<x>>>> : by \in {"set", "setfs"}, x \in Wish(k)}
             Setre(k) == {<<"setre", k, x>> : x \in Wish(k) \X Wish(k)}
             Setres(k) == {<<"setres", k, x>> : x \in Wish(k) \X Wish(k) \X Wish(k)}
  <1>1. ASSUME NEW k \in Kinds, asked \in SetOne(k)
        PROVE  \E x \in Wish(k) : asked \in {<<"set", k, <<x>>>>, <<"setfs", k, <<x>>>>}
    BY <1>1
  <1>2. ASSUME NEW k \in Kinds, asked \in Setre(k)
        PROVE  \E r \in Wish(k), e \in Wish(k) : asked = <<"setre", k, <<r, e>>>>
    BY <1>2
  <1>3. ASSUME NEW k \in Kinds, asked \in Setres(k)
        PROVE  \E r \in Wish(k), e \in Wish(k), s \in Wish(k) : asked = <<"setres", k, <<r, e, s>>>>
    <2>1. PICK x \in Wish(k) \X Wish(k) \X Wish(k) : asked = <<"setres", k, x>>
      BY <1>3
    <2>2. PICK r \in Wish(k), e \in Wish(k), s \in Wish(k) : x = <<r, e, s>>
      OBVIOUS
    <2> QED
      BY <2>1, <2>2
  <1>4. ASSUME asked \in Execs
        PROVE  \E bits \in SUBSET Kinds, nosuid \in BOOLEAN : asked = <<"exec", bits, <<nosuid>>>>
    BY <1>4 DEF Execs
  <1>5. asked \in Execs \/ \E k \in Kinds : asked \in IdCalls(k)
    BY DEF Calls
  <1> HIDE DEF SetOne, Setre, Setres
  <1>6. CASE asked \in Execs
    BY <1>4, <1>6
  <1>7. CASE \E k \in Kinds : asked \in IdCalls(k)
    <2>1. PICK k \in Kinds : asked \in SetOne(k) \cup Setre(k) \cup Setres(k)
      BY <1>7 DEF IdCalls, SetOne, Setre, Setres
    <2>2. CASE asked \in SetOne(k)
      BY <1>1, <2>2
    <2>3. CASE asked \in Setre(k)
      BY <1>2, <2>3
    <2>4. CASE asked \in Setres(k)
      BY <1>3, <2>4
    <2> QED
      BY <2>1, <2>2, <2>3, <2>4
  <1> QED
    BY <1>5, <1>6, <1>7

LEMMA NextHarmless ==
  ASSUME TypeOK, Next
  PROVE  TypeOK' /\ (Harmless(config, config') \/ ByRoot(config, config') \/ setid')
  <1>1. PICK asked \in Calls : /\ config' = handle_sysexit_end(config, asked).config
                              /\ setid' = Raises(asked) /\ program' = program
    BY ProgramAssumption DEF Next, TypeOK
  <1>2. config \in [Kinds -> Four]
    BY DEF TypeOK
  <1>3. ASSUME NEW k \in Kinds, NEW x \in Wish(k), asked = <<"set", k, <<x>>>>
        PROVE  TypeOK' /\ (Harmless(config, config') \/ ByRoot(config, config'))
    <2>1. x \in Value /\ config' = SETXID(config, k, x).config
      BY <1>1, <1>3 DEF Wish, Value, Kinds, handle_sysexit_end
    <2> QED
      BY <1>1, <1>2, <2>1, SetHarmless DEF TypeOK
  <1>4. ASSUME NEW k \in Kinds, NEW x \in Wish(k), asked = <<"setfs", k, <<x>>>>
        PROVE  Harmless(config, config')
    <2>1. x \in Value /\ config' = SETFSXID(config, k, x).config
      BY <1>1, <1>4 DEF Wish, Value, Kinds, handle_sysexit_end
    <2> QED
      BY <1>2, <2>1, SetfsHarmless
  <1>5. ASSUME NEW k \in Kinds, NEW r \in Wish(k), NEW e \in Wish(k), asked = <<"setre", k, <<r, e>>>>
        PROVE  Harmless(config, config')
    <2>1. r \in Value /\ e \in Value /\ config' = SETREXID(config, k, r, e).config
      BY <1>1, <1>5 DEF Wish, Value, Kinds, handle_sysexit_end
    <2> QED
      BY <1>2, <2>1, SetreHarmless
  <1>6. ASSUME NEW k \in Kinds, NEW r \in Wish(k), NEW e \in Wish(k), NEW s \in Wish(k),
               asked = <<"setres", k, <<r, e, s>>>>
        PROVE  Harmless(config, config')
    <2>1. /\ r \in Value /\ e \in Value /\ s \in Value
          /\ config' = SETRESXID(config, k, r, e, s).config
      BY <1>1, <1>6 DEF Wish, Value, Kinds, handle_sysexit_end
    <2> QED
      BY <1>2, <2>1, SetresHarmless
  <1>7. ASSUME NEW bits \in SUBSET Kinds, NEW nosuid \in BOOLEAN, asked = <<"exec", bits, <<nosuid>>>>
        PROVE  TypeOK' /\ (Harmless(config, config') \/ setid')
    <2>1. config' = handle_sysexit_start(config, bits, nosuid).config
      BY <1>1, <1>7 DEF handle_sysexit_end
    <2>2. setid' = (bits # {} /\ ~nosuid)
      BY <1>1, <1>7 DEF Raises
    <2>3. config' \in [Kinds -> Four] /\ (bits = {} \/ nosuid => Harmless(config, config'))
      BY <1>2, <2>1, ExecHarmless
    <2>4. TypeOK'
      BY <1>1, <2>3 DEF TypeOK
    <2> QED
      BY <2>2, <2>3, <2>4
  <1> QED
    BY <1>1, <1>3, <1>4, <1>5, <1>6, <1>7, CallKinds DEF Harmless, TypeOK

LEMMA InitType == Init => TypeOK
  BY DEF Init, TypeOK, Four, Value, All, Kinds

(* A thread that has given up 0 as real, effective and saved id gets it back by the exec  *)
(* of a set-id program only, and under a tracer of root by setuid() and setgid(): the      *)
(* macros of fake_id0.c:62-157.                                                           *)
THEOREM NothingRegained == Spec => NoRegain
  <1>1. TypeOK /\ [Next]_vars => TypeOK'
    BY NextHarmless DEF TypeOK, vars
  <1>2. ASSUME TypeOK, Next, NEW k \in Kinds, 0 \notin AnyOf(config[k]), ~Privileged(config),
               0 \in AnyOf(config'[k])
        PROVE  setid' \/ HostRoot(k)
    <2>1. CASE ByRoot(config, config')
      BY <1>2, <2>1 DEF ByRoot, HostRoot
    <2> QED
      BY <1>2, <2>1, NextHarmless DEF Harmless
  <1>3. TypeOK /\ [Next]_vars =>
          [\A k \in Kinds :
             (0 \notin AnyOf(config[k]) /\ ~Privileged(config) /\ 0 \in AnyOf(config'[k]))
               => setid' \/ HostRoot(k)]_vars
    BY <1>2
  <1> QED
    BY <1>1, <1>3, InitType, PTL DEF Spec, NoRegain

------------------------------------------------------------------------------------
(* A call in the guest and in the kernel, as AsKernel compares them.                      *)
Agrees(c, asked) ==
  LET mine == handle_sysexit_end(c, asked)
      its == InKernel(c, asked) IN
  IF mine.result # its.result THEN Answers(c, asked)
  ELSE /\ \A k \in Kinds, field \in {"r", "e", "s", "f"} :
            mine.config[k][field] # its.config[k][field] => field \in Fields(c, asked)
       /\ mine.auxv # its.auxv => Raises(asked)

LEMMA SetAgrees ==
  ASSUME NEW c \in [Kinds -> Four], NEW k \in Kinds, NEW x \in Value
  PROVE  Agrees(c, <<"set", k, <<x>>>>)
  <1>1. c[k] \in Four
    OBVIOUS
  <1> QED
    BY <1>1, HostAssumption DEF Agrees, handle_sysexit_end, InKernel, SETXID, SetXid, Granted, Refused,
       Answers, Fields, Raises, AnyOf, Four

LEMMA SetfsAgrees ==
  ASSUME NEW c \in [Kinds -> Four], NEW k \in Kinds, NEW x \in Value
  PROVE  Agrees(c, <<"setfs", k, <<x>>>>)
  BY DEF Agrees, handle_sysexit_end, InKernel, SETFSXID, SetFsXid, Granted, Answers, Fields, Raises, Four

LEMMA SetreAgrees ==
  ASSUME NEW c \in [Kinds -> Four], NEW k \in Kinds, NEW r \in Value, NEW e \in Value
  PROVE  Agrees(c, <<"setre", k, <<r, e>>>>)
  BY DEF Agrees, handle_sysexit_end, InKernel, SETREXID, SetREXid, Granted, Refused, Answers, Fields,
     Raises, Four, SETREXID_Allowed, UNCHANGED_ID, EQUALS_ANY_ID, AnyOf, Given

LEMMA SetresAgrees ==
  ASSUME NEW c \in [Kinds -> Four], NEW k \in Kinds,
         NEW r \in Value, NEW e \in Value, NEW s \in Value
  PROVE  Agrees(c, <<"setres", k, <<r, e, s>>>>)
  BY DEF Agrees, handle_sysexit_end, InKernel, SETRESXID, SetRESXid, Granted, Refused, Answers, Fields,
     Raises, Four, Given

LEMMA ExecAgrees ==
  ASSUME NEW c \in [Kinds -> Four], NEW bits \in SUBSET Kinds, NEW nosuid \in BOOLEAN
  PROVE  Agrees(c, <<"exec", bits, <<nosuid>>>>)
  <1> DEFINE d == [k \in Kinds |-> IF k \in bits /\ ~nosuid THEN [c[k] EXCEPT !.e = 0, !.s = 0] ELSE c[k]]
             n == [k \in Kinds |-> [r |-> c[k].r, e |-> IF k \in bits /\ ~nosuid THEN 0 ELSE c[k].e,
                                    s |-> IF k \in bits /\ ~nosuid THEN 0 ELSE c[k].e,
                                    f |-> IF k \in bits /\ ~nosuid THEN 0 ELSE c[k].e]]
  <1>1. handle_sysexit_start(c, bits, nosuid) = [result |-> "ok", config |-> d, auxv |-> Auxv(c)]
    BY DEF handle_sysexit_start
  <1>2. Exec(c, bits, nosuid) = [result |-> "ok", config |-> n, auxv |-> Auxv(n)]
    BY DEF Exec
  <1>3. bits = {} \/ nosuid => Auxv(n) = Auxv(c)
    BY DEF Auxv
  <1>4. \A k \in Kinds : d[k].r = n[k].r /\ d[k].e = n[k].e
    BY DEF Four
  <1> HIDE DEF d, n
  <1> QED
    BY <1>1, <1>2, <1>3, <1>4 DEF Agrees, handle_sysexit_end, InKernel, Answers, Fields, Raises

(* Outside the listed differences an emulated call does what the kernel's does: for every *)
(* set of ids and whatever calls led to them (fake_id0.c:62-157 and :621-636).            *)
THEOREM IdsAsInKernel == Spec => []AsKernel
  <1>1. ASSUME TypeOK, NEW asked \in Calls PROVE Agrees(config, asked)
    <2>1. config \in [Kinds -> Four] /\ \A k \in Kinds : Wish(k) \subseteq Value
      BY <1>1 DEF TypeOK, Wish, Value, Kinds
    <2> QED
      BY <2>1, CallKinds, SetAgrees, SetfsAgrees, SetreAgrees, SetresAgrees, ExecAgrees
  <1>2. TypeOK => AsKernel
    BY <1>1, ProgramAssumption DEF AsKernel, Agrees, TypeOK
  <1>3. TypeOK /\ [Next]_vars => TypeOK'
    BY NextHarmless DEF TypeOK, vars
  <1> QED
    BY <1>2, <1>3, InitType, PTL DEF Spec

--------------------------------------------------------------------------------
(* The heap: brk().                                                                     *)
HeapTypes ==
  /\ heap \in [based : BOOLEAN, size : Nat, disabled : BOOLEAN] /\ len \in Nat /\ other \subseteq Nat
  /\ brk_call \in [Threads -> [op : {"none", "mmap", "brk", "void", "mremap"}, old : Nat, new : Nat,
                               result : {"none", "ok", "error"}]]
  /\ raced \in BOOLEAN /\ robbed \in BOOLEAN

Waits(t) == brk_call[t].op # "none"

(* One brk() at a time: the size is that of the mapping but after an mremap() that was    *)
(* granted, and nobody else has a page of the heap.                                      *)
OneBrk ==
  /\ \A t, u \in Threads : Waits(t) /\ Waits(u) => t = u
  /\ ~robbed /\ other \cap 1..len = {}
  /\ ~heap.based => heap.size = 0
  /\ \A t \in Threads : brk_call[t].op = "mmap" => ~heap.based
  /\ \A t \in Threads : brk_call[t].op \in {"mmap", "mremap"} => ~heap.disabled
  /\ \A t \in Threads : brk_call[t].op = "mremap" =>
       /\ heap.based
       /\ brk_call[t].result = "none" => brk_call[t].old = len
       /\ brk_call[t].result = "ok" => brk_call[t].new = len
  /\ (\A t \in Threads : brk_call[t].op = "mremap" => brk_call[t].result # "ok") => heap.size = len

HeapInv == HeapTypes /\ (raced \/ OneBrk)

LEMMA HeapInvInit == HeapInit => HeapInv
  <1> SUFFICES ASSUME HeapInit PROVE HeapInv  OBVIOUS
  <1>1. HeapTypes
    BY DEF HeapInit, HeapTypes, NoBrk
  <1>2. OneBrk
    BY DEF HeapInit, OneBrk, NoBrk, Waits
  <1> QED
    BY <1>1, <1>2 DEF HeapInv

LEMMA HeapInvStep == HeapInv /\ [HeapNext]_heapvars => HeapInv'
  <1> SUFFICES ASSUME HeapInv, [HeapNext]_heapvars PROVE HeapInv'  OBVIOUS
  <1> USE DEF HeapInv
  <1>1. ASSUME NEW t \in Threads, translate_brk_enter(t) PROVE HeapInv'
    <2>1. PICK asks \in BOOLEAN, new \in 0..MaxPages :
            /\ brk_call[t].op = "none" /\ ~heap.disabled
            /\ \/ ~heap.based /\ asks /\ Enters(t, "mmap", 0, 0)
               \/ ~heap.based /\ ~asks /\ Enters(t, "brk", 0, new)
               \/ heap.based /\ asks /\ Enters(t, "void", 0, 0)
               \/ heap.based /\ ~asks /\ Enters(t, "mremap", heap.size, new)
            /\ raced' = (raced \/ \E u \in Threads \ {t} : brk_call[u].op # "none")
            /\ UNCHANGED <<heap, len, other, robbed>>
      BY <1>1 DEF translate_brk_enter
    <2>2. HeapTypes'
      BY <2>1, HeapAssumption DEF HeapTypes, Enters
    <2>3. ASSUME ~raced' PROVE OneBrk'
      <3>1. OneBrk /\ \A u \in Threads : brk_call[u].op = "none"
        BY <2>1, <2>3
      <3>2. heap.size = len
        BY <3>1 DEF OneBrk
      <3>3. /\ \A u \in Threads : u # t => brk_call'[u] = brk_call[u]
            /\ brk_call'[t].result = "none"
            /\ brk_call'[t].op = "mremap" => heap.based /\ brk_call'[t].old = heap.size
            /\ brk_call'[t].op = "mmap" => ~heap.based
        BY <2>1 DEF Enters, HeapTypes
      <3> QED
        BY <2>1, <3>1, <3>2, <3>3 DEF OneBrk, Waits
    <2> QED
      BY <2>2, <2>3 DEF HeapTypes
  <1>2. ASSUME NEW t \in Threads, BrkInKernel(t) PROVE HeapInv'
    <2> DEFINE old == brk_call[t].old
               new == brk_call[t].new
    <2>1. old \in Nat /\ new \in Nat /\ raced' = raced
      BY <1>2 DEF BrkInKernel, HeapTypes
    <2>2. /\ \E r \in {"ok", "error"} : brk_call' = [brk_call EXCEPT ![t].result = r]
          /\ len' \in Nat /\ heap' = heap /\ other' \subseteq Nat /\ robbed' \in BOOLEAN
      <3>1. CASE Mremap(t, old, new)
        <4>1. len \in Nat /\ other \subseteq Nat /\ robbed \in BOOLEAN
          BY DEF HeapTypes
        <4>2. (new + 1)..old \subseteq Nat /\ (old + 1)..len \subseteq Nat
          BY <2>1, <4>1
        <4>3. robbed' \in BOOLEAN /\ len' \in Nat /\ other' \subseteq Nat
          BY <2>1, <3>1, <4>1, <4>2 DEF Mremap
        <4> QED
          BY <3>1, <4>3 DEF Mremap, Returns
      <3>2. CASE ~Mremap(t, old, new)
        BY <1>2, <3>2 DEF BrkInKernel, Returns, HeapTypes
      <3> QED
        BY <3>1, <3>2
    <2>3. HeapTypes'
      BY <2>1, <2>2 DEF HeapTypes
    <2>4. ASSUME ~raced PROVE OneBrk'
      <3>1. OneBrk /\ brk_call[t].op # "none" /\ brk_call[t].result = "none"
        BY <1>2, <2>4 DEF BrkInKernel
      <3>2. \A u \in Threads : u # t => brk_call[u].op = "none" /\ brk_call'[u] = brk_call[u]
        BY <2>2, <3>1 DEF OneBrk, Waits, HeapTypes
      <3>3. heap.size = len
        BY <3>1, <3>2 DEF OneBrk
      <3>4. CASE brk_call[t].op = "mremap"
        <4>1. Mremap(t, old, new) /\ old = len /\ other \cap 1..len = {} /\ ~robbed
          BY <1>2, <3>1, <3>4 DEF BrkInKernel, OneBrk
        <4>2. CASE new <= old /\ Returns(t, "ok")
          <5>1. /\ len' = new
                /\ other' = (other \ ((new + 1)..old)) \cup (IF new < old THEN (old + 1)..len ELSE {})
                /\ robbed' = (robbed \/ other \cap ((new + 1)..old) # {})
            BY <2>1, <4>1, <4>2 DEF Mremap, HeapTypes
          <5>2. other' \cap 1..len' = {} /\ ~robbed'
            BY <2>1, <4>1, <4>2, <5>1 DEF HeapTypes
          <5>3. brk_call'[t].new = new /\ brk_call'[t].result = "ok" /\ brk_call'[t].op = "mremap"
            BY <3>4, <4>2 DEF Returns, HeapTypes
          <5> QED
            BY <2>2, <3>1, <3>2, <5>1, <5>2, <5>3 DEF OneBrk, Waits
        <4>3. CASE /\ new > old /\ other \cap ((old + 1)..new) = {} /\ Returns(t, "ok") /\ len' = new
                   /\ UNCHANGED <<other, robbed>>
          <5>1. other' \cap 1..len' = {} /\ ~robbed'
            BY <2>1, <4>1, <4>3 DEF HeapTypes
          <5>2. brk_call'[t].new = new /\ brk_call'[t].result = "ok" /\ brk_call'[t].op = "mremap"
            BY <3>4, <4>3 DEF Returns, HeapTypes
          <5> QED
            BY <2>2, <3>1, <3>2, <4>3, <5>1, <5>2 DEF OneBrk, Waits
        <4>4. CASE Returns(t, "error") /\ UNCHANGED <<len, other, robbed>>
          <5>1. brk_call'[t].result = "error" /\ brk_call'[t].op = "mremap"
            BY <3>4, <4>4 DEF Returns, HeapTypes
          <5> QED
            BY <2>2, <3>1, <3>2, <3>3, <4>4, <5>1 DEF OneBrk, Waits
        <4> QED
          BY <4>1, <4>2, <4>3, <4>4 DEF Mremap
      <3>5. CASE brk_call[t].op # "mremap"
        <4>1. UNCHANGED <<len, other, robbed>> /\ brk_call'[t].op = brk_call[t].op
          BY <1>2, <2>2, <3>5 DEF BrkInKernel, HeapTypes
        <4> QED
          BY <2>2, <3>1, <3>2, <3>3, <3>5, <4>1 DEF OneBrk, Waits
      <3> QED
        BY <3>4, <3>5
    <2> QED
      BY <2>1, <2>3, <2>4 DEF HeapTypes
  <1>3. ASSUME NEW t \in Threads, translate_brk_exit(t) PROVE HeapInv'
    <2> DEFINE c == brk_call[t]
    <2>1. /\ brk_call' = [brk_call EXCEPT ![t] = NoBrk] /\ c.result # "none"
          /\ UNCHANGED <<len, other, raced, robbed>>
          /\ heap' = IF heap.disabled THEN heap ELSE
                     CASE c.op = "mmap" /\ c.result = "ok" -> [heap EXCEPT !.based = TRUE, !.size = 0]
                       [] c.op = "mremap" /\ c.result = "ok" -> [heap EXCEPT !.size = c.new]
                       [] c.op = "brk" /\ c.result = "ok" -> [heap EXCEPT !.disabled = TRUE]
                       [] OTHER -> heap
      BY <1>3 DEF translate_brk_exit
    <2>2. c.new \in Nat
      BY DEF HeapTypes
    <2>3. HeapTypes'
      BY <2>1, <2>2 DEF HeapTypes, NoBrk
    <2>4. ASSUME ~raced PROVE OneBrk'
      <3>1. OneBrk
        BY <2>4
      <3>2. /\ brk_call'[t].op = "none"
            /\ \A u \in Threads : u # t => brk_call'[u] = brk_call[u]
        BY <2>1 DEF HeapTypes, NoBrk
      <3>3. CASE c.op = "none"
        <4>1. heap' = heap /\ \A u \in Threads : brk_call'[u].op = brk_call[u].op
          BY <2>1, <3>2, <3>3
        <4> QED
          BY <2>1, <3>1, <3>2, <3>3, <4>1 DEF OneBrk, Waits
      <3>4. CASE c.op # "none"
        <4>1. \A u \in Threads : brk_call'[u].op = "none"
          BY <3>1, <3>2, <3>4 DEF OneBrk, Waits
        <4>2. heap'.size = len /\ (~heap'.based => heap'.size = 0)
          <5>1. \A u \in Threads : u # t => brk_call[u].op = "none"
            BY <3>1, <3>4 DEF OneBrk, Waits
          <5>2. c.op = "mremap" /\ c.result = "ok" => c.new = len /\ heap.based /\ ~heap.disabled
            BY <3>1 DEF OneBrk
          <5>3. ~(c.op = "mremap" /\ c.result = "ok") => heap.size = len
            BY <3>1, <5>1 DEF OneBrk
          <5>4. c.op = "mmap" => heap.size = 0
            BY <3>1 DEF OneBrk
          <5>5. (~heap.based => heap.size = 0) /\ heap \in [based : BOOLEAN, size : Nat, disabled : BOOLEAN]
            BY <3>1 DEF OneBrk, HeapTypes
          <5> QED
            BY <2>1, <2>2, <5>2, <5>3, <5>4, <5>5
        <4> QED
          BY <2>1, <3>1, <4>1, <4>2 DEF OneBrk, Waits
      <3> QED
        BY <3>3, <3>4
    <2> QED
      BY <2>1, <2>3, <2>4 DEF HeapTypes
  <1>4. ASSUME NEW t \in Threads, inherit_heap(t) PROVE HeapInv'
    BY <1>4 DEF inherit_heap, HeapTypes, OneBrk, NoBrk, Waits
  <1>5. ASSUME NEW t \in Threads, translate_execve_exit(t) PROVE HeapInv'
    BY <1>5 DEF translate_execve_exit, HeapTypes, OneBrk, NoBrk, Waits
  <1>6. CASE Mmap
    BY <1>6, HeapAssumption DEF Mmap, HeapTypes, OneBrk, Waits
  <1>7. CASE UNCHANGED heapvars
    BY <1>7 DEF heapvars, HeapTypes, OneBrk, Waits
  <1> QED
    BY <1>1, <1>2, <1>3, <1>4, <1>5, <1>6, <1>7 DEF HeapNext

(* The heap the tracer knows is the one that is mapped (heap.c:78-90 and :123-131), for   *)
(* any number of threads and pages, as long as no two threads were in brk() at once.      *)
THEOREM HeapStaysTrue == HeapSpec => []HeapTrue
  <1>1. HeapInv => HeapTrue
    BY DEF HeapInv, OneBrk, HeapTrue
  <1> QED
    BY <1>1, HeapInvInit, HeapInvStep, PTL DEF HeapSpec

--------------------------------------------------------------------------------
(* Sockets of routes.                                                                   *)
Request == [seq : 1..MaxNet, by : Tids, fd : Fds, changes : BOOLEAN, error : {"ack", "denied", "invalid"},
            alone : BOOLEAN]

(* Threads, their descriptors and their tables: whose table a thread has is alive.         *)
TablesShaped ==
  /\ group \in [Tids -> Live \cup {None}]
  /\ files \in [Tids -> [Fds -> Socket \cup {None}]]
  /\ uses \in 0..MaxNet /\ netns \subseteq Live
  /\ DOMAIN fake = Tids /\ DOMAIN real = Tids
  /\ \A t \in Tids : \A fd \in DOMAIN fake[t] : fd \in Fds /\ fake[t][fd].id \in 1..MaxNet
  /\ \A t \in Tids : \A fd \in DOMAIN real[t] : fd \in Fds /\ real[t][fd] \in 1..MaxNet

(* The call that made a socket is over.                                                  *)
SocketsMade == \A g \in Tids, x \in Fds : files[g][x] # None => files[g][x].id <= uses

(* Answers that wait in real sockets. One that is alone has no other before or after it.   *)
QueuesShaped ==
  /\ queue \in [1..MaxNet -> Seq(Request)]
  /\ ack \in [Tids -> Pending \cup {None}]
  /\ \A i \in 1..MaxNet : i > uses => queue[i] = <<>>
  /\ \A i \in 1..MaxNet : \A k \in DOMAIN queue[i] :
       /\ queue[i][k].seq <= uses /\ queue[i][k].by \in Live
       /\ queue[i][k].alone => Len(queue[i]) = 1

(* What is to be acknowledged is a change that the thread itself asked for.                *)
AcksOwn ==
  \A t \in Tids : ack[t] # None =>
    /\ t \in netns /\ ack[t].seq <= uses
    /\ \A i \in 1..MaxNet : \A k \in DOMAIN queue[i] :
         queue[i][k].seq = ack[t].seq => queue[i][k].by = t /\ queue[i][k].changes

(* As long as the answer to a change is alone, it is the one to be acknowledged where it was *)
(* asked for.                                                                            *)
AcksKept ==
  \A i \in 1..MaxNet : \A k \in DOMAIN queue[i] :
    LET e == queue[i][k] IN
    e.alone /\ e.changes /\ e.by \in netns =>
      \A fd \in DOMAIN real[e.by] :
        e.fd = fd /\ <<e.by, fd>> \notin loose /\ real[e.by][fd] = i => ack[e.by] = [fd |-> fd, seq |-> e.seq]

ToldRight == AckedRight /\ (told # None => told.to \in Live)

TableInv == TablesShaped /\ SocketsMade /\ SocketsKnown
QueueInv == QueuesShaped /\ AcksOwn /\ AcksKept /\ ToldRight

------------------------------------------------------------------------------------
LEMMA MarkedIs ==
  ASSUME NEW f, NEW x, NEW v
  PROVE  /\ DOMAIN Marked(f, x, v) \subseteq DOMAIN f \cup {x}
         /\ \A y \in DOMAIN Marked(f, x, v) :
              \/ y \in DOMAIN f /\ Marked(f, x, v)[y] = f[y]
              \/ y = x /\ Marked(f, x, v)[y] = v
  BY DEF Marked, With

LEMMA GroupAlive ==
  ASSUME TablesShaped, NEW t \in Live
  PROVE  t \in Tids /\ group[t] \in Live /\ group[t] \in Tids
  BY DEF TablesShaped, Live

LEMMA TableInvInit == NetInit => TableInv
  <1> SUFFICES ASSUME NetInit PROVE TableInv  OBVIOUS
  <1>1. Live = {First}
    BY NetlinkAssumption DEF NetInit, Live
  <1>2. TablesShaped
    BY <1>1, NetlinkAssumption DEF NetInit, TablesShaped
  <1>3. SocketsMade
    BY DEF NetInit, SocketsMade
  <1>4. SocketsKnown
    <2>1. \A t \in Tids : DOMAIN fake[t] = {} /\ DOMAIN real[t] = {}
      BY DEF NetInit
    <2> QED
      BY <2>1 DEF SocketsKnown, Live
  <1> QED
    BY <1>2, <1>3, <1>4 DEF TableInv

(* A call that opens and closes nothing.                                                *)
LEMMA TablesKept ==
  ASSUME TableInv, Tick,
         UNCHANGED <<group, files, netns, loose>>, DOMAIN fake' = Tids, DOMAIN real' = Tids,
         \A t \in Tids : \A fd \in DOMAIN fake'[t] : fd \in DOMAIN fake[t] /\ fake'[t][fd].id = fake[t][fd].id,
         \A t \in Tids : \A fd \in DOMAIN real'[t] : fd \in DOMAIN real[t] /\ real'[t][fd] = real[t][fd]
  PROVE  TableInv'
  <1>1. Live' = Live /\ uses' \in 0..MaxNet /\ uses <= uses' /\ uses \in Nat
    BY NetlinkAssumption DEF Live, Tick, TableInv, TablesShaped
  <1>2. TablesShaped'
    BY <1>1 DEF TableInv, TablesShaped
  <1>3. SocketsMade'
    <2>1. \A g \in Tids, x \in Fds : files[g][x] # None => files[g][x].id \in Nat
      BY DEF TableInv, TablesShaped, Socket
    <2> QED
      BY <1>1, <2>1 DEF TableInv, SocketsMade
  <1>4. SocketsKnown'
    BY <1>1 DEF TableInv, SocketsKnown, File, TablesShaped, Live
  <1> QED
    BY <1>2, <1>3, <1>4 DEF TableInv

LEMMA SocketTables ==
  ASSUME TableInv, NEW t \in Tids, NEW fd \in Fds, NEW route \in BOOLEAN, socket(t, fd, route)
  PROVE  TableInv'
  <1> DEFINE s == [kind |-> IF ~route THEN "other" ELSE IF blocked THEN "fake" ELSE "real", id |-> uses + 1]
             entry == [id |-> uses + 1, reply |-> <<>>]
  <1>1. /\ t \in Live /\ File(t, fd) = None /\ uses < MaxNet /\ uses' = uses + 1
        /\ files' = [files EXCEPT ![group[t]] = [x \in Fds |-> IF x \in {fd} THEN s ELSE @[x]]]
        /\ fake' = IF route /\ blocked THEN [fake EXCEPT ![t] = Marked(@, fd, entry)] ELSE fake
        /\ real' = IF route /\ ~blocked THEN [real EXCEPT ![t] = Marked(@, fd, uses + 1)] ELSE real
        /\ UNCHANGED <<group, netns, loose>>
    BY DEF socket, Tick, Sets
  <1>2. Live' = Live /\ group[t] \in Tids
    BY <1>1, GroupAlive DEF Live, TableInv
  <1>3. s \in Socket /\ uses + 1 \in 1..MaxNet /\ uses \in Nat
    BY <1>1, NetlinkAssumption DEF Socket, TableInv, TablesShaped
  <1>4. /\ \A g \in Tids, x \in Fds :
             files'[g][x] = IF g = group[t] /\ x = fd THEN s ELSE files[g][x]
        /\ files' \in [Tids -> [Fds -> Socket \cup {None}]]
    BY <1>1, <1>2, <1>3 DEF TableInv, TablesShaped
  <1>5. /\ DOMAIN fake' = Tids
        /\ \A u \in Tids : \A x \in DOMAIN fake'[u] :
             \/ x \in DOMAIN fake[u] /\ fake'[u][x] = fake[u][x]
             \/ u = t /\ x = fd /\ fake'[u][x] = entry /\ s.kind = "fake"
    BY <1>1, MarkedIs DEF TableInv, TablesShaped
  <1>6. /\ DOMAIN real' = Tids
        /\ \A u \in Tids : \A x \in DOMAIN real'[u] :
             \/ x \in DOMAIN real[u] /\ real'[u][x] = real[u][x]
             \/ u = t /\ x = fd /\ real'[u][x] = uses + 1 /\ s.kind = "real"
    BY <1>1, MarkedIs DEF TableInv, TablesShaped
  <1> HIDE DEF s
  <1>7. s.id = uses + 1
    BY DEF s
  <1>8. TablesShaped'
    <2>1. \A u \in Tids : \A x \in DOMAIN fake'[u] : x \in Fds /\ fake'[u][x].id \in 1..MaxNet
      BY <1>3, <1>5 DEF TableInv, TablesShaped
    <2>2. \A u \in Tids : \A x \in DOMAIN real'[u] : x \in Fds /\ real'[u][x] \in 1..MaxNet
      BY <1>3, <1>6 DEF TableInv, TablesShaped
    <2> QED
      BY <1>1, <1>2, <1>3, <1>4, <1>5, <1>6, <2>1, <2>2 DEF TableInv, TablesShaped
  <1>9. SocketsMade'
    <2>1. \A g \in Tids, x \in Fds : files[g][x] # None => files[g][x].id \in Nat
      BY DEF TableInv, TablesShaped, Socket
    <2>2. s # None
      BY <1>3, NetlinkAssumption
    <2> QED
      BY <1>1, <1>3, <1>4, <1>7, <2>1, <2>2 DEF TableInv, SocketsMade
  <1>10. SocketsKnown'
    <2> SUFFICES ASSUME NEW u \in Live PROVE
          /\ \A x \in DOMAIN fake'[u] : <<u, x>> \notin loose => files'[group[u]][x] = [kind |-> "fake", id |-> fake'[u][x].id]
          /\ \A x \in DOMAIN real'[u] : <<u, x>> \notin loose => files'[group[u]][x] = [kind |-> "real", id |-> real'[u][x]]
      <3>1. Live' = Live /\ group' = group /\ loose' = loose
        BY <1>1, <1>2
      <3> QED
        BY <3>1 DEF SocketsKnown, File
    <2>1. u \in Tids /\ group[u] \in Tids
      BY GroupAlive DEF TableInv
    <2>2. files[group[t]][fd] = None
      BY <1>1 DEF File
    <2>3. \A n \in 1..MaxNet : [kind |-> "fake", id |-> n] # None /\ [kind |-> "real", id |-> n] # None
      BY NetlinkAssumption DEF Socket
    <2>4. ASSUME NEW x \in DOMAIN fake'[u], <<u, x>> \notin loose
          PROVE  files'[group[u]][x] = [kind |-> "fake", id |-> fake'[u][x].id]
      <3>1. CASE x \in DOMAIN fake[u] /\ fake'[u][x] = fake[u][x]
        <4>1. files[group[u]][x] = [kind |-> "fake", id |-> fake[u][x].id] /\ x \in Fds
              /\ fake[u][x].id \in 1..MaxNet
          BY <2>1, <2>4, <3>1 DEF TableInv, SocketsKnown, File, TablesShaped
        <4> QED
          BY <1>4, <2>1, <2>2, <2>3, <3>1, <4>1
      <3>2. CASE u = t /\ x = fd /\ fake'[u][x] = entry /\ s.kind = "fake"
        <4>1. files'[group[u]][x] = s /\ fake'[u][x].id = uses + 1
          BY <1>4, <2>1, <3>2
        <4> QED
          BY <1>3, <1>7, <3>2, <4>1 DEF Socket
      <3> QED
        BY <1>5, <2>1, <2>4, <3>1, <3>2
    <2>5. ASSUME NEW x \in DOMAIN real'[u], <<u, x>> \notin loose
          PROVE  files'[group[u]][x] = [kind |-> "real", id |-> real'[u][x]]
      <3>1. CASE x \in DOMAIN real[u] /\ real'[u][x] = real[u][x]
        <4>1. files[group[u]][x] = [kind |-> "real", id |-> real[u][x]] /\ x \in Fds
              /\ real[u][x] \in 1..MaxNet
          BY <2>1, <2>5, <3>1 DEF TableInv, SocketsKnown, File, TablesShaped
        <4> QED
          BY <1>4, <2>1, <2>2, <2>3, <3>1, <4>1
      <3>2. CASE u = t /\ x = fd /\ real'[u][x] = uses + 1 /\ s.kind = "real"
        <4>1. files'[group[u]][x] = s
          BY <1>4, <2>1, <3>2
        <4> QED
          BY <1>3, <1>7, <3>2, <4>1 DEF Socket
      <3> QED
        BY <1>6, <2>1, <2>5, <3>1, <3>2
    <2> QED
      BY <2>4, <2>5
  <1> QED
    BY <1>8, <1>9, <1>10 DEF TableInv

(* Descriptors are closed or name another socket: whoever sees it forgets them, all others   *)
(* are loose.                                                                            *)
LEMMA ClosedTables ==
  ASSUME TableInv, NEW t \in Live, NEW S \in SUBSET Fds, Tick,
         NEW v, v = None \/ (\E x \in Fds : v = File(t, x)), Sets(t, S, v),
         UNCHANGED <<group, netns>>, DOMAIN fake' = Tids, DOMAIN real' = Tids,
         \A u \in Tids : \A x \in DOMAIN fake'[u] : x \in DOMAIN fake[u] /\ fake'[u][x] = fake[u][x],
         \A u \in Tids : \A x \in DOMAIN real'[u] : x \in DOMAIN real[u] /\ real'[u][x] = real[u][x],
         \A u \in Live, x \in Fds :
           <<u, x>> \notin loose' /\ x \in DOMAIN fake'[u] \cup DOMAIN real'[u] =>
             <<u, x>> \notin loose /\ ~(group[u] = group[t] /\ x \in S)
  PROVE  TableInv'
  <1>1. Live' = Live /\ uses' \in 0..MaxNet /\ uses <= uses' /\ uses \in Nat /\ group[t] \in Tids
    BY NetlinkAssumption, GroupAlive DEF Live, Tick, TableInv, TablesShaped
  <1>2. /\ files' \in [Tids -> [Fds -> Socket \cup {None}]]
        /\ \A g \in Tids, x \in Fds :
             files'[g][x] = IF g = group[t] /\ x \in S THEN v ELSE files[g][x]
    <2>1. v \in Socket \cup {None}
      BY <1>1 DEF File, TableInv, TablesShaped
    <2> QED
      BY <1>1, <2>1 DEF Sets, TableInv, TablesShaped
  <1>3. TablesShaped'
    BY <1>1, <1>2 DEF TableInv, TablesShaped
  <1>4. SocketsMade'
    <2>1. \A g \in Tids, x \in Fds : files[g][x] # None => files[g][x].id \in Nat
      BY DEF TableInv, TablesShaped, Socket
    <2>2. v # None => v.id \in Nat /\ v.id <= uses
      BY <1>1, <2>1 DEF File, TableInv, SocketsMade
    <2> QED
      BY <1>1, <1>2, <2>1, <2>2 DEF TableInv, SocketsMade
  <1>5. SocketsKnown'
    <2> SUFFICES ASSUME NEW u \in Live PROVE
          /\ \A x \in DOMAIN fake'[u] : <<u, x>> \notin loose' => files'[group[u]][x] = [kind |-> "fake", id |-> fake'[u][x].id]
          /\ \A x \in DOMAIN real'[u] : <<u, x>> \notin loose' => files'[group[u]][x] = [kind |-> "real", id |-> real'[u][x]]
      BY <1>1 DEF SocketsKnown, File
    <2>1. u \in Tids /\ group[u] \in Tids
      BY GroupAlive DEF TableInv
    <2> QED
      BY <1>2, <2>1 DEF TableInv, SocketsKnown, File, TablesShaped
  <1> QED
    BY <1>3, <1>4, <1>5 DEF TableInv

LEMMA ChildTables ==
  ASSUME TableInv, NEW t \in Tids, NEW u \in Tids, NEW shared \in BOOLEAN, NEW newnet \in BOOLEAN,
         new_child(t, u, shared, newnet)
  PROVE  TableInv' /\ Live' = Live \cup {u} /\ u \notin Live
  <1>1. /\ t \in Live /\ u \notin Live /\ uses < MaxNet /\ uses' = uses + 1
        /\ group' = [group EXCEPT ![u] = IF shared THEN group[t] ELSE u]
        /\ files' = (IF shared THEN files ELSE [files EXCEPT ![u] = files[group[t]]])
        /\ fake' = [fake EXCEPT ![u] = [x \in DOMAIN fake[t] |-> [id |-> fake[t][x].id, reply |-> <<>>]]]
        /\ real' = [real EXCEPT ![u] = real[t]]
        /\ netns' = (IF t \in netns \/ newnet THEN netns \cup {u} ELSE netns)
        /\ loose' = loose \cup {<<u, x>> : x \in {g \in Fds : <<t, g>> \in loose}}
    BY DEF new_child, Tick
  <1>2. group[t] \in Live /\ group[t] \in Tids /\ t # u /\ group[t] # u /\ u # None
    BY <1>1, GroupAlive, NetlinkAssumption DEF TableInv
  <1>3. /\ group'[u] = IF shared THEN group[t] ELSE u
        /\ \A v \in Tids : v # u => group'[v] = group[v]
    BY <1>1 DEF TableInv, TablesShaped
  <1>4. Live' = Live \cup {u}
    BY <1>2, <1>3, NetlinkAssumption DEF Live
  <1>5. /\ files' \in [Tids -> [Fds -> Socket \cup {None}]]
        /\ \A g \in Tids : g # u => files'[g] = files[g]
        /\ files'[u] \in {files[u], files[group[t]]} /\ files'[group'[u]] = files[group[t]]
    BY <1>1, <1>2, <1>3 DEF TableInv, TablesShaped
  <1>6. /\ DOMAIN fake' = Tids /\ \A v \in Tids : v # u => fake'[v] = fake[v]
        /\ DOMAIN fake'[u] = DOMAIN fake[t]
        /\ \A x \in DOMAIN fake[t] : fake'[u][x].id = fake[t][x].id
    BY <1>1 DEF TableInv, TablesShaped
  <1>7. /\ DOMAIN real' = Tids /\ \A v \in Tids : v # u => real'[v] = real[v]
        /\ real'[u] = real[t]
    BY <1>1 DEF TableInv, TablesShaped
  <1>8. TablesShaped'
    <2>1. group' \in [Tids -> Live' \cup {None}]
      BY <1>1, <1>2, <1>4 DEF TableInv, TablesShaped
    <2>2. uses' \in 0..MaxNet /\ netns' \subseteq Live'
      BY <1>1, <1>4, NetlinkAssumption DEF TableInv, TablesShaped
    <2>3. \A v \in Tids : \A x \in DOMAIN fake'[v] : x \in Fds /\ fake'[v][x].id \in 1..MaxNet
      BY <1>6 DEF TableInv, TablesShaped
    <2>4. \A v \in Tids : \A x \in DOMAIN real'[v] : x \in Fds /\ real'[v][x] \in 1..MaxNet
      BY <1>7 DEF TableInv, TablesShaped
    <2> QED
      BY <1>5, <1>6, <1>7, <2>1, <2>2, <2>3, <2>4 DEF TablesShaped
  <1>9. SocketsMade'
    <2>1. uses \in Nat /\ \A g \in Tids, x \in Fds : files[g][x] # None => files[g][x].id \in Nat
      BY NetlinkAssumption DEF TableInv, TablesShaped, Socket
    <2>2. \A g \in Tids : \E h \in Tids : files'[g] = files[h]
      BY <1>2, <1>5
    <2> QED
      BY <1>1, <2>1, <2>2 DEF TableInv, SocketsMade
  <1>10. SocketsKnown'
    <2> SUFFICES ASSUME NEW v \in Live \cup {u} PROVE
          /\ \A x \in DOMAIN fake'[v] : <<v, x>> \notin loose' =>
               files'[group'[v]][x] = [kind |-> "fake", id |-> fake'[v][x].id]
          /\ \A x \in DOMAIN real'[v] : <<v, x>> \notin loose' =>
               files'[group'[v]][x] = [kind |-> "real", id |-> real'[v][x]]
      BY <1>4 DEF SocketsKnown, File
    <2>1. CASE v # u
      <3>1. v \in Live /\ group[v] \in Live /\ group[v] # u /\ group[v] \in Tids /\ v \in Tids
        BY <1>1, <2>1, GroupAlive DEF TableInv
      <3> QED
        BY <1>1, <1>3, <1>5, <1>6, <1>7, <2>1, <3>1 DEF TableInv, SocketsKnown, File
    <2>2. CASE v = u
      <3>1. \A x \in Fds : <<u, x>> \notin loose' => <<t, x>> \notin loose
        BY <1>1
      <3> QED
        BY <1>1, <1>5, <1>6, <1>7, <2>2, <3>1 DEF TableInv, SocketsKnown, File, TablesShaped
    <2> QED
      BY <2>1, <2>2
  <1> QED
    BY <1>1, <1>4, <1>8, <1>9, <1>10 DEF TableInv

LEMMA TableInvStep == TableInv /\ [NetNext]_netvars => TableInv'
  <1> SUFFICES ASSUME TableInv, [NetNext]_netvars PROVE TableInv'  OBVIOUS
  <1>1. DOMAIN fake = Tids /\ DOMAIN real = Tids
    BY DEF TableInv, TablesShaped
  <1>2. ASSUME NEW t \in Tids, NEW fd \in Fds, NEW route \in BOOLEAN, socket(t, fd, route) PROVE TableInv'
    BY <1>2, SocketTables
  <1>3. ASSUME NEW t \in Tids, NEW fd \in Fds, close(t, fd) PROVE TableInv'
    <2>1. /\ t \in Live /\ Tick /\ Sets(t, {fd}, None) /\ UNCHANGED <<group, netns>>
          /\ fake' = [fake EXCEPT ![t] = Without(@, {fd})] /\ real' = [real EXCEPT ![t] = Without(@, {fd})]
          /\ loose' = (loose \ {<<t, fd>>}) \cup Others(t, {fd})
      BY <1>3 DEF close, unmark
    <2>2. /\ DOMAIN fake' = Tids /\ DOMAIN fake'[t] = DOMAIN fake[t] \ {fd}
          /\ \A u \in Tids : \A x \in DOMAIN fake'[u] : x \in DOMAIN fake[u] /\ fake'[u][x] = fake[u][x]
      BY <1>1, <2>1 DEF Without
    <2>3. /\ DOMAIN real' = Tids /\ DOMAIN real'[t] = DOMAIN real[t] \ {fd}
          /\ \A u \in Tids : \A x \in DOMAIN real'[u] : x \in DOMAIN real[u] /\ real'[u][x] = real[u][x]
      BY <1>1, <2>1 DEF Without
    <2>4. ASSUME NEW u \in Live, NEW x \in Fds,
                 <<u, x>> \notin loose', x \in DOMAIN fake'[u] \cup DOMAIN real'[u]
          PROVE  <<u, x>> \notin loose /\ ~(group[u] = group[t] /\ x \in {fd})
      <3>1. ~(u = t /\ x = fd)
        BY <2>2, <2>3, <2>4
      <3>2. <<u, x>> \notin loose
        BY <2>1, <2>4, <3>1
      <3>3. <<u, x>> \notin Others(t, {fd})
        BY <2>1, <2>4
      <3>4. ~(group[u] = group[t] /\ x = fd)
        BY <3>1, <3>3 DEF Others
      <3> QED
        BY <3>2, <3>4
    <2>5. Tick /\ Sets(t, {fd}, None) /\ UNCHANGED <<group, netns>> /\ t \in Live /\ {fd} \in SUBSET Fds
      BY <2>1
    <2>6. DOMAIN fake' = Tids /\ DOMAIN real' = Tids
      BY <2>2, <2>3
    <2> HIDE <1>3
    <2> QED
      BY <2>2, <2>3, <2>4, <2>5, <2>6, ClosedTables
  <1>4. ASSUME NEW t \in Tids, NEW S \in SUBSET Fds, CloseUnseen(t, S) PROVE TableInv'
    <2>1. /\ t \in Live /\ Tick /\ Sets(t, S, None) /\ UNCHANGED <<group, netns, fake, real>>
          /\ loose' = loose \cup ({t} \X S) \cup Others(t, S)
      BY <1>4 DEF CloseUnseen
    <2>2. \A u \in Live, x \in Fds : <<u, x>> \notin loose' =>
            <<u, x>> \notin loose /\ ~(group[u] = group[t] /\ x \in S)
      BY <2>1 DEF Others
    <2> QED
      BY <1>1, <2>1, <2>2, ClosedTables
  <1>5. ASSUME NEW t \in Tids, NEW u \in Tids, NEW shared \in BOOLEAN, NEW newnet \in BOOLEAN,
               new_child(t, u, shared, newnet)
        PROVE  TableInv'
    BY <1>5, ChildTables
  <1>6. ASSUME NEW t \in Tids, NEW fd \in Fds, NEW r, SendFake(t, fd, r) PROVE TableInv'
    BY <1>1, <1>6, TablesKept DEF SendFake
  <1>7. ASSUME NEW t \in Tids, NEW fd \in Fds, RecvFake(t, fd) PROVE TableInv'
    BY <1>1, <1>7, TablesKept DEF RecvFake
  <1>8. ASSUME NEW t \in Tids, NEW fd \in Fds, NEW b \in BOOLEAN,
               RecvReal(t, fd, b) \/ \E error \in {"ack", "denied", "invalid"} : SendReal(t, fd, b, error)
        PROVE  TableInv'
    <2>1. Tick /\ UNCHANGED <<group, files, netns, loose, fake, real>>
      BY <1>8 DEF RecvReal, SendReal
    <2> QED
      BY <1>1, <2>1, TablesKept
  <1>9. CASE UNCHANGED netvars
    BY <1>9 DEF netvars, TableInv, TablesShaped, SocketsMade, SocketsKnown, Live, File
  <1>10. ASSUME NEW t \in Tids, NEW fd \in Fds, NEW to \in Fds, Duplicate(t, fd, to) PROVE TableInv'
    <2>1. /\ t \in Live /\ Tick /\ Sets(t, {to}, File(t, fd)) /\ UNCHANGED <<group, netns, fake, real>>
          /\ loose' = loose \cup {<<t, to>>} \cup Others(t, {to})
      BY <1>10 DEF Duplicate
    <2>2. \A u \in Live, x \in Fds : <<u, x>> \notin loose' =>
            <<u, x>> \notin loose /\ ~(group[u] = group[t] /\ x \in {to})
      BY <2>1 DEF Others
    <2>3. {to} \in SUBSET Fds /\ \E x \in Fds : File(t, fd) = File(t, x)
      OBVIOUS
    <2> HIDE <1>10
    <2> QED
      BY <1>1, <2>1, <2>2, <2>3, ClosedTables
  <1> QED
    BY <1>2, <1>3, <1>4, <1>5, <1>6, <1>7, <1>8, <1>9, <1>10 DEF NetNext

------------------------------------------------------------------------------------
LEMMA QueueInvInit == NetInit => QueueInv
  <1> SUFFICES ASSUME NetInit PROVE QueueInv  OBVIOUS
  <1>1. queue = [i \in 1..MaxNet |-> <<>>] /\ ack = [t \in Tids |-> None] /\ told = None
    BY DEF NetInit
  <1>2. queue \in [1..MaxNet -> Seq(Request)] /\ \A i \in 1..MaxNet : queue[i] = <<>> /\ DOMAIN queue[i] = {}
    BY <1>1
  <1>3. \A t \in Tids : ack[t] = None
    BY <1>1
  <1> QED
    BY <1>1, <1>2, <1>3 DEF QueueInv, QueuesShaped, AcksOwn, AcksKept, ToldRight, AckedRight

(* A call that neither sends to a real socket nor receives from one: who knows a socket has   *)
(* known it before, or it is new, and only what a descriptor was closed for is forgotten.    *)
Unasked ==
  /\ UNCHANGED <<queue, told>> /\ Live \subseteq Live'
  /\ \A u \in Live : u \in netns' <=> u \in netns
  /\ netns \subseteq netns' /\ ack' \in [Tids -> Pending \cup {None}]
  /\ \A u \in Tids : ack'[u] \in {ack[u], None}
  /\ \A u \in Live : \A x \in DOMAIN real'[u] : <<u, x>> \notin loose' =>
       \/ real'[u][x] > uses
       \/ /\ x \in DOMAIN real[u] /\ real'[u][x] = real[u][x] /\ <<u, x>> \notin loose
          /\ ack'[u] = ack[u] \/ ack[u].fd # x

LEMMA QueueKept ==
  ASSUME TableInv, QueueInv, Tick, Unasked
  PROVE  QueueInv'
  <1>1. uses \in Nat /\ uses' = uses + 1 /\ netns \subseteq Live /\ Live \subseteq Tids
    BY NetlinkAssumption DEF TableInv, TablesShaped, Tick, Live
  <1>2. /\ queue \in [1..MaxNet -> Seq(Request)]
        /\ \A i \in 1..MaxNet : \A k \in DOMAIN queue[i] : queue[i][k].seq \in Nat
    <2>1. \A q \in Seq(Request) : \A k \in DOMAIN q : q[k] \in Request
      OBVIOUS
    <2>2. \A e \in Request : e.seq \in Nat
      BY NetlinkAssumption DEF Request
    <2> QED
      BY <2>1, <2>2 DEF QueueInv, QueuesShaped
  <1>3. QueuesShaped'
    <2> QED
      BY <1>1, <1>2 DEF Unasked, QueueInv, QueuesShaped
  <1>4. AcksOwn'
    <2>1. \A u \in Tids : ack[u] # None => ack[u].seq \in Nat
      BY DEF QueueInv, QueuesShaped, Pending
    <2> QED
      BY <1>1, <1>2, <2>1 DEF Unasked, QueueInv, AcksOwn
  <1>5. AcksKept'
    <2> SUFFICES ASSUME NEW i \in 1..MaxNet, NEW k \in DOMAIN queue[i],
                        queue[i][k].alone, queue[i][k].changes, queue[i][k].by \in netns',
                        NEW x \in DOMAIN real'[queue[i][k].by],
                        queue[i][k].fd = x, <<queue[i][k].by, x>> \notin loose',
                        real'[queue[i][k].by][x] = i
                 PROVE  ack'[queue[i][k].by] = [fd |-> x, seq |-> queue[i][k].seq]
      BY DEF Unasked, AcksKept
    <2>1. PICK u \in Live : u = queue[i][k].by /\ u \in netns
      BY DEF QueueInv, QueuesShaped, Unasked
    <2>2. i <= uses
      BY <1>1 DEF QueueInv, QueuesShaped
    <2>3. /\ x \in DOMAIN real[u] /\ real[u][x] = i /\ <<u, x>> \notin loose
          /\ ack'[u] = ack[u] \/ ack[u].fd # x
      BY <1>1, <2>1, <2>2 DEF Unasked
    <2>4. ack[u] = [fd |-> x, seq |-> queue[i][k].seq]
      BY <2>1, <2>3 DEF QueueInv, AcksKept
    <2> QED
      BY <2>1, <2>3, <2>4
  <1>6. ToldRight'
    BY DEF Unasked, QueueInv, ToldRight, AckedRight
  <1> QED
    BY <1>3, <1>4, <1>5, <1>6 DEF QueueInv

LEMMA UnaskedCalls ==
  ASSUME TableInv, QueueInv, NEW t \in Tids, NEW fd \in Fds,
         \/ \E route \in BOOLEAN : socket(t, fd, route)
         \/ close(t, fd)
         \/ \E S \in SUBSET Fds : CloseUnseen(t, S)
         \/ \E to \in Fds : Duplicate(t, fd, to)
         \/ \E r : SendFake(t, fd, r)
         \/ RecvFake(t, fd)
  PROVE  Tick /\ Unasked
  <1>1. /\ DOMAIN real = Tids /\ ack \in [Tids -> Pending \cup {None}] /\ uses \in Nat
        /\ Live \subseteq Tids
    BY NetlinkAssumption DEF TableInv, TablesShaped, QueueInv, QueuesShaped, Live
  <1>2. ASSUME NEW route \in BOOLEAN, socket(t, fd, route) PROVE Tick /\ Unasked
    <2>1. /\ real' = IF route /\ ~blocked THEN [real EXCEPT ![t] = Marked(@, fd, uses + 1)] ELSE real
          /\ UNCHANGED <<group, netns, ack, queue, loose, told>> /\ Tick
      BY <1>2 DEF socket
    <2>2. \A u \in Tids : \A x \in DOMAIN real'[u] :
            \/ x \in DOMAIN real[u] /\ real'[u][x] = real[u][x]
            \/ real'[u][x] = uses + 1
      BY <1>1, <2>1, MarkedIs
    <2>3. UNCHANGED <<group, netns, ack, queue, loose, told>> /\ Tick
      BY <2>1
    <2> QED
      BY <1>1, <2>2, <2>3 DEF Unasked, Live
  <1>3. ASSUME close(t, fd) PROVE Tick /\ Unasked
    <2>1. /\ Tick /\ UNCHANGED <<group, netns, queue, told>>
          /\ real' = [real EXCEPT ![t] = Without(@, {fd})]
          /\ ack' = IF ack[t] # None /\ ack[t].fd = fd THEN [ack EXCEPT ![t] = None] ELSE ack
          /\ loose' = (loose \ {<<t, fd>>}) \cup Others(t, {fd})
      BY <1>3 DEF close, unmark, Drop
    <2>2. \A u \in Tids : \A x \in DOMAIN real'[u] :
            x \in DOMAIN real[u] /\ real'[u][x] = real[u][x] /\ ~(u = t /\ x = fd)
      BY <1>1, <2>1 DEF Without
    <2>3. /\ ack' \in [Tids -> Pending \cup {None}]
          /\ \A u \in Tids : ack'[u] = ack[u] \/ (u = t /\ ack'[u] = None /\ ack[u].fd = fd)
      BY <1>1, <2>1
    <2>4. \A u \in Tids, x \in Fds : <<u, x>> \notin loose' /\ ~(u = t /\ x = fd) => <<u, x>> \notin loose
      BY <2>1
    <2>5. Tick /\ UNCHANGED <<group, netns, queue, told>>
      BY <2>1
    <2>6. \A u \in Tids : \A x \in DOMAIN real[u] : x \in Fds
      BY DEF TableInv, TablesShaped
    <2>7. \A u \in Live : \A x \in DOMAIN real'[u] : <<u, x>> \notin loose' =>
            /\ x \in DOMAIN real[u] /\ real'[u][x] = real[u][x] /\ <<u, x>> \notin loose
            /\ ack'[u] = ack[u] \/ ack[u].fd # x
      BY <1>1, <2>2, <2>3, <2>4, <2>6
    <2> QED
      BY <1>1, <2>3, <2>5, <2>7 DEF Unasked, Live
  <1>4. ASSUME NEW S \in SUBSET Fds, CloseUnseen(t, S) PROVE Tick /\ Unasked
    BY <1>1, <1>4 DEF CloseUnseen, Unasked, Live
  <1>5. ASSUME NEW r, SendFake(t, fd, r) PROVE Tick /\ Unasked
    BY <1>1, <1>5 DEF SendFake, Unasked, Live
  <1>6. ASSUME RecvFake(t, fd) PROVE Tick /\ Unasked
    BY <1>1, <1>6 DEF RecvFake, Unasked, Live
  <1>7. ASSUME NEW to \in Fds, Duplicate(t, fd, to) PROVE Tick /\ Unasked
    BY <1>1, <1>7 DEF Duplicate, Unasked, Live
  <1> QED
    BY <1>2, <1>3, <1>4, <1>5, <1>6, <1>7

LEMMA UnaskedChild ==
  ASSUME TableInv, QueueInv, NEW t \in Tids, NEW u \in Tids, NEW shared \in BOOLEAN,
         NEW newnet \in BOOLEAN, new_child(t, u, shared, newnet)
  PROVE  Tick /\ Unasked
  <1>1. /\ DOMAIN real = Tids /\ ack \in [Tids -> Pending \cup {None}] /\ Live \subseteq Tids
    BY DEF TableInv, TablesShaped, QueueInv, QueuesShaped, Live
  <1>2. Live' = Live \cup {u} /\ u \notin Live
    BY ChildTables
  <1>3. /\ real' = [real EXCEPT ![u] = real[t]] /\ UNCHANGED <<ack, queue, told>> /\ Tick
        /\ netns' = (IF t \in netns \/ newnet THEN netns \cup {u} ELSE netns)
        /\ loose \subseteq loose'
    BY DEF new_child
  <1>4. \A v \in Live : real'[v] = real[v]
    BY <1>1, <1>2, <1>3
  <1> QED
    BY <1>1, <1>2, <1>3, <1>4 DEF Unasked

(* A real socket's answers when another is asked for: none of them is alone.               *)
Accompanied(q) == [k \in DOMAIN q |-> [q[k] EXCEPT !.alone = FALSE]]

LEMMA AccompaniedIs ==
  ASSUME NEW q \in Seq(Request)
  PROVE  /\ Accompanied(q) \in Seq(Request) /\ Len(Accompanied(q)) = Len(q)
         /\ DOMAIN Accompanied(q) = DOMAIN q
         /\ \A k \in DOMAIN q : /\ Accompanied(q)[k].seq = q[k].seq /\ Accompanied(q)[k].by = q[k].by
                                /\ Accompanied(q)[k].changes = q[k].changes
                                /\ ~Accompanied(q)[k].alone
  <1>1. \A k \in 1..Len(q) : q[k] \in Request
    OBVIOUS
  <1>2. \A e \in Request : /\ [e EXCEPT !.alone = FALSE] \in Request
                           /\ [e EXCEPT !.alone = FALSE].seq = e.seq /\ [e EXCEPT !.alone = FALSE].by = e.by
                           /\ [e EXCEPT !.alone = FALSE].changes = e.changes
                           /\ ~[e EXCEPT !.alone = FALSE].alone
    BY DEF Request
  <1>3. Accompanied(q) = [k \in 1..Len(q) |-> [q[k] EXCEPT !.alone = FALSE]] /\ Len(q) \in Nat
    BY DEF Accompanied
  <1>4. Accompanied(q) \in Seq(Request) /\ Len(Accompanied(q)) = Len(q)
    BY <1>1, <1>2, <1>3, IsASeq
  <1> QED
    BY <1>1, <1>2, <1>3, <1>4

LEMMA SentReal ==
  ASSUME TableInv, QueueInv, NEW t \in Tids, NEW fd \in Fds, NEW changes \in BOOLEAN,
         NEW error \in {"ack", "denied", "invalid"}, SendReal(t, fd, changes, error)
  PROVE  QueueInv'
  <1>1. PICK i : i = File(t, fd).id  OBVIOUS
  <1>2. PICK a \in BOOLEAN :
          a = \A u \in Live, g \in Fds : files[group[u]][g] # None => queue[files[group[u]][g].id] = <<>>
    OBVIOUS
  <1>3. PICK e0 : e0 = [seq |-> uses + 1, by |-> t, fd |-> fd, changes |-> changes, error |-> error,
                      alone |-> a]
    OBVIOUS
  <1>4. /\ t \in Live /\ File(t, fd) # None /\ File(t, fd).kind = "real" /\ Tick
        /\ queue' = [j \in DOMAIN queue |-> IF j = i THEN Append(Accompanied(queue[j]), e0)
                                            ELSE Accompanied(queue[j])]
        /\ ack' = IF t \in netns /\ fd \in DOMAIN real[t] /\ changes
                  THEN [ack EXCEPT ![t] = [fd |-> fd, seq |-> uses + 1]] ELSE ack
        /\ UNCHANGED <<group, files, real, netns, loose, told>>
    BY <1>1, <1>2, <1>3 DEF SendReal, note_netns_netlink_request, Accompanied
  <1>5. uses \in Nat /\ uses' = uses + 1 /\ uses' \in 1..MaxNet /\ Live' = Live /\ Live \subseteq Tids
    BY <1>4, NetlinkAssumption DEF Tick, TableInv, TablesShaped, Live
  <1>6. group[t] \in Tids /\ files[group[t]][fd] \in Socket /\ i \in 1..MaxNet /\ i <= uses
    BY <1>1, <1>4, GroupAlive DEF File, TableInv, TablesShaped, SocketsMade, Socket
  <1>7. e0 \in Request /\ e0.seq = uses + 1 /\ e0.by = t /\ e0.fd = fd /\ e0.changes = changes /\ e0.alone = a
    BY <1>3, <1>5 DEF Request
  <1>8. a => queue[i] = <<>>
    BY <1>1, <1>2, <1>4 DEF File
  <1>9. /\ queue' \in [1..MaxNet -> Seq(Request)]
        /\ \A j \in 1..MaxNet : /\ queue[j] \in Seq(Request)
                                /\ Len(queue'[j]) = Len(queue[j]) + (IF j = i THEN 1 ELSE 0)
        /\ \A j \in 1..MaxNet : \A k \in DOMAIN queue'[j] :
             \/ j = i /\ queue'[j][k] = e0
             \/ /\ k \in DOMAIN queue[j] /\ ~queue'[j][k].alone
                /\ queue'[j][k].seq = queue[j][k].seq /\ queue'[j][k].by = queue[j][k].by
                /\ queue'[j][k].changes = queue[j][k].changes
    <2>1. queue \in [1..MaxNet -> Seq(Request)]
      BY DEF QueueInv, QueuesShaped
    <2> SUFFICES ASSUME NEW j \in 1..MaxNet PROVE
          /\ queue'[j] \in Seq(Request) /\ queue[j] \in Seq(Request)
          /\ Len(queue'[j]) = Len(queue[j]) + (IF j = i THEN 1 ELSE 0)
          /\ \A k \in DOMAIN queue'[j] :
               \/ j = i /\ queue'[j][k] = e0
               \/ /\ k \in DOMAIN queue[j] /\ ~queue'[j][k].alone
                  /\ queue'[j][k].seq = queue[j][k].seq /\ queue'[j][k].by = queue[j][k].by
                  /\ queue'[j][k].changes = queue[j][k].changes
      BY <1>4, <2>1
    <2>2. PICK q \in Seq(Request) : q = Accompanied(queue[j]) /\ Len(q) = Len(queue[j])
             /\ DOMAIN q = DOMAIN queue[j] /\ queue[j] \in Seq(Request)
             /\ \A k \in DOMAIN queue[j] : /\ q[k].seq = queue[j][k].seq /\ q[k].by = queue[j][k].by
                                           /\ q[k].changes = queue[j][k].changes /\ ~q[k].alone
      BY <2>1, AccompaniedIs
    <2>3. queue'[j] = IF j = i THEN Append(q, e0) ELSE q
      BY <1>4, <2>1, <2>2
    <2>4. /\ Append(q, e0) \in Seq(Request) /\ Len(Append(q, e0)) = Len(q) + 1
          /\ \A k \in DOMAIN Append(q, e0) : (k \in DOMAIN q /\ Append(q, e0)[k] = q[k]) \/ Append(q, e0)[k] = e0
      BY <1>7
    <2>5. CASE j = i
      BY <2>2, <2>3, <2>4, <2>5
    <2>6. CASE j # i
      BY <2>2, <2>3, <2>6
    <2> QED
      BY <2>5, <2>6
  <1>10. \A j \in 1..MaxNet : \A k \in DOMAIN queue[j] :
           queue[j][k].seq <= uses /\ queue[j][k].by \in Live /\ queue[j][k].seq \in Nat
    <2>1. \A q \in Seq(Request) : \A k \in DOMAIN q : q[k] \in Request
      OBVIOUS
    <2>2. \A e \in Request : e.seq \in Nat
      BY NetlinkAssumption DEF Request
    <2> QED
      BY <1>9, <2>1, <2>2 DEF QueueInv, QueuesShaped
  <1>11. \A j \in 1..MaxNet : \A k \in DOMAIN queue'[j] : queue'[j][k].alone =>
           j = i /\ queue'[j][k] = e0 /\ a
    BY <1>7, <1>9
  <1>12. /\ ack' \in [Tids -> Pending \cup {None}]
         /\ \A u \in Tids : \/ ack'[u] = ack[u]
                            \/ u = t /\ t \in netns /\ changes /\ ack'[u].seq = uses + 1
         /\ t \in netns /\ fd \in DOMAIN real[t] /\ changes => ack'[t] = [fd |-> fd, seq |-> uses + 1]
         /\ \A u \in Tids : ack[u] # None => ack[u].seq \in Nat
    <2>1. ack \in [Tids -> Pending \cup {None}] /\ [fd |-> fd, seq |-> uses + 1] \in Pending
      BY <1>5 DEF QueueInv, QueuesShaped, Pending
    <2>2. \A u \in Tids : ack[u] # None => ack[u].seq \in Nat
      BY <2>1 DEF Pending
    <2> QED
      BY <1>4, <2>1, <2>2
  <1>13. UNCHANGED <<group, files, real, netns, loose, told>>
    BY <1>4
  <1>14. QueuesShaped'
    <2>1. \A j \in 1..MaxNet : j > uses' => queue'[j] = <<>>
      <3> SUFFICES ASSUME NEW j \in 1..MaxNet, j > uses' PROVE queue'[j] = <<>>  OBVIOUS
      <3>1. j # i /\ queue[j] = <<>>
        BY <1>5, <1>6 DEF QueueInv, QueuesShaped
      <3>2. Len(queue'[j]) = 0 /\ queue'[j] \in Seq(Request)
        BY <1>9, <3>1
      <3> QED
        BY <3>2, EmptySeq
    <2>2. \A j \in 1..MaxNet : \A k \in DOMAIN queue'[j] :
            queue'[j][k].seq <= uses' /\ queue'[j][k].by \in Live'
      <3> SUFFICES ASSUME NEW j \in 1..MaxNet, NEW k \in DOMAIN queue'[j]
                   PROVE  queue'[j][k].seq <= uses' /\ queue'[j][k].by \in Live'
        OBVIOUS
      <3>1. CASE queue'[j][k] = e0
        <4>1. t \in Live
          BY <1>4
        <4> QED
          BY <1>5, <1>7, <3>1, <4>1
      <3>2. CASE /\ k \in DOMAIN queue[j] /\ queue'[j][k].seq = queue[j][k].seq
                 /\ queue'[j][k].by = queue[j][k].by
        BY <1>5, <1>10, <3>2
      <3> QED
        BY <1>9, <3>1, <3>2
    <2>3. \A j \in 1..MaxNet : \A k \in DOMAIN queue'[j] : queue'[j][k].alone => Len(queue'[j]) = 1
      <3>1. a => Len(queue[i]) = 0
        BY <1>8
      <3>2. Len(queue'[i]) = Len(queue[i]) + 1
        BY <1>6, <1>9
      <3>3. a => Len(queue'[i]) = 1
        BY <3>1, <3>2
      <3>4. \A j \in 1..MaxNet : \A k \in DOMAIN queue'[j] : queue'[j][k].alone => j = i /\ a
        BY <1>11
      <3> QED
        BY <3>3, <3>4
    <2> QED
      BY <1>9, <1>12, <2>1, <2>2, <2>3 DEF QueuesShaped
  <1>15. AcksOwn'
    <2> SUFFICES ASSUME NEW u \in Tids, ack'[u] # None PROVE
          /\ u \in netns' /\ ack'[u].seq <= uses'
          /\ \A j \in 1..MaxNet : \A k \in DOMAIN queue'[j] :
               queue'[j][k].seq = ack'[u].seq => queue'[j][k].by = u /\ queue'[j][k].changes
      BY DEF AcksOwn
    <2>1. CASE ack'[u] = ack[u]
      <3>1. ack'[u].seq <= uses /\ ack'[u].seq \in Nat /\ u \in netns
        BY <1>12, <2>1 DEF QueueInv, AcksOwn
      <3>2. \A j \in 1..MaxNet : \A k \in DOMAIN queue[j] :
              queue[j][k].seq = ack'[u].seq => queue[j][k].by = u /\ queue[j][k].changes
        BY <2>1 DEF QueueInv, AcksOwn
      <3> QED
        BY <1>5, <1>7, <1>9, <1>13, <3>1, <3>2
    <2>2. CASE u = t /\ t \in netns /\ changes /\ ack'[u].seq = uses + 1
      <3>1. ASSUME NEW j \in 1..MaxNet, NEW k \in DOMAIN queue'[j], queue'[j][k].seq = uses + 1
            PROVE  queue'[j][k] = e0
        <4>1. ~(k \in DOMAIN queue[j] /\ queue'[j][k].seq = queue[j][k].seq)
          BY <1>5, <1>10, <3>1
        <4> QED
          BY <1>9, <4>1
      <3>2. u \in netns' /\ ack'[u].seq <= uses'
        BY <1>5, <1>13, <2>2
      <3> QED
        BY <1>7, <2>2, <3>1, <3>2
    <2> QED
      BY <1>12, <2>1, <2>2
  <1>16. AcksKept'
    <2> SUFFICES ASSUME NEW j \in 1..MaxNet, NEW k \in DOMAIN queue'[j],
                        queue'[j][k].alone, queue'[j][k].changes, queue'[j][k].by \in netns',
                        NEW x \in DOMAIN real'[queue'[j][k].by],
                        queue'[j][k].fd = x, <<queue'[j][k].by, x>> \notin loose',
                        real'[queue'[j][k].by][x] = j
                 PROVE  ack'[queue'[j][k].by] = [fd |-> x, seq |-> queue'[j][k].seq]
      BY DEF AcksKept
    <2>1. j = i /\ queue'[j][k] = e0
      BY <1>11
    <2>2. changes /\ t \in netns /\ x \in DOMAIN real[t] /\ <<t, x>> \notin loose /\ real[t][x] = i
      BY <1>7, <1>13, <2>1
    <2>3. x = fd
      BY <1>7, <2>1
    <2> QED
      BY <1>7, <1>12, <2>1, <2>2, <2>3
  <1>17. ToldRight'
    BY <1>5, <1>13 DEF QueueInv, ToldRight, AckedRight
  <1> QED
    BY <1>14, <1>15, <1>16, <1>17 DEF QueueInv

LEMMA ReceivedReal ==
  ASSUME TableInv, QueueInv, NEW t \in Tids, NEW fd \in Fds, NEW peek \in BOOLEAN, RecvReal(t, fd, peek)
  PROVE  QueueInv'
  <1>1. PICK i : i = File(t, fd).id  OBVIOUS
  <1>2. PICK e : e = Head(queue[i])  OBVIOUS
  <1>3. /\ t \in Live /\ File(t, fd) # None /\ queue[i] # <<>> /\ Tick
        /\ told' = [e |-> e, to |-> t, as |-> Shown(t, fd, e),
                    known |-> e.fd = fd /\ <<t, fd>> \notin loose /\ fd \in DOMAIN real[t]]
        /\ queue' = IF peek THEN queue ELSE [queue EXCEPT ![i] = Tail(@)]
        /\ ack' = IF ack[t] # None /\ ack[t].fd = fd /\ ~peek THEN [ack EXCEPT ![t] = None] ELSE ack
        /\ UNCHANGED <<group, real, netns, loose>>
    BY <1>1, <1>2 DEF RecvReal
  <1>4. uses \in Nat /\ uses' = uses + 1 /\ Live' = Live /\ Live \subseteq Tids
    BY <1>3, NetlinkAssumption DEF Tick, TableInv, TablesShaped, Live
  <1>5. i \in 1..MaxNet
    BY <1>1, <1>3, GroupAlive DEF File, TableInv, TablesShaped, Socket
  <1>6. queue \in [1..MaxNet -> Seq(Request)] /\ ack \in [Tids -> Pending \cup {None}]
    BY DEF QueueInv, QueuesShaped
  <1>7. 1 \in DOMAIN queue[i] /\ e = queue[i][1]
    BY <1>2, <1>3, <1>5, <1>6
  <1>8. /\ queue' \in [1..MaxNet -> Seq(Request)]
        /\ \A j \in 1..MaxNet : queue[j] = <<>> => queue'[j] = <<>>
        /\ \A j \in 1..MaxNet : \A k \in DOMAIN queue'[j] :
             \/ (j # i \/ peek) /\ queue'[j] = queue[j]
             \/ j = i /\ Len(queue[j]) > 1 /\ \E m \in DOMAIN queue[j] : queue'[j][k] = queue[j][m]
    <2>1. CASE peek
      BY <1>3, <1>6, <2>1
    <2>2. CASE ~peek
      <3>1. /\ Tail(queue[i]) \in Seq(Request) /\ queue[i] \in Seq(Request)
            /\ \A k \in DOMAIN Tail(queue[i]) :
                 k + 1 \in DOMAIN queue[i] /\ Tail(queue[i])[k] = queue[i][k + 1] /\ Len(queue[i]) > 1
        BY <1>3, <1>5, <1>6
      <3>2. queue' = [queue EXCEPT ![i] = Tail(queue[i])]
        BY <1>3, <2>2
      <3> QED
        BY <1>3, <1>5, <1>6, <3>1, <3>2
    <2> QED
      BY <2>1, <2>2
  <1>9. /\ ack' \in [Tids -> Pending \cup {None}]
        /\ \A u \in Tids : ack'[u] = ack[u] \/ (ack'[u] = None /\ u = t /\ ack[u].fd = fd /\ ~peek)
    BY <1>3, <1>6
  <1>10. UNCHANGED <<group, real, netns, loose>>
    BY <1>3
  <1>11. \A j \in 1..MaxNet : \A k \in DOMAIN queue[j] :
           queue[j][k].seq <= uses /\ queue[j][k].by \in Live /\ queue[j][k].seq \in Nat
    <2>1. \A q \in Seq(Request) : \A k \in DOMAIN q : q[k] \in Request
      OBVIOUS
    <2>2. \A r \in Request : r.seq \in Nat
      BY NetlinkAssumption DEF Request
    <2> QED
      BY <1>6, <2>1, <2>2 DEF QueueInv, QueuesShaped
  <1>12. QueuesShaped'
    <2>1. \A j \in 1..MaxNet : j > uses' => queue'[j] = <<>>
      BY <1>4, <1>8 DEF QueueInv, QueuesShaped
    <2>2. ASSUME NEW j \in 1..MaxNet, NEW k \in DOMAIN queue'[j]
          PROVE  /\ queue'[j][k].seq <= uses' /\ queue'[j][k].by \in Live'
                 /\ queue'[j][k].alone => Len(queue'[j]) = 1
      <3>1. CASE queue'[j] = queue[j]
        BY <1>4, <1>11, <2>2, <3>1 DEF QueueInv, QueuesShaped
      <3>2. CASE Len(queue[j]) > 1 /\ \E m \in DOMAIN queue[j] : queue'[j][k] = queue[j][m]
        <4>1. PICK m \in DOMAIN queue[j] : queue'[j][k] = queue[j][m]
          BY <3>2
        <4>2. ~queue[j][m].alone
          <5>1. queue[j][m].alone => Len(queue[j]) = 1
            BY <4>1 DEF QueueInv, QueuesShaped
          <5>2. Len(queue[j]) # 1
            <6>1. PICK n \in Nat : n = Len(queue[j])
              BY <1>6
            <6>2. n > 1
              BY <3>2, <6>1
            <6>3. n # 1
              BY <6>2
            <6> QED
              BY <6>1, <6>3
          <5> QED
            BY <5>1, <5>2
        <4> QED
          BY <1>4, <1>11, <4>1, <4>2
      <3> QED
        BY <1>8, <2>2, <3>1, <3>2
    <2> QED
      BY <1>8, <1>9, <2>1, <2>2 DEF QueuesShaped
  <1>13. AcksOwn'
    <2> SUFFICES ASSUME NEW u \in Tids, ack'[u] # None PROVE
          /\ u \in netns' /\ ack'[u].seq <= uses'
          /\ \A j \in 1..MaxNet : \A k \in DOMAIN queue'[j] :
               queue'[j][k].seq = ack'[u].seq => queue'[j][k].by = u /\ queue'[j][k].changes
      BY DEF AcksOwn
    <2>1. ack'[u] = ack[u] /\ ack[u].seq \in Nat
      BY <1>6, <1>9 DEF Pending
    <2>2. /\ u \in netns /\ ack[u].seq <= uses
          /\ \A j \in 1..MaxNet : \A k \in DOMAIN queue[j] :
               queue[j][k].seq = ack[u].seq => queue[j][k].by = u /\ queue[j][k].changes
      BY <2>1 DEF QueueInv, AcksOwn
    <2>3. \A j \in 1..MaxNet : \A k \in DOMAIN queue'[j] : \E m \in DOMAIN queue[j] : queue'[j][k] = queue[j][m]
      BY <1>8
    <2> QED
      BY <1>4, <1>10, <2>1, <2>2, <2>3
  <1>14. AcksKept'
    <2> SUFFICES ASSUME NEW j \in 1..MaxNet, NEW k \in DOMAIN queue'[j],
                        queue'[j][k].alone, queue'[j][k].changes, queue'[j][k].by \in netns',
                        NEW x \in DOMAIN real'[queue'[j][k].by],
                        queue'[j][k].fd = x, <<queue'[j][k].by, x>> \notin loose',
                        real'[queue'[j][k].by][x] = j
                 PROVE  ack'[queue'[j][k].by] = [fd |-> x, seq |-> queue'[j][k].seq]
      BY DEF AcksKept
    <2>1. (j # i \/ peek) /\ queue'[j] = queue[j] /\ k \in DOMAIN queue[j]
      <3>1. ~(Len(queue[j]) > 1 /\ \E m \in DOMAIN queue[j] : queue'[j][k] = queue[j][m])
        BY DEF QueueInv, QueuesShaped
      <3> QED
        BY <1>8, <3>1
    <2>2. PICK u \in Live : u = queue[j][k].by
      BY <1>11, <2>1
    <2>3. u \in netns /\ x \in DOMAIN real[u] /\ <<u, x>> \notin loose /\ real[u][x] = j
      BY <1>10, <2>1, <2>2
    <2>4. ack[u] = [fd |-> x, seq |-> queue[j][k].seq]
      BY <2>1, <2>2, <2>3 DEF QueueInv, AcksKept
    <2>5. ack'[u] = ack[u]
      <3>1. SUFFICES ASSUME u = t, ack[u].fd = fd, ~peek PROVE FALSE
        BY <1>4, <1>9
      <3>2. x = fd
        BY <2>4, <3>1
      <3>3. File(t, fd).id = j
        BY <2>3, <3>1, <3>2 DEF TableInv, SocketsKnown
      <3> QED
        BY <1>1, <2>1, <3>1, <3>3
    <2> QED
      BY <2>1, <2>2, <2>4, <2>5
  <1>15. ToldRight'
    <2>1. Shown(t, fd, e) # e.error =>
            e.error = "denied" /\ ack[t] # None /\ e.seq = ack[t].seq
      BY DEF Shown
    <2>2. Shown(t, fd, e) # e.error => e.changes /\ e.by = t /\ t \in netns
      BY <1>5, <1>7, <2>1 DEF QueueInv, AcksOwn
    <2>3. e.error = "denied" /\ e.changes /\ e.by = t /\ e.alone /\ t \in netns
            /\ e.fd = fd /\ <<t, fd>> \notin loose /\ fd \in DOMAIN real[t]
            => Shown(t, fd, e) = "ack"
      <3> SUFFICES ASSUME e.error = "denied", e.changes, e.by = t, e.alone, t \in netns,
                          e.fd = fd, <<t, fd>> \notin loose, fd \in DOMAIN real[t]
                   PROVE  Shown(t, fd, e) = "ack"
        OBVIOUS
      <3>1. real[t][fd] = i
        BY <1>1, <1>3 DEF TableInv, SocketsKnown
      <3>2. ack[t] = [fd |-> fd, seq |-> e.seq]
        BY <1>5, <1>7, <3>1 DEF QueueInv, AcksKept
      <3>3. e.seq \in 1..MaxNet
        <4>1. \A q \in Seq(Request) : \A k \in DOMAIN q : q[k] \in Request
          OBVIOUS
        <4> QED
          BY <1>5, <1>6, <1>7, <4>1 DEF Request
      <3>4. ack[t] # None
        BY <3>2, <3>3, NetlinkAssumption DEF Pending
      <3> QED
        BY <3>2, <3>4 DEF Shown
    <2>4. /\ told'.e = e /\ told'.to = t /\ told'.as = Shown(t, fd, e)
          /\ told'.known = (e.fd = fd /\ <<t, fd>> \notin loose /\ fd \in DOMAIN real[t])
      BY <1>3
    <2>5. t \in Live' /\ netns' = netns
      BY <1>3, <1>4
    <2> HIDE <1>3
    <2> QED
      BY <2>1, <2>2, <2>3, <2>4, <2>5 DEF ToldRight, AckedRight
  <1> QED
    BY <1>12, <1>13, <1>14, <1>15 DEF QueueInv

LEMMA QueueInvStep == TableInv /\ QueueInv /\ [NetNext]_netvars => QueueInv'
  <1> SUFFICES ASSUME TableInv, QueueInv, [NetNext]_netvars PROVE QueueInv'  OBVIOUS
  <1>1. ASSUME NEW t \in Tids, NEW fd \in Fds,
               \/ \E route \in BOOLEAN : socket(t, fd, route)
               \/ close(t, fd)
               \/ \E to \in Fds : Duplicate(t, fd, to)
               \/ \E r \in Replies : SendFake(t, fd, r)
               \/ RecvFake(t, fd)
        PROVE  QueueInv'
    <2>1. Tick /\ Unasked
      BY <1>1, UnaskedCalls
    <2> QED
      BY <2>1, QueueKept
  <1>2. ASSUME NEW t \in Tids, NEW S \in (SUBSET Fds) \ {{}}, CloseUnseen(t, S) PROVE QueueInv'
    <2>1. PICK fd \in Fds : fd \in S
      <3>1. S \subseteq Fds /\ S # {}
        OBVIOUS
      <3> QED
        BY <3>1
    <2>2. Tick /\ Unasked
      BY <1>2, <2>1, UnaskedCalls
    <2> QED
      BY <2>2, QueueKept
  <1>3. ASSUME NEW t \in Tids, NEW u \in Tids, NEW shared \in BOOLEAN, NEW newnet \in BOOLEAN,
               new_child(t, u, shared, newnet)
        PROVE  QueueInv'
    BY <1>3, UnaskedChild, QueueKept
  <1>4. ASSUME NEW t \in Tids, NEW fd \in Fds, NEW changes \in BOOLEAN,
               NEW error \in {"ack", "denied", "invalid"}, SendReal(t, fd, changes, error)
        PROVE  QueueInv'
    BY <1>4, SentReal
  <1>5. ASSUME NEW t \in Tids, NEW fd \in Fds, NEW peek \in BOOLEAN, RecvReal(t, fd, peek)
        PROVE  QueueInv'
    BY <1>5, ReceivedReal
  <1>6. CASE UNCHANGED netvars
    BY <1>6 DEF netvars, QueueInv, QueuesShaped, AcksOwn, AcksKept, ToldRight, AckedRight, Live
  <1> QED
    BY <1>1, <1>2, <1>3, <1>4, <1>5, <1>6 DEF NetNext

------------------------------------------------------------------------------------
Message == {"link", "addr", "route", "done", "error", "ack"}

(* An answer that ends where it should.                                                *)
Ended(r) ==
  /\ r \in Seq(Message)
  /\ \A i \in 1..Len(r) : r[i] = "done" => i = Len(r)
  /\ (\E i \in 1..Len(r) : r[i] = "route") => r[Len(r)] = "done"

RepliesInv ==
  \A t \in Tids : \A fd \in DOMAIN fake[t] :
    fake[t][fd] \in [id : 1..MaxNet, reply : Seq(Message)] /\ Ended(fake[t][fd].reply)

LEMMA EndedDump ==
  ASSUME NEW what \in {"link", "addr", "route"}, NEW n \in Nat, NEW dump \in BOOLEAN,
         what = "route" => dump
  PROVE  Ended(Some(what, n) \o Done(dump))
  <1> DEFINE s == Some(what, n)  r == Some(what, n) \o Done(dump)
  <1>1. s \in Seq(Message) /\ Len(s) = n /\ \A i \in 1..n : s[i] = what
    BY IsASeq DEF Some, Message
  <1>2. Done(dump) = IF dump THEN <<"done">> ELSE <<>>
    BY DEF Done
  <1> HIDE DEF s
  <1>3. CASE dump
    <2>1. /\ s \o <<"done">> \in Seq(Message) /\ Len(s \o <<"done">>) = n + 1
          /\ \A i \in 1..n : (s \o <<"done">>)[i] = what
          /\ (s \o <<"done">>)[n + 1] = "done"
      BY <1>1 DEF Message
    <2> QED
      BY <1>2, <1>3, <2>1 DEF Ended, s
  <1>4. CASE ~dump
    <2>1. s \o <<>> = s
      BY <1>1
    <2> QED
      BY <1>1, <1>2, <1>4, <2>1 DEF Ended, s
  <1> QED
    BY <1>3, <1>4

LEMMA AnswerEnded ==
  ASSUME NEW r \in Replies
  PROVE  Ended(r)
  <1>1. PICK type \in {"link", "addr", "route", "other", "short"}, dump \in BOOLEAN,
             n \in 0..MaxLinks, x \in 0..2 : r = Answer(type, dump, n, x)
    BY DEF Replies
  <1>2. n \in Nat /\ x \in Nat
    BY <1>1, NetlinkAssumption
  <1>3. \A m \in {"link", "addr", "error", "ack", "done"} : Ended(<<m>>)
    BY DEF Ended, Message
  <1>4. Some("link", 1) = <<"link">> /\ <<>> \o Done(FALSE) = <<>>
    BY DEF Some, Done
  <1>5. ASSUME NEW loopback \in BOOLEAN PROVE Ended(links(dump, n, loopback))
    <2>1. <<"link">> \o Done(dump) = Some("link", 1) \o Done(dump)
      BY <1>4
    <2>2. ~dump => <<"error">> \o Done(dump) = <<"error">>
      BY DEF Done
    <2> QED
      BY <1>2, <1>3, <2>1, <2>2, EndedDump DEF links
  <1>6. Ended(addrs(dump, n, x))
    BY <1>2, EndedDump DEF addrs
  <1>7. Ended(relay_route_dump(n, x = 0)) \/ relay_route_dump(n, x = 0) = <<>>
    <2>1. Some("route", n) \o <<"done">> = Some("route", n) \o Done(TRUE)
      BY DEF Done
    <2> QED
      BY <1>2, <2>1, EndedDump DEF relay_route_dump
  <1> QED
    BY <1>1, <1>3, <1>5, <1>6, <1>7 DEF Answer

LEMMA EndedRead ==
  ASSUME NEW r, Ended(r), r # <<>>
  PROVE  SubSeq(r, datagram(r) + 1, Len(r)) \in Seq(Message) /\ Ended(SubSeq(r, datagram(r) + 1, Len(r)))
  <1>1. r \in Seq(Message) /\ Len(r) \in Nat /\ Len(r) > 0 /\ DOMAIN r = 1..Len(r)
    BY DEF Ended
  <1> DEFINE ends == {i \in DOMAIN r : r[i] = "done"}
  <1>2. Ended(<<>>) /\ Ended(<<"done">>) /\ <<>> \in Seq(Message) /\ <<"done">> \in Seq(Message)
    BY DEF Ended, Message
  <1>3. CASE ends = {} \/ 1 \in ends
    <2>1. datagram(r) = Len(r)
      BY <1>3 DEF datagram
    <2>2. SubSeq(r, Len(r) + 1, Len(r)) = <<>>
      BY <1>1
    <2> QED
      BY <1>2, <2>1, <2>2
  <1>4. CASE ~(ends = {} \/ 1 \in ends)
    <2>1. ends = {Len(r)}
      BY <1>1, <1>4 DEF Ended
    <2>2. datagram(r) = Len(r) - 1
      <3>1. (CHOOSE i \in ends : TRUE) = Len(r)
        BY <2>1
      <3> QED
        BY <1>4, <3>1 DEF datagram
    <2>3. SubSeq(r, Len(r), Len(r)) = <<"done">>
      <3>1. r[Len(r)] = "done"
        BY <2>1
      <3>2. /\ SubSeq(r, Len(r), Len(r)) \in Seq(Message) /\ Len(SubSeq(r, Len(r), Len(r))) = 1
            /\ SubSeq(r, Len(r), Len(r))[1] = r[Len(r)]
        BY <1>1
      <3>3. \A s \in Seq(Message) : Len(s) = 1 => s = <<s[1]>>
        OBVIOUS
      <3> QED
        BY <3>1, <3>2, <3>3
    <2>4. datagram(r) + 1 = Len(r)
      BY <1>1, <2>2
    <2> QED
      BY <1>2, <2>3, <2>4
  <1> QED
    BY <1>3, <1>4

LEMMA RepliesInvStep == TableInv /\ RepliesInv /\ [NetNext]_netvars => RepliesInv'
  <1> SUFFICES ASSUME TableInv, RepliesInv, [NetNext]_netvars PROVE RepliesInv'  OBVIOUS
  <1> DEFINE Fine(e) == e \in [id : 1..MaxNet, reply : Seq(Message)] /\ Ended(e.reply)
  <1>1. DOMAIN fake = Tids /\ \A t \in Tids : \A fd \in DOMAIN fake[t] : Fine(fake[t][fd])
    BY DEF TableInv, TablesShaped, RepliesInv
  <1>2. \A n \in 1..MaxNet : Fine([id |-> n, reply |-> <<>>])
    BY DEF Ended
  <1>3. ASSUME DOMAIN fake' = Tids, \A t \in Tids : \A fd \in DOMAIN fake'[t] : Fine(fake'[t][fd])
        PROVE  RepliesInv'
    BY <1>3 DEF RepliesInv
  <1>4. \A e, r : Fine(e) /\ Ended(r) => Fine([e EXCEPT !.reply = r])
    BY DEF Ended
  <1> HIDE DEF Fine
  <1>5. ASSUME NEW t \in Tids, NEW fd \in Fds, NEW route \in BOOLEAN, socket(t, fd, route) PROVE RepliesInv'
    <2> DEFINE new == [id |-> uses + 1, reply |-> <<>>]
    <2>1. Fine(new)
      <3>1. uses + 1 \in 1..MaxNet
        BY <1>5, NetlinkAssumption DEF socket, Tick, TableInv, TablesShaped
      <3> QED
        BY <1>2, <3>1
    <2>2. fake' = IF route /\ blocked THEN [fake EXCEPT ![t] = Marked(@, fd, new)] ELSE fake
      BY <1>5 DEF socket
    <2> HIDE DEF new
    <2>3. DOMAIN fake' = Tids /\ \A u \in Tids : \A x \in DOMAIN fake'[u] :
            (x \in DOMAIN fake[u] /\ fake'[u][x] = fake[u][x]) \/ fake'[u][x] = new
      BY <1>1, <2>2, MarkedIs
    <2> HIDE <1>5
    <2>4. \A u \in Tids : \A x \in DOMAIN fake'[u] : Fine(fake'[u][x])
      BY <1>1, <2>1, <2>3
    <2> QED
      BY <1>3, <2>3, <2>4
  <1>6. ASSUME NEW t \in Tids, NEW fd \in Fds, close(t, fd) PROVE RepliesInv'
    <2>1. fake' = [fake EXCEPT ![t] = Without(@, {fd})]
      BY <1>6 DEF close, unmark
    <2>2. DOMAIN fake' = Tids /\ \A u \in Tids : \A x \in DOMAIN fake'[u] :
            x \in DOMAIN fake[u] /\ fake'[u][x] = fake[u][x]
      BY <1>1, <2>1 DEF Without
    <2>3. \A u \in Tids : \A x \in DOMAIN fake'[u] : Fine(fake'[u][x])
      BY <1>1, <2>2
    <2> QED
      BY <1>3, <2>2, <2>3
  <1>7. ASSUME NEW t \in Tids, NEW u \in Tids, NEW shared \in BOOLEAN, NEW newnet \in BOOLEAN,
               new_child(t, u, shared, newnet)
        PROVE  RepliesInv'
    <2>1. fake' = [fake EXCEPT ![u] = [x \in DOMAIN fake[t] |-> [id |-> fake[t][x].id, reply |-> <<>>]]]
      BY <1>7 DEF new_child
    <2>2. \A x \in DOMAIN fake[t] : Fine([id |-> fake[t][x].id, reply |-> <<>>])
      BY <1>2 DEF TableInv, TablesShaped
    <2>3. DOMAIN fake' = Tids /\ \A v \in Tids : \A x \in DOMAIN fake'[v] : Fine(fake'[v][x])
      BY <1>1, <2>1, <2>2
    <2> QED
      BY <1>3, <2>3
  <1>8. ASSUME NEW t \in Tids, NEW fd \in DOMAIN fake[t], NEW r, Ended(r),
               fake' = [fake EXCEPT ![t][fd].reply = r]
        PROVE  RepliesInv'
    <2>1. Fine([fake[t][fd] EXCEPT !.reply = r])
      BY <1>1, <1>4, <1>8
    <2>2. fake' = [fake EXCEPT ![t] = [fake[t] EXCEPT ![fd] = [fake[t][fd] EXCEPT !.reply = r]]]
      BY <1>8
    <2>3. DOMAIN fake' = Tids /\ \A u \in Tids : \A x \in DOMAIN fake'[u] :
            \/ x \in DOMAIN fake[u] /\ fake'[u][x] = fake[u][x]
            \/ fake'[u][x] = [fake[t][fd] EXCEPT !.reply = r]
      BY <1>1, <2>2
    <2> HIDE <1>8
    <2>4. \A u \in Tids : \A x \in DOMAIN fake'[u] : Fine(fake'[u][x])
      BY <1>1, <2>1, <2>3
    <2> QED
      BY <1>3, <2>3, <2>4
  <1>9. ASSUME NEW t \in Tids, NEW fd \in Fds, NEW r \in Replies, SendFake(t, fd, r) PROVE RepliesInv'
    <2>1. fd \in DOMAIN fake[t] /\ fake' = [fake EXCEPT ![t][fd].reply = r]
      BY <1>9 DEF SendFake
    <2>2. Ended(r)
      BY AnswerEnded
    <2> QED
      BY <1>8, <2>1, <2>2
  <1>10. ASSUME NEW t \in Tids, NEW fd \in Fds, RecvFake(t, fd) PROVE RepliesInv'
    <2>1. PICK r : r = fake[t][fd].reply  OBVIOUS
    <2>2. /\ fd \in DOMAIN fake[t] /\ r # <<>>
          /\ fake' = [fake EXCEPT ![t][fd].reply = SubSeq(r, datagram(r) + 1, Len(r))]
      BY <1>10, <2>1 DEF RecvFake
    <2>3. Ended(r)
      BY <1>1, <2>1, <2>2 DEF Fine
    <2> QED
      BY <1>8, <2>2, <2>3, EndedRead
  <1>11. ASSUME UNCHANGED fake PROVE RepliesInv'
    BY <1>11 DEF RepliesInv
  <1>12. ASSUME NEW t \in Tids, NEW fd \in Fds, NEW changes \in BOOLEAN,
                RecvReal(t, fd, changes) \/ \E error : SendReal(t, fd, changes, error)
         PROVE  RepliesInv'
    BY <1>11, <1>12 DEF SendReal, RecvReal
  <1>13. ASSUME NEW t \in Tids, NEW S \in SUBSET Fds, CloseUnseen(t, S) PROVE RepliesInv'
    BY <1>11, <1>13 DEF CloseUnseen
  <1>15. ASSUME NEW t \in Tids, NEW fd \in Fds, NEW to \in Fds, Duplicate(t, fd, to) PROVE RepliesInv'
    BY <1>11, <1>15 DEF Duplicate
  <1>14. CASE UNCHANGED netvars
    BY <1>11, <1>14 DEF netvars
  <1> QED
    BY <1>5, <1>6, <1>7, <1>9, <1>10, <1>12, <1>13, <1>14, <1>15 DEF NetNext

(* A thread's tables name the sockets that are open at their numbers, an answer that waits *)
(* to be read ends where it should, and a thread is told of an acknowledgement it was not   *)
(* given if and only if its own change was denied: fake_netlink_fds, netlink_route_fds,     *)
(* handle_netlink_reply_exit().                                                          *)
THEOREM SocketsAnswered == NetSpec => []NetlinkSound
  <1> DEFINE I == TableInv /\ QueueInv /\ RepliesInv
  <1>1. NetInit => I
    <2>1. NetInit => RepliesInv
      <3> SUFFICES ASSUME NetInit PROVE RepliesInv  OBVIOUS
      <3>1. \A t \in Tids : DOMAIN fake[t] = {}
        BY DEF NetInit
      <3> QED
        BY <3>1 DEF RepliesInv
    <2> QED
      BY <2>1, TableInvInit, QueueInvInit
  <1>2. I /\ [NetNext]_netvars => I'
    BY TableInvStep, QueueInvStep, RepliesInvStep
  <1>3. I => NetlinkSound
    <2> SUFFICES ASSUME TableInv, QueueInv, RepliesInv PROVE NetlinkSound  OBVIOUS
    <2>1. AnswersEnd
      <3> SUFFICES ASSUME NEW t \in Live, NEW fd \in DOMAIN fake[t], NEW r, r = fake[t][fd].reply, r # <<>>
                   PROVE  /\ \A i \in DOMAIN r : r[i] = "done" => i = Len(r)
                          /\ "route" \in ToSet(r) => Last(r) = "done"
        BY DEF AnswersEnd
      <3>1. Ended(r)
        BY GroupAlive DEF TableInv, RepliesInv
      <3> QED
        BY <3>1 DEF Ended, ToSet, Last
    <2> QED
      BY <2>1 DEF TableInv, QueueInv, ToldRight, NetlinkSound
  <1> HIDE DEF I
  <1> QED
    BY <1>1, <1>2, <1>3, PTL DEF NetSpec

------------------------------------------------------------------------------------
(* The host's file modes: override_permissions() and restore_mode().                      *)
Ops == {"none", "open", "stat", "chmod", "fchmodat", "fchmodat2", "unlink", "rename"}

ModeTypes ==
  /\ name \in [Names -> Files \cup {NoFile}]
  /\ mode \in [Files -> Modes] /\ wanted \in [Files -> Modes]
  /\ DOMAIN nodes = Tracees
  /\ call \in [Tracees -> [op : Ops, name : Names \cup {"none"}, to : Names \cup {"none"}, mode : Modes,
                           covered : BOOLEAN, seen : BOOLEAN]]

(* A file has one name; who waits for an event has no call, who has neither no nodes.       *)
OneName ==
  /\ \A n, m \in Names : name[n] = name[m] /\ name[n] # NoFile => n = m
  /\ \A t \in Tracees :
       /\ nodes[t] \subseteq Names \X Modes
       /\ call[t].op = "none" => call[t].name = "none" /\ call[t].to = "none"
       /\ call[t].op # "none" => call[t].name \in Names /\ ~call[t].seen
       /\ Free(t) => nodes[t] = {}

Changes(t, n) == call[t].op \in {"chmod", "fchmodat"} /\ call[t].name = n

(* A name a tracee has to do with is that of no other. Its file has the mode the guest gave   *)
(* it, or will have it when the nodes are undone; if a call is about to change the mode, the   *)
(* nodes hold the new one. An open() that is covered finds the file open.                  *)
InHand(t, n) ==
  /\ \A u \in Tracees : n \in Touched(u) => u = t
  /\ \A d \in nodes[t] : d[1] = n => d[2] = IF Changes(t, n) THEN call[t].mode ELSE wanted[name[n]]
  /\ Changes(t, n) \/ (\E d \in nodes[t] : d[1] = n) \/ mode[name[n]] = wanted[name[n]]
  /\ call[t].op = "open" /\ call[t].name = n /\ call[t].covered => mode[name[n]] = "open"

Untouched(n) == \A t \in Tracees : n \notin Touched(t)

TrueOf(n) ==
  /\ Untouched(n) => mode[name[n]] = wanted[name[n]]
  /\ \A t \in Tracees : n \in Touched(t) => InHand(t, n)

ModesTrue ==
  /\ ~denied
  /\ \A n \in Names : Exists(n) /\ name[n] \notin wronged => TrueOf(n)

ModeInv == ModeTypes /\ OneName /\ ModesTrue

LEMMA ModeInvInit == ModeInit => ModeInv
  <1> SUFFICES ASSUME ModeInit PROVE ModeInv  OBVIOUS
  <1>1. ModeTypes
    BY HostModesAssumption DEF ModeInit, ModeTypes, Ops, Idle, Modes
  <1>2. OneName
    BY DEF ModeInit, OneName, Idle
  <1>3. \A t \in Tracees : Touched(t) = {}
    BY HostModesAssumption DEF ModeInit, Touched, Idle
  <1>4. ModesTrue
    BY <1>3 DEF ModeInit, ModesTrue, TrueOf
  <1> QED
    BY <1>1, <1>2, <1>4 DEF ModeInv

(* What is put back when a tracee's nodes are undone.                                     *)
LEMMA PutBack ==
  ASSUME ModeInv, NEW t \in Tracees
  PROVE  /\ restore_mode(t) \in [Files -> Modes]
         /\ \A n \in Names : Exists(n) /\ name[n] \notin wronged =>
              restore_mode(t)[name[n]] =
                IF \E d \in nodes[t] : d[1] = n
                THEN IF Changes(t, n) THEN call[t].mode ELSE wanted[name[n]]
                ELSE mode[name[n]]
  <1>1. nodes[t] \subseteq Names \X Modes /\ mode \in [Files -> Modes] /\ name \in [Names -> Files \cup {NoFile}]
    BY DEF ModeInv, ModeTypes, OneName
  <1>2. ASSUME NEW f \in Files, \E d \in nodes[t] : name[d[1]] = f
        PROVE  \E d \in nodes[t] : name[d[1]] = f /\ restore_mode(t)[f] = d[2]
    BY <1>2 DEF restore_mode
  <1>3. \A f \in Files : ~(\E d \in nodes[t] : name[d[1]] = f) => restore_mode(t)[f] = mode[f]
    BY DEF restore_mode
  <1>4. restore_mode(t) \in [Files -> Modes]
    <2>1. \A f \in Files : restore_mode(t)[f] \in Modes
      BY <1>1, <1>2, <1>3
    <2> QED
      BY <2>1 DEF restore_mode
  <1>5. ASSUME NEW n \in Names, Exists(n), name[n] \notin wronged
        PROVE  restore_mode(t)[name[n]] =
                 IF \E d \in nodes[t] : d[1] = n
                 THEN IF Changes(t, n) THEN call[t].mode ELSE wanted[name[n]]
                 ELSE mode[name[n]]
    <2>1. name[n] \in Files /\ \A d \in nodes[t] : name[d[1]] = name[n] <=> d[1] = n
      BY <1>1, <1>5 DEF Exists, ModeInv, OneName
    <2>2. CASE \E d \in nodes[t] : d[1] = n
      <3>1. PICK d \in nodes[t] : d[1] = n /\ restore_mode(t)[name[n]] = d[2]
        BY <1>2, <2>1, <2>2
      <3>2. InHand(t, n)
        BY <1>5, <3>1 DEF ModeInv, ModesTrue, TrueOf, Touched
      <3> QED
        BY <2>2, <3>1, <3>2 DEF InHand
    <2>3. CASE ~\E d \in nodes[t] : d[1] = n
      BY <1>3, <2>1, <2>3
    <2> QED
      BY <2>2, <2>3
  <1> QED
    BY <1>4, <1>5

(* The nodes of a tracee are undone; its call is over, or no longer covered.                 *)
LEMMA LetGo ==
  ASSUME ModeInv, NEW t \in Tracees, FreeCtx(t), UNCHANGED <<name, wanted, denied>>,
         wronged \subseteq wronged', NEW c,
         call' = [call EXCEPT ![t] = c],
         \/ /\ c = Idle
            /\ \A n \in Names : Exists(n) /\ name[n] \notin wronged' => ~Changes(t, n)
         \/ c = [call[t] EXCEPT !.covered = FALSE]
  PROVE  ModeInv'
  <1>1. /\ mode' = restore_mode(t) /\ mode' \in [Files -> Modes]
        /\ nodes' = [nodes EXCEPT ![t] = {}]
    BY PutBack DEF FreeCtx
  <1>2. /\ call[t] \in [op : Ops, name : Names \cup {"none"}, to : Names \cup {"none"}, mode : Modes,
                        covered : BOOLEAN, seen : BOOLEAN]
        /\ DOMAIN call = Tracees /\ DOMAIN nodes = Tracees
    BY DEF ModeInv, ModeTypes
  <1>3. /\ c \in [op : Ops, name : Names \cup {"none"}, to : Names \cup {"none"}, mode : Modes,
                  covered : BOOLEAN, seen : BOOLEAN]
        /\ c = Idle \/ (c.op = call[t].op /\ c.name = call[t].name /\ c.to = call[t].to
                        /\ c.mode = call[t].mode /\ c.seen = call[t].seen /\ ~c.covered)
    <2>1. CASE c = Idle
      BY <2>1 DEF Idle, Ops, Modes
    <2>2. CASE c = [call[t] EXCEPT !.covered = FALSE]
      BY <1>2, <2>2
    <2> QED
      BY <2>1, <2>2
  <1>4. /\ call'[t] = c /\ nodes'[t] = {}
        /\ \A u \in Tracees : u # t => call'[u] = call[u] /\ nodes'[u] = nodes[u]
    BY <1>1, <1>2
  <1>5. ModeTypes'
    BY <1>1, <1>2, <1>3 DEF ModeInv, ModeTypes
  <1>6. OneName'
    BY <1>3, <1>4 DEF ModeInv, OneName, Free, Idle
  <1>7. ASSUME NEW n \in Names, Exists(n), name[n] \notin wronged' PROVE TrueOf(n)'
    <2>1. /\ TrueOf(n)
          /\ mode'[name[n]] = IF \E d \in nodes[t] : d[1] = n
                              THEN IF Changes(t, n) THEN call[t].mode ELSE wanted[name[n]]
                              ELSE mode[name[n]]
      BY <1>1, <1>7, PutBack DEF ModeInv, ModesTrue
    <2>2. /\ \A u \in Tracees : u # t => (n \in Touched(u)' <=> n \in Touched(u))
          /\ n \in Touched(t)' <=> n \in {c.name, c.to}
      BY <1>4 DEF Touched
    <2>3. n \in {c.name, c.to} => c # Idle /\ n \in Touched(t)
      BY <1>3, HostModesAssumption DEF Idle, Touched
    <2>4. \A u \in Tracees : u # t => (Changes(u, n)' <=> Changes(u, n))
      BY <1>4 DEF Changes
    <2>5. c # Idle => (Changes(t, n)' <=> Changes(t, n)) /\ (Changes(t, n) => n \in Touched(t)')
      BY <1>3, <1>4, <2>2 DEF Changes
    <2>6. ASSUME NEW u \in Tracees, n \in Touched(u)' PROVE InHand(u, n)'
      <3>1. n \in Touched(u) /\ InHand(u, n) /\ \A v \in Tracees : n \in Touched(v)' => v = u
        BY <2>1, <2>2, <2>3, <2>6 DEF TrueOf, InHand
      <3>2. CASE u = t
        <4>1. c # Idle /\ ~c.covered
          BY <1>3, <2>2, <2>3, <2>6, <3>2
        <4>2. Changes(t, n)' \/ mode'[name[n]] = wanted[name[n]]
          BY <2>1, <2>5, <3>1, <3>2, <4>1 DEF InHand
        <4> QED
          BY <1>4, <3>1, <3>2, <4>1, <4>2 DEF InHand
      <3>3. CASE u # t
        <4>1. n \notin Touched(t)
          BY <3>1, <3>3 DEF InHand
        <4>2. mode'[name[n]] = mode[name[n]]
          BY <2>1, <4>1 DEF Touched
        <4> QED
          BY <1>4, <2>4, <3>1, <3>3, <4>2 DEF InHand
      <3> QED
        BY <3>2, <3>3
    <2>7. ASSUME Untouched(n)' PROVE mode'[name[n]] = wanted[name[n]]
      <3>1. \A u \in Tracees : u # t => n \notin Touched(u)
        BY <2>2, <2>7 DEF Untouched
      <3>2. CASE n \in Touched(t)
        <4>1. ~Changes(t, n)
          <5>1. n \notin Touched(t)'
            BY <2>7 DEF Untouched
          <5>2. CASE c = Idle
            <6>1. c # [call[t] EXCEPT !.covered = FALSE] \/ ~Changes(t, n)
              BY <5>2, <1>2 DEF Idle, Changes
            <6> QED
              BY <1>7, <6>1
          <5> QED
            BY <2>5, <5>1, <5>2
        <4> QED
          BY <2>1, <3>2, <4>1 DEF TrueOf, InHand
      <3>3. CASE n \notin Touched(t)
        <4>1. Untouched(n)
          BY <3>1, <3>3 DEF Untouched
        <4> QED
          BY <2>1, <3>3, <4>1 DEF TrueOf, Touched
      <3> QED
        BY <3>2, <3>3
    <2> QED
      BY <2>6, <2>7 DEF TrueOf
  <1>8. ModesTrue'
    BY <1>7 DEF ModeInv, ModesTrue, Exists
  <1> QED
    BY <1>5, <1>6, <1>8 DEF ModeInv

(* The view of one name is as it was.                                                      *)
LEMMA SameView ==
  ASSUME NEW n \in Names, TrueOf(n), name'[n] = name[n],
         mode'[name[n]] = mode[name[n]], wanted'[name[n]] = wanted[name[n]],
         \A u \in Tracees : /\ n \in Touched(u)' <=> n \in Touched(u)
                            /\ n \in Touched(u) => nodes'[u] = nodes[u] /\ call'[u] = call[u]
  PROVE  TrueOf(n)'
  <1>1. ASSUME NEW t \in Tracees, n \in Touched(t)' PROVE InHand(t, n)'
    <2>1. InHand(t, n) /\ nodes'[t] = nodes[t] /\ call'[t] = call[t]
      BY <1>1 DEF TrueOf
    <2> QED
      BY <2>1 DEF InHand, Changes
  <1>2. Untouched(n)' => Untouched(n)
    BY DEF Untouched
  <1> QED
    BY <1>1, <1>2 DEF TrueOf

LEMMA EnterKeeps ==
  ASSUME ModeInv, NEW t \in Tracees, Enter(t)
  PROVE  ModeInv'
  <1>1. PICK n0 \in Names, to \in Names, m \in Modes,
             op \in {"open", "stat", "chmod", "fchmodat", "fchmodat2", "unlink", "rename"} :
          /\ Free(t) /\ calls < MaxModeCalls
          /\ op \notin {"chmod", "fchmodat", "fchmodat2"} => m = "open"
          /\ (n0 # to) <=> (op = "rename")
          /\ override_permissions(t, {n0, to}, op, m)
          /\ call' = [call EXCEPT ![t] = [op |-> op, name |-> n0, to |-> to, mode |-> m,
                                          covered |-> TRUE, seen |-> FALSE]]
          /\ calls' = calls + 1
          /\ wronged' = wronged \cup Stray(t, {name[n0], name[to]} \ {NoFile})
          /\ UNCHANGED <<name, wanted, denied>>
    BY Zenon DEF Enter
  <1> DEFINE c == [op |-> op, name |-> n0, to |-> to, mode |-> m, covered |-> TRUE, seen |-> FALSE]
  <1>2. PICK opened \in SUBSET {n0, to} :
          /\ \A n \in {n0, to} : n \in opened <=> Exists(n) /\ op # "stat" /\ mode[name[n]] = "closed"
          /\ nodes' = [nodes EXCEPT ![t] = @ \cup {<<n, Restored(op, m, name[n])>> : n \in opened}]
          /\ mode' = [f \in Files |-> IF \E n \in opened : name[n] = f THEN "open" ELSE mode[f]]
    <2>1. {n \in {n0, to} : Exists(n) /\ op # "stat" /\ mode[name[n]] = "closed"} \in SUBSET {n0, to}
      OBVIOUS
    <2> QED
      BY <1>1, <2>1 DEF override_permissions
  <1>3. /\ name \in [Names -> Files \cup {NoFile}] /\ mode \in [Files -> Modes]
        /\ wanted \in [Files -> Modes] /\ DOMAIN nodes = Tracees /\ DOMAIN call = Tracees
        /\ nodes[t] = {} /\ call[t].op = "none" /\ call[t].name = "none" /\ call[t].to = "none"
    BY <1>1 DEF ModeInv, ModeTypes, OneName, Free
  <1>4. Touched(t) = {}
    BY <1>3, HostModesAssumption DEF Touched
  <1>5. /\ call'[t] = c /\ nodes'[t] = {<<n, Restored(op, m, name[n])>> : n \in opened}
        /\ \A u \in Tracees : u # t => call'[u] = call[u] /\ nodes'[u] = nodes[u]
    BY <1>1, <1>2, <1>3
  <1>6. c \in [op : Ops, name : Names \cup {"none"}, to : Names \cup {"none"}, mode : Modes,
               covered : BOOLEAN, seen : BOOLEAN] /\ c.op # "none" /\ c.name \in Names /\ ~c.seen
        /\ c.op = op /\ c.name = n0 /\ c.to = to /\ c.mode = m
    BY DEF Ops
  <1> HIDE DEF c
  <1>7. mode' \in [Files -> Modes]
    BY <1>2, <1>3 DEF Modes
  <1>8. ModeTypes'
    <2>1. call' \in [Tracees -> [op : Ops, name : Names \cup {"none"}, to : Names \cup {"none"}, mode : Modes,
                                 covered : BOOLEAN, seen : BOOLEAN]]
      BY <1>1, <1>6 DEF ModeInv, ModeTypes, c
    <2>2. DOMAIN nodes' = Tracees
      BY <1>2, <1>3
    <2> QED
      BY <1>1, <1>3, <1>7, <2>1, <2>2 DEF ModeTypes
  <1>9. OneName'
    <2>1. nodes'[t] \subseteq Names \X Modes
      <3>1. \A n \in opened : n \in Names /\ Restored(op, m, name[n]) \in Modes
        BY <1>2, <1>3 DEF Restored, Exists
      <3> QED
        BY <1>5, <3>1
    <2>2. ~Free(t)'
      BY <1>5, <1>6 DEF Free
    <2>3. UNCHANGED name
      BY <1>1
    <2> QED
      BY <1>5, <1>6, <2>1, <2>2, <2>3 DEF ModeInv, OneName, Free
  <1>10. \A u \in Tracees : \A n \in Names :
           n \in Touched(u)' <=> IF u = t THEN n \in {n0, to} ELSE n \in Touched(u)
    <2>1. \A n : n \in Touched(t)' => n \in {n0, to}
      BY <1>5, <1>6 DEF Touched
    <2>2. \A n \in {n0, to} : n \in Touched(t)'
      BY <1>5, <1>6 DEF Touched
    <2>3. \A u \in Tracees : u # t => Touched(u)' = Touched(u)
      BY <1>5 DEF Touched
    <2> QED
      BY <2>1, <2>2, <2>3
  <1>11. ASSUME NEW n \in Names, Exists(n), name[n] \notin wronged', n \notin {n0, to}
         PROVE  TrueOf(n)'
    <2>1. TrueOf(n) /\ name[n] \in Files
      BY <1>1, <1>3, <1>11 DEF ModeInv, ModesTrue, Exists
    <2>2. mode'[name[n]] = mode[name[n]]
      <3>1. \A x \in opened : name[x] # name[n]
        BY <1>2, <1>11 DEF ModeInv, OneName, Exists
      <3> QED
        BY <1>2, <2>1, <3>1
    <2>3. UNCHANGED <<name, wanted>>
      BY <1>1
    <2> QED
      BY <1>4, <1>5, <1>10, <1>11, <2>1, <2>2, <2>3, SameView
  <1>12. ASSUME NEW n \in {n0, to}, Exists(n), name[n] \notin wronged'
         PROVE  TrueOf(n)'
    <2>1. TrueOf(n) /\ name[n] \in Files /\ n \in Names
      BY <1>1, <1>3, <1>12 DEF ModeInv, ModesTrue, Exists
    <2>2. \A u \in Tracees : u # t => n \notin Touched(u)
      <3>1. name[n] \notin Stray(t, {name[n0], name[to]} \ {NoFile})
        BY <1>1, <1>12
      <3>2. Held(name[n]) \ {t} = {}
        BY <1>12, <3>1 DEF Stray, Exists
      <3> QED
        BY <3>2 DEF Held
    <2>3. mode[name[n]] = wanted[name[n]]
      BY <1>4, <2>1, <2>2 DEF TrueOf, Untouched
    <2>4. \A x \in opened : name[x] = name[n] => x = n
      BY <1>2, <1>12, <2>1 DEF ModeInv, OneName, Exists
    <2>5. Changes(t, n)' <=> op \in {"chmod", "fchmodat"}
      <3>1. op \in {"chmod", "fchmodat"} => n = n0
        BY <1>1, <1>12
      <3> QED
        BY <1>5, <1>6, <3>1 DEF Changes
    <2>6. \A d \in nodes'[t] : d[1] = n => n \in opened /\ d[2] = Restored(op, m, name[n])
      BY <1>5
    <2>7. n \in opened => <<n, Restored(op, m, name[n])>> \in nodes'[t] /\ mode'[name[n]] = "open"
      BY <1>2, <1>5, <2>1
    <2>8. n \notin opened => mode'[name[n]] = mode[name[n]]
      BY <1>2, <2>1, <2>4
    <2>9. op = "open" => mode'[name[n]] = "open"
      <3>1. op = "open" /\ n \notin opened => mode[name[n]] # "closed"
        BY <1>2, <1>12
      <3> QED
        BY <1>3, <2>1, <2>7, <2>8, <3>1 DEF Modes
    <2>10. UNCHANGED <<name, wanted>>
      BY <1>1
    <2>11. InHand(t, n)'
      <3>1. \A u \in Tracees : n \in Touched(u)' => u = t
        BY <1>10, <2>1, <2>2
      <3>2. \A d \in nodes'[t] : d[1] = n => d[2] = IF Changes(t, n)' THEN call'[t].mode ELSE wanted'[name'[n]]
        BY <1>5, <1>6, <2>3, <2>5, <2>6, <2>10 DEF Restored
      <3>3. Changes(t, n)' \/ (\E d \in nodes'[t] : d[1] = n) \/ mode'[name'[n]] = wanted'[name'[n]]
        BY <2>3, <2>7, <2>8, <2>10
      <3>4. call'[t].op = "open" => mode'[name'[n]] = "open"
        BY <1>5, <1>6, <2>9, <2>10
      <3> QED
        BY <3>1, <3>2, <3>3, <3>4 DEF InHand
    <2>12. ~Untouched(n)' /\ \A u \in Tracees : n \in Touched(u)' => u = t
      BY <1>10, <2>1, <2>2, <1>12 DEF Untouched
    <2> QED
      BY <2>11, <2>12 DEF TrueOf
  <1>13. ModesTrue'
    BY <1>1, <1>11, <1>12 DEF ModeInv, ModesTrue, Exists
  <1> QED
    BY <1>8, <1>9, <1>13 DEF ModeInv

LEMMA FchmodKeeps ==
  ASSUME ModeInv, NEW t \in Tracees, Fchmod(t)
  PROVE  ModeInv'
  <1>1. PICK f \in Named, m \in Modes :
          /\ Free(t) /\ mode' = [mode EXCEPT ![f] = m] /\ wanted' = [wanted EXCEPT ![f] = m]
          /\ wronged' = wronged \cup Stray(t, {f}) /\ UNCHANGED <<name, nodes, call, denied>>
    BY DEF Fchmod
  <1>2. /\ name \in [Names -> Files \cup {NoFile}] /\ mode \in [Files -> Modes]
        /\ wanted \in [Files -> Modes] /\ f \in Files
        /\ mode' \in [Files -> Modes] /\ wanted' \in [Files -> Modes]
    BY <1>1 DEF ModeInv, ModeTypes, Named
  <1>3. Touched(t) = {}
    BY <1>1, HostModesAssumption DEF Touched, Free, ModeInv, OneName
  <1>4. UNCHANGED <<name, nodes, call, denied>>
    BY <1>1
  <1>5. ModeTypes' /\ OneName'
    BY <1>2, <1>4 DEF ModeInv, ModeTypes, OneName, Free
  <1>6. ASSUME NEW n \in Names, Exists(n), name[n] \notin wronged' PROVE TrueOf(n)'
    <2>1. TrueOf(n) /\ name[n] \in Files
      BY <1>1, <1>2, <1>6 DEF ModeInv, ModesTrue, Exists
    <2>2. \A u \in Tracees : Touched(u)' = Touched(u)
      BY <1>4 DEF Touched
    <2>3. CASE name[n] = f
      <3>1. Held(f) \ {t} = {}
        BY <1>1, <1>6, <2>3 DEF Stray
      <3>2. \A u \in Tracees : n \notin Touched(u)
        BY <1>3, <2>3, <3>1 DEF Held
      <3>3. mode'[name[n]] = m /\ wanted'[name[n]] = m
        BY <1>1, <1>2, <2>3
      <3> QED
        BY <1>4, <2>2, <3>2, <3>3 DEF TrueOf
    <2>4. CASE name[n] # f
      <3>1. mode'[name[n]] = mode[name[n]] /\ wanted'[name[n]] = wanted[name[n]]
        BY <1>1, <1>2, <2>1, <2>4
      <3> QED
        BY <1>4, <2>1, <2>2, <3>1, SameView
    <2> QED
      BY <2>3, <2>4
  <1>7. ModesTrue'
    BY <1>4, <1>6 DEF ModeInv, ModesTrue, Exists
  <1> QED
    BY <1>5, <1>7 DEF ModeInv

(* The kernel has done the call of t: what t has left to do with is in its nodes.            *)
Done1(t) ==
  /\ call' = [call EXCEPT ![t] = [Idle EXCEPT !.seen = TRUE]] /\ call[t].op # "none"
  /\ UNCHANGED nodes

LEMMA AfterCall ==
  ASSUME ModeInv, NEW t \in Tracees, Done1(t)
  PROVE  /\ \A u \in Tracees : u # t => call'[u] = call[u]
         /\ \A u \in Tracees, n \in Names :
              n \in Touched(u)' <=> IF u = t THEN \E d \in nodes[t] : d[1] = n ELSE n \in Touched(u)
         /\ \A n \in Names : ~Changes(t, n)' /\ call'[t].op = "none"
         /\ \A n \in Names : (\E d \in nodes[t] : d[1] = n) => n \in Touched(t)
         /\ call' \in [Tracees -> [op : Ops, name : Names \cup {"none"}, to : Names \cup {"none"}, mode : Modes,
                                   covered : BOOLEAN, seen : BOOLEAN]]
         /\ call'[t].name = "none" /\ call'[t].to = "none" /\ ~Free(t)' /\ call[t].name \in Names
  <1> DEFINE c == [Idle EXCEPT !.seen = TRUE]
  <1>1. /\ c \in [op : Ops, name : Names \cup {"none"}, to : Names \cup {"none"}, mode : Modes,
                  covered : BOOLEAN, seen : BOOLEAN]
        /\ c.op = "none" /\ c.name = "none" /\ c.to = "none" /\ c.seen
    BY DEF Idle, Ops, Modes
  <1>2. c.op = "none" /\ c.name = "none" /\ c.to = "none" /\ c.seen
    BY <1>1
  <1>3. call' = [call EXCEPT ![t] = c] /\ call[t].op # "none" /\ nodes' = nodes
    BY DEF Done1
  <1> HIDE DEF c
  <1>4. call'[t] = c /\ \A u \in Tracees : u # t => call'[u] = call[u]
    BY <1>3 DEF ModeInv, ModeTypes
  <1>5. \A u \in Tracees : u # t => Touched(u)' = Touched(u)
    BY <1>3, <1>4 DEF Touched
  <1>6. \A n \in Names : n \in Touched(t)' <=> \E d \in nodes[t] : d[1] = n
    BY <1>2, <1>3, <1>4, HostModesAssumption DEF Touched
  <1>7. \A n \in Names : ~Changes(t, n)' /\ call'[t].op = "none"
    BY <1>2, <1>4 DEF Changes
  <1>8. \A n \in Names : (\E d \in nodes[t] : d[1] = n) => n \in Touched(t)
    BY DEF Touched
  <1>9. call' \in [Tracees -> [op : Ops, name : Names \cup {"none"}, to : Names \cup {"none"}, mode : Modes,
                               covered : BOOLEAN, seen : BOOLEAN]]
    BY <1>1, <1>3 DEF ModeInv, ModeTypes
  <1>10. call'[t].name = "none" /\ call'[t].to = "none" /\ ~Free(t)' /\ call[t].name \in Names
    BY <1>2, <1>3, <1>4 DEF Free, ModeInv, OneName
  <1> QED
    BY <1>4, <1>5, <1>6, <1>7, <1>8, <1>9, <1>10

(* A name whose file and modes the call left as they were.                                 *)
LEMMA LeftAlone ==
  ASSUME ModeInv, NEW t \in Tracees, Done1(t), NEW n \in Names, TrueOf(n), ~Changes(t, n),
         name'[n] = name[n], mode'[name[n]] = mode[name[n]], wanted'[name[n]] = wanted[name[n]]
  PROVE  TrueOf(n)'
  <1>1. /\ \A u \in Tracees : u # t => call'[u] = call[u]
        /\ \A u \in Tracees :
             n \in Touched(u)' <=> IF u = t THEN \E d \in nodes[t] : d[1] = n ELSE n \in Touched(u)
        /\ ~Changes(t, n)' /\ call'[t].op = "none"
        /\ (\E d \in nodes[t] : d[1] = n) => n \in Touched(t)
    BY AfterCall
  <1>2. nodes' = nodes
    BY DEF Done1
  <1>3. ASSUME NEW u \in Tracees, n \in Touched(u)' PROVE InHand(u, n)'
    <2>1. n \in Touched(u) /\ InHand(u, n)
      BY <1>1, <1>3 DEF TrueOf
    <2>2. \A v \in Tracees : n \in Touched(v)' => v = u
      BY <1>1, <2>1 DEF InHand
    <2>3. CASE u = t
      <3>1. \E d \in nodes[t] : d[1] = n
        BY <1>1, <1>3, <2>3
      <3>2. \A d \in nodes[t] : d[1] = n => d[2] = wanted[name[n]]
        BY <2>1, <2>3 DEF InHand
      <3> QED
        BY <1>1, <1>2, <2>2, <2>3, <3>1, <3>2 DEF InHand
    <2>4. CASE u # t
      <3>1. call'[u] = call[u] /\ nodes'[u] = nodes[u]
        BY <1>1, <1>2, <2>4
      <3> QED
        BY <2>1, <2>2, <3>1 DEF InHand, Changes
    <2> QED
      BY <2>3, <2>4
  <1>4. ASSUME Untouched(n)' PROVE mode[name[n]] = wanted[name[n]]
    <2>1. \A u \in Tracees : u # t => n \notin Touched(u)
      BY <1>1, <1>4 DEF Untouched
    <2>2. ~\E d \in nodes[t] : d[1] = n
      BY <1>1, <1>4 DEF Untouched
    <2>3. CASE n \in Touched(t)
      BY <2>2, <2>3 DEF TrueOf, InHand
    <2>4. CASE n \notin Touched(t)
      BY <2>1, <2>4 DEF TrueOf, Untouched
    <2> QED
      BY <2>3, <2>4
  <1> QED
    BY <1>3, <1>4 DEF TrueOf

LEMMA RemoveKeeps ==
  ASSUME ModeInv, NEW t \in Tracees, Done1(t), Exists(call[t].name),
         call[t].op \in {"unlink", "rename"}, RemoveName(t, call[t], name[call[t].name])
  PROVE  OneName' /\ ModesTrue' /\ name' \in [Names -> Files \cup {NoFile}]
  <1> DEFINE c == call[t]  f == name[call[t].name]
  <1>1. /\ name' = [n \in Names |-> IF n = c.name THEN NoFile
                                    ELSE IF n = c.to /\ c.op = "rename" THEN f ELSE name[n]]
        /\ wronged' = wronged \cup {g \in {f, name[c.to]} \ {NoFile} :
                                      \/ \E u \in Tracees \ {t} : Touched(u) \cap {c.name, c.to} # {}
                                      \/ \E d \in nodes[t] : d[1] \in {c.name, c.to}}
        /\ UNCHANGED <<mode, wanted, denied>>
    BY DEF RemoveName
  <1>2. c.name \in Names /\ f \in Files /\ f # NoFile /\ name \in [Names -> Files \cup {NoFile}]
        /\ c.op \in {"unlink", "rename"}
    BY AfterCall, HostModesAssumption DEF ModeInv, ModeTypes, Exists
  <1>3. \A n, m \in Names : name[n] = name[m] /\ name[n] # NoFile => n = m
    BY DEF ModeInv, OneName
  <1> HIDE DEF c, f
  <1>4. \A n, m \in Names : name'[n] = name'[m] /\ name'[n] # NoFile => n = m
    <2>1. f = name[c.name]
      BY DEF c, f
    <2> QED
      BY <1>1, <1>2, <1>3, <2>1
  <1>5. OneName'
    <2>1. \A u \in Tracees : u # t => call'[u] = call[u]
      BY AfterCall
    <2>2. nodes' = nodes /\ call'[t].op = "none" /\ call'[t].name = "none" /\ call'[t].to = "none" /\ ~Free(t)'
      <3>1. nodes' = nodes /\ ~Free(t)' /\ call'[t].name = "none" /\ call'[t].to = "none"
        BY AfterCall DEF Done1
      <3>2. call'[t].op = "none"
        BY <1>2, AfterCall
      <3> QED
        BY <3>1, <3>2
    <2> QED
      BY <1>4, <2>1, <2>2 DEF ModeInv, OneName, Free
  <1>6. ASSUME NEW n \in Names, name'[n] # NoFile, name'[n] \notin wronged' PROVE TrueOf(n)'
    <2>1. n # c.name
      BY <1>1, <1>6
    <2>2. ~Changes(t, n)
      BY <1>2 DEF Changes, c
    <2>3. CASE n = c.to /\ c.op = "rename"
      <3>1. name'[n] = f /\ f \notin wronged
        BY <1>1, <1>6, <2>1, <2>3
      <3>2. /\ \A u \in Tracees : u # t => c.name \notin Touched(u) /\ n \notin Touched(u)
            /\ ~\E d \in nodes[t] : d[1] = c.name \/ d[1] = n
        BY <1>1, <1>2, <1>6, <2>3, <3>1
      <3>3. \A u \in Tracees : n \notin Touched(u)'
        BY <3>2, AfterCall
      <3>4. mode[f] = wanted[f]
        <4>1. c.name \in Touched(t) /\ ~Changes(t, c.name)
          BY <1>2 DEF Touched, Changes, c
        <4>2. TrueOf(c.name)
          BY <1>2, <3>1 DEF ModeInv, ModesTrue, Exists, c, f
        <4> QED
          BY <3>2, <4>1, <4>2 DEF TrueOf, InHand, c, f
      <3> QED
        BY <1>1, <3>1, <3>3, <3>4 DEF TrueOf
    <2>4. CASE ~(n = c.to /\ c.op = "rename")
      <3>1. name'[n] = name[n] /\ UNCHANGED <<mode, wanted>>
        BY <1>1, <2>1, <2>4
      <3>2. TrueOf(n)
        BY <1>1, <1>6, <3>1 DEF ModeInv, ModesTrue, Exists
      <3> QED
        BY <2>2, <3>1, <3>2, LeftAlone
    <2> QED
      BY <2>3, <2>4
  <1>7. ModesTrue'
    BY <1>1, <1>6 DEF ModeInv, ModesTrue, Exists
  <1>8. name' \in [Names -> Files \cup {NoFile}]
    BY <1>1, <1>2
  <1> QED
    BY <1>5, <1>7, <1>8

LEMMA ChmodKeeps ==
  ASSUME ModeInv, NEW t \in Tracees, Done1(t), Exists(call[t].name),
         call[t].op \in {"chmod", "fchmodat", "fchmodat2"}, Chmod(t, call[t], name[call[t].name])
  PROVE  ModesTrue' /\ mode' \in [Files -> Modes] /\ wanted' \in [Files -> Modes] /\ UNCHANGED name
  <1> DEFINE c == call[t]  f == name[call[t].name]
  <1>1. /\ mode' = [mode EXCEPT ![f] = c.mode] /\ wanted' = [wanted EXCEPT ![f] = c.mode]
        /\ wronged' = wronged \cup Stray(t, {f})
                              \cup {g \in {f} : c.op = "fchmodat2" /\ \E d \in nodes[t] : TRUE}
        /\ UNCHANGED <<name, denied>>
    BY DEF Chmod
  <1>2. /\ c.name \in Names /\ f \in Files /\ name \in [Names -> Files \cup {NoFile}]
        /\ mode \in [Files -> Modes] /\ wanted \in [Files -> Modes] /\ c.mode \in Modes
    BY AfterCall DEF ModeInv, ModeTypes, Exists
  <1>3. mode' \in [Files -> Modes] /\ wanted' \in [Files -> Modes]
    BY <1>1, <1>2
  <1>4. ASSUME NEW n \in Names, Exists(n), name[n] \notin wronged' PROVE TrueOf(n)'
    <2>1. TrueOf(n) /\ name[n] \in Files /\ name'[n] = name[n]
      BY <1>1, <1>2, <1>4 DEF ModeInv, ModesTrue, Exists
    <2>2. CASE n = c.name
      <3>1. mode'[name[n]] = c.mode /\ wanted'[name[n]] = c.mode
        BY <1>1, <1>2, <2>2
      <3>2. \A u \in Tracees : u # t => n \notin Touched(u)
        <4>1. Held(f) \ {t} = {}
          BY <1>1, <1>4, <2>2 DEF Stray
        <4> QED
          BY <1>2, <2>2, <4>1 DEF Held
      <3>3. \A d \in nodes[t] : d[1] = n => d[2] = c.mode
        <4>1. c.op = "fchmodat2" => ~\E d \in nodes[t] : TRUE
          BY <1>1, <1>4, <2>2
        <4>2. c.op # "fchmodat2" => Changes(t, n)
          BY <2>2 DEF Changes
        <4> QED
          BY <2>1, <4>1, <4>2 DEF TrueOf, InHand, Touched
      <3>4. /\ \A u \in Tracees : n \in Touched(u)' => u = t /\ \E d \in nodes[t] : d[1] = n
            /\ ~Changes(t, n)' /\ call'[t].op = "none" /\ nodes' = nodes
        BY <3>2, AfterCall DEF Done1
      <3>5. n \in Touched(t)' => InHand(t, n)'
        BY <2>1, <3>1, <3>3, <3>4 DEF InHand
      <3> QED
        BY <2>1, <3>1, <3>4, <3>5 DEF TrueOf
    <2>3. CASE n # c.name
      <3>1. name[n] # f
        BY <1>2, <1>4, <2>3 DEF ModeInv, OneName, Exists
      <3>2. mode'[name[n]] = mode[name[n]] /\ wanted'[name[n]] = wanted[name[n]] /\ ~Changes(t, n)
        BY <1>1, <1>2, <2>1, <2>3, <3>1 DEF Changes
      <3> QED
        BY <2>1, <3>2, LeftAlone
    <2> QED
      BY <2>2, <2>3
  <1>5. ModesTrue'
    BY <1>1, <1>4 DEF ModeInv, ModesTrue, Exists
  <1> QED
    BY <1>1, <1>3, <1>5

LEMMA KernelKeeps ==
  ASSUME ModeInv, NEW t \in Tracees, Kernel(t)
  PROVE  ModeInv'
  <1> DEFINE c == call[t]
  <1>1. Done1(t) /\ UNCHANGED nodes
    BY DEF Kernel, Done1
  <1>2. /\ call' \in [Tracees -> [op : Ops, name : Names \cup {"none"}, to : Names \cup {"none"}, mode : Modes,
                                  covered : BOOLEAN, seen : BOOLEAN]]
        /\ DOMAIN nodes' = Tracees
    BY <1>1, AfterCall DEF ModeInv, ModeTypes
  <1>3. /\ name \in [Names -> Files \cup {NoFile}] /\ mode \in [Files -> Modes] /\ wanted \in [Files -> Modes]
    BY DEF ModeInv, ModeTypes
  <1>4. UNCHANGED name => OneName'
    <2>1. \A u \in Tracees : u # t => call'[u] = call[u]
      BY <1>1, AfterCall
    <2>2. /\ nodes' = nodes /\ ~Free(t)' /\ call'[t].name = "none" /\ call'[t].to = "none"
          /\ c.name \in Names
      BY <1>1, AfterCall
    <2>3. call'[t].op = "none"
      BY <1>1, <2>2, AfterCall
    <2> QED
      BY <2>1, <2>2, <2>3 DEF ModeInv, OneName, Free
  <1>5. CASE ~Exists(c.name) /\ UNCHANGED <<name, mode, wanted, denied, wronged>>
    <2>1. ASSUME NEW n \in Names, Exists(n), name[n] \notin wronged PROVE TrueOf(n)'
      <3>1. TrueOf(n) /\ ~Changes(t, n)
        BY <1>5, <2>1 DEF ModeInv, ModesTrue, Changes
      <3> QED
        BY <1>1, <1>5, <3>1, LeftAlone
    <2> QED
      BY <1>2, <1>3, <1>4, <1>5, <2>1 DEF ModeInv, ModeTypes, ModesTrue, Exists
  <1>6. CASE Exists(c.name) /\ c.op \in {"open", "stat"} /\ Lookup(c, name[c.name])
    <2>1. /\ UNCHANGED <<name, mode, wanted, wronged>>
          /\ denied' = (denied \/ (c.op = "open" /\ mode[name[c.name]] = "closed" /\ c.covered
                                   /\ name[c.name] \notin wronged))
      BY <1>6 DEF Lookup
    <2>2. ASSUME NEW n \in Names, Exists(n), name[n] \notin wronged PROVE TrueOf(n)'
      <3>1. TrueOf(n) /\ ~Changes(t, n)
        BY <1>6, <2>2 DEF ModeInv, ModesTrue, Changes
      <3> QED
        BY <1>1, <2>1, <3>1, LeftAlone
    <2>3. ~denied'
      <3>1. ASSUME c.op = "open", c.covered, name[c.name] \notin wronged PROVE mode[name[c.name]] # "closed"
        <4>1. c.name \in Names /\ c.name \in Touched(t)
          BY <1>1, AfterCall DEF Touched
        <4>2. InHand(t, c.name)
          BY <1>6, <3>1, <4>1 DEF ModeInv, ModesTrue, TrueOf
        <4> QED
          BY <3>1, <4>2 DEF InHand
      <3> QED
        BY <2>1, <3>1 DEF ModeInv, ModesTrue
    <2> QED
      BY <1>2, <1>3, <1>4, <2>1, <2>2, <2>3 DEF ModeInv, ModeTypes, ModesTrue, Exists
  <1>7. CASE Exists(c.name) /\ c.op \in {"unlink", "rename"} /\ RemoveName(t, c, name[c.name])
    <2>1. OneName' /\ ModesTrue' /\ name' \in [Names -> Files \cup {NoFile}]
      BY <1>1, <1>7, RemoveKeeps
    <2>2. UNCHANGED <<mode, wanted>>
      BY <1>7 DEF RemoveName
    <2> QED
      BY <1>2, <1>3, <2>1, <2>2 DEF ModeInv, ModeTypes
  <1>8. CASE Exists(c.name) /\ c.op \in {"chmod", "fchmodat", "fchmodat2"} /\ Chmod(t, c, name[c.name])
    <2>1. ModesTrue' /\ mode' \in [Files -> Modes] /\ wanted' \in [Files -> Modes] /\ UNCHANGED name
      BY <1>1, <1>8, ChmodKeeps
    <2> QED
      BY <1>2, <1>3, <1>4, <2>1 DEF ModeInv, ModeTypes
  <1> QED
    BY <1>5, <1>6, <1>7, <1>8 DEF Kernel

LEMMA EventKeeps ==
  ASSUME ModeInv, NEW t \in Tracees, Event(t)
  PROVE  ModeInv'
  <1>1. \A n \in Names : ~Changes(t, n)
    BY DEF Event, ModeInv, OneName, Changes
  <1>2. /\ FreeCtx(t) /\ call' = [call EXCEPT ![t] = Idle]
        /\ UNCHANGED <<name, wanted, denied>> /\ wronged \subseteq wronged'
    BY DEF Event
  <1> QED
    BY <1>1, <1>2, LetGo

LEMMA LookupKeeps ==
  ASSUME ModeInv, NEW t \in Tracees, get_tracee(t)
  PROVE  ModeInv'
  <1> DEFINE c == [call[t] EXCEPT !.covered = FALSE]
  <1>1. /\ FreeCtx(t) /\ UNCHANGED <<name, wanted, denied>> /\ wronged \subseteq wronged'
        /\ call' = [call EXCEPT ![t] = c]
    BY DEF get_tracee
  <1> QED
    BY <1>1, LetGo

LEMMA KilledKeeps ==
  ASSUME ModeInv, NEW t \in Tracees, Killed(t)
  PROVE  ModeInv'
  <1>1. /\ FreeCtx(t) /\ call' = [call EXCEPT ![t] = Idle] /\ UNCHANGED <<name, wanted, denied>>
        /\ wronged' = wronged \cup {name[n] : n \in {m \in Names : m = call[t].name
                                                       /\ call[t].op \in {"chmod", "fchmodat"}}}
    BY DEF Killed
  <1>2. \A n \in Names : Exists(n) /\ name[n] \notin wronged' => ~Changes(t, n)
    BY <1>1 DEF Changes
  <1>3. wronged \subseteq wronged'
    BY <1>1
  <1> QED
    BY <1>1, <1>2, <1>3, LetGo

LEMMA TracerKilledKeeps ==
  ASSUME ModeInv, TracerKilled
  PROVE  ModeInv'
  <1>1. /\ wronged' = wronged \cup {f \in Files : Held(f) # {}}
        /\ nodes' = [t \in Tracees |-> {}] /\ call' = [t \in Tracees |-> Idle]
        /\ UNCHANGED <<name, mode, calls, wanted, denied>>
    BY DEF TracerKilled
  <1>2. Idle \in [op : Ops, name : Names \cup {"none"}, to : Names \cup {"none"}, mode : Modes,
                  covered : BOOLEAN, seen : BOOLEAN]
        /\ Idle.op = "none" /\ Idle.name = "none" /\ Idle.to = "none"
    BY DEF Idle, Ops, Modes
  <1>3. \A t \in Tracees : call'[t] = Idle /\ nodes'[t] = {}
    BY <1>1
  <1>4. ModeTypes'
    BY <1>1, <1>2 DEF ModeInv, ModeTypes
  <1>5. OneName'
    BY <1>1, <1>2, <1>3 DEF ModeInv, OneName
  <1>6. ASSUME NEW n \in Names, Exists(n), name[n] \notin wronged' PROVE TrueOf(n)'
    <2>1. TrueOf(n) /\ name[n] \in Files
      BY <1>1, <1>6 DEF ModeInv, ModeTypes, ModesTrue, Exists
    <2>2. Untouched(n)
      BY <1>1, <1>6, <2>1 DEF Held, Untouched
    <2>3. \A t \in Tracees : n \notin Touched(t)'
      BY <1>2, <1>3, HostModesAssumption DEF Touched
    <2> QED
      BY <1>1, <2>1, <2>2, <2>3 DEF TrueOf
  <1>7. ModesTrue'
    BY <1>1, <1>6 DEF ModeInv, ModesTrue, Exists
  <1> QED
    BY <1>4, <1>5, <1>7 DEF ModeInv

LEMMA ModeInvStep == ModeInv /\ [ModeNext]_modevars => ModeInv'
  <1> SUFFICES ASSUME ModeInv, [ModeNext]_modevars PROVE ModeInv'  OBVIOUS
  <1>1. CASE \E t \in Tracees : \/ Enter(t) \/ Fchmod(t) \/ Kernel(t) \/ Event(t)
                               \/ get_tracee(t) \/ Killed(t)
    BY <1>1, EnterKeeps, FchmodKeeps, KernelKeeps, EventKeeps, LookupKeeps, KilledKeeps
  <1>2. CASE TracerKilled
    BY <1>2, TracerKilledKeeps
  <1>3. CASE UNCHANGED modevars
    BY <1>3 DEF modevars, ModeInv, ModeTypes, OneName, ModesTrue, TrueOf, Untouched, InHand, Changes,
                Touched, Exists, Free
  <1> QED
    BY <1>1, <1>2, <1>3 DEF ModeNext

(* Whichever calls of whichever tracees were under way together on any number of files: when  *)
(* all are at rest the mode of a file is the one the guest gave it last, and no covered open() *)
(* has met a closed file, but for the files one of the named cases has hit                     *)
(* (override_permissions and restore_mode, fake_id0.c:242-284).                               *)
THEOREM ModesAreKept == ModeSpec => []ModesKept
  <1>1. ModeInv => ModesKept
    <2> SUFFICES ASSUME ModeInv PROVE ModesKept  OBVIOUS
    <2>1. ASSUME \A t \in Tracees : Free(t), NEW f \in Named \ wronged PROVE mode[f] = wanted[f]
      <3>1. PICK n \in Names : name[n] = f /\ Exists(n)
        BY <2>1 DEF Named, Exists
      <3>2. \A t \in Tracees : Touched(t) = {}
        BY <2>1, HostModesAssumption DEF ModeInv, OneName, Touched, Free
      <3> QED
        BY <2>1, <3>1, <3>2 DEF ModeInv, ModesTrue, TrueOf, Untouched
    <2> QED
      BY <2>1 DEF ModesKept, ModeInv, ModesTrue
  <1> QED
    BY <1>1, ModeInvInit, ModeInvStep, PTL DEF ModeSpec

------------------------------------------------------------------------------------
(* Hard links: link2symlink.                                                              *)
Places == Families \X (0..MaxCount)
View == {Nothing} \cup {PlainFile(f) : f \in 1..made} \cup {Link(m) : m \in Families}
DueCalls ==
  [op : {"unlink", "rename"}, from : LinkNames, name : LinkNames, file : 0..made,
   left : Families \cup {NoFamily}]

LinkTypes ==
  /\ vis \in [LinkNames -> View] /\ inter \in [Families -> 0..MaxCount]
  /\ data \in [Places -> 0..made] /\ due \in [Linkers -> {NoCall} \cup DueCalls]
  /\ made \in Nat /\ truth \in [LinkNames -> 0..made]

(* A name that is there has a file, a plain file is the one it was given, and one that is  *)
(* not there has none, or one of those the code mishandled.                               *)
NamesTrue ==
  \A n \in LinkNames : /\ vis[n].kind # "none" => truth[n] # 0
                       /\ vis[n].kind = "none" => truth[n] \in misled \cup {0}
                       /\ vis[n].kind = "file" => truth[n] = vis[n].file

(* The names a file has, the calls under way that have already been taken off its count,  *)
(* and where it is: hidden data, or the plain file of a name.                             *)
NamesOf(f) == {n \in LinkNames : truth[n] = f}
Leaving(f) == {t \in Linkers : due[t].left # NoFamily /\ due[t].file = f}
Holds(s, f) == data[s] = f
Bears(n, f) == vis[n].kind = "file" /\ vis[n].file = f

(* Hidden data is in the place its family's link names; all names of the file lead there,  *)
(* and its count is that of the names that stay.                                          *)
InData(f) ==
  \A s \in Places : Holds(s, f) =>
    /\ inter[s[1]] = s[2] /\ s[2] > 0 /\ \A u \in Places : Holds(u, f) => u = s
    /\ NamesOf(f) \subseteq Members(s[1])
    /\ Cardinality(NamesOf(f)) = s[2] + Cardinality(Leaving(f))
InName(f) ==
  \A n \in LinkNames : Bears(n, f) =>
    (\A s \in Places : ~Holds(s, f)) /\ NamesOf(f) = {n} /\ Leaving(f) = {}
(* What is nowhere has no names but those that calls under way remove.                    *)
Nowhere(f) ==
  (\A s \in Places : ~Holds(s, f)) /\ (\A n \in LinkNames : ~Bears(n, f))
    => Cardinality(NamesOf(f)) =< Cardinality(Leaving(f))
GoodFile(f) == InData(f) /\ InName(f) /\ Nowhere(f)

FilesGood == \A f \in Nat \ ({0} \cup misled) : GoodFile(f)

LinkInv == LinkTypes /\ NamesTrue /\ FilesGood

LEMMA FamilyShape ==
  /\ NoFamily \notin Families
  /\ \A m \in Families, c \in 0..MaxCount : <<m, c>> \in Places
  /\ \A s \in Places : s[1] \in Families /\ s[2] \in 0..MaxCount /\ s = <<s[1], s[2]>>
  BY DEF Families, NoFamily, Places

LEMMA Views ==
  /\ Nothing.kind = "none" /\ Nothing.file = 0 /\ Nothing.family = NoFamily
  /\ \A f : PlainFile(f).kind = "file" /\ PlainFile(f).file = f /\ PlainFile(f).family = NoFamily
  /\ \A m : Link(m).kind = "link" /\ Link(m).file = 0 /\ Link(m).family = m
  BY DEF Nothing, PlainFile, Link

(* What a name can be.                                                                    *)
LEMMA ViewOf ==
  ASSUME LinkTypes, NEW n \in LinkNames
  PROVE  \/ vis[n] = Nothing /\ vis[n].kind = "none"
         \/ vis[n].kind = "file" /\ vis[n].file \in 1..made /\ vis[n] = PlainFile(vis[n].file)
         \/ vis[n].kind = "link" /\ FamilyOf(n) \in Families /\ vis[n] = Link(FamilyOf(n))
  BY Views DEF LinkTypes, View, FamilyOf

LEMMA MemberOf ==
  ASSUME LinkTypes, NEW n \in LinkNames, NEW m \in Families
  PROVE  n \in Members(m) <=> IsLink(n) /\ FamilyOf(n) = m
  BY ViewOf, Views DEF Members, IsLink, FamilyOf

LEMMA Counting ==
  /\ \A f : IsFiniteSet(NamesOf(f)) /\ Cardinality(NamesOf(f)) \in Nat
  /\ \A f : IsFiniteSet(Leaving(f)) /\ Cardinality(Leaving(f)) \in Nat
  <1>1. \A f : NamesOf(f) \subseteq LinkNames /\ Leaving(f) \subseteq Linkers
    BY DEF NamesOf, Leaving
  <1> QED
    BY <1>1, LinkAssumption, FS_Subset, FS_CardinalityType

LEMMA CallOf ==
  ASSUME LinkTypes, NEW t \in Linkers
  PROVE  \/ due[t] = NoCall /\ due[t].op = "none" /\ due[t].left = NoFamily /\ due[t].file = 0
         \/ /\ due[t] \in DueCalls /\ due[t].op # "none" /\ due[t].name \in LinkNames
            /\ due[t].from \in LinkNames /\ due[t].file \in 0..made
            /\ due[t].left \in Families \cup {NoFamily}
  <1>1. CASE due[t] = NoCall
    BY <1>1 DEF NoCall
  <1>2. CASE due[t] \in DueCalls
    BY <1>2 DEF DueCalls
  <1> QED
    BY <1>1, <1>2 DEF LinkTypes

(* A file that a step has nothing to do with.                                              *)
Apart(f) ==
  /\ NamesOf(f)' = NamesOf(f) /\ Leaving(f)' = Leaving(f)
  /\ \A n \in NamesOf(f) : vis'[n] = vis[n]
  /\ \A s \in Places : /\ Holds(s, f)' <=> Holds(s, f)
                       /\ Holds(s, f) => inter'[s[1]] = inter[s[1]]
  /\ \A n \in LinkNames : Bears(n, f)' <=> Bears(n, f)

LEMMA ApartKept ==
  ASSUME NEW f, GoodFile(f), Apart(f)
  PROVE  GoodFile(f)'
  <1>1. ASSUME NEW s \in Places, Holds(s, f)
        PROVE  NamesOf(f)' \subseteq Members(s[1])'
    BY <1>1 DEF GoodFile, InData, Apart, Members, NamesOf
  <1>2. InData(f)'
    BY <1>1 DEF GoodFile, InData, Apart
  <1>3. InName(f)' /\ Nowhere(f)'
    BY DEF GoodFile, InName, Nowhere, Apart
  <1> QED
    BY <1>2, <1>3 DEF GoodFile

(* --- types --- *)
(* What is added to what the names and the calls can be as files are made.                 *)
LEMMA TypesGrow ==
  ASSUME LinkTypes, made' \in {made, made + 1}
  PROVE  /\ made' \in Nat /\ View \subseteq View' /\ DueCalls \subseteq DueCalls'
         /\ \A n \in 0..made : n \in 0..made'
         /\ made' = made + 1 => PlainFile(made') \in View'
  <1>1. made \in Nat /\ made' \in Nat /\ \A n \in 0..made : n \in 0..made'
    BY DEF LinkTypes
  <1>2. \A n \in 1..made : n \in 1..made'
    BY <1>1
  <1>3. DueCalls \subseteq DueCalls'
    BY <1>1 DEF DueCalls
  <1>4. made' = made + 1 => made' \in 1..made'
    BY <1>1
  <1> QED
    BY <1>1, <1>2, <1>3, <1>4 DEF View

LEMMA RecountTypes ==
  ASSUME LinkTypes, NEW m \in Families, NEW c \in 0..MaxCount, Recount(m, c)
  PROVE  inter' \in [Families -> 0..MaxCount] /\ data' \in [Places -> 0..made]
  <1>1. <<m, inter[m]>> \in Places /\ <<m, c>> \in Places
    BY FamilyShape DEF LinkTypes
  <1>2. 0 \in 0..made
    BY DEF LinkTypes
  <1> QED
    BY <1>1, <1>2 DEF LinkTypes, Recount

LEMMA DecrementTypes ==
  ASSUME LinkTypes, NEW m \in Families, Whole(m), decrement_link_count(m)
  PROVE  inter' \in [Families -> 0..MaxCount] /\ data' \in [Places -> 0..made]
  <1>1. inter[m] \in 0..MaxCount /\ MaxCount \in Nat /\ made \in Nat
    BY LinkAssumption DEF LinkTypes
  <1>2. CASE inter[m] > 1
    <2>1. inter[m] - 1 \in 0..MaxCount /\ Recount(m, inter[m] - 1)
      BY <1>1, <1>2 DEF decrement_link_count
    <2> QED
      BY <2>1, RecountTypes
  <1>3. CASE ~(inter[m] > 1)
    <2>1. 0 \in 0..MaxCount /\ 0 \in 0..made /\ Dissolve(m)
      BY <1>1, <1>3 DEF decrement_link_count
    <2>2. <<m, inter[m]>> \in Places
      BY <1>1, FamilyShape
    <2> QED
      BY <2>1, <2>2 DEF Dissolve, LinkTypes
  <1> QED
    BY <1>2, <1>3

(* A set of numbers with an element has a least one.                                       *)
LEMMA LeastExists ==
  ASSUME NEW F, F \subseteq Nat, F # {}
  PROVE  \E i \in F : \A j \in F : i =< j
  <1> DEFINE R == {p \in Nat \X Nat : p[1] < p[2]}
  <1>1. IsWellFoundedOn(R, Nat)
    BY NatLessThanWellFounded DEF OpToRel
  <1>2. PICK i \in F : \A j \in F : <<j, i>> \notin R
    BY <1>1, WFMin, Zenon
  <1>3. \A j \in F : ~(j < i)
    BY <1>2
  <1> QED
    BY <1>3

LEMMA SuffixOf ==
  ASSUME NEW b \in LinkNames
  PROVE  <<b, Suffix(b)>> \in Families /\ <<b, MaxSuffix>> \in Families
  <1>1. MaxSuffix \in 1..MaxSuffix
    BY LinkAssumption
  <1>2. ASSUME NEW F \in SUBSET (1..MaxSuffix), F # {}
        PROVE  \E i \in F : \A j \in F : i =< j
    <2>1. F \subseteq Nat
      BY <1>2, LinkAssumption
    <2> QED
      BY <1>2, <2>1, LeastExists
  <1>3. Suffix(b) \in 1..MaxSuffix
    BY <1>1, <1>2 DEF Suffix
  <1> QED
    BY <1>1, <1>3 DEF Families

(* Names keep what they have, are removed, or become files and links as the ghost says.     *)
LEMMA CreateTypes ==
  ASSUME LinkTypes, NamesTrue, NEW t \in Linkers, NEW n \in LinkNames, Create(t, n)
  PROVE  LinkTypes' /\ NamesTrue'
  <1>1. made' = made + 1 /\ UNCHANGED <<inter, data, due>>
    BY DEF Create
  <1>2. LinkTypes'
    <2>1. vis' \in [LinkNames -> View'] /\ truth' \in [LinkNames -> 0..made']
      BY <1>1, TypesGrow DEF LinkTypes, Create
    <2>2. data' \in [Places -> 0..made'] /\ due' \in [Linkers -> {NoCall} \cup DueCalls']
      BY <1>1, TypesGrow DEF LinkTypes
    <2> QED
      BY <1>1, <2>1, <2>2, TypesGrow DEF LinkTypes
  <1>3. NamesTrue'
    BY <1>1, Views DEF NamesTrue, Create, LinkTypes
  <1> QED
    BY <1>2, <1>3

LEMMA LinkFirstTypes ==
  ASSUME LinkTypes, NamesTrue, NEW t \in Linkers, NEW x \in LinkNames, NEW y \in LinkNames,
         LinkFirst(x, y) \/ LinkReuse(x, y), move_and_symlink_path(t, x, y)
  PROVE  LinkTypes' /\ NamesTrue'
  <1>1. PICK m \in Families :
          /\ vis[x].kind = "file"
          /\ vis' = [n \in LinkNames |-> IF n = x \/ (n = y /\ vis[y].kind = "none")
                                        THEN Link(m) ELSE vis[n]]
          /\ inter' \in [Families -> 0..MaxCount] /\ data' \in [Places -> 0..made]
    <2>1. vis[x].kind = "file" => vis[x].file \in 0..made
      BY ViewOf DEF LinkTypes
    <2>2. 1 \in 0..MaxCount /\ 2 \in 0..MaxCount
      BY LinkAssumption
    <2>3. CASE LinkFirst(x, y)
      <3>1. PICK m \in Families, c \in {1, 2} :
              /\ m = <<x, Suffix(x)>> /\ c = (IF vis[y].kind = "none" THEN 2 ELSE 1)
        BY SuffixOf
      <3>2. <<m, c>> \in Places /\ c \in 0..MaxCount
        BY <2>2, FamilyShape
      <3>3. inter' \in [Families -> 0..MaxCount] /\ data' \in [Places -> 0..made]
        BY <2>1, <2>3, <3>1, <3>2 DEF LinkFirst, LinkTypes
      <3> QED
        BY <2>3, <3>1, <3>3 DEF LinkFirst
    <2>4. CASE LinkReuse(x, y)
      <3>1. PICK m \in Families : m = <<x, MaxSuffix>>
        BY SuffixOf
      <3>2. <<m, 1>> \in Places /\ <<m, 2>> \in Places
        BY <2>2, FamilyShape
      <3>3. inter' \in [Families -> 0..MaxCount] /\ data' \in [Places -> 0..made]
        BY <2>1, <2>2, <2>4, <3>1, <3>2 DEF LinkReuse, LinkTypes
      <3> QED
        BY <2>4, <3>1, <3>3 DEF LinkReuse
    <2> QED
      BY <2>3, <2>4
  <1>2. /\ truth' = IF vis[y].kind = "none" THEN [truth EXCEPT ![y] = truth[x]] ELSE truth
        /\ UNCHANGED <<due, made>> /\ misled \subseteq misled'
    BY DEF move_and_symlink_path, LinkFirst, LinkReuse
  <1>3. Link(m) \in View
    BY DEF View
  <1>4. LinkTypes'
    BY <1>1, <1>2, <1>3 DEF LinkTypes, View, DueCalls
  <1>5. NamesTrue'
    BY <1>1, <1>2, Views DEF NamesTrue, LinkTypes
  <1> QED
    BY <1>4, <1>5

LEMMA LinkMoreTypes ==
  ASSUME LinkTypes, NamesTrue, NEW t \in Linkers, NEW x \in LinkNames, NEW y \in LinkNames,
         LinkMore(x, y), move_and_symlink_path(t, x, y)
  PROVE  LinkTypes' /\ NamesTrue'
  <1>1. PICK m \in Families : m = FamilyOf(x) /\ IsLink(x)
    BY ViewOf, Views DEF LinkMore, IsLink
  <1>2. /\ truth' = IF vis[y].kind = "none" THEN [truth EXCEPT ![y] = truth[x]] ELSE truth
        /\ UNCHANGED <<due, made>> /\ misled \subseteq misled'
    BY DEF move_and_symlink_path, LinkMore
  <1>3. vis[x].kind # "none" /\ truth[x] # 0
    BY <1>1 DEF NamesTrue, IsLink
  <1>4. CASE vis[y].kind = "none"
    <2>1. inter[m] + 1 \in 0..MaxCount
      BY <1>1, LinkAssumption DEF LinkMore, LinkTypes
    <2>2. inter' \in [Families -> 0..MaxCount] /\ data' \in [Places -> 0..made]
      BY <1>1, <1>4, <2>1, RecountTypes DEF LinkMore
    <2>3. vis' = [vis EXCEPT ![y] = Link(m)]
      BY <1>1, <1>4 DEF LinkMore
    <2>4. LinkTypes'
      BY <1>2, <2>2, <2>3 DEF LinkTypes, View, DueCalls
    <2>5. NamesTrue'
      BY <1>2, <1>3, <1>4, <2>3, Views DEF NamesTrue, LinkTypes
    <2> QED
      BY <2>4, <2>5
  <1>5. CASE vis[y].kind # "none"
    <2>1. UNCHANGED <<inter, data, vis, truth>>
      BY <1>2, <1>5 DEF LinkMore
    <2> QED
      BY <1>2, <2>1 DEF LinkTypes, NamesTrue, View, DueCalls
  <1> QED
    BY <1>4, <1>5

(* What a name leads to is a file that was made.                                           *)
LEMMA ContentOf ==
  ASSUME LinkTypes, NEW n \in LinkNames
  PROVE  Content(n) \in 0..made
  <1>1. \A m \in Families : DataOf(m) \in 0..made
    BY FamilyShape DEF LinkTypes, DataOf
  <1>2. made \in Nat
    BY DEF LinkTypes
  <1> QED
    BY <1>1, <1>2, ViewOf, Views DEF Content, IsLink

LEMMA CountedFamily ==
  ASSUME LinkTypes, NEW n \in LinkNames, IsLink(n)
  PROVE  FamilyOf(n) \in Families /\ vis[n] = Link(FamilyOf(n)) /\ Content(n) = DataOf(FamilyOf(n))
  BY ViewOf DEF IsLink, Content

LEMMA LeaveTypes ==
  ASSUME LinkTypes, NamesTrue, NEW t \in Linkers, NEW x \in LinkNames, NEW y \in LinkNames,
         NEW op \in {"unlink", "rename"}, Leave(t, op, x, y)
  PROVE  LinkTypes' /\ NamesTrue'
  <1>1. inter' \in [Families -> 0..MaxCount] /\ data' \in [Places -> 0..made]
    <2>1. CASE Counted(y)
      BY <2>1, CountedFamily, DecrementTypes DEF Leave, Counted
    <2>2. CASE ~Counted(y)
      BY <2>2 DEF Leave, LinkTypes
    <2> QED
      BY <2>1, <2>2
  <1>2. due' \in [Linkers -> {NoCall} \cup DueCalls]
    <2>1. (IF Counted(y) THEN FamilyOf(y) ELSE NoFamily) \in Families \cup {NoFamily}
      BY CountedFamily DEF Counted
    <2>2. [op |-> op, from |-> x, name |-> y, file |-> Content(y),
           left |-> IF Counted(y) THEN FamilyOf(y) ELSE NoFamily] \in DueCalls
      BY <2>1, ContentOf DEF DueCalls
    <2> QED
      BY <2>2 DEF Leave, LinkTypes
  <1>3. UNCHANGED <<vis, made, truth, misled>>
    BY DEF Leave
  <1> QED
    BY <1>1, <1>2, <1>3 DEF LinkTypes, NamesTrue, View, DueCalls

LEMMA KernelTypes ==
  ASSUME LinkTypes, NamesTrue, NEW t \in Linkers,
         KernelUnlink(t) \/ KernelRename(t) \/ KernelFails(t)
  PROVE  LinkTypes' /\ NamesTrue'
  <1>1. due' \in [Linkers -> {NoCall} \cup DueCalls] /\ UNCHANGED <<inter, data, made>>
    BY DEF KernelUnlink, KernelRename, KernelFails, Performed, LinkTypes
  <1>2. Nothing \in View /\ 0 \in 0..made
    BY DEF View, LinkTypes
  <1>3. /\ vis' \in [LinkNames -> View] /\ truth' \in [LinkNames -> 0..made]
        /\ NamesTrue'
    <2> misled \subseteq misled'
      BY DEF KernelUnlink, KernelRename, KernelFails, Tell
    <2>1. CASE KernelUnlink(t)
      BY <1>2, <2>1, Views DEF KernelUnlink, LinkTypes, NamesTrue
    <2>2. CASE KernelRename(t)
      <3>1. CASE UNCHANGED <<vis, truth>>
        BY <3>1 DEF LinkTypes, NamesTrue
      <3>2. CASE ~UNCHANGED <<vis, truth>>
        <4>1. PICK n \in LinkNames, x \in LinkNames :
                /\ n # x /\ vis[x].kind # "none"
                /\ vis' = [vis EXCEPT ![n] = vis[x], ![x] = Nothing]
                /\ IF truth[x] = truth[n] THEN truth' = truth /\ truth[x] \in misled'
                   ELSE truth' = [truth EXCEPT ![n] = truth[x], ![x] = 0]
          BY <2>2, <3>2, CallOf DEF KernelRename
        <4>2. CASE truth[x] = truth[n]
          BY <1>2, <4>1, <4>2, Views DEF LinkTypes, NamesTrue
        <4>3. CASE truth[x] # truth[n]
          BY <1>2, <4>1, <4>3, Views DEF LinkTypes, NamesTrue
        <4> QED
          BY <4>2, <4>3
      <3> QED
        BY <3>1, <3>2
    <2>3. CASE KernelFails(t)
      BY <2>3 DEF KernelFails, LinkTypes, NamesTrue
    <2> QED
      BY <2>1, <2>2, <2>3
  <1> QED
    BY <1>1, <1>3 DEF LinkTypes, View, DueCalls

LEMMA CopyTypes ==
  ASSUME LinkTypes, NamesTrue, NEW t \in Linkers, NEW n \in LinkNames,
         materialize_executable(t, n) \/ MaterializeFails(t, n)
  PROVE  LinkTypes' /\ NamesTrue'
  <1>1. CASE materialize_executable(t, n)
    <2>1. inter' \in [Families -> 0..MaxCount] /\ data' \in [Places -> 0..made]
      BY <1>1, CountedFamily, DecrementTypes DEF materialize_executable
    <2>2. made' = made + 1 /\ UNCHANGED due
      BY <1>1 DEF materialize_executable
    <2>3. vis' \in [LinkNames -> View'] /\ truth' \in [LinkNames -> 0..made']
      BY <1>1, <2>2, TypesGrow DEF LinkTypes, materialize_executable
    <2>4. data' \in [Places -> 0..made'] /\ due' \in [Linkers -> {NoCall} \cup DueCalls']
      BY <2>1, <2>2, TypesGrow DEF LinkTypes
    <2>5. NamesTrue'
      BY <1>1, <2>2, Views DEF NamesTrue, materialize_executable, LinkTypes
    <2> QED
      BY <2>1, <2>2, <2>3, <2>4, <2>5, TypesGrow DEF LinkTypes
  <1>2. CASE MaterializeFails(t, n)
    BY <1>2, Views DEF MaterializeFails, LinkTypes, NamesTrue, View, DueCalls
  <1> QED
    BY <1>1, <1>2

(* --- files --- *)
(* A file in the data of a family.                                                         *)
LEMMA WholeFile ==
  ASSUME LinkTypes, NEW m \in Families, NEW f, f # 0, f = DataOf(m), GoodFile(f)
  PROVE  /\ inter[m] \in 1..MaxCount /\ <<m, inter[m]>> \in Places /\ Holds(<<m, inter[m]>>, f)
         /\ \A u \in Places : Holds(u, f) => u = <<m, inter[m]>>
         /\ \A n \in LinkNames : ~Bears(n, f)
         /\ NamesOf(f) \subseteq Members(m)
         /\ Cardinality(NamesOf(f)) = inter[m] + Cardinality(Leaving(f))
  <1>1. inter[m] \in 0..MaxCount /\ inter[m] # 0 /\ data[<<m, inter[m]>>] = f
    BY DEF LinkTypes, DataOf
  <1>2. inter[m] \in 1..MaxCount
    BY <1>1, LinkAssumption
  <1>3. PICK s \in Places : s = <<m, inter[m]>> /\ s[1] = m /\ s[2] = inter[m]
    BY <1>1, FamilyShape
  <1>4. Holds(s, f)
    BY <1>1, <1>3 DEF Holds
  <1> QED
    BY <1>2, <1>3, <1>4 DEF GoodFile, InData, InName

(* Any other has nothing to do with that family.                                           *)
LEMMA OtherFile ==
  ASSUME LinkTypes, NEW m \in Families, NEW f, f # 0, f # DataOf(m), GoodFile(f)
  PROVE  \A s \in Places : Holds(s, f) => s[1] # m
  BY FamilyShape DEF GoodFile, InData, DataOf, Holds

(* The places of a file stay as they are; or it is in one place, or in none.               *)
SlotsKept(f) ==
  \A s \in Places : /\ Holds(s, f)' <=> Holds(s, f)
                    /\ Holds(s, f) => inter'[s[1]] = inter[s[1]]
OnlyAt(f, m, c) ==
  /\ c \in 1..MaxCount /\ inter'[m] = c
  /\ \A s \in Places : Holds(s, f)' <=> s = <<m, c>>

LEMMA Recounted ==
  ASSUME LinkTypes, NEW m \in Families, Whole(m), NEW c \in 1..MaxCount, c # inter[m],
         Recount(m, c), NEW f, f # 0, GoodFile(f)
  PROVE  /\ f # DataOf(m) => SlotsKept(f)
         /\ f = DataOf(m) => OnlyAt(f, m, c)
  <1> DEFINE old == <<m, inter[m]>>
             new == <<m, c>>
  <1>1. /\ inter[m] \in 0..MaxCount /\ c \in 0..MaxCount /\ inter[m] # 0
        /\ data[old] = DataOf(m)
    BY LinkAssumption DEF LinkTypes, Whole, DataOf
  <1>2. old \in Places /\ new \in Places /\ old # new
    BY <1>1, FamilyShape
  <1>3. /\ inter'[m] = c /\ \A k \in Families : k # m => inter'[k] = inter[k]
        /\ data'[new] = DataOf(m) /\ data'[old] = 0
        /\ \A s \in Places : s # old /\ s # new => data'[s] = data[s]
    BY <1>1, <1>2 DEF Recount, LinkTypes
  <1>4. old[1] = m /\ new[1] = m
    OBVIOUS
  <1> HIDE DEF old, new
  <1>5. CASE f # DataOf(m)
    <2>1. \A s \in Places : Holds(s, f) => s[1] # m
      BY <1>5, OtherFile
    <2> QED
      BY <1>2, <1>3, <1>4, <1>5, <2>1, FamilyShape DEF SlotsKept, Holds
  <1>6. CASE f = DataOf(m)
    <2>1. \A u \in Places : Holds(u, f) => u = old
      BY <1>6, WholeFile DEF old
    <2> QED
      BY <1>2, <1>3, <1>6, <2>1 DEF OnlyAt, Holds, new
  <1> QED
    BY <1>5, <1>6

LEMMA Dissolved ==
  ASSUME LinkTypes, NEW m \in Families, Whole(m), Dissolve(m), NEW f, f # 0, GoodFile(f)
  PROVE  /\ f # DataOf(m) => SlotsKept(f)
         /\ f = DataOf(m) => \A s \in Places : ~Holds(s, f)'
  <1> DEFINE old == <<m, inter[m]>>
  <1>1. inter[m] \in 0..MaxCount /\ data[old] = DataOf(m)
    BY DEF LinkTypes, Whole, DataOf
  <1>2. old \in Places
    BY <1>1, FamilyShape
  <1>3. /\ \A k \in Families : k # m => inter'[k] = inter[k]
        /\ data'[old] = 0 /\ \A s \in Places : s # old => data'[s] = data[s]
    BY <1>2 DEF Dissolve, LinkTypes
  <1>4. old[1] = m
    OBVIOUS
  <1> HIDE DEF old
  <1>5. CASE f # DataOf(m)
    <2>1. \A s \in Places : Holds(s, f) => s[1] # m
      BY <1>5, OtherFile
    <2> QED
      BY <1>3, <1>4, <1>5, <2>1, FamilyShape DEF SlotsKept, Holds
  <1>6. CASE f = DataOf(m)
    <2>1. \A u \in Places : Holds(u, f) => u = old
      BY <1>6, WholeFile DEF old
    <2> QED
      BY <1>3, <1>6, <2>1 DEF Holds
  <1> QED
    BY <1>5, <1>6

LEMMA Decremented ==
  ASSUME LinkTypes, NEW m \in Families, Whole(m), decrement_link_count(m),
         NEW f, f # 0, GoodFile(f)
  PROVE  /\ f # DataOf(m) => SlotsKept(f)
         /\ f = DataOf(m) => \/ inter[m] > 1 /\ OnlyAt(f, m, inter[m] - 1)
                             \/ inter[m] = 1 /\ \A s \in Places : ~Holds(s, f)'
  <1>1. inter[m] \in 1..MaxCount
    BY LinkAssumption DEF LinkTypes, Whole, DataOf
  <1>2. CASE inter[m] > 1
    <2>1. inter[m] - 1 \in 1..MaxCount /\ inter[m] - 1 # inter[m]
      BY <1>1, <1>2, LinkAssumption
    <2> QED
      BY <1>2, <2>1, Recounted DEF decrement_link_count
  <1>3. CASE ~(inter[m] > 1)
    <2>1. inter[m] = 1
      BY <1>1, <1>3, LinkAssumption
    <2> QED
      BY <1>3, <2>1, Dissolved DEF decrement_link_count
  <1> QED
    BY <1>2, <1>3

(* A name of a file is gone: its plain file, or a call has done what it was counted for,   *)
(* or the file is nowhere.                                                                *)
NoPlace(f) == (\A s \in Places : ~Holds(s, f)) /\ (\A n \in LinkNames : ~Bears(n, f))
Evened(f, d) ==
  \/ Bears(d, f) /\ Leaving(f)' = Leaving(f)
  \/ \E t \in Leaving(f) : Leaving(f)' = Leaving(f) \ {t}
  \/ NoPlace(f) /\ Leaving(f)' = Leaving(f)
Parted(f, d) ==
  /\ d \in NamesOf(f) /\ NamesOf(f)' = NamesOf(f) \ {d} /\ Evened(f, d)
  /\ \A y \in NamesOf(f)' : \E z \in NamesOf(f) : vis'[y] = vis[z]
  /\ UNCHANGED <<inter, data>>

LEMMA PartedKept ==
  ASSUME NEW f, f # 0, GoodFile(f), NamesTrue, NamesTrue', NEW d, Parted(f, d)
  PROVE  GoodFile(f)'
  <1>1. Cardinality(NamesOf(f)') = Cardinality(NamesOf(f)) - 1 /\ Cardinality(NamesOf(f)) > 0
    <2>1. Cardinality(NamesOf(f)') = Cardinality(NamesOf(f)) - 1
      BY Counting, FS_RemoveElement DEF Parted
    <2>2. Cardinality(NamesOf(f)) # 0
      BY Counting, FS_EmptySet DEF Parted
    <2> QED
      BY <2>1, <2>2, Counting
  <1>2. \A s \in Places : Holds(s, f)' <=> Holds(s, f)
    BY DEF Parted, Holds
  <1>3. \A n \in LinkNames : Bears(n, f)' =>
          n \in NamesOf(f)' /\ \E z \in NamesOf(f) : vis'[n] = vis[z] /\ Bears(z, f)
    <2> SUFFICES ASSUME NEW n \in LinkNames, Bears(n, f)'
                 PROVE  n \in NamesOf(f)' /\ \E z \in NamesOf(f) : vis'[n] = vis[z] /\ Bears(z, f)
      OBVIOUS
    <2>1. n \in NamesOf(f)'
      BY DEF NamesTrue, NamesOf, Bears
    <2> QED
      BY <2>1 DEF Parted, Bears
  <1>4. \A z \in NamesOf(f) : z \in LinkNames
    BY DEF NamesOf
  <1>5. \A s \in Places : Holds(s, f) => NamesOf(f)' \subseteq Members(s[1])'
    BY DEF GoodFile, InData, Parted, Members, NamesOf
  <1>6. CASE Bears(d, f) /\ Leaving(f)' = Leaving(f)
    <2>1. NamesOf(f) = {d} /\ Leaving(f) = {} /\ \A s \in Places : ~Holds(s, f)
      BY <1>4, <1>6 DEF GoodFile, InName, Parted
    <2>2. NamesOf(f)' = {} /\ Leaving(f)' = {}
      BY <1>6, <2>1 DEF Parted
    <2>3. InName(f)'
      BY <1>3, <2>2 DEF InName
    <2>4. InData(f)'
      BY <1>2, <2>1 DEF InData
    <2>5. Nowhere(f)'
      BY <2>2, FS_EmptySet DEF Nowhere
    <2> QED
      BY <2>3, <2>4, <2>5 DEF GoodFile
  <1>7. CASE \E t \in Leaving(f) : Leaving(f)' = Leaving(f) \ {t}
    <2>1. Cardinality(Leaving(f)') = Cardinality(Leaving(f)) - 1
      BY <1>7, Counting, FS_RemoveElement
    <2>2. \A n \in LinkNames : ~Bears(n, f)
      BY <1>7 DEF GoodFile, InName
    <2>3. \A n \in LinkNames : ~Bears(n, f)'
      BY <1>3, <1>4, <2>2
    <2>4. ASSUME NEW s \in Places, Holds(s, f)
          PROVE  /\ inter[s[1]] = s[2] /\ s[2] > 0 /\ \A u \in Places : Holds(u, f) => u = s
                 /\ Cardinality(NamesOf(f)') = s[2] + Cardinality(Leaving(f)')
      <3>1. /\ inter[s[1]] = s[2] /\ s[2] > 0 /\ \A u \in Places : Holds(u, f) => u = s
            /\ Cardinality(NamesOf(f)) = s[2] + Cardinality(Leaving(f)) /\ s[2] \in 0..MaxCount
        BY <2>4, FamilyShape DEF GoodFile, InData
      <3> QED
        BY <1>1, <2>1, <3>1, Counting, LinkAssumption
    <2>5. InData(f)'
      BY <1>2, <1>5, <2>4 DEF InData, Parted
    <2>6. Nowhere(f)'
      <3>1. (\A s \in Places : ~Holds(s, f)) => Cardinality(NamesOf(f)) =< Cardinality(Leaving(f))
        BY <2>2 DEF GoodFile, Nowhere
      <3> QED
        BY <1>1, <1>2, <2>1, <3>1, Counting DEF Nowhere
    <2> QED
      BY <2>3, <2>5, <2>6 DEF GoodFile, InName
  <1>8. CASE NoPlace(f) /\ Leaving(f)' = Leaving(f)
    <2>1. \A n \in LinkNames : ~Bears(n, f)'
      BY <1>3, <1>4, <1>8 DEF NoPlace
    <2>2. Cardinality(NamesOf(f)') =< Cardinality(Leaving(f)')
      BY <1>1, <1>8, Counting DEF GoodFile, Nowhere, NoPlace
    <2> QED
      BY <1>2, <1>8, <2>1, <2>2 DEF GoodFile, InData, InName, Nowhere, NoPlace
  <1> QED
    BY <1>6, <1>7, <1>8 DEF Parted, Evened

(* A file that a step leaves in one place, and that no plain file has.                     *)
LEMMA LoneGood ==
  ASSUME NEW f, NEW m \in Families, NEW c \in 1..MaxCount, OnlyAt(f, m, c),
         \A n \in LinkNames : ~Bears(n, f)',
         NamesOf(f)' \subseteq Members(m)',
         Cardinality(NamesOf(f)') = c + Cardinality(Leaving(f)')
  PROVE  GoodFile(f)'
  <1>1. c \in 0..MaxCount /\ c > 0
    BY LinkAssumption
  <1>2. <<m, c>> \in Places
    BY <1>1, FamilyShape
  <1>3. ASSUME NEW s \in Places, s = <<m, c>>
        PROVE  /\ inter'[s[1]] = s[2] /\ s[2] > 0 /\ NamesOf(f)' \subseteq Members(s[1])'
               /\ Cardinality(NamesOf(f)') = s[2] + Cardinality(Leaving(f)')
    <2>1. s[1] = m /\ s[2] = c
      BY <1>3
    <2> QED
      BY <1>1, <2>1 DEF OnlyAt
  <1>4. InData(f)'
    BY <1>3 DEF InData, OnlyAt
  <1>5. Nowhere(f)'
    BY <1>2 DEF Nowhere, OnlyAt
  <1> QED
    BY <1>4, <1>5 DEF GoodFile, InName

(* --- a step, for one file that it does not mislead --- *)
LEMMA CreateGood ==
  ASSUME LinkTypes, NamesTrue, NEW t \in Linkers, NEW n \in LinkNames, Create(t, n),
         NEW f \in Nat \ {0}, f \notin misled, GoodFile(f)
  PROVE  GoodFile(f)'
  <1>1. made \in Nat /\ made' = made + 1 /\ f # truth[n] /\ vis[n].kind = "none"
    BY DEF Create, LinkTypes, NamesTrue
  <1>2. UNCHANGED <<inter, data, due>>
    BY DEF Create
  <1>3. vis' = [vis EXCEPT ![n] = PlainFile(made')] /\ truth' = [truth EXCEPT ![n] = made']
    BY DEF Create
  <1>4. CASE f # made'
    <2>1. NamesOf(f)' = NamesOf(f) /\ \A x \in NamesOf(f) : x # n
      BY <1>1, <1>3, <1>4 DEF NamesOf, LinkTypes
    <2>2. \A x \in LinkNames : Bears(x, f)' <=> Bears(x, f)
      BY <1>1, <1>3, <1>4, Views DEF Bears, LinkTypes
    <2>3. Apart(f)
      BY <1>2, <1>3, <2>1, <2>2 DEF Apart, Leaving, Holds, LinkTypes, NamesOf
    <2> QED
      BY <2>3, ApartKept
  <1>5. CASE f = made'
    <2>1. \A s \in Places : ~Holds(s, f)'
      BY <1>1, <1>2, <1>5 DEF Holds, LinkTypes
    <2>2. Leaving(f)' = {}
      <3>1. \A u \in Linkers : due[u].file \in 0..made
        BY <1>1, CallOf
      <3> QED
        BY <1>1, <1>2, <1>5, <3>1 DEF Leaving
    <2>3. NamesOf(f)' = {n}
      BY <1>1, <1>3, <1>5 DEF NamesOf, LinkTypes
    <2>4. \A x \in LinkNames : Bears(x, f)' <=> x = n
      <3>1. \A x \in LinkNames : vis[x].kind = "file" => vis[x].file \in 1..made
        BY ViewOf, Views
      <3> QED
        BY <1>1, <1>3, <1>5, <3>1, Views DEF Bears, LinkTypes
    <2> QED
      BY <2>1, <2>2, <2>3, <2>4 DEF GoodFile, InData, InName, Nowhere
  <1> QED
    BY <1>4, <1>5

LEMMA FirstGood ==
  ASSUME LinkTypes, NamesTrue, NEW t \in Linkers, NEW x \in LinkNames, NEW y \in LinkNames,
         LinkFirst(x, y), move_and_symlink_path(t, x, y),
         NEW f \in Nat \ {0}, f \notin misled, GoodFile(f)
  PROVE  GoodFile(f)'
  <1>1. PICK m \in Families, c \in {1, 2} :
          /\ m = <<x, Suffix(x)>> /\ c = (IF vis[y].kind = "none" THEN 2 ELSE 1)
    BY SuffixOf
  <1>2. /\ vis[x].kind = "file" /\ inter[m] = 0
        /\ data' = [data EXCEPT ![<<m, c>>] = vis[x].file]
        /\ inter' = [inter EXCEPT ![m] = c]
        /\ vis' = [n \in LinkNames |-> IF n = x \/ (n = y /\ c = 2) THEN Link(m) ELSE vis[n]]
    BY <1>1 DEF LinkFirst
  <1>3. /\ truth' = IF vis[y].kind = "none" THEN [truth EXCEPT ![y] = truth[x]] ELSE truth
        /\ UNCHANGED <<due, made>>
    BY DEF move_and_symlink_path
  <1>4. /\ truth[x] = vis[x].file /\ truth[x] # 0 /\ (vis[y].kind = "none" <=> c = 2)
        /\ (c = 2 => y # x /\ f # truth[y])
    BY <1>1, <1>2 DEF NamesTrue
  <1>5. c \in 1..MaxCount /\ <<m, c>> \in Places
    BY LinkAssumption, FamilyShape
  <1>6. \A s \in Places : Holds(s, f) => s[1] # m
    BY <1>2, OtherFile DEF DataOf
  <1>7. CASE f # truth[x]
    <2>1. NamesOf(f)' = NamesOf(f)
      BY <1>3, <1>4, <1>7 DEF NamesOf, LinkTypes
    <2>2. \A n \in NamesOf(f) : vis'[n] = vis[n]
      BY <1>2, <1>4, <1>7 DEF NamesOf
    <2>3. \A n \in LinkNames : Bears(n, f)' <=> Bears(n, f)
      BY <1>1, <1>2, <1>4, <1>7, Views DEF Bears
    <2>4. /\ \A s \in Places : s # <<m, c>> => data'[s] = data[s]
          /\ data'[<<m, c>>] = truth[x] /\ ~Holds(<<m, c>>, f)
      BY <1>2, <1>4, <1>5, <1>6 DEF LinkTypes
    <2>5. SlotsKept(f)
      <3>1. \A s \in Places : Holds(s, f)' <=> Holds(s, f)
        BY <1>7, <2>4 DEF Holds
      <3>2. \A s \in Places : Holds(s, f) => inter'[s[1]] = inter[s[1]]
        BY <1>2, <1>6, FamilyShape DEF LinkTypes
      <3> QED
        BY <3>1, <3>2 DEF SlotsKept
    <2>6. Apart(f)
      BY <1>3, <2>1, <2>2, <2>3, <2>5 DEF Apart, SlotsKept, Leaving
    <2> QED
      BY <2>6, ApartKept
  <1>8. CASE f = truth[x]
    <2>1. Bears(x, f)
      BY <1>2, <1>4, <1>8 DEF Bears
    <2>2. (\A s \in Places : ~Holds(s, f)) /\ NamesOf(f) = {x} /\ Leaving(f) = {}
      BY <2>1 DEF GoodFile, InName
    <2>3. Leaving(f)' = {}
      BY <1>3, <2>2 DEF Leaving
    <2>4. \A s \in Places : Holds(s, f)' <=> s = <<m, c>>
      BY <1>2, <1>4, <1>5, <1>8, <2>2 DEF Holds, LinkTypes
    <2>5. \A n \in LinkNames : ~Bears(n, f)'
      <3>1. \A n \in LinkNames : Bears(n, f) => n = x
        BY <2>2 DEF GoodFile, InName
      <3> QED
        BY <1>2, <3>1, Views DEF Bears
    <2>6. NamesOf(f)' = IF c = 2 THEN {x, y} ELSE {x}
      BY <1>3, <1>4, <1>8, <2>2 DEF NamesOf, LinkTypes
    <2>7. Cardinality(NamesOf(f)') = c
      <3>1. CASE c = 2
        <4>1. x # y /\ IsFiniteSet({x}) /\ y \notin {x} /\ {x, y} = {x} \cup {y}
          BY <1>4, <3>1, FS_Singleton
        <4>2. Cardinality({x}) = 1 /\ Cardinality({x} \cup {y}) = Cardinality({x}) + 1
          BY <4>1, FS_Singleton, FS_AddElement
        <4> QED
          BY <2>6, <3>1, <4>1, <4>2
      <3>2. CASE c = 1
        <4>1. NamesOf(f)' = {x}
          BY <2>6, <3>2
        <4> QED
          BY <3>2, <4>1, FS_Singleton
      <3> QED
        BY <3>1, <3>2
    <2>8. NamesOf(f)' \subseteq Members(m)'
      BY <1>2, <2>6 DEF Members
    <2>9. inter'[m] = c
      BY <1>2 DEF LinkTypes
    <2>10. Cardinality(NamesOf(f)') = c + Cardinality(Leaving(f)')
      <3>1. c \in Nat /\ Cardinality({}) = 0
        BY FS_EmptySet
      <3> QED
        BY <2>3, <2>7, <3>1
    <2>11. OnlyAt(f, m, c)
      BY <1>5, <2>4, <2>9 DEF OnlyAt
    <2> QED
      BY <1>5, <2>5, <2>8, <2>10, <2>11, LoneGood
  <1> QED
    BY <1>7, <1>8

LEMMA ReuseGood ==
  ASSUME LinkTypes, NamesTrue, NEW t \in Linkers, NEW x \in LinkNames, NEW y \in LinkNames,
         LinkReuse(x, y), move_and_symlink_path(t, x, y),
         NEW f \in Nat \ {0}, f \notin misled', GoodFile(f)
  PROVE  GoodFile(f)'
  <1>1. PICK m \in Families : m = <<x, MaxSuffix>>
    BY SuffixOf
  <1>2. /\ vis[x].kind = "file" /\ f # vis[x].file /\ f # DataOf(m) /\ f # data[<<m, 2>>]
        /\ \E d \in {1, 2} : data' = [data EXCEPT ![<<m, d>>] = vis[x].file]
        /\ \E c : inter' = [inter EXCEPT ![m] = c]
        /\ vis' = [n \in LinkNames |-> IF n = x \/ (n = y /\ vis[y].kind = "none")
                                      THEN Link(m) ELSE vis[n]]
    BY <1>1 DEF LinkReuse
  <1>3. /\ truth' = IF vis[y].kind = "none" THEN [truth EXCEPT ![y] = truth[x]] ELSE truth
        /\ UNCHANGED <<due, made>>
    BY DEF move_and_symlink_path
  <1>4. truth[x] = vis[x].file /\ (vis[y].kind = "none" => f # truth[y])
    <2>1. misled \subseteq misled'
      BY DEF LinkReuse
    <2> QED
      BY <1>2, <2>1 DEF NamesTrue
  <1>5. \A s \in Places : Holds(s, f) => s[1] # m
    BY <1>2, OtherFile
  <1>6. NamesOf(f)' = NamesOf(f)
    BY <1>2, <1>3, <1>4 DEF NamesOf, LinkTypes
  <1>7. \A n \in NamesOf(f) : vis'[n] = vis[n]
    BY <1>2, <1>4 DEF NamesOf
  <1>8. \A n \in LinkNames : Bears(n, f)' <=> Bears(n, f)
    BY <1>2, Views DEF Bears
  <1>9. SlotsKept(f)
    <2>1. PICK d \in {1, 2} : data' = [data EXCEPT ![<<m, d>>] = vis[x].file]
      BY <1>2
    <2>2. <<m, d>> \in Places
      BY LinkAssumption, FamilyShape
    <2>3. \A s \in Places : Holds(s, f)' <=> Holds(s, f)
      <3>1. \A s \in Places : s # <<m, d>> => data'[s] = data[s]
        BY <2>1, <2>2 DEF LinkTypes
      <3>2. data'[<<m, d>>] = vis[x].file /\ ~Holds(<<m, d>>, f)
        BY <1>5, <2>1, <2>2 DEF LinkTypes
      <3> QED
        BY <1>2, <3>1, <3>2 DEF Holds
    <2>4. \A s \in Places : Holds(s, f) => inter'[s[1]] = inter[s[1]]
      BY <1>2, <1>5, FamilyShape DEF LinkTypes
    <2> QED
      BY <2>3, <2>4 DEF SlotsKept
  <1>10. Apart(f)
    BY <1>3, <1>6, <1>7, <1>8, <1>9 DEF Apart, SlotsKept, Leaving
  <1> QED
    BY <1>10, ApartKept

LEMMA MoreGood ==
  ASSUME LinkTypes, NamesTrue, NEW t \in Linkers, NEW x \in LinkNames, NEW y \in LinkNames,
         LinkMore(x, y), move_and_symlink_path(t, x, y),
         NEW f \in Nat \ {0}, f \notin misled', GoodFile(f)
  PROVE  GoodFile(f)'
  <1>1. PICK m \in Families :
          /\ m = FamilyOf(x) /\ IsLink(x) /\ Content(x) = DataOf(m) /\ Whole(m)
          /\ inter[m] < MaxCount /\ vis[x] = Link(m)
    BY CountedFamily DEF LinkMore
  <1>2. /\ truth' = IF vis[y].kind = "none" THEN [truth EXCEPT ![y] = truth[x]] ELSE truth
        /\ UNCHANGED <<due, made>>
    BY DEF move_and_symlink_path
  <1>3. f = truth[x] <=> f = DataOf(m)
    BY <1>1 DEF LinkMore, Mistaken
  <1>4. vis[y].kind = "none" => f # truth[y]
    <2>1. misled \subseteq misled'
      BY DEF LinkMore
    <2> QED
      BY <2>1 DEF NamesTrue
  <1>5. Leaving(f)' = Leaving(f)
    BY <1>2 DEF Leaving
  <1>6. CASE vis[y].kind # "none"
    <2>1. UNCHANGED <<inter, data, vis, truth>>
      BY <1>2, <1>4, <1>6 DEF LinkMore
    <2>2. Apart(f)
      BY <1>5, <2>1 DEF Apart, NamesOf, Holds, Bears
    <2> QED
      BY <2>2, ApartKept
  <1>7. CASE vis[y].kind = "none"
    <2>1. /\ Recount(m, inter[m] + 1) /\ vis' = [vis EXCEPT ![y] = Link(m)]
          /\ truth' = [truth EXCEPT ![y] = truth[x]] /\ f # truth[y]
      BY <1>1, <1>2, <1>4, <1>7 DEF LinkMore
    <2>2. inter[m] + 1 \in 1..MaxCount /\ inter[m] + 1 # inter[m] /\ inter[m] \in Nat
      BY <1>1, LinkAssumption DEF LinkTypes
    <2>3. \A n \in LinkNames : Bears(n, f)' <=> Bears(n, f)
      BY <1>7, <2>1, Views DEF Bears, LinkTypes
    <2>4. CASE f # DataOf(m)
      <3>1. SlotsKept(f)
        BY <1>1, <2>1, <2>2, <2>4, Recounted
      <3>2. NamesOf(f)' = NamesOf(f) /\ \A n \in NamesOf(f) : n # y
        BY <1>3, <2>1, <2>4 DEF NamesOf, LinkTypes
      <3>3. \A n \in NamesOf(f) : vis'[n] = vis[n]
        BY <2>1, <3>2 DEF NamesOf, LinkTypes
      <3>4. Apart(f)
        BY <1>5, <2>3, <3>1, <3>2, <3>3 DEF Apart, SlotsKept
      <3> QED
        BY <3>4, ApartKept
    <2>5. CASE f = DataOf(m)
      <3>1. OnlyAt(f, m, inter[m] + 1)
        BY <1>1, <2>1, <2>2, <2>5, Recounted
      <3>2. /\ \A n \in LinkNames : ~Bears(n, f)'
            /\ NamesOf(f) \subseteq Members(m)
            /\ Cardinality(NamesOf(f)) = inter[m] + Cardinality(Leaving(f))
        BY <2>3, <2>5, WholeFile
      <3>3. NamesOf(f)' = NamesOf(f) \cup {y} /\ y \notin NamesOf(f)
        BY <1>3, <2>1, <2>5 DEF NamesOf, LinkTypes
      <3>4. Cardinality(NamesOf(f)') = Cardinality(NamesOf(f)) + 1
        BY <3>3, Counting, FS_AddElement
      <3>5. Cardinality(NamesOf(f)') = inter[m] + 1 + Cardinality(Leaving(f)')
        BY <1>5, <2>2, <3>2, <3>4, Counting
      <3>6. NamesOf(f)' \subseteq Members(m)'
        BY <2>1, <3>2, <3>3 DEF Members, LinkTypes
      <3> QED
        BY <2>2, <3>1, <3>2, <3>5, <3>6, LoneGood
    <2> QED
      BY <2>4, <2>5
  <1> QED
    BY <1>6, <1>7

LEMMA LeaveGood ==
  ASSUME LinkTypes, NamesTrue, NEW t \in Linkers, NEW x \in LinkNames, NEW y \in LinkNames,
         NEW op \in {"unlink", "rename"}, Leave(t, op, x, y),
         NEW f \in Nat \ {0}, GoodFile(f)
  PROVE  GoodFile(f)'
  <1>1. UNCHANGED <<vis, made, truth>> /\ due[t].left = NoFamily
    BY CallOf DEF Leave, NotInCall
  <1>2. /\ \A u \in Linkers : u # t => due'[u] = due[u]
        /\ due'[t].left = (IF Counted(y) THEN FamilyOf(y) ELSE NoFamily)
        /\ due'[t].file = Content(y)
    BY DEF Leave, LinkTypes
  <1>3. NamesOf(f)' = NamesOf(f) /\ (\A n \in LinkNames : Bears(n, f)' <=> Bears(n, f))
    BY <1>1 DEF NamesOf, Bears
  <1>4. CASE ~Counted(y)
    <2>1. UNCHANGED <<inter, data>> /\ Leaving(f)' = Leaving(f)
      BY <1>1, <1>2, <1>4 DEF Leave, Leaving
    <2>2. Apart(f)
      BY <1>1, <1>3, <2>1 DEF Apart, Holds
    <2> QED
      BY <2>2, ApartKept
  <1>5. CASE Counted(y)
    <2>1. PICK m \in Families :
            /\ m = FamilyOf(y) /\ Whole(m) /\ decrement_link_count(m) /\ Content(y) = DataOf(m)
      BY <1>5, CountedFamily DEF Leave, Counted
    <2>2. CASE f # DataOf(m)
      <3>1. Leaving(f)' = Leaving(f)
        BY <1>1, <1>2, <2>1, <2>2 DEF Leaving
      <3>2. SlotsKept(f)
        BY <2>1, <2>2, Decremented
      <3>3. Apart(f)
        BY <1>1, <1>3, <3>1, <3>2 DEF Apart, SlotsKept
      <3> QED
        BY <3>3, ApartKept
    <2>3. CASE f = DataOf(m)
      <3>1. Leaving(f)' = Leaving(f) \cup {t} /\ t \notin Leaving(f)
        BY <1>1, <1>2, <1>5, <2>1, <2>3, FamilyShape DEF Leaving
      <3>2. Cardinality(Leaving(f)') = Cardinality(Leaving(f)) + 1
        BY <3>1, Counting, FS_AddElement
      <3>3. /\ \A n \in LinkNames : ~Bears(n, f)'
            /\ NamesOf(f) \subseteq Members(m) /\ inter[m] \in 1..MaxCount
            /\ Cardinality(NamesOf(f)) = inter[m] + Cardinality(Leaving(f))
        BY <1>3, <2>3, WholeFile
      <3>4. CASE inter[m] > 1 /\ OnlyAt(f, m, inter[m] - 1)
        <4>1. PICK c \in 1..MaxCount : c = inter[m] - 1 /\ inter[m] = c + 1 /\ c \in Nat /\ c > 0
          BY <3>3, <3>4, LinkAssumption
        <4>2. Cardinality(NamesOf(f)') = c + Cardinality(Leaving(f)')
          BY <1>3, <3>2, <3>3, <4>1, Counting
        <4>3. NamesOf(f)' \subseteq Members(m)'
          BY <1>1, <1>3, <3>3 DEF Members
        <4> QED
          BY <3>3, <3>4, <4>1, <4>2, <4>3, LoneGood
      <3>5. CASE inter[m] = 1 /\ \A s \in Places : ~Holds(s, f)'
        <4>1. Cardinality(NamesOf(f)') =< Cardinality(Leaving(f)')
          BY <1>3, <3>2, <3>3, <3>5, Counting
        <4> QED
          BY <3>3, <3>5, <4>1 DEF GoodFile, InData, InName, Nowhere
      <3> QED
        BY <2>1, <2>3, <3>4, <3>5, Decremented
    <2> QED
      BY <2>2, <2>3
  <1> QED
    BY <1>4, <1>5

(* A name that leads to another file: its own has no place, and it waits to be removed.    *)
LEMMA Unread ==
  ASSUME LinkTypes, NEW n \in LinkNames, IsLink(n), NEW f, f = truth[n], f # Content(n),
         GoodFile(f)
  PROVE  NoPlace(f)
  <1>1. n \in NamesOf(f)
    BY DEF NamesOf
  <1>2. \A s \in Places : ~Holds(s, f)
    <2> SUFFICES ASSUME NEW s \in Places, Holds(s, f) PROVE FALSE
      OBVIOUS
    <2>1. inter[s[1]] = s[2] /\ s[2] > 0 /\ n \in Members(s[1]) /\ s[1] \in Families
          /\ s = <<s[1], s[2]>>
      BY <1>1, FamilyShape DEF GoodFile, InData
    <2>2. s[1] = FamilyOf(n)
      BY <2>1, MemberOf
    <2>3. DataOf(FamilyOf(n)) = f
      BY <2>1, <2>2 DEF DataOf, Holds
    <2> QED
      BY <2>3 DEF Content
  <1>3. \A x \in LinkNames : ~Bears(x, f)
    BY <1>1 DEF GoodFile, InName, Bears, IsLink
  <1> QED
    BY <1>2, <1>3 DEF NoPlace

(* What the kernel's doing of the call means for the calls that were counted.               *)
LEMMA Told ==
  ASSUME LinkTypes, NamesTrue, NEW t \in Linkers, ~NotInCall(t), Performed(t),
         NEW gone, Wronged(t, gone) \subseteq misled', NEW f \in Nat \ {0}, f \notin misled',
         misled \subseteq misled', GoodFile(f)
  PROVE  /\ gone = NoFamily => Leaving(f)' = Leaving(f)
         /\ gone = FamilyIf(TRUE, due[t].name) =>
              IF f = truth[due[t].name] THEN Evened(f, due[t].name)
              ELSE Leaving(f)' = Leaving(f)
  <1>1. PICK n \in LinkNames : n = due[t].name
    BY CallOf DEF NotInCall
  <1>2. /\ \A u \in Linkers : u # t => due'[u] = due[u]
        /\ due'[t].left = NoFamily
    BY DEF Performed, LinkTypes, NoCall
  <1>3. CASE due[t].left = gone /\ (gone # NoFamily => truth[n] = due[t].file)
    <2>1. CASE gone = NoFamily
      <3>1. Leaving(f)' = Leaving(f)
        BY <1>2, <1>3, <2>1 DEF Leaving
      <3>2. CASE gone = FamilyIf(TRUE, n) /\ f = truth[n]
        <4>1. ~IsLink(n)
          BY <2>1, <3>2, CountedFamily, FamilyShape DEF FamilyIf
        <4>2. Bears(n, f)
          BY <3>2, <4>1, ViewOf DEF NamesTrue, Bears, IsLink
        <4> QED
          BY <1>1, <3>1, <3>2, <4>2 DEF Evened
      <3> QED
        BY <1>1, <3>1, <3>2
    <2>2. CASE gone # NoFamily /\ f = due[t].file
      <3>1. t \in Leaving(f) /\ Leaving(f)' = Leaving(f) \ {t}
        BY <1>2, <1>3, <2>2 DEF Leaving
      <3> QED
        BY <1>1, <1>3, <2>2, <3>1 DEF Evened
    <2>3. CASE gone # NoFamily /\ f # due[t].file
      BY <1>1, <1>2, <1>3, <2>3 DEF Leaving
    <2> QED
      BY <2>1, <2>2, <2>3
  <1>4. CASE ~(due[t].left = gone /\ (gone # NoFamily => truth[n] = due[t].file))
    <2>1. f # due[t].file /\ f # Content(n)
      BY <1>1, <1>4 DEF Wronged
    <2>2. Leaving(f)' = Leaving(f)
      BY <1>2, <2>1 DEF Leaving
    <2>3. ASSUME f = truth[n] PROVE NoPlace(f)
      <3>1. IsLink(n)
        BY <2>1, <2>3, ViewOf DEF NamesTrue, IsLink, Content
      <3> QED
        BY <2>1, <2>3, <3>1, Unread
    <2> QED
      BY <1>1, <2>2, <2>3 DEF Evened
  <1> QED
    BY <1>3, <1>4

LEMMA UnlinkGood ==
  ASSUME LinkTypes, NamesTrue, NamesTrue', NEW t \in Linkers, KernelUnlink(t),
         NEW f \in Nat \ {0}, f \notin misled', GoodFile(f)
  PROVE  GoodFile(f)'
  <1>1. PICK n \in LinkNames : n = due[t].name
    BY CallOf DEF KernelUnlink
  <1>2. /\ ~NotInCall(t) /\ Performed(t) /\ Tell(t, FamilyIf(TRUE, n))
        /\ vis' = [vis EXCEPT ![n] = Nothing] /\ truth' = [truth EXCEPT ![n] = 0]
        /\ UNCHANGED <<inter, data>>
    BY <1>1 DEF KernelUnlink, NotInCall
  <1>3. IF f = truth[n] THEN Evened(f, n) ELSE Leaving(f)' = Leaving(f)
    BY <1>1, <1>2, Told DEF Tell
  <1>4. CASE f = truth[n]
    <2>1. n \in NamesOf(f) /\ NamesOf(f)' = NamesOf(f) \ {n}
      BY <1>2, <1>4 DEF NamesOf, LinkTypes
    <2>2. \A y \in NamesOf(f)' : vis'[y] = vis[y] /\ y \in NamesOf(f)
      BY <1>2, <2>1 DEF NamesOf, LinkTypes
    <2>3. Parted(f, n)
      BY <1>2, <1>3, <1>4, <2>1, <2>2 DEF Parted
    <2> QED
      BY <2>3, PartedKept
  <1>5. CASE f # truth[n]
    <2>1. NamesOf(f)' = NamesOf(f) /\ \A y \in NamesOf(f) : vis'[y] = vis[y]
      BY <1>2, <1>5 DEF NamesOf, LinkTypes
    <2>2. \A y \in LinkNames : Bears(y, f)' <=> Bears(y, f)
      BY <1>2, <1>5, Views DEF Bears, LinkTypes, NamesTrue
    <2>3. Apart(f)
      BY <1>2, <1>3, <1>5, <2>1, <2>2 DEF Apart, Holds
    <2> QED
      BY <2>3, ApartKept
  <1> QED
    BY <1>4, <1>5

(* A file whose name is another one now.                                                   *)
LEMMA RenamedKept ==
  ASSUME NEW f, GoodFile(f), NamesTrue, NamesTrue', NEW x \in NamesOf(f), NEW n \in LinkNames,
         n \notin NamesOf(f), NamesOf(f)' = (NamesOf(f) \ {x}) \cup {n}, Leaving(f)' = Leaving(f),
         vis'[n] = vis[x], \A y \in NamesOf(f) \ {x} : vis'[y] = vis[y], UNCHANGED <<inter, data>>
  PROVE  GoodFile(f)'
  <1>1. Cardinality(NamesOf(f)') = Cardinality(NamesOf(f))
    <2>1. /\ IsFiniteSet(NamesOf(f) \ {x}) /\ n \notin NamesOf(f) \ {x}
          /\ Cardinality(NamesOf(f) \ {x}) = Cardinality(NamesOf(f)) - 1
      BY Counting, FS_RemoveElement
    <2>2. Cardinality((NamesOf(f) \ {x}) \cup {n}) = Cardinality(NamesOf(f) \ {x}) + 1
      BY <2>1, FS_AddElement
    <2> QED
      BY <2>1, <2>2, Counting
  <1>2. \A s \in Places : Holds(s, f)' <=> Holds(s, f)
    BY DEF Holds
  <1>3. \A s \in Places : Holds(s, f) => NamesOf(f)' \subseteq Members(s[1])'
    BY DEF GoodFile, InData, Members, NamesOf
  <1>4. InData(f)'
    BY <1>1, <1>2, <1>3 DEF GoodFile, InData
  <1>5. ASSUME NEW y \in LinkNames, Bears(y, f)'
        PROVE  y = n /\ Bears(x, f)
    <2>1. y \in NamesOf(f)'
      BY <1>5 DEF NamesTrue, NamesOf, Bears
    <2>2. CASE y # n
      <3>1. Bears(y, f) /\ y # x
        BY <1>5, <2>1, <2>2 DEF Bears
      <3> QED
        BY <3>1 DEF GoodFile, InName
    <2>3. CASE y = n
      BY <1>5, <2>3 DEF Bears
    <2> QED
      BY <2>2, <2>3
  <1>6. x \in LinkNames
    BY DEF NamesOf
  <1>7. InName(f)'
    BY <1>2, <1>5, <1>6 DEF GoodFile, InName
  <1>8. Nowhere(f)'
    <2>1. ASSUME \A y \in LinkNames : ~Bears(y, f)'
          PROVE  \A y \in LinkNames : ~Bears(y, f)
      <3> SUFFICES ASSUME NEW y \in LinkNames, Bears(y, f) PROVE FALSE
        OBVIOUS
      <3>1. y = x
        BY DEF GoodFile, InName
      <3> QED
        BY <2>1, <3>1 DEF Bears
    <2> QED
      BY <1>1, <1>2, <2>1 DEF GoodFile, Nowhere
  <1> QED
    BY <1>4, <1>7, <1>8 DEF GoodFile

LEMMA RenameGood ==
  ASSUME LinkTypes, NamesTrue, NamesTrue', NEW t \in Linkers, KernelRename(t),
         NEW f \in Nat \ {0}, f \notin misled', GoodFile(f)
  PROVE  GoodFile(f)'
  <1>1. PICK n \in LinkNames, x \in LinkNames : n = due[t].name /\ x = due[t].from
    BY CallOf DEF KernelRename
  <1>2. /\ ~NotInCall(t) /\ Performed(t) /\ UNCHANGED <<inter, data>>
        /\ Wronged(t, FamilyIf(x # n /\ vis[x].kind # "none", n)) \subseteq misled'
        /\ misled \subseteq misled'
    BY <1>1 DEF KernelRename, NotInCall
  <1>3. CASE ~(x # n /\ vis[x].kind # "none")
    <2>1. UNCHANGED <<vis, truth>> /\ FamilyIf(x # n /\ vis[x].kind # "none", n) = NoFamily
      BY <1>1, <1>3 DEF KernelRename, FamilyIf
    <2>2. Leaving(f)' = Leaving(f)
      BY <1>2, <2>1, Told
    <2>3. Apart(f)
      BY <1>2, <2>1, <2>2 DEF Apart, NamesOf, Bears, Holds
    <2> QED
      BY <2>3, ApartKept
  <1>4. CASE x # n /\ vis[x].kind # "none"
    <2>1. /\ vis' = [vis EXCEPT ![n] = vis[x], ![x] = Nothing] /\ x # n
          /\ IF truth[x] = truth[n] THEN truth' = truth /\ f # truth[x]
             ELSE truth' = [truth EXCEPT ![n] = truth[x], ![x] = 0]
          /\ Wronged(t, FamilyIf(TRUE, n)) \subseteq misled'
      BY <1>1, <1>2, <1>4 DEF KernelRename
    <2>2. IF f = truth[n] THEN Evened(f, n) ELSE Leaving(f)' = Leaving(f)
      BY <1>1, <1>2, <2>1, Told
    <2>3. /\ vis'[n] = vis[x] /\ vis'[x] = Nothing
          /\ truth[x] # truth[n] => truth'[n] = truth[x] /\ truth'[x] = 0
          /\ \A y \in LinkNames : y # n /\ y # x => vis'[y] = vis[y] /\ truth'[y] = truth[y]
      BY <2>1 DEF LinkTypes
    <2>4. CASE f # truth[n] /\ f # truth[x]
      <3>1. NamesOf(f)' = NamesOf(f) /\ \A y \in NamesOf(f) : vis'[y] = vis[y]
        BY <2>1, <2>3, <2>4 DEF NamesOf
      <3>2. \A y \in LinkNames : Bears(y, f)' <=> Bears(y, f)
        BY <2>3, <2>4, Views DEF Bears, NamesTrue
      <3>3. Apart(f)
        BY <1>2, <2>2, <2>4, <3>1, <3>2 DEF Apart, Holds
      <3> QED
        BY <3>3, ApartKept
    <2>5. CASE f # truth[n] /\ f = truth[x]
      <3>1. /\ x \in NamesOf(f) /\ n \notin NamesOf(f)
            /\ NamesOf(f)' = (NamesOf(f) \ {x}) \cup {n}
            /\ \A y \in NamesOf(f) \ {x} : vis'[y] = vis[y]
        BY <2>3, <2>5 DEF NamesOf
      <3> QED
        BY <1>2, <2>2, <2>3, <2>5, <3>1, RenamedKept
    <2>6. CASE f = truth[n] /\ f # truth[x]
      <3>1. n \in NamesOf(f) /\ NamesOf(f)' = NamesOf(f) \ {n}
        BY <2>3, <2>6 DEF NamesOf
      <3>2. \A y \in NamesOf(f)' : vis'[y] = vis[y] /\ y \in NamesOf(f)
        BY <2>3, <2>6, <3>1 DEF NamesOf
      <3>3. Parted(f, n)
        BY <1>2, <2>2, <2>6, <3>1, <3>2 DEF Parted
      <3> QED
        BY <3>3, PartedKept
    <2>7. f # truth[n] \/ f # truth[x]
      BY <2>1
    <2> QED
      BY <2>4, <2>5, <2>6, <2>7
  <1> QED
    BY <1>3, <1>4

LEMMA FailGood ==
  ASSUME LinkTypes, NamesTrue, NEW t \in Linkers, KernelFails(t),
         NEW f \in Nat \ {0}, f \notin misled', GoodFile(f)
  PROVE  GoodFile(f)'
  <1>1. Leaving(f)' = Leaving(f)
    BY Told DEF KernelFails, Tell
  <1>2. Apart(f)
    BY <1>1 DEF KernelFails, Apart, NamesOf, Bears, Holds
  <1> QED
    BY <1>2, ApartKept

LEMMA CopyFailGood ==
  ASSUME LinkTypes, NamesTrue, NamesTrue', NEW t \in Linkers, NEW n \in LinkNames,
         MaterializeFails(t, n), NEW f \in Nat \ {0}, f \notin misled', GoodFile(f)
  PROVE  GoodFile(f)'
  <1>1. /\ IsLink(n) /\ f # Content(n) /\ UNCHANGED <<inter, data, due>>
        /\ vis' = [vis EXCEPT ![n] = Nothing] /\ truth' = [truth EXCEPT ![n] = 0]
    BY DEF MaterializeFails
  <1>2. Leaving(f)' = Leaving(f)
    BY <1>1 DEF Leaving
  <1>3. CASE f = truth[n]
    <2>1. n \in NamesOf(f) /\ NamesOf(f)' = NamesOf(f) \ {n}
      BY <1>1, <1>3 DEF NamesOf, LinkTypes
    <2>2. \A y \in NamesOf(f)' : vis'[y] = vis[y] /\ y \in NamesOf(f)
      BY <1>1, <2>1 DEF NamesOf, LinkTypes
    <2>3. Evened(f, n)
      BY <1>1, <1>2, <1>3, Unread DEF Evened
    <2>4. Parted(f, n)
      BY <1>1, <2>1, <2>2, <2>3 DEF Parted
    <2> QED
      BY <2>4, PartedKept
  <1>4. CASE f # truth[n]
    <2>1. NamesOf(f)' = NamesOf(f) /\ \A y \in NamesOf(f) : vis'[y] = vis[y]
      BY <1>1, <1>4 DEF NamesOf, LinkTypes
    <2>2. \A y \in LinkNames : Bears(y, f)' <=> Bears(y, f)
      BY <1>1, <1>4, Views DEF Bears, LinkTypes, NamesTrue
    <2>3. Apart(f)
      BY <1>1, <1>2, <2>1, <2>2 DEF Apart, Holds
    <2> QED
      BY <2>3, ApartKept
  <1> QED
    BY <1>3, <1>4

LEMMA CopyGood ==
  ASSUME LinkTypes, NamesTrue, NEW t \in Linkers, NEW n \in LinkNames,
         materialize_executable(t, n), NEW f \in Nat \ {0}, f \notin misled', GoodFile(f)
  PROVE  GoodFile(f)'
  <1>1. PICK m \in Families :
          /\ m = FamilyOf(n) /\ IsLink(n) /\ Content(n) = DataOf(m) /\ Whole(m)
          /\ decrement_link_count(m) /\ vis[n] = Link(m)
    BY CountedFamily DEF materialize_executable
  <1>2. /\ made \in Nat /\ made' = made + 1 /\ UNCHANGED due
        /\ vis' = [vis EXCEPT ![n] = PlainFile(made')] /\ truth' = [truth EXCEPT ![n] = made']
    BY DEF materialize_executable, LinkTypes
  <1>3. f = truth[n] <=> f = DataOf(m)
    BY <1>1 DEF materialize_executable, Mistaken
  <1>4. Leaving(f)' = Leaving(f)
    BY <1>2 DEF Leaving
  <1>5. truth[n] \in 0..made /\ DataOf(m) \in 0..made
    BY <1>1, ContentOf DEF LinkTypes
  <1>6. CASE f = made'
    <2>1. \A s \in Places : ~Holds(s, f)'
      <3>1. data' \in [Places -> 0..made]
        BY <1>1, DecrementTypes
      <3> QED
        BY <1>2, <1>6, <3>1 DEF Holds
    <2>2. Leaving(f)' = {}
      <3>1. \A u \in Linkers : due[u].file \in 0..made
        BY <1>2, CallOf
      <3> QED
        BY <1>2, <1>6, <3>1 DEF Leaving
    <2>3. NamesOf(f)' = {n}
      BY <1>2, <1>6 DEF NamesOf, LinkTypes
    <2>4. \A x \in LinkNames : Bears(x, f)' <=> x = n
      <3>1. \A x \in LinkNames : vis[x].kind = "file" => vis[x].file \in 1..made
        BY ViewOf, Views
      <3> QED
        BY <1>2, <1>6, <3>1, Views DEF Bears, LinkTypes
    <2> QED
      BY <2>1, <2>2, <2>3, <2>4 DEF GoodFile, InData, InName, Nowhere
  <1>7. CASE f # made' /\ f # DataOf(m)
    <2>1. SlotsKept(f)
      BY <1>1, <1>7, Decremented
    <2>2. NamesOf(f)' = NamesOf(f) /\ \A y \in NamesOf(f) : vis'[y] = vis[y]
      BY <1>2, <1>3, <1>7 DEF NamesOf, LinkTypes
    <2>3. \A y \in LinkNames : Bears(y, f)' <=> Bears(y, f)
      BY <1>1, <1>2, <1>7, Views DEF Bears, LinkTypes
    <2>4. Apart(f)
      BY <1>4, <2>1, <2>2, <2>3 DEF Apart, SlotsKept
    <2> QED
      BY <2>4, ApartKept
  <1>8. CASE f # made' /\ f = DataOf(m)
    <2>1. /\ inter[m] \in 1..MaxCount /\ NamesOf(f) \subseteq Members(m)
          /\ \A y \in LinkNames : ~Bears(y, f)
          /\ Cardinality(NamesOf(f)) = inter[m] + Cardinality(Leaving(f))
      BY <1>8, WholeFile
    <2>2. n \in NamesOf(f) /\ NamesOf(f)' = NamesOf(f) \ {n}
      BY <1>2, <1>3, <1>8 DEF NamesOf, LinkTypes
    <2>3. Cardinality(NamesOf(f)') = Cardinality(NamesOf(f)) - 1
      BY <2>2, Counting, FS_RemoveElement
    <2>4. \A y \in LinkNames : ~Bears(y, f)'
      BY <1>2, <1>8, <2>1, Views DEF Bears, LinkTypes
    <2>5. CASE inter[m] > 1 /\ OnlyAt(f, m, inter[m] - 1)
      <3>1. PICK c \in 1..MaxCount : c = inter[m] - 1 /\ inter[m] = c + 1 /\ c \in Nat
        BY <2>1, <2>5, LinkAssumption
      <3>2. Cardinality(NamesOf(f)') = c + Cardinality(Leaving(f)')
        BY <1>4, <2>1, <2>3, <3>1, Counting
      <3>3. NamesOf(f)' \subseteq Members(m)'
        BY <1>2, <2>1, <2>2 DEF Members, LinkTypes
      <3> QED
        BY <2>4, <2>5, <3>1, <3>2, <3>3, LoneGood
    <2>6. CASE inter[m] = 1 /\ \A s \in Places : ~Holds(s, f)'
      <3>1. Cardinality(NamesOf(f)') =< Cardinality(Leaving(f)')
        BY <1>4, <2>1, <2>3, <2>6, Counting
      <3> QED
        BY <2>4, <2>6, <3>1 DEF GoodFile, InData, InName, Nowhere
    <2> QED
      BY <1>1, <1>8, <2>5, <2>6, Decremented
  <1> QED
    BY <1>6, <1>7, <1>8

(* --- every step, every file --- *)
LEMMA LinkInitially == LinkInit => LinkInv
  <1> SUFFICES ASSUME LinkInit PROVE LinkInv
    OBVIOUS
  <1>1. Places = Families \X (0..MaxCount) /\ 0 \in 0..MaxCount
    BY LinkAssumption DEF Places
  <1>2. LinkTypes
    BY <1>1 DEF LinkInit, LinkTypes, View
  <1>3. NamesTrue
    BY Views DEF LinkInit, NamesTrue
  <1>4. ASSUME NEW f \in Nat \ {0} PROVE GoodFile(f)
    <2>1. (\A s \in Places : ~Holds(s, f)) /\ (\A n \in LinkNames : ~Bears(n, f))
      BY <1>1, Views DEF LinkInit, Holds, Bears
    <2>2. NamesOf(f) = {}
      BY DEF LinkInit, NamesOf
    <2>3. Cardinality(NamesOf(f)) =< Cardinality(Leaving(f))
      BY <2>2, Counting, FS_EmptySet
    <2> QED
      BY <2>1, <2>3 DEF GoodFile, InData, InName, Nowhere
  <1> QED
    BY <1>2, <1>3, <1>4 DEF LinkInv, FilesGood

LEMMA LinkStep == LinkInv /\ [LinkNext]_linkvars => LinkInv'
  <1> SUFFICES ASSUME LinkInv, [LinkNext]_linkvars PROVE LinkInv'
    OBVIOUS
  <1>1. LinkTypes /\ NamesTrue /\ \A f \in Nat \ {0} : f \notin misled => GoodFile(f)
    BY DEF LinkInv, FilesGood
  <1> DEFINE Kept == /\ LinkTypes' /\ NamesTrue' /\ misled \subseteq misled'
                     /\ \A f \in Nat \ {0} : f \notin misled' => GoodFile(f)'
  <1>2. ASSUME NEW t \in Linkers, KernelUnlink(t) \/ KernelRename(t) \/ KernelFails(t)
        PROVE  Kept
    <2>1. misled \subseteq misled'
      BY <1>2 DEF KernelUnlink, KernelRename, KernelFails, Tell
    <2>2. LinkTypes' /\ NamesTrue'
      BY <1>1, <1>2, KernelTypes
    <2>3. ASSUME NEW f \in Nat \ {0}, f \notin misled' PROVE GoodFile(f)'
      BY <1>1, <1>2, <2>1, <2>2, <2>3, UnlinkGood, RenameGood, FailGood
    <2> QED
      BY <2>1, <2>2, <2>3
  <1>3. ASSUME NEW t \in Linkers, NEW n \in LinkNames, Create(t, n)
        PROVE  Kept
    <2>1. misled' = misled
      BY <1>3 DEF Create
    <2> QED
      BY <1>1, <1>3, <2>1, CreateTypes, CreateGood
  <1>4. ASSUME NEW t \in Linkers, NEW n \in LinkNames,
               materialize_executable(t, n) \/ MaterializeFails(t, n)
        PROVE  Kept
    <2>1. misled \subseteq misled'
      BY <1>4 DEF materialize_executable, MaterializeFails
    <2>2. LinkTypes' /\ NamesTrue'
      BY <1>1, <1>4, CopyTypes
    <2>3. ASSUME NEW f \in Nat \ {0}, f \notin misled' PROVE GoodFile(f)'
      BY <1>1, <1>4, <2>1, <2>2, <2>3, CopyGood, CopyFailGood
    <2> QED
      BY <2>1, <2>2, <2>3
  <1>5. ASSUME NEW t \in Linkers, NEW x \in LinkNames, NEW y \in LinkNames,
               move_and_symlink_path(t, x, y)
        PROVE  Kept
    <2>1. LinkFirst(x, y) \/ LinkReuse(x, y) \/ LinkMore(x, y)
      BY <1>5 DEF move_and_symlink_path
    <2>2. misled \subseteq misled'
      BY <2>1 DEF LinkFirst, LinkReuse, LinkMore
    <2>3. LinkTypes' /\ NamesTrue'
      BY <1>1, <1>5, <2>1, LinkFirstTypes, LinkMoreTypes
    <2>4. ASSUME NEW f \in Nat \ {0}, f \notin misled' PROVE GoodFile(f)'
      BY <1>1, <1>5, <2>1, <2>2, <2>4, FirstGood, ReuseGood, MoreGood
    <2> QED
      BY <2>2, <2>3, <2>4
  <1>6. ASSUME NEW t \in Linkers, NEW x \in LinkNames, NEW y \in LinkNames,
               NEW op \in {"unlink", "rename"}, Leave(t, op, x, y)
        PROVE  Kept
    <2>1. misled' = misled
      BY <1>6 DEF Leave
    <2>2. LinkTypes' /\ NamesTrue'
      BY <1>1, <1>6, LeaveTypes
    <2>3. ASSUME NEW f \in Nat \ {0}, f \notin misled' PROVE GoodFile(f)'
      BY <1>1, <1>6, <2>1, <2>3, LeaveGood
    <2> QED
      BY <2>1, <2>2, <2>3
  <1>7. ASSUME UNCHANGED linkvars
        PROVE  Kept
    <2>1. UNCHANGED <<vis, inter, data, due, made, truth, misled>>
      BY <1>7 DEF linkvars
    <2>2. LinkTypes' /\ NamesTrue'
      BY <1>1, <2>1 DEF LinkTypes, NamesTrue, View, DueCalls
    <2>3. ASSUME NEW f \in Nat \ {0}, GoodFile(f) PROVE GoodFile(f)'
      <3>1. Apart(f)
        BY <2>1 DEF Apart, NamesOf, Leaving, Holds, Bears
      <3> QED
        BY <2>3, <3>1, ApartKept
    <2> QED
      BY <1>1, <2>1, <2>2, <2>3
  <1>8. Kept
    <2> HIDE DEF Kept
    <2> QED
      BY <1>2, <1>3, <1>4, <1>5, <1>6, <1>7 DEF LinkNext, UnlinkEnter, RenameEnter
  <1> QED
    BY <1>8 DEF LinkInv, FilesGood

LEMMA LinkInvImplies == LinkInv => LinksTrue
  <1> SUFFICES ASSUME LinkInv PROVE LinksTrue
    OBVIOUS
  <1>1. LinkTypes /\ NamesTrue
    BY DEF LinkInv
  <1>2. ASSUME NEW f \in Nat \ {0}, f \notin Unsettled
        PROVE  GoodFile(f) /\ Cardinality(Leaving(f)) = 0
    <2>1. GoodFile(f)
      BY <1>2 DEF LinkInv, FilesGood, Unsettled
    <2>2. Leaving(f) = {}
      BY <1>2 DEF Leaving, Unsettled
    <2> QED
      BY <2>1, <2>2, FS_EmptySet
  <1>3. ASSUME NEW m \in Families, Whole(m), DataOf(m) \notin Unsettled,
               NEW n \in LinkNames, n \in NamesOf(DataOf(m))
        PROVE  st_nlink(n) = Cardinality(NamesOf(DataOf(m)))
    <2>1. DataOf(m) \in Nat \ {0} /\ inter[m] \in Nat
      BY <1>1, <1>3, FamilyShape, LinkAssumption DEF LinkTypes, DataOf, Whole
    <2>2. /\ NamesOf(DataOf(m)) \subseteq Members(m)
          /\ Cardinality(NamesOf(DataOf(m))) = inter[m]
      <3>1. PICK f \in Nat \ {0} : f = DataOf(m)
        BY <2>1
      <3>2. GoodFile(f) /\ Cardinality(Leaving(f)) = 0
        BY <1>2, <1>3, <3>1
      <3>3. /\ NamesOf(f) \subseteq Members(m)
            /\ Cardinality(NamesOf(f)) = inter[m] + Cardinality(Leaving(f))
        BY <1>1, <3>1, <3>2, WholeFile
      <3> QED
        BY <2>1, <3>1, <3>2, <3>3
    <2>3. IsLink(n) /\ FamilyOf(n) = m
      BY <1>1, <1>3, <2>2, MemberOf
    <2> QED
      BY <1>3, <2>2, <2>3 DEF st_nlink
  <1>4. NlinkTrue
    BY <1>3 DEF NlinkTrue, NamesOf
  <1>5. ASSUME NEW n \in LinkNames, truth[n] \notin Unsettled
        PROVE  Content(n) = truth[n]
    <2>1. CASE truth[n] = 0
      BY <1>1, <2>1, ViewOf, Views DEF NamesTrue, Content, IsLink
    <2>2. CASE truth[n] # 0
      <3>1. PICK f \in Nat \ {0} : f = truth[n]
        BY <1>1, <2>2 DEF LinkTypes
      <3>2. GoodFile(f) /\ Cardinality(Leaving(f)) = 0
        BY <1>2, <1>5, <3>1
      <3>3. Cardinality(NamesOf(f)) # 0
        <4>1. n \in NamesOf(f)
          BY <3>1 DEF NamesOf
        <4> QED
          BY <4>1, Counting, FS_EmptySet
      <3>4. ~NoPlace(f)
        BY <3>2, <3>3, Counting DEF GoodFile, Nowhere, NoPlace
      <3>5. CASE IsLink(n)
        BY <1>1, <3>1, <3>2, <3>4, <3>5, Unread
      <3>6. CASE ~IsLink(n)
        BY <1>1, <1>5, <2>2, <3>6, ViewOf DEF NamesTrue, Content, IsLink, Unsettled
      <3> QED
        BY <3>5, <3>6
    <2> QED
      BY <2>1, <2>2
  <1>6. ASSUME NEW s \in Places, data[s] \notin Unsettled \cup {0}
        PROVE  inter[s[1]] = s[2] /\ \E n \in LinkNames : truth[n] = data[s]
    <2>1. PICK f \in Nat \ {0} : f = data[s]
      BY <1>1, <1>6 DEF LinkTypes
    <2>2. GoodFile(f) /\ Cardinality(Leaving(f)) = 0
      BY <1>2, <1>6, <2>1
    <2>3. inter[s[1]] = s[2] /\ s[2] > 0 /\ Cardinality(NamesOf(f)) = s[2] + Cardinality(Leaving(f))
      BY <2>1, <2>2 DEF GoodFile, InData, Holds
    <2>4. Cardinality(NamesOf(f)) # 0
      BY <2>2, <2>3, FamilyShape, LinkAssumption
    <2>5. NamesOf(f) # {}
      BY <2>4, FS_EmptySet
    <2> QED
      BY <2>1, <2>3, <2>5 DEF NamesOf
  <1>7. DOMAIN data = Places
    BY <1>1 DEF LinkTypes
  <1> QED
    BY <1>4, <1>5, <1>6, <1>7 DEF LinksTrue, ContentTrue

(* Link counts and contents are those of hard links, whatever calls overlap: what stat()   *)
(* says of a file is the number of its names, a name leads to the file it was given, and   *)
(* no data is lost or left over, for a file that met none of the cases that                *)
(* link2symlink.c does not handle.                                                        *)
THEOREM LinksStayTrue == LinkSpec => []LinksTrue
  <1>1. LinkInit => LinkInv
    BY LinkInitially
  <1>2. LinkInv /\ [LinkNext]_linkvars => LinkInv'
    BY LinkStep
  <1>3. LinkInv => LinksTrue
    BY LinkInvImplies
  <1> QED
    BY <1>1, <1>2, <1>3, PTL DEF LinkSpec

-------------------------------------------------------------------------------
(* Recursive functions: what n steps, one after the other, make of a value.                *)
(* A set of numbers that is not empty has a least one.                                  *)
LEMMA Least ==
  ASSUME NEW T \in SUBSET Nat, T # {}
  PROVE  \E i \in T : \A j \in T : i <= j
  <1> DEFINE Less == {ss \in Nat \X Nat : ss[1] < ss[2]}
  <1>1. IsWellFoundedOn(Less, Nat)
    BY NatLessThanWellFounded DEF OpToRel
  <1>2. T \subseteq Nat
    OBVIOUS
  <1> HIDE DEF Less
  <1>3. PICK i \in T : \A j \in T : ~(<<j, i>> \in Less)
    BY <1>1, <1>2, WFMin
  <1>4. ASSUME NEW j \in T PROVE i <= j
    <2>1. i \in Nat /\ j \in Nat /\ ~(<<j, i>> \in Less)
      BY <1>2, <1>3
    <2>2. ~(j < i)
      BY <2>1 DEF Less
    <2> QED
      BY <2>1, <2>2
  <1> QED
    BY <1>4

(* What holds at 0 and is kept by each step holds everywhere: of the first step at which *)
(* it does not hold, the one before had it.                                              *)
LEMMA FoldKeeps ==
  ASSUME NEW S, NEW n \in Nat, NEW f, f[0] \in S,
         \A i \in 1..n : f[i - 1] \in S => f[i] \in S
  PROVE  \A i \in 0..n : f[i] \in S
  <1> DEFINE T == {i \in 0..n : f[i] \notin S}
  <1>1. SUFFICES ASSUME T # {} PROVE FALSE
    OBVIOUS
  <1>2. T \in SUBSET Nat
    OBVIOUS
  <1>3. PICK i \in T : \A j \in T : i <= j
    BY <1>1, <1>2, Least
  <1>4. i # 0
    BY <1>3
  <1>5. i \in 1..n /\ i - 1 \in 0..n
    BY <1>3, <1>4
  <1>6. i - 1 \notin T
    BY <1>3, <1>5
  <1> QED
    BY <1>3, <1>5, <1>6

(* g lists what n steps F make of c, all of it in S.                                    *)
Folded(g, S, n, c, F) ==
  g \in [0..n -> S] /\ g[0] = c /\ \A i \in 1..n : g[i] = F[i][g[i - 1]]

(* There is such a list: of the first that there is not, the one before makes one.        *)
LEMMA FoldExists ==
  ASSUME NEW S, NEW n \in Nat, NEW c \in S, NEW F \in [1..n -> [S -> S]]
  PROVE  \E g : Folded(g, S, n, c, F)
  <1> DEFINE Good(m, g) == g \in [0..m -> S] /\ g[0] = c /\ \A i \in 1..m : g[i] = F[i][g[i - 1]]
             Reached(m) == \E g : Good(m, g)
             T == {m \in 0..n : ~Reached(m)}
  <1>1. Reached(0)
    <2>1. Good(0, [i \in 0..0 |-> c])
      OBVIOUS
    <2> HIDE DEF Good
    <2> QED
      BY <2>1
  <1>2. ASSUME NEW m \in 1..n, Reached(m - 1) PROVE Reached(m)
    <2>1. m \in Nat /\ m - 1 \in Nat
      OBVIOUS
    <2>2. PICK g : Good(m - 1, g)
      BY <1>2
    <2> DEFINE h == [i \in 0..m |-> IF i = m THEN F[m][g[m - 1]] ELSE g[i]]
    <2>a. g \in [0..m - 1 -> S] /\ g[0] = c
      BY ONLY <2>2
    <2>b. m - 1 \in 0..m - 1 /\ 0 \in 0..m /\ 0 # m
      BY <2>1
    <2>3. g[m - 1] \in S
      BY ONLY <2>a, <2>b
    <2>4. F[m][g[m - 1]] \in S
      BY <2>1, <2>3
    <2>5. \A i \in 0..m : i # m => i \in 0..m - 1
      BY ONLY <2>1
    <2>6. h \in [0..m -> S]
      BY ONLY <2>2, <2>4, <2>5
    <2>7. h[0] = c
      BY ONLY <2>a, <2>b
    <2>8. ASSUME NEW i \in 1..m PROVE h[i] = F[i][h[i - 1]]
      <3>1. i \in 0..m /\ i - 1 \in 0..m /\ i - 1 # m
        BY ONLY <2>1
      <3>2. h[i - 1] = g[i - 1]
        BY ONLY <3>1
      <3>3. CASE i = m
        BY ONLY <3>1, <3>2, <3>3
      <3>4. CASE i # m
        <4>1. i \in 1..m - 1
          BY ONLY <2>1, <3>4
        <4>2. g[i] = F[i][g[i - 1]]
          BY ONLY <2>2, <4>1
        <4> QED
          BY ONLY <3>1, <3>2, <3>4, <4>2
      <3> QED
        BY <3>3, <3>4
    <2>9. Good(m, h)
      BY <2>6, <2>7, <2>8
    <2> HIDE DEF Good
    <2> QED
      BY <2>9
  <1> HIDE DEF Reached
  <1>3. T = {}
    <2> SUFFICES ASSUME T # {} PROVE FALSE
      OBVIOUS
    <2>1. T \in SUBSET Nat
      OBVIOUS
    <2> HIDE DEF T
    <2>2. PICK m \in T : \A j \in T : m <= j
      BY <2>1, Least
    <2>3. m \in 0..n /\ ~Reached(m)
      BY <2>2 DEF T
    <2>4. m # 0
      BY <1>1, <2>3
    <2>5. m \in 1..n /\ m - 1 \in 0..n /\ ~(m <= m - 1)
      BY <2>3, <2>4
    <2>6. m - 1 \notin T
      BY <2>2, <2>5
    <2>7. Reached(m - 1)
      BY <2>5, <2>6 DEF T
    <2> QED
      BY <1>2, <2>3, <2>5, <2>7
  <1>4. Reached(n)
    BY <1>3
  <1> QED
    BY <1>4 DEF Reached, Folded

-------------------------------------------------------------------------------
(* Descriptors: DirFds.                                                                 *)

(* Rings whose entries are from E.                                                      *)
Rings(E) == [slot : [1..Slots -> E \cup {Empty}], next : 1..Slots]

AnyEntry == [pid : Openers, fd : Numbers, proc : Paths, guest : Paths, host : Dirs \cup {Nil},
             old : BOOLEAN]
AnyName == [pid : Openers, fd : Numbers, dir : Dirs \cup {Nil}]

(* An entry is of a thread that is there, and its guest name is the one the bindings give *)
(* now, unless they were changed by another thread.                                     *)
TrueEntries == {e \in AnyEntry : e.pid \in Opened /\ (~e.old => e.guest = detranslate_path(e.proc))}

(* The directory a name was kept for is the descriptor's.                               *)
TrueNames == {e \in AnyName : /\ e.pid \in Opened
                              /\ <<e.pid, e.fd>> \notin untold => e.dir = Table(e.pid)[e.fd]}

DirTypes ==
  /\ owner \in [Openers -> Openers \cup {Nil}]
  /\ tables \in [Openers -> [Numbers -> Dirs \cup {Nil}]]
  /\ at \in [Dirs -> Paths] /\ mount \in {Nil} \cup (Paths \X Paths)

DirInv == DirTypes /\ cache \in Rings(TrueEntries) /\ names \in Rings(TrueNames)

(* Two entries are of one descriptor.                                                   *)
SameFd(e, x) == x.pid = e.pid /\ x.fd = e.fd

LEMMA EmptyIs == Empty.pid = Nil
  BY DEF Empty

(* What is found for a descriptor is an entry of it.                                    *)
LEMMA EntryIs ==
  ASSUME NEW E, NEW c \in Rings(E), NEW t, NEW fd, Known(c, t, fd)
  PROVE  Entry(c, t, fd) \in E /\ Entry(c, t, fd).pid = t /\ Entry(c, t, fd).fd = fd
  <1> DEFINE i == CHOOSE j \in Of(c, t, fd) : TRUE
  <1>1. i \in Of(c, t, fd)
    BY DEF Known
  <1>2. Entry(c, t, fd) = c.slot[i]
    BY DEF Entry
  <1> HIDE DEF i
  <1>3. i \in 1..Slots /\ c.slot[i].pid # Nil /\ c.slot[i].pid = t /\ c.slot[i].fd = fd
    BY <1>1 DEF Of, Is
  <1>4. c.slot[i] \in E \cup {Empty}
    BY <1>3 DEF Rings
  <1> QED
    BY <1>2, <1>3, <1>4, EmptyIs

(* A ring after an entry was put into it: of its descriptor there is only that entry.    *)
LEMMA PutSlots ==
  ASSUME NEW E, NEW c \in Rings(E), NEW e, e.pid # Nil, NEW i \in 1..Slots
  PROVE  /\ Put(c, e).slot[i] = e \/ (Put(c, e).slot[i] = c.slot[i] /\ i \notin Of(c, e.pid, e.fd))
         /\ DOMAIN Put(c, e).slot = 1..Slots
  <1>1. DOMAIN c.slot = 1..Slots
    BY DEF Rings
  <1>2. CASE Known(c, e.pid, e.fd)
    <2> DEFINE s == [j \in 1..Slots |-> IF j \in Of(c, e.pid, e.fd) THEN e ELSE c.slot[j]]
    <2>1. Put(c, e).slot = s
      BY <1>2 DEF Put, Rings
    <2> QED
      BY <2>1
  <1>3. CASE ~Known(c, e.pid, e.fd)
    <2>1. Put(c, e).slot = [c.slot EXCEPT ![c.next] = e]
      BY <1>3 DEF Put
    <2>2. i \notin Of(c, e.pid, e.fd)
      BY <1>3 DEF Known
    <2> QED
      BY <1>1, <2>1, <2>2
  <1> QED
    BY <1>2, <1>3

LEMMA PutRing ==
  ASSUME NEW E, NEW F, NEW c \in Rings(F), NEW e \in E, e.pid # Nil,
         \A x \in F : SameFd(e, x) \/ x \in E
  PROVE  Put(c, e) \in Rings(E)
  <1>1. Slots \in Nat \ {0} /\ c.next \in 1..Slots
    BY DirAssumption DEF Rings
  <1>2. Put(c, e) = [slot |-> Put(c, e).slot, next |-> Put(c, e).next] /\ Put(c, e).next \in 1..Slots
    <2>1. CASE Known(c, e.pid, e.fd)
      BY <1>1, <2>1 DEF Put, Rings
    <2>2. CASE ~Known(c, e.pid, e.fd)
      <3>1. c.next % Slots \in 0..Slots - 1
        BY <1>1
      <3>2. (c.next % Slots) + 1 \in 1..Slots
        BY <1>1, <3>1
      <3> QED
        BY <2>2, <3>2 DEF Put
    <2> QED
      BY <2>1, <2>2
  <1>3. ASSUME NEW i \in 1..Slots PROVE Put(c, e).slot[i] \in E \cup {Empty}
    <2>1. c.slot[i] \in F \cup {Empty}
      BY DEF Rings
    <2>2. c.slot[i] \in F /\ SameFd(e, c.slot[i]) => i \in Of(c, e.pid, e.fd)
      BY DEF Of, Is, SameFd
    <2> QED
      BY <2>1, <2>2, PutSlots
  <1>4. Put(c, e).slot \in [1..Slots -> E \cup {Empty}]
    <2>1. DOMAIN Put(c, e).slot = 1..Slots
      BY <1>1, PutSlots
    <2>2. Put(c, e).slot = [i \in 1..Slots |-> Put(c, e).slot[i]]
      <3>1. CASE Known(c, e.pid, e.fd)
        BY <3>1 DEF Put, Rings
      <3>2. CASE ~Known(c, e.pid, e.fd)
        BY <3>2 DEF Put, Rings
      <3> QED
        BY <3>1, <3>2
    <2> QED
      BY <1>3, <2>2
  <1> QED
    BY <1>2, <1>4 DEF Rings

LEMMA PutFinds ==
  ASSUME NEW E, NEW c \in Rings(E), NEW e, e.pid # Nil
  PROVE  Known(Put(c, e), e.pid, e.fd) /\ Entry(Put(c, e), e.pid, e.fd) = e
  <1> DEFINE r == Put(c, e)
  <1>1. Known(r, e.pid, e.fd)
    <2>1. CASE Known(c, e.pid, e.fd)
      <3>1. PICK i \in 1..Slots : i \in Of(c, e.pid, e.fd)
        BY <2>1 DEF Known, Of
      <3>2. r.slot[i] = e
        BY <3>1, PutSlots
      <3> QED
        BY <3>2 DEF Known, Of, Is
    <2>2. CASE ~Known(c, e.pid, e.fd)
      <3>1. r.slot = [c.slot EXCEPT ![c.next] = e] /\ c.next \in 1..Slots /\ DOMAIN c.slot = 1..Slots
        BY <2>2 DEF Put, Rings
      <3>2. r.slot[c.next] = e
        BY <3>1
      <3> QED
        BY <3>1, <3>2 DEF Known, Of, Is
    <2> QED
      BY <2>1, <2>2
  <1>2. ASSUME NEW i \in Of(r, e.pid, e.fd) PROVE r.slot[i] = e
    <2>1. i \in 1..Slots /\ r.slot[i].pid = e.pid /\ r.slot[i].fd = e.fd
      BY DEF Of, Is
    <2>2. r.slot[i] = e \/ (r.slot[i] = c.slot[i] /\ i \notin Of(c, e.pid, e.fd))
      BY <2>1, PutSlots
    <2>3. c.slot[i].pid = e.pid /\ c.slot[i].fd = e.fd => i \in Of(c, e.pid, e.fd)
      BY <2>1 DEF Of, Is
    <2> QED
      BY <2>1, <2>2, <2>3
  <1> HIDE DEF r
  <1>3. Entry(r, e.pid, e.fd) = e
    BY <1>1, <1>2 DEF Known, Entry
  <1> QED
    BY <1>1, <1>3 DEF r

LEMMA ForgetRing ==
  ASSUME NEW E, NEW F, NEW c \in Rings(F), NEW t, NEW S,
         \A x \in F : (x.pid = t /\ x.fd \in S) \/ x \in E, \A x \in F : x.pid # Nil
  PROVE  Forget(c, t, S) \in Rings(E)
  <1> DEFINE s == [i \in 1..Slots |->
                     IF c.slot[i].pid # Nil /\ Is(c.slot[i], t, S) THEN Empty ELSE c.slot[i]]
  <1>1. Forget(c, t, S) = [c EXCEPT !.slot = s]
    BY DEF Forget
  <1>2. \A i \in 1..Slots : c.slot[i] \in F \cup {Empty}
    BY DEF Rings
  <1>3. \A i \in 1..Slots : s[i] \in E \cup {Empty}
    BY <1>2 DEF Is
  <1> HIDE DEF s
  <1>4. s \in [1..Slots -> E \cup {Empty}]
    BY <1>3 DEF s
  <1> QED
    BY <1>1, <1>4 DEF Rings

LEMMA RingMore ==
  ASSUME NEW E, NEW F, NEW c \in Rings(F), F \subseteq E
  PROVE  c \in Rings(E)
  BY DEF Rings

(* What may be said of an entry does not depend on the tracer's own descriptor.          *)
Kept(E) == E \subseteq AnyEntry /\ \A e \in E, h \in Dirs \cup {Nil} : [e EXCEPT !.host = h] \in E

NewEntry(t, fd, proc, guest, by, old) ==
  [pid |-> t, fd |-> fd, proc |-> proc, guest |-> guest, host |-> by, old |-> old]

LEMMA EntryChanges ==
  ASSUME NEW t, NEW fd, NEW proc, NEW guest, NEW by, NEW old, NEW h, NEW o
  PROVE  /\ [NewEntry(t, fd, proc, guest, by, old) EXCEPT !.old = o]
              = NewEntry(t, fd, proc, guest, by, o)
         /\ [NewEntry(t, fd, proc, guest, by, old) EXCEPT !.host = h]
              = NewEntry(t, fd, proc, guest, h, old)
  BY DEF NewEntry

LEMMA RememberFinds ==
  ASSUME NEW E, NEW c \in Rings(E), NEW t, NEW fd, NEW proc, NEW guest, t # Nil
  PROVE  /\ Known(remember_translated_dirfd(c, t, fd, proc, guest), t, fd)
         /\ \/ remember_translated_dirfd(c, t, fd, proc, guest) = c
            \/ remember_translated_dirfd(c, t, fd, proc, guest)
                 = Put(c, NewEntry(t, fd, proc, guest, Nil, FALSE))
  <1> DEFINE e == NewEntry(t, fd, proc, guest, Nil, FALSE)
  <1>1. e.pid = t /\ e.fd = fd
    BY DEF NewEntry
  <1> HIDE DEF e
  <1>2. Known(Put(c, e), t, fd)
    BY <1>1, PutFinds
  <1> QED
    BY <1>2 DEF remember_translated_dirfd, e, NewEntry

LEMMA RememberRing ==
  ASSUME NEW E, NEW c \in Rings(E), NEW t, NEW fd, NEW proc, NEW guest, t # Nil,
         NewEntry(t, fd, proc, guest, Nil, FALSE) \in E
  PROVE  remember_translated_dirfd(c, t, fd, proc, guest) \in Rings(E)
  <1> DEFINE e == NewEntry(t, fd, proc, guest, Nil, FALSE)
  <1>1. e \in E /\ e.pid # Nil
    BY DEF NewEntry
  <1> HIDE DEF e
  <1>2. Put(c, e) \in Rings(E)
    BY <1>1, PutRing
  <1> QED
    BY <1>2, RememberFinds DEF e

LEMMA AttachRing ==
  ASSUME NEW E, Kept(E), NEW c \in Rings(E), NEW t, NEW fd, t # Nil, Known(c, t, fd),
         NEW d \in Dirs \cup {Nil}
  PROVE  attach_host_dirfd(c, t, fd, d) \in Rings(E)
  <1> DEFINE e == [Entry(c, t, fd) EXCEPT !.host = d]
  <1>1. Entry(c, t, fd) \in E /\ Entry(c, t, fd).pid = t /\ E \subseteq AnyEntry
    BY EntryIs DEF Kept
  <1>2. e \in E /\ e.pid = t
    BY <1>1 DEF Kept, AnyEntry
  <1> HIDE DEF e
  <1>3. Put(c, e) \in Rings(E)
    BY <1>2, PutRing
  <1> QED
    BY <1>3 DEF attach_host_dirfd, e

(* An entry that was copied is as old as the one it was copied from.                     *)
LEMMA CarryRing ==
  ASSUME NEW E, Kept(E), NEW c \in Rings(E), NEW e \in AnyEntry, NEW t \in Openers, NEW fd,
         NewEntry(t, fd, e.proc, e.guest, e.host, e.old) \in E
  PROVE  Carry(c, e, t, fd) \in Rings(E)
  <1> DEFINE n0 == NewEntry(t, fd, e.proc, e.guest, Nil, FALSE)
             n1 == NewEntry(t, fd, e.proc, e.guest, e.host, FALSE)
             m0 == NewEntry(t, fd, e.proc, e.guest, Nil, e.old)
             m1 == NewEntry(t, fd, e.proc, e.guest, e.host, e.old)
             u == remember_translated_dirfd(c, t, fd, e.proc, e.guest)
             v == attach_host_dirfd(u, t, fd, e.host)
  <1>1. t # Nil /\ e.host \in Dirs \cup {Nil}
    BY DirAssumption DEF AnyEntry
  <1>2. Known(u, t, fd) /\ (u = c \/ u = Put(c, n0))
    BY <1>1, RememberFinds
  <1>3. Carry(c, e, t, fd) = IF u = c THEN v ELSE Put(v, [Entry(v, t, fd) EXCEPT !.old = e.old])
    BY DEF Carry
  <1>4. /\ n0.pid = t /\ n0.fd = fd /\ n1.pid = t /\ n1.fd = fd
        /\ m0.pid = t /\ m0.fd = fd /\ m1.pid = t /\ m1.fd = fd
        /\ [n0 EXCEPT !.old = e.old] = m0 /\ [n1 EXCEPT !.old = e.old] = m1
        /\ [n0 EXCEPT !.host = e.host] = n1
    <2>1. /\ n0.pid = t /\ n0.fd = fd /\ n1.pid = t /\ n1.fd = fd
          /\ m0.pid = t /\ m0.fd = fd /\ m1.pid = t /\ m1.fd = fd
      BY ONLY DEF NewEntry
    <2>2. [n0 EXCEPT !.old = e.old] = m0
      BY ONLY DEF NewEntry
    <2>3. [n1 EXCEPT !.old = e.old] = m1
      BY ONLY DEF NewEntry
    <2>4. [n0 EXCEPT !.host = e.host] = n1
      <3> DEFINE no == FALSE
      <3>1. ASSUME NEW o PROVE [NewEntry(t, fd, e.proc, e.guest, Nil, o) EXCEPT !.host = e.host]
                                 = NewEntry(t, fd, e.proc, e.guest, e.host, o)
        BY ONLY DEF NewEntry
      <3> HIDE DEF no
      <3>2. [NewEntry(t, fd, e.proc, e.guest, Nil, no) EXCEPT !.host = e.host]
              = NewEntry(t, fd, e.proc, e.guest, e.host, no)
        BY ONLY <3>1
      <3> QED
        BY ONLY <3>2 DEF no
    <2> HIDE DEF n0, n1, m0, m1
    <2> QED
      BY <2>1, <2>2, <2>3, <2>4
  <1>5. m0 \in E /\ m1 \in E
    <2>1. m1 \in E
      OBVIOUS
    <2>2. [m1 EXCEPT !.host = Nil] = m0
      BY EntryChanges
    <2> QED
      BY <2>1, <2>2 DEF Kept
  <1>6. CASE u = c
    <2> HIDE DEF u
    <2> QED
      BY <1>1, <1>2, <1>3, <1>6, AttachRing
  <1> HIDE DEF n0, n1, m0, m1, u
  <1>7. CASE u # c
    <2> DEFINE F == E \cup {n0}
               G == F \cup {n1}
    <2>1. u = Put(c, n0)
      BY <1>2, <1>7
    <2>2. Entry(u, t, fd) = n0
      BY ONLY <1>1, <1>4, <2>1, c \in Rings(E), PutFinds
    <2>3. n0 \in F /\ n0.pid # Nil /\ \A x \in E : x \in F
      BY <1>1, <1>4
    <2> HIDE DEF F
    <2>4. u \in Rings(F)
      BY ONLY <2>1, <2>3, c \in Rings(E), PutRing
    <2>5. n1 \in G /\ n1.pid # Nil /\ \A x \in F : x \in G
      BY <1>1, <1>4
    <2>6. \A x \in G : (SameFd(m0, x) /\ SameFd(m1, x)) \/ x \in E
      BY <1>4 DEF SameFd, F
    <2> HIDE DEF G
    <2>7. v \in Rings(G) /\ (Entry(v, t, fd) = n0 \/ Entry(v, t, fd) = n1)
      <3>1. CASE e.host = Nil
        <4>1. v = u
          BY <3>1 DEF attach_host_dirfd
        <4>2. u \in Rings(G)
          BY <2>4, <2>5, RingMore
        <4> QED
          BY <2>2, <4>1, <4>2
      <3>2. CASE e.host # Nil
        <4>1. v = Put(u, n1)
          BY ONLY <1>4, <2>2, <3>2 DEF attach_host_dirfd
        <4> HIDE DEF v
        <4>2. v \in Rings(G)
          BY ONLY <2>4, <2>5, <4>1, PutRing
        <4>3. Entry(v, t, fd) = n1
          BY ONLY <1>1, <1>4, <2>4, <2>5, <4>1, PutFinds
        <4> QED
          BY <4>2, <4>3
      <3> QED
        BY <3>1, <3>2
    <2> HIDE DEF v
    <2>8. Carry(c, e, t, fd) = Put(v, m0) \/ Carry(c, e, t, fd) = Put(v, m1)
      BY ONLY <1>3, <1>4, <1>7, <2>7
    <2>9. m0.pid # Nil /\ m1.pid # Nil
      BY <1>1, <1>4
    <2>10. Put(v, m0) \in Rings(E) /\ Put(v, m1) \in Rings(E)
      BY ONLY <1>5, <2>6, <2>7, <2>9, PutRing
    <2> QED
      BY <2>8, <2>10
  <1> QED
    BY <1>6, <1>7

(* The loops of a new child: what each of their steps keeps, they keep.                  *)
LEMMA CarriedAll ==
  ASSUME NEW E, Kept(E), NEW c, NEW parent \in Openers, NEW child \in Openers,
         Forget(c, child, Numbers) \in Rings(E),
         \A e \in E : e.pid = parent =>
           NewEntry(child, e.fd, e.proc, e.guest, e.host, e.old) \in E
  PROVE  inherit_translated_dirfds(c, parent, child) \in Rings(E)
  <1> DEFINE Stepped(u, i) == IF u.slot[i].pid = parent
                              THEN Carry(u, u.slot[i], child, u.slot[i].fd) ELSE u
             a == Forget(c, child, Numbers)
             upto == CHOOSE f : f = [i \in 0..Slots |-> IF i = 0 THEN a ELSE Stepped(f[i - 1], i)]
             S == Rings(E)
             F == [i \in 1..Slots |-> [x \in S |-> Stepped(x, i)]]
  <1>1. inherit_translated_dirfds(c, parent, child) = upto[Slots]
    BY DEF inherit_translated_dirfds
  <1>2. Slots \in Nat
    BY DirAssumption
  <1>3. ASSUME NEW u \in S, NEW i \in 1..Slots PROVE Stepped(u, i) \in S
    <2>1. CASE u.slot[i].pid = parent
      <3>1. u.slot[i] \in E \cup {Empty}
        BY DEF Rings
      <3>2. CASE u.slot[i] \in E
        <4>1. u.slot[i] \in AnyEntry
          BY <3>2 DEF Kept
        <4>2. NewEntry(child, u.slot[i].fd, u.slot[i].proc, u.slot[i].guest, u.slot[i].host,
                       u.slot[i].old) \in E
          BY <2>1, <3>2
        <4> QED
          BY <2>1, <4>1, <4>2, CarryRing
      <3> QED
        BY <2>1, <3>1, <3>2, EmptyIs, DirAssumption
    <2> QED
      BY <2>1
  <1> HIDE DEF Stepped, S, a
  <1>4. a \in S /\ F \in [1..Slots -> [S -> S]]
    BY <1>3 DEF S, a
  <1> HIDE DEF F
  <1>a. PICK g : Folded(g, S, Slots, a, F)
    BY ONLY <1>2, <1>4, FoldExists
  <1>5. g \in [0..Slots -> S] /\ g[0] = a /\ \A i \in 1..Slots : g[i] = F[i][g[i - 1]]
    BY ONLY <1>a DEF Folded
  <1>6. g = [i \in 0..Slots |-> IF i = 0 THEN a ELSE Stepped(g[i - 1], i)]
    <2>1. ASSUME NEW i \in 0..Slots, i # 0 PROVE g[i] = Stepped(g[i - 1], i)
      <3>1. i \in 1..Slots /\ i - 1 \in 0..Slots
        BY <1>2, <2>1
      <3>2. g[i - 1] \in S /\ g[i] = F[i][g[i - 1]]
        BY <1>5, <3>1
      <3> QED
        BY <3>1, <3>2 DEF F
    <2> QED
      BY <1>5, <2>1
  <1>7. upto = [i \in 0..Slots |-> IF i = 0 THEN a ELSE Stepped(upto[i - 1], i)]
    BY <1>6
  <1> HIDE DEF upto
  <1>8. upto[0] \in S
    BY <1>2, <1>4, <1>7
  <1>9. \A i \in 1..Slots : upto[i - 1] \in S => upto[i] \in S
    BY <1>2, <1>3, <1>7
  <1>10. upto[Slots] \in S
    BY <1>2, <1>8, <1>9, FoldKeeps
  <1> QED
    BY <1>1, <1>10 DEF S

LEMMA InheritedAll ==
  ASSUME NEW E, NEW c, NEW parent \in Openers, NEW child \in Openers,
         Forget(c, child, Numbers) \in Rings(E),
         \A e \in E : e.pid = parent => [e EXCEPT !.pid = child] \in E,
         E \subseteq AnyName
  PROVE  inherit_proc_fd_paths(c, parent, child) \in Rings(E)
  <1> DEFINE Stepped(u, i) == IF u.slot[i].pid = parent
                              THEN Put(u, [u.slot[i] EXCEPT !.pid = child]) ELSE u
             a == Forget(c, child, Numbers)
             upto == CHOOSE f : f = [i \in 0..Slots |-> IF i = 0 THEN a ELSE Stepped(f[i - 1], i)]
             S == Rings(E)
             F == [i \in 1..Slots |-> [x \in S |-> Stepped(x, i)]]
  <1>1. inherit_proc_fd_paths(c, parent, child) = upto[Slots]
    BY DEF inherit_proc_fd_paths
  <1>2. Slots \in Nat
    BY DirAssumption
  <1>3. ASSUME NEW u \in S, NEW i \in 1..Slots PROVE Stepped(u, i) \in S
    <2>1. CASE u.slot[i].pid = parent
      <3>1. u.slot[i] \in E \cup {Empty}
        BY DEF Rings
      <3>2. CASE u.slot[i] \in E
        <4> DEFINE e == [u.slot[i] EXCEPT !.pid = child]
        <4>1. e \in E /\ e.pid = child
          BY <2>1, <3>2 DEF AnyName
        <4> HIDE DEF e
        <4>2. child # Nil
          BY DirAssumption
        <4>3. Put(u, e) \in Rings(E)
          BY <4>1, <4>2, PutRing
        <4> QED
          BY <2>1, <4>3 DEF e
      <3> QED
        BY <2>1, <3>1, <3>2, EmptyIs, DirAssumption
    <2> QED
      BY <2>1
  <1> HIDE DEF Stepped, S, a
  <1>4. a \in S /\ F \in [1..Slots -> [S -> S]]
    BY <1>3 DEF S, a
  <1> HIDE DEF F
  <1>5. PICK g : Folded(g, S, Slots, a, F)
    BY ONLY <1>2, <1>4, FoldExists
  <1>6. g \in [0..Slots -> S] /\ g[0] = a /\ \A i \in 1..Slots : g[i] = F[i][g[i - 1]]
    BY ONLY <1>5 DEF Folded
  <1>7. g = [i \in 0..Slots |-> IF i = 0 THEN a ELSE Stepped(g[i - 1], i)]
    <2>1. ASSUME NEW i \in 0..Slots, i # 0 PROVE g[i] = Stepped(g[i - 1], i)
      <3>1. i \in 1..Slots /\ i - 1 \in 0..Slots
        BY <1>2, <2>1
      <3>2. g[i - 1] \in S /\ g[i] = F[i][g[i - 1]]
        BY <1>6, <3>1
      <3> QED
        BY <3>1, <3>2 DEF F
    <2> QED
      BY <1>6, <2>1
  <1>8. upto = [i \in 0..Slots |-> IF i = 0 THEN a ELSE Stepped(upto[i - 1], i)]
    BY <1>7
  <1> HIDE DEF upto
  <1>9. upto[0] \in S
    BY <1>2, <1>4, <1>8
  <1>10. \A i \in 1..Slots : upto[i - 1] \in S => upto[i] \in S
    BY <1>2, <1>3, <1>8
  <1>11. upto[Slots] \in S
    BY <1>2, <1>9, <1>10, FoldKeeps
  <1> QED
    BY <1>1, <1>11 DEF S

(* The steps.                                                                          *)
LEMMA DirEmpty ==
  ASSUME NEW E
  PROVE  Ring \in Rings(E)
  BY DirAssumption DEF Ring, Rings

LEMMA DirInvInit == DirInit => DirInv
  BY DirAssumption, DirEmpty DEF DirInit, DirInv, DirTypes

LEMMA TableIs ==
  ASSUME DirTypes, NEW t \in Opened
  PROVE  t \in Openers /\ t # Nil /\ owner[t] \in Openers /\ Table(t) \in [Numbers -> Dirs \cup {Nil}]
  BY DirAssumption DEF DirTypes, Opened, Table

LEMMA PathIs ==
  ASSUME DirTypes, NEW d \in Dirs
  PROVE  d # Nil /\ at[d] \in Paths /\ detranslate_path(at[d]) \in Paths
  BY DirAssumption DEF DirTypes, detranslate_path

LEMMA TrueKept == Kept(TrueEntries)
  <1>1. ASSUME NEW e \in TrueEntries, NEW h \in Dirs \cup {Nil}
        PROVE  [e EXCEPT !.host = h] \in TrueEntries
    BY DEF TrueEntries, AnyEntry
  <1> QED
    BY <1>1 DEF Kept, TrueEntries

(* An entry for a descriptor of directory d, as the full translation makes it.           *)
LEMMA NewIsTrue ==
  ASSUME DirTypes, NEW t \in Opened, NEW fd \in Numbers, NEW d \in Dirs
  PROVE  NewEntry(t, fd, at[d], detranslate_path(at[d]), Nil, FALSE) \in TrueEntries
  BY TableIs, PathIs DEF NewEntry, TrueEntries, AnyEntry

LEMMA TranslateKeeps ==
  ASSUME DirInv, NEW t \in Openers, NEW fd \in Numbers, translate_path(t, fd)
  PROVE  DirInv'
  <1> DEFINE d == Table(t)[fd]
  <1>1. /\ t \in Opened /\ t # Nil /\ d \in Dirs
        /\ UNCHANGED <<owner, tables, at, mount, names, untold>>
        /\ \/ cache' = cache
           \/ cache' = remember_translated_dirfd(cache, t, fd, at[d], detranslate_path(at[d]))
    BY TableIs DEF translate_path, DirInv
  <1> HIDE DEF d
  <1>2. cache' \in Rings(TrueEntries)
    BY <1>1, NewIsTrue, RememberRing DEF DirInv
  <1>3. TrueEntries' = TrueEntries /\ TrueNames' = TrueNames /\ DirTypes'
    BY <1>1 DEF TrueEntries, TrueNames, Opened, Table, detranslate_path, DirInv, DirTypes
  <1> QED
    BY <1>1, <1>2, <1>3 DEF DirInv

LEMMA LookupDirKeeps ==
  ASSUME DirInv, NEW t \in Openers, NEW fd \in Numbers, lookup_cached_host_dirfd(t, fd)
  PROVE  DirInv'
  <1> DEFINE d == Table(t)[fd]
             g == detranslate_path(at[d])
             stale == Known(cache, t, fd) /\ Entry(cache, t, fd).host \notin {Nil, d}
             c == IF Known(cache, t, fd) /\ ~stale THEN cache
                  ELSE remember_translated_dirfd(Forget(cache, t, {fd}), t, fd, at[d], g)
  <1>1. /\ t \in Opened /\ t # Nil /\ d \in Dirs
        /\ UNCHANGED <<owner, tables, at, mount, names, untold>>
        /\ cache' = c \/ cache' = attach_host_dirfd(c, t, fd, d)
    BY TableIs DEF lookup_cached_host_dirfd, DirInv
  <1> HIDE DEF d
  <1>2. Forget(cache, t, {fd}) \in Rings(TrueEntries)
    BY ForgetRing, DirAssumption DEF DirInv, TrueEntries, AnyEntry
  <1>3. NewEntry(t, fd, at[d], g, Nil, FALSE) \in TrueEntries
    BY <1>1, NewIsTrue DEF DirInv
  <1> HIDE DEF g, stale
  <1>4. c \in Rings(TrueEntries) /\ Known(c, t, fd)
    <2>1. CASE Known(cache, t, fd) /\ ~stale
      BY <2>1 DEF DirInv
    <2>2. CASE ~(Known(cache, t, fd) /\ ~stale)
      BY <1>1, <1>2, <1>3, <2>2, RememberRing, RememberFinds
    <2> QED
      BY <2>1, <2>2
  <1> HIDE DEF c
  <1>5. cache' \in Rings(TrueEntries)
    BY <1>1, <1>4, TrueKept, AttachRing
  <1>6. TrueEntries' = TrueEntries /\ TrueNames' = TrueNames /\ DirTypes'
    BY <1>1 DEF TrueEntries, TrueNames, Opened, Table, detranslate_path, DirInv, DirTypes
  <1> QED
    BY <1>1, <1>5, <1>6 DEF DirInv

LEMMA OpenKeeps ==
  ASSUME DirInv, NEW t \in Openers, NEW fd \in Numbers, NEW d \in Dirs, open(t, fd, d)
  PROVE  DirInv'
  <1> DEFINE e == [pid |-> t, fd |-> fd, dir |-> d]
  <1>1. /\ t \in Opened /\ t # Nil /\ owner[t] \in Openers
        /\ tables' = [tables EXCEPT ![owner[t]][fd] = d] /\ names' = Put(names, e)
        /\ untold' = (untold \ {<<t, fd>>}) \cup Sharers(t, {fd})
        /\ UNCHANGED <<owner, at, mount, cache>>
    BY TableIs DEF open, DirInv
  <1>2. TrueEntries' = TrueEntries /\ DirTypes' /\ Opened' = Opened
    BY <1>1 DEF TrueEntries, Opened, detranslate_path, DirInv, DirTypes
  <1>3. \A u \in Opened : /\ owner[u] \in Openers /\ Table(u) \in [Numbers -> Dirs \cup {Nil}]
                          /\ Table(u)' = IF owner[u] = owner[t] THEN [Table(u) EXCEPT ![fd] = d]
                                         ELSE Table(u)
    BY <1>1, TableIs DEF DirInv, DirTypes, Table
  <1>4. e \in TrueNames' /\ e.pid # Nil
    <2>1. <<t, fd>> \notin Sharers(t, {fd})
      BY DEF Sharers
    <2> QED
      BY <1>1, <1>2, <1>3, <2>1 DEF TrueNames, AnyName
  <1>5. ASSUME NEW x \in TrueNames PROVE SameFd(e, x) \/ x \in TrueNames'
    <2>1. x \in AnyName /\ x.pid \in Opened /\ x.fd \in Numbers
      BY DEF TrueNames, AnyName
    <2>2. CASE x.fd = fd /\ owner[x.pid] = owner[t]
      <3>1. x.pid # t => <<x.pid, x.fd>> \in Sharers(t, {fd})
        BY <2>1, <2>2 DEF Sharers
      <3> QED
        BY <1>1, <1>2, <2>1, <2>2, <3>1 DEF TrueNames, SameFd
    <2>3. CASE ~(x.fd = fd /\ owner[x.pid] = owner[t])
      <3>1. Table(x.pid)'[x.fd] = Table(x.pid)[x.fd]
        BY <1>3, <2>1, <2>3
      <3>2. <<x.pid, x.fd>> \in untold => <<x.pid, x.fd>> \in untold' \/ SameFd(e, x)
        BY <1>1, <2>1 DEF SameFd
      <3> QED
        BY <1>2, <2>1, <3>1, <3>2 DEF TrueNames
    <2> QED
      BY <2>2, <2>3
  <1> HIDE DEF e
  <1>6. names' \in Rings(TrueNames')
    BY <1>1, <1>4, <1>5, PutRing DEF DirInv
  <1> QED
    BY <1>1, <1>2, <1>6 DEF DirInv

(* Names of entries and directories that a call leaves as they are.                       *)
LEMMA EntriesStay ==
  ASSUME DirInv, Opened' = Opened, mount' = mount
  PROVE  TrueEntries' = TrueEntries
  BY DEF TrueEntries, detranslate_path

(* The tables of all who share t's.                                                      *)
LEMMA TablesAfter ==
  ASSUME DirInv, NEW t \in Opened, NEW f \in [Numbers -> Dirs \cup {Nil}],
         tables' = [tables EXCEPT ![owner[t]] = f], owner' = owner
  PROVE  /\ Opened' = Opened /\ (UNCHANGED <<at, mount>> => DirTypes')
         /\ \A u \in Opened : Table(u)' = IF owner[u] = owner[t] THEN f ELSE Table(u)
  BY TableIs DEF DirInv, DirTypes, Opened, Table

LEMMA ForgetKeeps ==
  ASSUME DirInv, NEW t \in Openers, NEW S \in SUBSET Numbers, forget_proc_fd_paths_range(t, S)
  PROVE  DirInv'
  <1> DEFINE f == [fd \in Numbers |-> IF fd \in S THEN Nil ELSE Table(t)[fd]]
  <1>1. /\ t \in Opened /\ owner[t] \in Openers /\ Table(t) \in [Numbers -> Dirs \cup {Nil}]
        /\ cache' = Forget(cache, t, S) /\ names' = Forget(names, t, S)
        /\ untold' = (untold \ ({t} \X S)) \cup Sharers(t, S)
        /\ UNCHANGED <<owner, at, mount>>
    BY TableIs DEF forget_proc_fd_paths_range, DirInv
  <1>2. tables' = [tables EXCEPT ![owner[t]] = f]
    BY DEF forget_proc_fd_paths_range, Table
  <1>3. f \in [Numbers -> Dirs \cup {Nil}] /\ \A n \in Numbers : n \notin S => f[n] = Table(t)[n]
    BY <1>1
  <1> HIDE DEF f
  <1>4. /\ Opened' = Opened /\ DirTypes' /\ TrueEntries' = TrueEntries
        /\ \A u \in Opened : Table(u)' = IF owner[u] = owner[t] THEN f ELSE Table(u)
    BY <1>1, <1>2, <1>3, TablesAfter, EntriesStay
  <1>5. ASSUME NEW x \in TrueNames PROVE (x.pid = t /\ x.fd \in S) \/ x \in TrueNames'
    <2>1. x \in AnyName /\ x.pid \in Opened /\ x.fd \in Numbers
      BY DEF TrueNames, AnyName
    <2>2. CASE x.fd \in S /\ owner[x.pid] = owner[t]
      <3>1. x.pid # t => <<x.pid, x.fd>> \in Sharers(t, S)
        BY <2>1, <2>2 DEF Sharers
      <3> QED
        BY <1>1, <1>4, <2>1, <2>2, <3>1 DEF TrueNames
    <2>3. CASE ~(x.fd \in S /\ owner[x.pid] = owner[t])
      <3>1. Table(x.pid)'[x.fd] = Table(x.pid)[x.fd]
        <4>1. CASE owner[x.pid] = owner[t]
          <5>1. Table(x.pid) = Table(t)
            BY <4>1 DEF Table
          <5> QED
            BY <1>3, <1>4, <2>1, <2>3, <4>1, <5>1
        <4>2. CASE owner[x.pid] # owner[t]
          BY <1>4, <2>1, <4>2
        <4> QED
          BY <4>1, <4>2
      <3>2. <<x.pid, x.fd>> \in untold => <<x.pid, x.fd>> \in untold' \/ (x.pid = t /\ x.fd \in S)
        BY <1>1, <2>1
      <3> QED
        BY <1>4, <2>1, <3>1, <3>2 DEF TrueNames
    <2> QED
      BY <2>2, <2>3
  <1>6. names' \in Rings(TrueNames')
    <2>1. \A x \in TrueNames : x.pid # Nil
      BY DirAssumption DEF TrueNames, AnyName
    <2> QED
      BY <1>1, <1>5, <2>1, ForgetRing DEF DirInv
  <1>7. cache' \in Rings(TrueEntries')
    <2>1. \A x \in TrueEntries : x.pid # Nil
      BY DirAssumption DEF TrueEntries, AnyEntry
    <2> QED
      BY <1>1, <1>4, <2>1, ForgetRing DEF DirInv
  <1> QED
    BY <1>4, <1>6, <1>7 DEF DirInv

LEMMA ExecKeeps ==
  ASSUME DirInv, NEW t \in Openers, NEW S \in SUBSET Numbers, execve(t, S)
  PROVE  DirInv'
  <1> DEFINE f == [fd \in Numbers |-> IF fd \in S THEN Nil ELSE Table(t)[fd]]
  <1>1. /\ t \in Opened /\ owner[t] \in Openers /\ Table(t) \in [Numbers -> Dirs \cup {Nil}]
        /\ cache' = Forget(cache, t, Numbers) /\ names' = Forget(names, t, Numbers)
        /\ Sharers(t, Numbers) = {} /\ untold' = untold \ ({t} \X Numbers)
        /\ UNCHANGED <<owner, at, mount>>
    BY TableIs DEF execve, DirInv
  <1>2. tables' = [tables EXCEPT ![owner[t]] = f]
    BY DEF execve, Table
  <1>3. f \in [Numbers -> Dirs \cup {Nil}]
    BY <1>1
  <1> HIDE DEF f
  <1>4. /\ Opened' = Opened /\ DirTypes' /\ TrueEntries' = TrueEntries
        /\ \A u \in Opened : Table(u)' = IF owner[u] = owner[t] THEN f ELSE Table(u)
    BY <1>1, <1>2, <1>3, TablesAfter, EntriesStay
  <1>5. ASSUME NEW x \in TrueNames PROVE (x.pid = t /\ x.fd \in Numbers) \/ x \in TrueNames'
    <2>1. x \in AnyName /\ x.pid \in Opened /\ x.fd \in Numbers
      BY DEF TrueNames, AnyName
    <2>2. CASE x.pid # t
      <3>1. <<x.pid, x.fd>> \notin Sharers(t, Numbers)
        BY <1>1
      <3>2. owner[x.pid] # owner[t]
        BY <2>1, <2>2, <3>1 DEF Sharers
      <3>3. Table(x.pid)' = Table(x.pid)
        BY <1>4, <2>1, <3>2
      <3> QED
        BY <1>1, <1>4, <2>1, <2>2, <3>3 DEF TrueNames
    <2> QED
      BY <2>1, <2>2
  <1>6. names' \in Rings(TrueNames')
    <2>1. \A x \in TrueNames : x.pid # Nil
      BY DirAssumption DEF TrueNames, AnyName
    <2> QED
      BY <1>1, <1>5, <2>1, ForgetRing DEF DirInv
  <1>7. cache' \in Rings(TrueEntries')
    <2>1. \A x \in TrueEntries : x.pid # Nil
      BY DirAssumption DEF TrueEntries, AnyEntry
    <2> QED
      BY <1>1, <1>4, <2>1, ForgetRing DEF DirInv
  <1> QED
    BY <1>4, <1>6, <1>7 DEF DirInv

(* A duplicate: what is kept for its number afterwards is what was kept for the source.    *)
LEMMA DupKeeps ==
  ASSUME DirInv, NEW t \in Openers, NEW source \in Numbers, NEW target \in Numbers,
         NEW traced \in BOOLEAN, dup(t, source, target, traced)
  PROVE  DirInv'
  <1> DEFINE d == Table(t)[source]
             f == [Table(t) EXCEPT ![target] = d]
  <1>1. /\ t \in Opened /\ t # Nil /\ owner[t] \in Openers /\ source # target
        /\ Table(t) \in [Numbers -> Dirs \cup {Nil}]
        /\ UNCHANGED <<owner, at, mount>>
    BY TableIs DEF dup, DirInv
  <1>2. tables' = [tables EXCEPT ![owner[t]] = f]
    BY DEF dup, Table
  <1>3. /\ f \in [Numbers -> Dirs \cup {Nil}] /\ f[target] = d
        /\ \A n \in Numbers \ {target} : f[n] = Table(t)[n]
    BY <1>1
  <1> HIDE DEF f
  <1>4. /\ Opened' = Opened /\ DirTypes' /\ TrueEntries' = TrueEntries
        /\ \A u \in Opened : Table(u)' = IF owner[u] = owner[t] THEN f ELSE Table(u)
    BY <1>1, <1>2, <1>3, TablesAfter, EntriesStay
  <1>5. Sharers(t, {target}) \subseteq untold' /\ untold \ {<<t, target>>} \subseteq untold'
    BY DEF dup
  <1>6. ASSUME NEW x \in TrueNames
        PROVE  \/ x.pid = t /\ x.fd = target /\ <<t, target>> \notin untold'
               \/ x \in TrueNames'
    <2>1. x \in AnyName /\ x.pid \in Opened /\ x.fd \in Numbers
      BY DEF TrueNames, AnyName
    <2>2. CASE x.fd = target /\ owner[x.pid] = owner[t]
      <3>1. x.pid # t => <<x.pid, x.fd>> \in Sharers(t, {target})
        BY <2>1, <2>2 DEF Sharers
      <3> QED
        BY <1>4, <1>5, <2>1, <2>2, <3>1 DEF TrueNames
    <2>3. CASE ~(x.fd = target /\ owner[x.pid] = owner[t])
      <3>1. Table(x.pid)'[x.fd] = Table(x.pid)[x.fd]
        <4>1. CASE owner[x.pid] = owner[t]
          <5>1. Table(x.pid) = Table(t)
            BY <4>1 DEF Table
          <5> QED
            BY <1>3, <1>4, <2>1, <2>3, <4>1, <5>1
        <4>2. CASE owner[x.pid] # owner[t]
          BY <1>4, <2>1, <4>2
        <4> QED
          BY <4>1, <4>2
      <3>2. <<x.pid, x.fd>> # <<t, target>>
        BY <2>3
      <3>3. <<x.pid, x.fd>> \in untold => <<x.pid, x.fd>> \in untold'
        BY <1>5, <3>2
      <3> QED
        BY <1>4, <2>1, <3>1, <3>3 DEF TrueNames
    <2> QED
      BY <2>2, <2>3
  <1>7. \A x \in TrueNames : x.pid # Nil /\ (SameFd([pid |-> t, fd |-> target], x) \/ x \in TrueNames')
    BY <1>6, DirAssumption DEF SameFd, TrueNames, AnyName
  <1>8. CASE ~traced
    <2>1. <<t, target>> \in untold' /\ UNCHANGED <<cache, names>>
      BY <1>8 DEF dup
    <2>2. TrueNames \subseteq TrueNames'
      BY <1>6, <2>1
    <2> QED
      BY <1>4, <2>1, <2>2, RingMore DEF DirInv
  <1>9. CASE traced
    <2>1. /\ names' = copy_proc_fd_path(names, t, source, target)
          /\ cache' = copy_translated_dirfd(
                 IF Known(names, t, source) THEN cache ELSE Forget(cache, t, {target}),
                 t, source, target)
          /\ <<t, source>> \in untold => <<t, target>> \in untold'
      BY <1>9 DEF dup
    <2>2. names' \in Rings(TrueNames')
      <3>1. CASE Known(names, t, source)
        <4> DEFINE n == Entry(names, t, source)
                   e == [n EXCEPT !.fd = target]
        <4>1. n \in TrueNames /\ n.pid = t /\ n.fd = source
          BY <3>1, EntryIs DEF DirInv
        <4>2. n \in AnyName /\ (<<t, source>> \notin untold => n.dir = d)
          BY <4>1 DEF TrueNames
        <4> HIDE DEF n, d
        <4>3. e \in AnyName /\ e.pid = t /\ e.fd = target /\ e.dir = n.dir
          BY <4>1, <4>2 DEF AnyName
        <4> HIDE DEF e
        <4>4. Table(t)'[target] = d
          BY <1>1, <1>3, <1>4
        <4>5. e \in TrueNames'
          BY <1>1, <1>4, <2>1, <4>2, <4>3, <4>4 DEF TrueNames
        <4>6. \A x \in TrueNames : SameFd(e, x) \/ x \in TrueNames'
          BY <1>6, <4>3 DEF SameFd
        <4>7. names' = Put(names, e)
          BY <2>1, <3>1 DEF copy_proc_fd_path, e, n
        <4> QED
          BY <1>1, <4>3, <4>5, <4>6, <4>7, PutRing DEF DirInv
      <3>2. CASE ~Known(names, t, source)
        <4>1. names' = Forget(names, t, {target})
          BY <2>1, <3>2 DEF copy_proc_fd_path
        <4>2. \A x \in TrueNames : (x.pid = t /\ x.fd \in {target}) \/ x \in TrueNames'
          BY <1>6
        <4> QED
          BY <1>7, <4>1, <4>2, ForgetRing DEF DirInv
      <3> QED
        BY <3>1, <3>2
    <2>3. cache' \in Rings(TrueEntries)
      <3> DEFINE c == IF Known(names, t, source) THEN cache ELSE Forget(cache, t, {target})
      <3>1. \A x \in TrueEntries : x.pid # Nil
        BY DirAssumption DEF TrueEntries, AnyEntry
      <3>2. \A r \in Rings(TrueEntries) : Forget(r, t, {target}) \in Rings(TrueEntries)
        BY <3>1, ForgetRing
      <3>3. c \in Rings(TrueEntries)
        BY <3>2 DEF DirInv
      <3>4. cache' = copy_translated_dirfd(c, t, source, target)
        BY <2>1
      <3> HIDE DEF c
      <3>5. CASE Known(c, t, source)
        <4> DEFINE e == Entry(c, t, source)
        <4>1. e \in TrueEntries
          BY <3>3, <3>5, EntryIs
        <4>2. cache' = Carry(c, e, t, target)
          BY <3>4, <3>5 DEF copy_translated_dirfd
        <4> HIDE DEF e
        <4>3. e \in AnyEntry /\ NewEntry(t, target, e.proc, e.guest, e.host, e.old) \in TrueEntries
          BY <1>1, <4>1 DEF TrueEntries, AnyEntry, NewEntry
        <4> QED
          BY <3>3, <4>2, <4>3, TrueKept, CarryRing
      <3>6. CASE ~Known(c, t, source)
        BY <3>2, <3>3, <3>4, <3>6 DEF copy_translated_dirfd
      <3> QED
        BY <3>5, <3>6
    <2> QED
      BY <1>4, <2>2, <2>3 DEF DirInv
  <1> QED
    BY <1>8, <1>9

(* A new child is told what its parent was told, and no more.                             *)
LEMMA InheritsKeeps ==
  ASSUME DirInv, NEW t \in Openers, NEW u \in Openers, NEW shared \in BOOLEAN, inherits(t, u, shared)
  PROVE  DirInv'
  <1>1. /\ t \in Opened /\ u \notin Opened /\ t # u /\ t # Nil /\ u # Nil
        /\ cache' = inherit_translated_dirfds(cache, t, u)
        /\ names' = inherit_proc_fd_paths(names, t, u)
        /\ untold' = {x \in untold : x[1] # u}
                       \cup {<<u, fd>> : fd \in {g \in Numbers : <<t, g>> \in untold}}
        /\ UNCHANGED <<at, mount>>
    BY DirAssumption DEF inherits
  <1>2. DirTypes /\ owner[t] \in Openers /\ Table(t) \in [Numbers -> Dirs \cup {Nil}]
    BY <1>1, TableIs DEF DirInv
  <1>3. /\ DirTypes' /\ Opened' = Opened \cup {u} /\ Table(u)' = Table(t)
        /\ \A v \in Opened : Table(v)' = Table(v)
    <2>1. CASE shared /\ owner' = [owner EXCEPT ![u] = owner[t]] /\ UNCHANGED tables
      BY <1>1, <1>2, <2>1, DirAssumption DEF DirTypes, Opened, Table
    <2>2. CASE /\ \A v \in Opened : owner[v] # u
               /\ owner' = [owner EXCEPT ![u] = u] /\ tables' = [tables EXCEPT ![u] = Table(t)]
      <3>1. DirTypes' /\ Opened' = Opened \cup {u} /\ owner'[u] = u /\ tables'[u] = Table(t)
        BY <1>1, <1>2, <2>2, DirAssumption DEF DirTypes, Opened
      <3>2. \A v \in Opened : v # u /\ owner'[v] = owner[v] /\ tables'[owner[v]] = tables[owner[v]]
        BY <1>1, <1>2, <2>2 DEF DirTypes, Opened
      <3> QED
        BY <3>1, <3>2 DEF Table
    <2> QED
      BY <2>1, <2>2 DEF inherits
  <1>4. cache' \in Rings(TrueEntries')
    <2>1. TrueEntries' = {e \in AnyEntry :
              e.pid \in Opened' /\ (~e.old => e.guest = detranslate_path(e.proc))}
      BY <1>1 DEF TrueEntries, detranslate_path
    <2>2. Kept(TrueEntries')
      <3>1. ASSUME NEW e \in TrueEntries', NEW h \in Dirs \cup {Nil}
            PROVE  [e EXCEPT !.host = h] \in TrueEntries'
        BY <2>1 DEF AnyEntry
      <3> QED
        BY <2>1, <3>1 DEF Kept
    <2>3. \A x \in TrueEntries : x \in TrueEntries' /\ x.pid # Nil
      BY <1>3, <2>1, DirAssumption DEF TrueEntries, AnyEntry
    <2>4. Forget(cache, u, Numbers) \in Rings(TrueEntries')
      BY <2>3, ForgetRing DEF DirInv
    <2>5. ASSUME NEW e \in TrueEntries'
          PROVE  NewEntry(u, e.fd, e.proc, e.guest, e.host, e.old) \in TrueEntries'
      BY <1>3, <2>1 DEF AnyEntry, NewEntry
    <2> QED
      BY <1>1, <2>2, <2>4, <2>5, CarriedAll
  <1>5. names' \in Rings(TrueNames')
    <2>1. ASSUME NEW x \in TrueNames PROVE x \in TrueNames' /\ x.pid # Nil
      <3>1. x \in AnyName /\ x.pid \in Opened /\ x.pid # u
        BY <1>1 DEF TrueNames
      <3>2. <<x.pid, x.fd>> \in untold => <<x.pid, x.fd>> \in untold'
        BY <1>1, <3>1
      <3> QED
        BY <1>3, <3>1, <3>2, DirAssumption DEF TrueNames, AnyName
    <2>2. Forget(names, u, Numbers) \in Rings(TrueNames')
      BY <2>1, ForgetRing DEF DirInv
    <2>3. ASSUME NEW e \in TrueNames', e.pid = t PROVE [e EXCEPT !.pid = u] \in TrueNames'
      <3> DEFINE n == [e EXCEPT !.pid = u]
      <3>1. e \in AnyName /\ e.fd \in Numbers
        BY DEF TrueNames, AnyName
      <3>2. n \in AnyName /\ n.pid = u /\ n.fd = e.fd /\ n.dir = e.dir
        BY <3>1 DEF AnyName
      <3> HIDE DEF n
      <3>3. <<t, e.fd>> \in untold' => <<u, e.fd>> \in untold'
        BY <1>1, <3>1
      <3>4. Table(u)' = Table(t)'
        BY <1>1, <1>3
      <3>5. n \in TrueNames'
        BY <1>3, <2>3, <3>2, <3>3, <3>4 DEF TrueNames
      <3> QED
        BY <3>5 DEF n
    <2>4. TrueNames' \subseteq AnyName
      BY DEF TrueNames
    <2> QED
      BY <1>1, <2>2, <2>3, <2>4, InheritedAll
  <1> QED
    BY <1>3, <1>4, <1>5 DEF DirInv

LEMMA RemoveTraceeKeeps ==
  ASSUME DirInv, NEW t \in Openers, remove_tracee(t)
  PROVE  DirInv'
  <1>1. /\ cache' = Forget(cache, t, Numbers) /\ names' = Forget(names, t, Numbers)
        /\ owner' = [owner EXCEPT ![t] = Nil] /\ UNCHANGED <<tables, at, mount, untold>>
    BY DEF remove_tracee
  <1>2. /\ DirTypes' /\ Opened' = Opened \ {t}
        /\ \A v \in Opened \ {t} : Table(v)' = Table(v)
    BY <1>1 DEF DirInv, DirTypes, Opened, Table
  <1>3. \A x \in TrueEntries : x.pid # Nil /\ ((x.pid = t /\ x.fd \in Numbers) \/ x \in TrueEntries')
    BY <1>1, <1>2, DirAssumption DEF TrueEntries, AnyEntry, detranslate_path
  <1>4. \A x \in TrueNames : x.pid # Nil /\ ((x.pid = t /\ x.fd \in Numbers) \/ x \in TrueNames')
    BY <1>1, <1>2, DirAssumption DEF TrueNames, AnyName
  <1>5. cache' \in Rings(TrueEntries') /\ names' \in Rings(TrueNames')
    BY <1>1, <1>3, <1>4, ForgetRing DEF DirInv
  <1> QED
    BY <1>2, <1>5 DEF DirInv

(* The names of the caller are forgotten, those of others marked.                         *)
LEMMA BindKeeps ==
  ASSUME DirInv, NEW t \in Openers, NEW m \in {Nil} \cup (Paths \X Paths), NEW I, Bind(t, m, I)
  PROVE  DirInv'
  <1> DEFINE s == [i \in 1..Slots |-> IF cache.slot[i].pid = Nil \/ cache.slot[i].pid = t THEN Empty
                                      ELSE [cache.slot[i] EXCEPT !.old = TRUE]]
  <1>1. /\ cache' = [cache EXCEPT !.slot = s] /\ mount' = m
        /\ UNCHANGED <<owner, tables, at, names, untold>>
    BY DEF Bind, invalidate_binding_cache
  <1>2. DirTypes' /\ Opened' = Opened /\ TrueNames' = TrueNames
    BY <1>1 DEF DirInv, DirTypes, Opened, TrueNames, Table
  <1>3. ASSUME NEW e \in TrueEntries PROVE [e EXCEPT !.old = TRUE] \in TrueEntries'
    BY <1>2 DEF TrueEntries, AnyEntry
  <1>4. \A i \in 1..Slots : cache.slot[i] \in TrueEntries \cup {Empty}
    BY DEF DirInv, Rings
  <1>5. \A i \in 1..Slots : s[i] \in TrueEntries' \cup {Empty}
    BY <1>3, <1>4, EmptyIs
  <1> HIDE DEF s
  <1>6. s \in [1..Slots -> TrueEntries' \cup {Empty}]
    BY <1>5 DEF s
  <1>7. cache' \in Rings(TrueEntries')
    BY <1>1, <1>6 DEF DirInv, Rings
  <1> QED
    BY <1>1, <1>2, <1>7 DEF DirInv

LEMMA RenameKeeps ==
  ASSUME DirInv, NEW d \in Dirs, NEW p \in Paths, Rename(d, p)
  PROVE  DirInv'
  <1>1. at' = [at EXCEPT ![d] = p] /\ UNCHANGED <<owner, tables, mount, cache, names, untold>>
    BY DEF Rename
  <1>2. DirTypes' /\ TrueEntries' = TrueEntries /\ TrueNames' = TrueNames
    BY <1>1 DEF DirInv, DirTypes, TrueEntries, TrueNames, Opened, Table, detranslate_path
  <1> QED
    BY <1>1, <1>2 DEF DirInv

LEMMA DirInvNext == DirInv /\ [DirNext]_dirvars => DirInv'
  <1> SUFFICES ASSUME DirInv, [DirNext]_dirvars PROVE DirInv'
    OBVIOUS
  <1>1. ASSUME NEW t \in Openers, NEW fd \in Numbers, NEW d \in Dirs, open(t, fd, d) PROVE DirInv'
    BY <1>1, OpenKeeps
  <1>2. ASSUME NEW t \in Openers, NEW fd \in Numbers, NEW g \in Numbers, NEW traced \in BOOLEAN,
               dup(t, fd, g, traced)
        PROVE  DirInv'
    BY <1>2, DupKeeps
  <1>3. ASSUME NEW t \in Openers, NEW fd \in Numbers,
               translate_path(t, fd) \/ lookup_cached_host_dirfd(t, fd)
        PROVE  DirInv'
    BY <1>3, TranslateKeeps, LookupDirKeeps
  <1>4. ASSUME NEW t \in Openers, NEW S \in SUBSET Numbers,
               forget_proc_fd_paths_range(t, S) \/ execve(t, S)
        PROVE  DirInv'
    BY <1>4, ForgetKeeps, ExecKeeps
  <1>5. ASSUME NEW t \in Openers, NEW u \in Openers, NEW shared \in BOOLEAN, inherits(t, u, shared)
        PROVE  DirInv'
    BY <1>5, InheritsKeeps
  <1>6. ASSUME NEW t \in Openers, remove_tracee(t) PROVE DirInv'
    BY <1>6, RemoveTraceeKeeps
  <1>7. ASSUME NEW t \in Openers, NEW m \in {Nil} \cup (Paths \X Paths), NEW I, Bind(t, m, I)
        PROVE  DirInv'
    BY <1>7, BindKeeps
  <1>8. ASSUME NEW d \in Dirs, NEW p \in Paths, Rename(d, p) PROVE DirInv'
    BY <1>8, RenameKeeps
  <1>9. CASE UNCHANGED dirvars
    BY <1>9 DEF dirvars, DirInv, DirTypes, TrueEntries, TrueNames, Opened, Table, detranslate_path
  <1>10. mount \in {Nil} \cup (Paths \X Paths)
    BY DEF DirInv, DirTypes
  <1> QED
    BY <1>1, <1>2, <1>3, <1>4, <1>5, <1>6, <1>7, <1>8, <1>9, <1>10 DEF DirNext

(* NamesAgree: what the tracer remembers of a descriptor is true of the directory it has.  *)
(* Whatever threads share a table, duplicate, close, fork, execute or change bindings, a   *)
(* kept guest name (dirfd_cache) is what the full translation would give unless another    *)
(* thread changed the bindings since, and a kept name (proc_fd_path_cache) is that of the  *)
(* directory the number stands for, unless it was changed without a stop of its thread.    *)
THEOREM NamesStayTrue == DirSpec => []NamesAgree
  <1>1. DirInv => NamesAgree
    <2> SUFFICES ASSUME DirInv, NEW t \in Opened, NEW fd \in Numbers
                 PROVE  /\ Known(cache, t, fd) /\ ~Entry(cache, t, fd).old
                             => Entry(cache, t, fd).guest = detranslate_path(Entry(cache, t, fd).proc)
                        /\ Known(names, t, fd) /\ <<t, fd>> \notin untold
                             => Entry(names, t, fd).dir = Table(t)[fd]
      BY DEF NamesAgree, CacheAgrees, NameOfFd
    <2>1. ASSUME Known(cache, t, fd) PROVE Entry(cache, t, fd) \in TrueEntries
      BY <2>1, EntryIs DEF DirInv
    <2>2. ASSUME Known(names, t, fd)
          PROVE  Entry(names, t, fd) \in TrueNames /\ Entry(names, t, fd).pid = t
                 /\ Entry(names, t, fd).fd = fd
      BY <2>2, EntryIs DEF DirInv
    <2> QED
      BY <2>1, <2>2 DEF TrueEntries, TrueNames
  <1> QED
    BY <1>1, DirInvInit, DirInvNext, PTL DEF DirSpec
====================================================================================
