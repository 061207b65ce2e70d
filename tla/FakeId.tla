---------------------------------- MODULE FakeId ----------------------------------
(* The user and group ids a guest believes it has (fake_id0.c): every set*id call is *)
(* voided and its effect computed by the tracer. Beside each emulated call stands    *)
(* what the kernel does for it (kernel/sys.c, security/commoncap.c), the reference   *)
(* the program in the guest was written for.                                         *)
EXTENDS Naturals, FiniteSets

CONSTANTS Ids,     \* kind of id -> the ids the guest names; 0 is the superuser's
          Hosts,   \* what getuid() and getgid() of the tracer may be, the superuser's too
          Unset,   \* -1, "leave this one alone"
          Makes    \* program -> the calls it makes

ASSUME HostAssumption ==
  \A k \in {"u", "g"} : 0 \in Ids[k] /\ Hosts \subseteq Ids[k] /\ Unset \notin Ids[k]

VARIABLES program, \* what this guest runs
          host,    \* kind of id -> getuid() or getgid() of the tracer
          config,  \* the thread's Config: kind of id -> real, effective, saved, file system
          setid    \* the last step was the exec of a set-id program

vars == <<program, host, config, setid>>

Kinds == {"u", "g"}
All(x) == [r |-> x, e |-> x, s |-> x, f |-> x]
AnyOf(i) == {i.r, i.e, i.s}

Init ==
  /\ \E uid \in Ids["u"], gid \in Ids["g"] : config = [u |-> All(uid), g |-> All(gid)]
  /\ setid = FALSE /\ program \in DOMAIN Makes /\ host \in [Kinds -> Hosts]

(* What a call comes to: its result, the ids after it and the ids the loader hands to  *)
(* the new program.                                                                    *)
NoAuxv == <<>>
Granted(c, k, i) == [result |-> "ok", config |-> [c EXCEPT ![k] = i], auxv |-> NoAuxv]
Refused(c, error) == [result |-> error, config |-> c, auxv |-> NoAuxv]
Auxv(c) == [k \in Kinds |-> <<c[k].r, c[k].e>>]

(* The superuser is euid 0, for group ids too.                                         *)
Privileged(c) == c.u.e = 0
UNCHANGED_ID(x, now) == x \in {Unset, now}
EQUALS_ANY_ID(x, i) == x \in {Unset} \cup AnyOf(i)
Given(x, else) == IF x = Unset THEN else ELSE x

SETXID_AnyHost(c, k, x) ==
  LET i == c[k] IN
  IF Privileged(c) THEN Granted(c, k, All(x))
  ELSE Granted(c, k, [i EXCEPT !.e = x, !.f = x])

SETXID(c, k, x) ==
  LET i == c[k] IN
  IF Privileged(c) THEN Granted(c, k, All(x))
  ELSE IF x \in AnyOf(i) \/ (x = host[k] /\ (i.e = host[k] \/ i.e # 0))
       THEN Granted(c, k, [i EXCEPT !.e = x, !.f = x])
       ELSE Refused(c, "eperm")

SETREXID_Allowed(c, i, r, e) ==
  \/ Privileged(c)
  \/ UNCHANGED_ID(e, i.e) /\ UNCHANGED_ID(r, i.r)
  \/ r = i.e /\ (e = i.r \/ UNCHANGED_ID(e, i.e))
  \/ e = i.r /\ (r = i.e \/ UNCHANGED_ID(r, i.r))
  \/ e = i.s /\ UNCHANGED_ID(r, i.r)

SETREXID_NoSave(c, k, r, e) ==
  LET i == c[k] IN
  IF ~SETREXID_Allowed(c, i, r, e) THEN Refused(c, "eperm")
  ELSE Granted(c, k, [r |-> Given(r, i.r), e |-> Given(e, i.e), s |-> i.s, f |-> Given(e, i.f)])

SETREXID(c, k, r, e) ==
  LET i == c[k]
      saves == e # Unset /\ (e # i.r \/ r # Unset) IN
  IF ~SETREXID_Allowed(c, i, r, e) THEN Refused(c, "eperm")
  ELSE Granted(c, k, [r |-> Given(r, i.r), e |-> Given(e, i.e),
                      s |-> IF saves THEN e ELSE i.s, f |-> Given(e, i.f)])

SETRESXID(c, k, r, e, s) ==
  LET i == c[k] IN
  IF ~(Privileged(c) \/ \A x \in {r, e, s} : EQUALS_ANY_ID(x, i)) THEN Refused(c, "eperm")
  ELSE Granted(c, k, [r |-> Given(r, i.r), e |-> Given(e, i.e), s |-> Given(s, i.s),
                      f |-> Given(e, i.f)])

(* The result is the id before, granted or not.                                        *)
SETFSXID(c, k, x) ==
  LET i == c[k] IN
  IF Privileged(c) \/ x \in AnyOf(i) \cup {i.f} THEN Granted(c, k, [i EXCEPT !.f = x])
  ELSE Granted(c, k, i)

(* The auxiliary vector is rewritten first, the set-id bits are looked at after it.     *)
handle_sysexit_start(c, bits, nosuid) ==
  LET raised(k) == IF k \in bits /\ ~nosuid THEN [c[k] EXCEPT !.e = 0, !.s = 0] ELSE c[k] IN
  [result |-> "ok", config |-> [k \in Kinds |-> raised(k)], auxv |-> Auxv(c)]

(* The reference: what the kernel does, for files that belong to 0.                     *)
SetXid(c, k, x) ==
  LET i == c[k] IN
  IF x = Unset THEN Refused(c, "einval")
  ELSE IF Privileged(c) THEN Granted(c, k, All(x))
  ELSE IF x \in {i.r, i.s} THEN Granted(c, k, [i EXCEPT !.e = x, !.f = x])
  ELSE Refused(c, "eperm")

SetREXid(c, k, r, e) ==
  LET i == c[k]  new == Given(e, i.e) IN
  IF ~(Privileged(c) \/ (r \in {Unset, i.r, i.e} /\ EQUALS_ANY_ID(e, i)))
  THEN Refused(c, "eperm")
  ELSE Granted(c, k, [r |-> Given(r, i.r), e |-> new, f |-> new,
                      s |-> IF r # Unset \/ (e # Unset /\ e # i.r) THEN new ELSE i.s])

SetRESXid(c, k, r, e, s) ==
  LET i == c[k] IN
  IF ~(Privileged(c) \/ \A x \in {r, e, s} : EQUALS_ANY_ID(x, i)) THEN Refused(c, "eperm")
  ELSE Granted(c, k, [r |-> Given(r, i.r), e |-> Given(e, i.e), s |-> Given(s, i.s),
                      f |-> Given(e, i.e)])

SetFsXid(c, k, x) ==
  LET i == c[k] IN
  IF x # Unset /\ (Privileged(c) \/ x \in AnyOf(i) \cup {i.f})
  THEN Granted(c, k, [i EXCEPT !.f = x]) ELSE Granted(c, k, i)

Exec(c, bits, nosuid) ==
  LET eff(k) == IF k \in bits /\ ~nosuid THEN 0 ELSE c[k].e
      new == [k \in Kinds |-> [r |-> c[k].r, e |-> eff(k), s |-> eff(k), f |-> eff(k)]] IN
  [result |-> "ok", config |-> new, auxv |-> Auxv(new)]

(* The calls, the same for both.                                                       *)
Wish(k) == Ids[k] \cup {Unset}
IdCalls(k) ==
  {<<name, k, <<x>>>> : name \in {"set", "setfs"}, x \in Wish(k)}
  \cup {<<"setre", k, x>> : x \in Wish(k) \X Wish(k)}
  \cup {<<"setres", k, x>> : x \in Wish(k) \X Wish(k) \X Wish(k)}
Execs == {<<"exec", bits, <<nosuid>>>> : bits \in SUBSET Kinds, nosuid \in BOOLEAN}
Calls == Execs \cup UNION {IdCalls(k) : k \in Kinds}

ASSUME ProgramAssumption == \A p \in DOMAIN Makes : Makes[p] \subseteq Calls

handle_sysexit_end(c, call) ==
  LET k == call[2]  x == call[3] IN
  CASE call[1] = "set" -> SETXID(c, k, x[1])
    [] call[1] = "setfs" -> SETFSXID(c, k, x[1])
    [] call[1] = "setre" -> SETREXID(c, k, x[1], x[2])
    [] call[1] = "setres" -> SETRESXID(c, k, x[1], x[2], x[3])
    [] call[1] = "exec" -> handle_sysexit_start(c, k, x[1])

InKernel(c, call) ==
  LET k == call[2]  x == call[3] IN
  CASE call[1] = "set" -> SetXid(c, k, x[1])
    [] call[1] = "setfs" -> SetFsXid(c, k, x[1])
    [] call[1] = "setre" -> SetREXid(c, k, x[1], x[2])
    [] call[1] = "setres" -> SetRESXid(c, k, x[1], x[2], x[3])
    [] call[1] = "exec" -> Exec(c, k, x[1])

Raises(call) == call[1] = "exec" /\ call[2] # {} /\ ~call[3][1]

Next ==
  \E call \in Makes[program] :
    /\ config' = handle_sysexit_end(config, call).config
    /\ setid' = Raises(call) /\ UNCHANGED <<program, host>>

Spec == Init /\ [][Next]_vars

------------------------------------------------------------------------------------
(* Where the emulation answers otherwise than the kernel: setuid(-1) and setfsuid(-1)  *)
(* of the superuser store -1; setuid() to the effective id or to the host's is          *)
(* granted; setreuid(e, s) is refused though the kernel swaps.                          *)
Answers(c, call) ==
  LET i == c[call[2]]  x == call[3] IN
  CASE call[1] = "set" -> x[1] \in {Unset, i.e, host[call[2]]}
    [] call[1] = "setre" -> x[1] \in {i.r, i.e} /\ x[2] \in AnyOf(i)
    [] OTHER -> FALSE

(* Fields that may differ when both grant the call: the file system id where no         *)
(* effective id is given, and where -1 is stored; the saved id of setreuid(r, -1); the   *)
(* saved and file system ids of an exec, and the ids in the auxiliary vector.            *)
Fields(c, call) ==
  CASE call[1] = "setre" -> IF call[3][2] = Unset THEN {"s", "f"} ELSE {}
    [] call[1] = "setres" -> IF call[3][2] = Unset THEN {"f"} ELSE {}
    [] call[1] = "setfs" -> IF call[3][1] = Unset THEN {"f"} ELSE {}
    [] call[1] = "exec" -> {"s", "f"}
    [] OTHER -> {}

(* Outside the differences listed above an emulated call does what the kernel's does:    *)
(* the same answer and the same four ids (the macros of fake_id0.c:62-157 and the exec    *)
(* of a set-id program, :621-636).                                                        *)
AsKernel ==
  \A call \in Makes[program] :
    LET mine == handle_sysexit_end(config, call)
        its == InKernel(config, call) IN
    IF mine.result # its.result THEN Answers(config, call)
    ELSE /\ \A k \in Kinds, field \in {"r", "e", "s", "f"} :
              mine.config[k][field] # its.config[k][field] => field \in Fields(config, call)
         /\ mine.auxv # its.auxv => Raises(call)

(* A tracer that is run by root takes 0 for the id of the host: setuid(0) and setgid(0)    *)
(* are granted to whoever asks (fake_id0.c:71-73).                                         *)
HostRoot(k) == host[k] = 0 /\ config' = SETXID(config, k, 0).config

(* A thread that has given up 0 as real, effective and saved id gets it back by the exec  *)
(* of a set-id program, and under a tracer of root by setuid() and setgid(), but in no     *)
(* other way, in however many calls.                                                     *)
NoRegain ==
  [][\A k \in Kinds :
       (0 \notin AnyOf(config[k]) /\ ~Privileged(config) /\ 0 \in AnyOf(config'[k]))
         => setid' \/ HostRoot(k)]_vars
====================================================================================
