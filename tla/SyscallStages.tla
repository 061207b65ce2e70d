---------------------------- MODULE SyscallStages ----------------------------
(* One guest between the instruction that makes a system call and the return   *)
(* from it: the stops the kernel reports, and what the tracer does at each.    *)
(* `kernel` says which kernel this is; it never changes.                       *)
EXTENDS Naturals, Sequences, FiniteSets

CONSTANTS Calls,    \* calls the guest makes, a subset of those below
          MaxSig    \* signals sent to the guest

VARIABLES
  kernel,  \* [new, filter, setnr, quiet, strict]: seccomp after the enter stop;
           \* our filter is loaded; a tracer can change the number of a call; a
           \* call refused by SIGSYS is not followed by an exit stop; an outer
           \* filter refuses the number -1, which the tracer voids calls with
  pc,      \* where the guest is in the kernel
  regs,    \* its registers
  scno,    \* the number of the call the kernel is at
  arg0,    \* the first argument as the kernel saved it
  mode,    \* how the guest was last restarted
  sigsys,  \* the number a SIGSYS is to be delivered for (si_syscall), or "none"
  t,       \* the tracee: what the tracer knows of the guest
  found,   \* seccomp_detected, seccomp_after_ptrace_enter
  call, done, out,             \* the guest's view: call, kernel calls made, result
  sent, pend, got, crowded,    \* signals sent, pending, delivered; two met in a chain
  undone   \* ghost: the result that a refused void took back for good, or "none"

kern == <<kernel, pc, regs, scno, arg0, mode, sigsys>>
view == <<call, done, out, undone>>
sigs == <<sent, pend, got, crowded>>
vars == <<kern, t, found, view, sigs>>

(* Calls by what the tracer does about them. The numbers are only names:        *)
(*  read    nothing            open    a path, translated at enter             *)
(*  openp   same, and the exit is wanted too (sysexit_pending)                 *)
(*  stat    path at enter, result at exit     bad   its path does not translate*)
(*  mount   answered at enter, voided         time  on the "SVC" list          *)
(*  accept4 replaced by accept, then fcntl    wait  voided, redone after exit  *)
(*  ptrace  PTRACE_TRACEME: voided, answered at exit                           *)
(*  old     refused by an outer filter, redone as open                         *)
(*  setgid  refused by an outer filter, answered in the SIGSYS handler         *)
Filtered == {"open", "openp", "stat", "bad", "mount", "accept4", "wait", "ptrace", "old"}
SysExit  == {"stat", "accept4", "wait", "ptrace"}      \* FILTER_SYSEXIT
Trapped  == {"old", "setgid"}
Moved    == {"open", "openp", "stat", "old"}           \* has a path argument

Plan(c) == CASE c \in {"bad", "mount", "ptrace", "setgid"} -> <<>>
             [] c = "accept4" -> <<"accept", "fcntl">>
             [] c = "old" -> <<"open">>
             [] OTHER -> <<c>>
Result(c) == CASE c = "bad" -> "err"
               [] c \in {"mount", "ptrace", "setgid"} -> "emu"
               [] c = "stat" -> "fix"
               [] OTHER -> "ok"

Regs(n) == [nr |-> n, x0 |-> "guest", args |-> "guest", sp |-> "guest", ip |-> "next"]

Init ==
  /\ kernel \in [new : BOOLEAN, filter : BOOLEAN, setnr : BOOLEAN, quiet : BOOLEAN,
                strict : BOOLEAN]
  /\ pc = "user" /\ regs = Regs("read") /\ scno = "read" /\ arg0 = "guest"
  /\ mode = "SYSCALL" /\ sigsys = "none"
  /\ t = [status |-> 0, restart |-> "none", last |-> "SYSCALL", seccomp |-> "DISABLED",
          pending |-> FALSE, already |-> FALSE, voided |-> FALSE, ror |-> FALSE,
          after |-> FALSE, sys1 |-> FALSE, chain |-> FALSE, queue |-> <<>>,
          force |-> "none", wa |-> "INACTIVE", supp |-> 0, changed |-> FALSE,
          orig |-> Regs("read"), mod |-> Regs("read"), rew |-> Regs("read")]
  /\ found = [on |-> FALSE, after |-> FALSE]
  /\ call = "none" /\ done = <<>> /\ out = "none" /\ undone = "none"
  /\ sent = 0 /\ pend = {} /\ got = {} /\ crowded = FALSE

-------------------------------------------------------------------------------
(* Registers. A world w is [t, cur, regs, scno]: the tracee, the copy of the    *)
(* registers the tracer works on, and what the guest has.                      *)

poke_reg(w, r) == [w EXCEPT !.cur = r, !.t.changed = @ \/ r # w.cur]
save_original(w) == [w EXCEPT !.t.orig = w.cur, !.t.changed = FALSE]

Kept(w) == ~w.t.changed /\ ~(w.t.ror /\ w.t.after)
PushFails(w, number) == ~Kept(w) /\ number /\ w.cur.nr # w.t.orig.nr /\ ~kernel.setnr

Restored(w) == LET from == IF w.t.after THEN w.t.rew ELSE w.t.orig
               IN  [from EXCEPT !.x0 = w.cur.x0, !.ip = w.cur.ip]

push_specific_regs(w, number) ==
  IF Kept(w) \/ PushFails(w, number) THEN w
  ELSE LET c == IF w.t.ror THEN Restored(w) ELSE w.cur
       IN  [w EXCEPT !.cur = c, !.regs = c, !.t.after = @ /\ ~w.t.ror,
                     !.scno = IF number /\ c.nr # w.t.orig.nr THEN c.nr ELSE @]

-------------------------------------------------------------------------------
(* The stages of a call.                                                       *)

Chain(w, r) == [w EXCEPT !.t.chain = TRUE, !.t.queue = Append(@, r)]

chain_next_syscall(w) ==
  IF w.t.queue = <<>>
  THEN LET u == [w EXCEPT !.t.chain = FALSE, !.t.force = "none"]
       IN  IF w.t.force = "none" THEN u ELSE poke_reg(u, [u.cur EXCEPT !.x0 = w.t.force])
  ELSE LET r == Head(w.t.queue)
       IN  poke_reg([w EXCEPT !.t.ror = FALSE, !.t.queue = Tail(@), !.t.restart = "SYSCALL"],
                    [w.cur EXCEPT !.nr = r.nr, !.x0 = r.x0, !.args = r.args, !.ip = "trap"])

restart_original_syscall(w) == Chain(w, w.t.orig)

(* The cases of translate_syscall_enter(), one per kind of call.                *)
EnterFails(w) == w.t.orig.nr = "bad"
translate_syscall_enter(w) ==
  CASE w.t.orig.nr \in {"open", "old"} ->
         poke_reg(w, [w.cur EXCEPT !.args = "host", !.sp = "low"])
    [] w.t.orig.nr = "openp" ->
         poke_reg([w EXCEPT !.t.pending = TRUE, !.t.restart = "SYSCALL"],
                  [w.cur EXCEPT !.args = "host", !.sp = "low"])
    [] w.t.orig.nr = "stat" -> poke_reg(w, [w.cur EXCEPT !.x0 = "host", !.args = "host", !.sp = "low"])
    [] w.t.orig.nr = "bad" -> poke_reg(w, [w.cur EXCEPT !.sp = "low"])
    [] w.t.orig.nr = "mount" -> poke_reg(w, [w.cur EXCEPT !.nr = "void", !.x0 = "emu"])
    [] w.t.orig.nr \in {"wait", "ptrace"} -> poke_reg(w, [w.cur EXCEPT !.nr = "void"])
    [] w.t.orig.nr = "accept4" -> poke_reg(w, [w.cur EXCEPT !.nr = "accept"])
    [] OTHER -> w

(* The same for translate_syscall_exit().                                      *)
ExitCase(w) ==
  CASE w.t.orig.nr = "stat" /\ w.cur.x0 = "ok" -> poke_reg(w, [w.cur EXCEPT !.x0 = "fix"])
    [] w.t.orig.nr = "accept4" /\ w.t.mod.nr = "accept" /\ w.cur.x0 = "ok" ->
         Chain([w EXCEPT !.t.force = w.cur.x0], [w.t.orig EXCEPT !.nr = "fcntl", !.args = "chain"])
    [] w.t.orig.nr = "wait" -> restart_original_syscall(w)
    [] w.t.orig.nr = "ptrace" ->
         poke_reg([w EXCEPT !.t.seccomp = IF @ = "ENABLED" THEN "DISABLING" ELSE @],
                  [w.cur EXCEPT !.x0 = "emu"])
    [] OTHER -> w

translate_syscall_exit(w) ==
  IF w.t.status < 0 THEN poke_reg(w, [w.cur EXCEPT !.x0 = "err"])
  ELSE IF w.t.mod.nr = "void" /\ w.t.orig.nr # "void"
  THEN ExitCase(poke_reg(w, [w.cur EXCEPT !.x0 = w.t.mod.x0]))
  ELSE ExitCase(w)

(* arm64_svc_direct(): the answer is computed, the call voided, and both        *)
(* versions of the registers saved, so nothing of it is ever written back.      *)
SvcDirect(w) ==
  LET v == save_original(poke_reg(w, [w.cur EXCEPT !.nr = "void", !.x0 = "svc"]))
  IN  [v EXCEPT !.t.mod = v.cur]

(* The enter stage up to the choice of its status.                             *)
save_modified(w) == [w EXCEPT !.t.mod = w.cur]
Chosen(m) ==
  IF EnterFails(m)
  THEN [poke_reg(m, [m.cur EXCEPT !.nr = "void", !.x0 = "err"]) EXCEPT !.t.status = 0 - 1]
  ELSE [m EXCEPT !.t.status = 1]
Translated(w) ==
  IF w.t.chain THEN [w EXCEPT !.t.restart = "SYSCALL", !.t.status = 1]
  ELSE IF w.cur.nr = "time" THEN [SvcDirect(w) EXCEPT !.t.status = 1]
  ELSE Chosen(save_modified(translate_syscall_enter(save_original(w))))
Entered(w) == Translated([w EXCEPT !.t.ror = FALSE, !.t.voided = FALSE])

(* A mistake: the stack pointer stays where the strings were put.              *)
Detached_KeepStack(w) == IF w.t.restart # "CONT" THEN w ELSE [w EXCEPT !.t.status = 0]

(* No exit stop will follow: the stage ends here, the stack is given back.      *)
Detached(w) ==
  IF w.t.restart # "CONT" THEN w
  ELSE poke_reg([w EXCEPT !.t.status = 0], [w.cur EXCEPT !.sp = w.t.orig.sp])

(* The number could not be written: the kernel is made to fail the call it has, *)
(* and the wanted one is put in a chain, or its exit is asked for.              *)
Workaround(w, suppressed) ==
  LET c == IF w.cur.nr # "void"
           THEN Chain([w EXCEPT !.t.wa = "FAULTY"], w.cur)
           ELSE IF suppressed # 0
           THEN [w EXCEPT !.t.status = suppressed, !.t.restart = "SYSCALL"]
           ELSE w
  IN  push_specific_regs(poke_reg(c, [w.cur EXCEPT !.x0 = "bad", !.args = "bad"]), FALSE)

(* The registers are written; what was the status if no exit stop was wanted.   *)
Written(w, status) ==
  IF PushFails(w, ~w.t.chain)
  THEN [Workaround(w, IF w.t.restart = "CONT" THEN status ELSE 0) EXCEPT !.t.voided = FALSE]
  ELSE [push_specific_regs(w, ~w.t.chain) EXCEPT
          !.t.voided = ~w.t.chain /\ w.cur.nr = "void" /\ w.t.orig.nr # "void"]

EnterEnds(w) == Written(Detached(w), w.t.status)
EnterStage(w) == EnterEnds(Entered(w))

ExitStage(w0) ==
  LET w == [w0 EXCEPT !.t.ror = TRUE]
      x == IF ~w.t.chain \/ w.t.wa = "REPLACED"
           THEN translate_syscall_exit([w EXCEPT !.t.wa = "INACTIVE"])
           ELSE IF w.t.wa = "FAULTY" THEN [w EXCEPT !.t.wa = "REPLACED"] ELSE w
      s == [x EXCEPT !.t.status = 0]
  IN  push_specific_regs(IF s.t.chain THEN chain_next_syscall(s) ELSE s, FALSE)

IS_IN_SYSENTER(w) == w.t.status = 0

translate_syscall(w) == IF IS_IN_SYSENTER(w) THEN EnterStage(w) ELSE ExitStage(w)

-------------------------------------------------------------------------------
(* handle_tracee_event(): the cases of a stop. Each gives the next world and   *)
(* the signal to restart with.                                                 *)

Fetched == [t |-> t, cur |-> regs, regs |-> regs, scno |-> scno]

SysexitNecessary(u) == u.pending \/ u.chain \/ u.after

WithDefault(w) ==
  [w EXCEPT !.t.restart =
     IF @ # "none" THEN @
     ELSE IF w.t.seccomp = "ENABLED" /\ ~SysexitNecessary(w.t) THEN "CONT" ELSE "SYSCALL"]

(* A mistake: a suppressed signal is only given back in the enter stage.        *)
Redelivered_AtEnter(w) == IF w.t.supp # 0 /\ w.t.status = 1 /\ ~w.t.chain THEN w.t.supp ELSE 0

Redelivered(w) == IF w.t.supp # 0 /\ ~w.t.chain /\ ~w.t.after THEN w.t.supp ELSE 0

SettleDisabling(w) == IF w.t.seccomp # "DISABLING" THEN w
                      ELSE [w EXCEPT !.t.restart = "SYSCALL", !.t.seccomp = "DISABLED"]

(* SIGTRAP | 0x80                                                              *)
ByStage(w) ==
  IF w.t.seccomp # "ENABLED" THEN w
  ELSE [w EXCEPT !.t.restart = IF IS_IN_SYSENTER(w) THEN "SYSCALL" ELSE "CONT",
                 !.t.pending = IS_IN_SYSENTER(w)]

StageDone(w) ==
  [w |-> SettleDisabling([w EXCEPT !.t.supp = IF Redelivered(w) # 0 THEN 0 ELSE @]),
   sig |-> Redelivered(w)]

StageOf(w) ==
  IF w.t.seccomp = "DISABLING"
  THEN [w |-> [w EXCEPT !.t.seccomp = "DISABLED", !.t.status = IF IS_IN_SYSENTER(w) THEN 1 ELSE @],
        sig |-> 0]
  ELSE IF w.t.already
  THEN [w |-> SettleDisabling([w EXCEPT !.t.already = FALSE, !.t.restart = "SYSCALL"]), sig |-> 0]
  ELSE StageDone(translate_syscall(w))

SyscallStop == StageOf(ByStage(WithDefault(Fetched)))

(* A mistake: the enter stop that follows an event is handled once more.       *)
SeccompEvent_Twice(f) ==
  LET w0 == WithDefault(Fetched)
      w == IF found.on THEN w0 ELSE [w0 EXCEPT !.t.seccomp = "ENABLED"]
      enter == f.after \/ ~(scno \in SysExit \/ SysexitNecessary(t))
  IN  IF w.t.seccomp # "ENABLED" \/ (f.after /\ ~IS_IN_SYSENTER(w)) THEN w
      ELSE IF enter THEN translate_syscall([w EXCEPT !.t.restart = "CONT"])
      ELSE [w EXCEPT !.t.restart = "SYSCALL"]

(* SIGTRAP | PTRACE_EVENT_SECCOMP << 8. f is what is known of the order.        *)
StopsAtExit(w) == [w EXCEPT !.t.restart = IF w.t.seccomp = "DISABLING" THEN "SYSCALL" ELSE @]
EnterFollows(w) ==
  [w EXCEPT !.t.already = @ \/ (~found.after /\ w.t.restart = "SYSCALL" /\ ~w.t.voided)]

SeccompStage(f, w) ==
  IF f.after /\ ~IS_IN_SYSENTER(w) THEN [w EXCEPT !.t.restart = w.t.last]
  ELSE IF w.t.seccomp # "ENABLED" THEN w
  ELSE IF scno \in SysExit \/ SysexitNecessary(t)
  THEN LET s == [w EXCEPT !.t.restart = "SYSCALL"]
       IN  [(IF f.after THEN translate_syscall(s) ELSE s) EXCEPT !.t.restart = "SYSCALL"]
  ELSE EnterFollows(StopsAtExit(translate_syscall([w EXCEPT !.t.restart = "CONT"])))

SeccompEvent(f) ==
  SeccompStage(f, [WithDefault(Fetched) EXCEPT !.t.seccomp = IF found.on THEN @ ELSE "ENABLED"])

(* handle_seccomp_event(): the call an outer filter refused is redone as another *)
(* one, or answered.                                                           *)
restart_syscall_after_seccomp(w) ==
  push_specific_regs(poke_reg([w EXCEPT !.t.after = TRUE, !.t.restart = "SYSCALL"],
                              [w.cur EXCEPT !.ip = "trap"]), FALSE)

(* A mistake: the call is redone under its own number.                         *)
Lowered_Same(w) == restart_syscall_after_seccomp(w)

Lowered(w) == restart_syscall_after_seccomp(poke_reg(w, [w.cur EXCEPT !.nr = "open"]))

set_result_after_seccomp(w, r) == push_specific_regs(poke_reg(w, [w.cur EXCEPT !.x0 = r]), FALSE)

Answered(w) == set_result_after_seccomp(w, "emu")

handle_seccomp_event(w0) ==
  LET w1 == IF w0.t.sys1 /\ w0.t.orig.nr = w0.cur.nr
            THEN poke_reg(w0, [w0.cur EXCEPT !.x0 = w0.t.orig.x0]) ELSE w0
      w == [w1 EXCEPT !.t.sys1 = FALSE, !.t.status = 0, !.t.ror = FALSE, !.t.rew = w1.cur]
  IN  IF w.cur.nr = "old" THEN Lowered(w)
      ELSE IF w.cur.nr = "setgid" THEN Answered(w) ELSE set_result_after_seccomp(w, "enosys")

(* Without an exit stop the exit stage takes place here.                        *)
ExitFromSigsys ==
  LET w == [WithDefault(Fetched) EXCEPT !.t.already = FALSE]
  IN  IF IS_IN_SYSENTER(w) THEN w ELSE [translate_syscall(w) EXCEPT !.t.sys1 = TRUE]

(* A mistake: the SIGSYS for a void is an outer filter's refusal like another.   *)
SigsysStop_NoSkip == LET x == ExitFromSigsys IN handle_seccomp_event([x EXCEPT !.cur = x.regs])

(* SIGSYS: for a call the tracer voided it is thrown away, since the call was     *)
(* answered already.                                                           *)
SigsysStop ==
  LET x == ExitFromSigsys
  IN  IF sigsys = "void" THEN [x EXCEPT !.t.sys1 = FALSE]
      ELSE handle_seccomp_event([x EXCEPT !.cur = x.regs])

(* Any other signal.                                                           *)
SignalStop(n) ==
  LET w == WithDefault(Fetched)
  IN  IF w.t.chain \/ w.t.after THEN [w |-> [w EXCEPT !.t.supp = n], sig |-> 0]
      ELSE [w |-> w, sig |-> n]

(* restart_tracee(): the tracer's part of the world becomes real.               *)
Restart(w) ==
  /\ regs' = w.regs /\ scno' = w.scno
  /\ mode' = w.t.restart
  /\ t' = [w.t EXCEPT !.last = w.t.restart, !.restart = "none"]

-------------------------------------------------------------------------------
(* The kernel, and the stops it reports.                                       *)

Go(p) == pc' = p /\ UNCHANGED <<kernel, regs, scno, arg0, mode, sigsys, t, found, view, sigs>>

AtEntry == IF kernel.new THEN (IF mode = "SYSCALL" THEN "enterStop" ELSE "filter") ELSE "filter"
AfterEvent(m, n) == IF n = "void" THEN "leave"
                    ELSE IF ~kernel.new /\ m = "SYSCALL" THEN "enterStop" ELSE "run"

(* Not modelled: PTRACE_TRACEME where its void is refused and no exit stop follows.  *)
(* The exit stage then takes place in the SIGSYS stop, which leaves seccomp         *)
(* DISABLING for a later call to trip over.                                      *)
Unsettled(c) == c = "ptrace" /\ kernel.strict /\ kernel.quiet

GuestCall(c) ==
  /\ pc = "user" /\ call = "none" /\ ~Unsettled(c)
  /\ regs' = Regs(c) /\ scno' = c /\ arg0' = "guest" /\ pc' = AtEntry
  /\ call' = c /\ done' = <<>> /\ out' = "none" /\ undone' = "none"
  /\ UNCHANGED <<kernel, mode, sigsys, t, found, sigs>>

(* The tracer moved the instruction pointer back: the guest calls again.       *)
Again ==
  /\ pc = "user" /\ call # "none" /\ regs.ip = "trap"
  /\ regs' = [regs EXCEPT !.ip = "next"] /\ scno' = regs.nr /\ arg0' = regs.x0 /\ pc' = AtEntry
  /\ UNCHANGED <<kernel, mode, sigsys, t, found, view, sigs>>

Return ==
  /\ pc = "user" /\ call # "none" /\ regs.ip = "next"
  /\ call' = "none" /\ done' = <<>> /\ out' = regs.x0
  /\ UNCHANGED <<kern, t, found, undone, sigs>>

(* SECCOMP_RET_TRAP: the call is skipped, and its first argument put back.       *)
Refuses(n) == n \in Trapped \/ (n = "void" /\ kernel.strict)
AfterRefusal(m) == IF m = "SYSCALL" /\ ~kernel.quiet THEN "exitStop" ELSE "ret"

Filter ==
  /\ pc = "filter"
  /\ IF Refuses(scno)
     THEN pc' = AfterRefusal(mode) /\ sigsys' = scno /\ regs' = [regs EXCEPT !.x0 = arg0]
     ELSE /\ pc' = IF kernel.filter /\ scno \in Filtered THEN "eventStop"
                   ELSE AfterEvent(mode, scno)
          /\ UNCHANGED <<regs, sigsys>>
  /\ UNCHANGED <<kernel, scno, arg0, mode, t, found, view, sigs>>

EnterStop ==
  /\ pc = "enterStop"
  /\ \E r \in {SyscallStop} :
     /\ Restart(r.w)
     /\ pc' = IF kernel.new THEN "filter" ELSE IF r.w.scno = "void" THEN "leave" ELSE "run"
     /\ pend' = IF r.sig = 0 THEN pend ELSE pend \cup {r.sig}
  /\ UNCHANGED <<kernel, arg0, sigsys, found, view, sent, got, crowded>>

(* The filters may be asked again after an event (not by Linux for -1, but by the  *)
(* kernels of event.c:810). Whether that puts the argument back is not known: if it *)
(* does, and no exit stage is to come, the result that was set is lost.           *)
EventStop ==
  /\ pc = "eventStop"
  /\ found' = IF found.on THEN found ELSE [on |-> TRUE, after |-> t.status # 0]
  /\ \E w \in {SeccompEvent(found')} :
       \/ Restart(w) /\ pc' = AfterEvent(w.t.restart, w.scno) /\ UNCHANGED <<sigsys, undone>>
       \/ /\ kernel.strict /\ w.scno = "void" /\ sigsys' = "void" /\ pc' = AfterRefusal(w.t.restart)
          /\ \/ Restart(w) /\ UNCHANGED undone
             \/ /\ Restart([w EXCEPT !.regs.x0 = arg0])
                /\ undone' = IF IS_IN_SYSENTER(w) THEN w.regs.x0 ELSE undone
  /\ UNCHANGED <<kernel, arg0, call, done, out, sigs>>

(* Whether the kernel does what was meant: a path must have been translated,   *)
(* and a call that was given impossible arguments does nothing.                *)
Executed(n, r) == IF r.args = "bad" THEN <<>>
                  ELSE IF n \in Moved /\ r.args # "host" THEN <<"untranslated">> ELSE <<n>>

Run ==
  /\ pc = "run"
  /\ done' = done \o Executed(scno, regs)
  /\ regs' = [regs EXCEPT !.x0 = IF regs.args = "bad" THEN "kerr" ELSE "ok"]
  /\ pc' = "leave"
  /\ UNCHANGED <<kernel, scno, arg0, mode, sigsys, t, found, call, out, undone, sigs>>

Leave == pc = "leave" /\ Go(IF mode = "SYSCALL" THEN "exitStop" ELSE "ret")

ExitStop ==
  /\ pc = "exitStop"
  /\ \E r \in {SyscallStop} :
     /\ Restart(r.w)
     /\ pend' = IF r.sig = 0 THEN pend ELSE pend \cup {r.sig}
  /\ pc' = "ret"
  /\ UNCHANGED <<kernel, arg0, sigsys, found, view, sent, got, crowded>>

DeliverSigsys ==
  /\ pc = "ret" /\ sigsys # "none"
  /\ Restart(SigsysStop)
  /\ sigsys' = "none"
  /\ UNCHANGED <<kernel, pc, arg0, found, view, sigs>>

DeliverSignal(n) ==
  /\ pc = "ret" /\ sigsys = "none" /\ n \in pend
  /\ \E r \in {SignalStop(n)} :
     /\ Restart(r.w)
     /\ got' = IF r.sig = 0 THEN got ELSE got \cup {n}
     /\ crowded' = (crowded \/ (r.sig = 0 /\ t.supp # 0))
  /\ pend' = pend \ {n}
  /\ UNCHANGED <<kernel, pc, arg0, sigsys, found, view, sent>>

ToUser == pc = "ret" /\ sigsys = "none" /\ pend = {} /\ Go("user")

(* A signal is only looked at on the way back to the guest, so it may as well   *)
(* arrive there.                                                               *)
SendSignal ==
  /\ sent < MaxSig /\ pc = "ret"
  /\ sent' = sent + 1 /\ pend' = pend \cup {sent + 1}
  /\ UNCHANGED <<kern, t, found, view, got, crowded>>

Kernel == Again \/ Filter \/ EnterStop \/ EventStop \/ Run \/ Leave \/ ExitStop
          \/ DeliverSigsys \/ (\E n \in 1 .. MaxSig : DeliverSignal(n)) \/ ToUser \/ Return

Next == (\E c \in Calls : GuestCall(c)) \/ Kernel \/ SendSignal

(* Weak fairness of Kernel, which is enabled exactly when the guest is in a call *)
(* (spelled out because ENABLED of these nested definitions is slow to compute): *)
(* the kernel goes on with a guest that the tracer restarted, and event_loop()   *)
(* handles every stop.                                                           *)
Fairness == []<>(pc = "user" /\ call = "none") \/ []<><<Kernel>>_vars

Spec == Init /\ [][Next]_vars /\ Fairness

-------------------------------------------------------------------------------
(* The guest gets what it was promised: the kernel made the calls of the plan   *)
(* in order, once each and with translated paths, before the call returned the *)
(* right result, whatever stops, restarts and chains were needed (event.c,     *)
(* syscall.c, chain.c, tracee/seccomp.c). Excepted is the result a kernel took  *)
(* back that refuses a void after an event, with no exit stop to set it again.  *)
Abs == INSTANCE GuestCalls WITH out <- IF call = "none" /\ undone # "none" THEN undone ELSE out
Implements == Abs!Spec

Returned == pc = "user" /\ regs.ip = "next"

(* When a call returns, no stage of it is open and the stack is the guest's; if *)
(* it passed the exit stage its other registers are too. (One that did not,     *)
(* because no exit stop was asked for, keeps the number and the arguments that *)
(* the enter stage wrote: only the stack pointer is repaired, syscall.c:342.)   *)
Settled == Returned =>
  /\ t.status = 0 /\ ~t.chain /\ ~t.after /\ t.queue = <<>> /\ t.force = "none"
  /\ regs.sp = "guest"
  /\ call # "none" /\ t.ror => regs.nr = call /\ regs.args = "guest"

(* No signal is lost to a chain of calls: one that was held back is delivered   *)
(* before the call returns. (chain.suppressed_signal holds one: of two that    *)
(* arrive in one chain the first is lost, `crowded`.)                          *)
SignalsArrive == Returned => t.supp = 0 /\ (~crowded => got \cup pend = 1 .. sent)

(* Every call returns: no chain, restart or refused call goes on for ever.     *)
CallsReturn == call # "none" ~> call = "none"

===============================================================================
