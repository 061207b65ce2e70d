--------------------------- MODULE PtraceEmulation ---------------------------
(***************************************************************************)
(* ptrace(2) and wait(2) as the tracer emulates them for its guests        *)
(* (src/src/ptrace/ptrace.c, src/src/ptrace/wait.c, remove_tracee() and    *)
(* free_terminated_tracees() of src/src/tracee/tracee.c).                  *)
(*                                                                         *)
(* A guest that debugs another guest cannot really attach to it: the       *)
(* kernel allows one ptracer and that is the tracer.  So a ptracee's       *)
(* events are offered to its (emulated) ptracer first, a wait() for a      *)
(* ptracee is turned into a void system call whose result is made up when  *)
(* it returns, and a ptracer that finds no event is left stopped until     *)
(* one of its ptracees produces one.                                       *)
(*                                                                         *)
(* k[p] is the kernel's view of process p, t[p] its Tracee.  The handlers  *)
(* call one another, so they are written as operators from a world         *)
(* [k, t, crashed] to the world they leave.                                *)
(***************************************************************************)
EXTENDS Naturals, FiniteSets

CONSTANTS
    P,           \* the guest processes, all configured and running
    Parent,      \* the process each one was forked by, or None
    None,        \* no process
    AnyPid,      \* the pid -1 of wait()
    Scripts,     \* what the guests do: the calls each one may make, and how many
    MaxSignals,  \* how many signals the guests receive
    MaxBatch     \* MAX_BATCH_TRACEES, MAX_FREE_BATCH (256): tracees handled when one is freed

ASSUME ParentAssumption == Parent \in [P -> P \cup {None}] /\ \A p \in P : Parent[p] # p
ASSUME NoneAssumption == None \notin P /\ AnyPid \notin P /\ None # AnyPid
ASSUME BoundAssumption == MaxSignals \in Nat /\ MaxBatch \in Nat

VARIABLES
    k,        \* kernel: st, ev, reported, call, void, stopsig, kres
    t,        \* the Tracee structures
    waited,   \* dead processes their parent has collected from the kernel
    crashed,  \* the tracer dereferenced a null pointer
    script,   \* the script of this behaviour, with what is left of it
    nsig

vars == <<k, t, waited, crashed, script, nsig>>

W == [k |-> k, t |-> t, crashed |-> crashed]

Become(w) == k' = w.k /\ t' = w.t /\ crashed' = w.crashed

NoCall == [op |-> "plain", arg |-> None]
Calls  == {NoCall, [op |-> "TRACEME", arg |-> None]}
            \cup [op : {"wait", "waitnohang"}, arg : P \cup {AnyPid}]
            \cup [op : {"ATTACH", "CONT", "SYSCALL", "DETACH"}, arg : P]

ASSUME ScriptsAssumption == Scripts \subseteq [P -> [may : SUBSET Calls, left : Nat]]

IsWait(c) == c.op \in {"wait", "waitnohang"}

SyscallStops == {"ENTER", "LEAVE"}

\* The as_ptracee part of a Tracee as attach_to_ptracer() leaves it.
Unattached == [ptracer |-> None, proot |-> FALSE, pval |-> "none", ptr |-> FALSE,
               tval |-> "none", started |-> FALSE, ignore |-> FALSE]

NewTracee(par) ==
    [listed |-> TRUE, terminated |-> FALSE, running |-> TRUE, parent |-> par,
     status |-> "enter", sigstop |-> "ALLOWED", chain |-> "none",
     as_ptracee |-> Unattached,
     nb_ptracees |-> 0, zombies |-> {}, wait_pid |-> None, waits_in |-> "DOESNT_WAIT"]

Init ==
    /\ k = [p \in P |-> [st |-> "run", ev |-> "none", reported |-> TRUE, call |-> NoCall,
                         void |-> FALSE, stopsig |-> FALSE, kres |-> None]]
    /\ t = [p \in P |-> NewTracee(Parent[p])]
    /\ waited = {}
    /\ crashed = FALSE
    /\ script \in Scripts
    /\ nsig = 0

-----------------------------------------------------------------------------
(* ptrace.c, attaching and detaching.                                      *)

attach_to_ptracer(w, q, p) ==
    [w EXCEPT !.t[q].as_ptracee = [Unattached EXCEPT !.ptracer = p],
              !.t[p].nb_ptracees = @ + 1]

\* A detachment that is not counted.
detach_from_ptracer_NoCount(w, q) ==
    [w EXCEPT !.t[q].as_ptracee.ptracer = None]

detach_from_ptracer(w, q) ==
    [w EXCEPT !.t[q].as_ptracee.ptracer = None,
              !.t[w.t[q].as_ptracee.ptracer].nb_ptracees = @ - 1]

-----------------------------------------------------------------------------
(* event.c: restart_tracee().                                              *)

\* A restart that forgets that the tracee waits for its ptracees.
Restartable_Waiting(w, p) ==
    ~w.t[p].terminated /\ w.k[p].st = "stop"

\* A restart that waits until the SIGSTOP to be ignored has come.
Restartable_Ignoring(w, p) ==
    /\ ~w.t[p].terminated /\ w.t[p].wait_pid = None /\ w.k[p].st = "stop"
    /\ w.t[p].sigstop # "IGNORED"

Restartable(w, p) ==
    ~w.t[p].terminated /\ w.t[p].wait_pid = None /\ w.k[p].st = "stop"

\* Where a restarted process goes: into the system call it was entering (a
\* void one returns at once), back into the call its chain repeats, or on.
Resumed(w, p) ==
    IF w.k[p].ev = "ENTER"
      THEN IF IsWait(w.k[p].call) /\ ~w.k[p].void THEN "kwait" ELSE "insys"
      ELSE IF w.k[p].ev = "LEAVE" /\ w.t[p].chain = "queued" THEN "kwait" ELSE "run"

restart_tracee(w, p) ==
    IF Restartable(w, p)
      THEN [w EXCEPT !.k[p].st = Resumed(w, p),
                     !.t[p].running = TRUE,
                     !.t[p].chain = IF @ = "queued" THEN "running" ELSE @]
      ELSE w

-----------------------------------------------------------------------------
(* wait.c.                                                                 *)

translate_wait_enter(w, p) ==
    LET a == w.k[p].call.arg
        emulated == /\ w.t[p].nb_ptracees # 0
                    /\ a # AnyPid => w.t[a].listed /\ w.t[a].as_ptracee.ptracer = p
    IN  [w EXCEPT !.t[p].waits_in = IF emulated THEN "WAITS_IN_PROOT" ELSE "WAITS_IN_KERNEL",
                  !.k[p].void = emulated]

Expects(a, q) == a = AnyPid \/ a = q

\* get_ptracee(): the zombies first, then the list.
Zombies(w, p, a) == {z \in w.t[p].zombies : Expects(a, z.pid)}
Stopped(w, p, a, pend) ==
    {q \in P : /\ w.t[q].listed /\ w.t[q].as_ptracee.ptracer = p /\ Expects(a, q)
               /\ ~w.t[q].running
               /\ pend => w.t[q].as_ptracee.ptr}

\* update_wait_status() for a zombie z of p, and for a listed ptracee q.  The
\* end of a ptracee whose ptracer is its parent is not emulated: the wait is
\* restarted in the kernel, which has the same status for the parent.
restart_original_syscall(w, p) ==
    [w EXCEPT !.t[p].chain = "queued", !.t[p].status = "exit"]

update_wait_status_zombie(w, p, z) ==
    LET w1 == [w EXCEPT !.t[p].zombies = @ \ {z}, !.t[p].nb_ptracees = @ - 1]
    IN  IF z.own THEN restart_original_syscall(w1, p) ELSE w1

update_wait_status(w, p, q) ==
    IF w.t[q].parent = p /\ w.t[q].as_ptracee.tval = "DIED"
      THEN detach_from_ptracer(restart_original_syscall(w, p), q)
      ELSE [w EXCEPT !.t[q].as_ptracee.ptr = FALSE]

translate_wait_exit(w, p) ==
    LET c == w.k[p].call
        w1 == [w EXCEPT !.t[p].waits_in = "DOESNT_WAIT"]
        zs == Zombies(w, p, c.arg)
        qs == Stopped(w, p, c.arg, TRUE)
    IN  IF zs # {} THEN update_wait_status_zombie(w1, p, CHOOSE z \in zs : TRUE)
        ELSE IF qs # {} THEN update_wait_status(w1, p, CHOOSE q \in qs : TRUE)
        ELSE IF w.t[p].nb_ptracees = 0 \/ c.op = "waitnohang" THEN w1
        ELSE [w1 EXCEPT !.t[p].wait_pid = c.arg]

-----------------------------------------------------------------------------
(* ptrace.c: the requests, and event.c: handle_tracee_event().             *)

TraceMe(w, q) ==
    LET p == w.t[q].parent IN
    IF w.t[q].as_ptracee.ptracer # None THEN w            \* -EPERM
    ELSE IF p = None THEN [w EXCEPT !.crashed = TRUE]     \* PTRACER is a null pointer
    ELSE LET w1 == attach_to_ptracer(w, q, p) IN
         IF w1.t[p].waits_in = "WAITS_IN_KERNEL" /\ w1.k[p].st # "gone"
           THEN [w1 EXCEPT !.k[p].stopsig = TRUE,
                           !.t[p].sigstop = "IGNORED",
                           !.t[p].waits_in = "WAITS_IN_PROOT"]
           ELSE w1

Attach(w, p, q) ==
    IF ~w.t[q].listed \/ w.t[q].as_ptracee.ptracer # None \/ q = p THEN w
    ELSE [attach_to_ptracer(w, q, p) EXCEPT !.k[q].stopsig = TRUE]

\* The enter stage of a system call.
HandleEnter(w, p) ==
    LET w1 == [w EXCEPT !.t[p].status = "exit"] IN
    IF IsWait(w.k[p].call) THEN translate_wait_enter(w1, p)
    ELSE [w1 EXCEPT !.k[p].void = (w.k[p].call # NoCall)]

HandleSigstop(w, p) ==
    [w EXCEPT !.t[p].sigstop = IF @ = "IGNORED" THEN "ALLOWED" ELSE @]

\* An event that was held for the ptracer of q: a system call about to be
\* entered, or a signal.
HandleHeldEvent(w, q, ev) ==
    LET w1 == [w EXCEPT !.t[q].as_ptracee.proot = FALSE] IN
    CASE ev \in SyscallStops -> HandleEnter(w1, q)
      [] ev = "SIGSTOP"      -> HandleSigstop(w1, q)
      [] OTHER               -> w1

\* The event held for the ptracer is forgotten.
AfterHold_Nothing(w, q) == w

\* The event held for the ptracer is handled when it resumes its ptracee.
AfterHold(w, q) ==
    LET e == w.t[q].as_ptracee IN IF e.proot THEN HandleHeldEvent(w, q, e.pval) ELSE w

\* PTRACE_CONT, PTRACE_SYSCALL and PTRACE_DETACH.
Resume(w, p, op, q) ==
    IF q \notin Stopped(w, p, q, FALSE) \/ Zombies(w, p, q) # {} THEN w   \* -ESRCH
    ELSE LET w1 == CASE op = "DETACH"  -> detach_from_ptracer(w, q)
                     [] op = "SYSCALL" -> [w EXCEPT !.t[q].as_ptracee.ignore = FALSE]
                     [] op = "CONT"    -> [w EXCEPT !.t[q].as_ptracee.ignore = TRUE]
         IN  restart_tracee(AfterHold(w1, q), q)

translate_ptrace_exit(w, p) ==
    LET c == w.k[p].call IN
    CASE c.op = "TRACEME" -> TraceMe(w, p)
      [] c.op = "ATTACH"  -> Attach(w, p, c.arg)
      [] OTHER            -> Resume(w, p, c.op, c.arg)

\* The exit stage of a system call.
HandleLeave(w, p) ==
    LET c == w.k[p].call
        w1 == [w EXCEPT !.t[p].status = "enter"]
    IN  IF w.t[p].chain = "running" THEN [w1 EXCEPT !.t[p].chain = "none"]
        ELSE IF c = NoCall THEN w1
        ELSE IF IsWait(c)
          THEN IF w.t[p].waits_in = "WAITS_IN_PROOT" THEN translate_wait_exit(w1, p) ELSE w1
        ELSE translate_ptrace_exit(w1, p)

\* Which stage a system call stop belongs to is not in the event: it is what
\* the Tracee's status says.
handle_tracee_event(w, p, ev) ==
    LET w1 == [w EXCEPT !.t[p].as_ptracee.proot = FALSE] IN
    IF ev = "DIED" THEN [w EXCEPT !.t[p].terminated = TRUE]
    ELSE IF ev \in SyscallStops /\ w.t[p].status = "exit" THEN HandleLeave(w1, p)
    ELSE HandleHeldEvent(w, p, ev)

-----------------------------------------------------------------------------
(* wait.c: handle_ptracee_event().                                         *)

\* A ptracer that waits for any of its ptracees is overlooked.
Awaits_Exact(w, p, q) == w.t[p].wait_pid = q

Awaits(w, p, q) == w.t[p].wait_pid # None /\ Expects(w.t[p].wait_pid, q)

\* The ptracer p of q takes the event if it waits for it.
OfferEvent(w, p, q) ==
    LET w1 == [update_wait_status(w, p, q) EXCEPT !.t[p].wait_pid = None]
    IN  IF Awaits(w, p, q)
          THEN [w |-> restart_tracee(w1, p), taken |-> Restartable(w1, p), offered |-> TRUE]
          ELSE [w |-> w, taken |-> FALSE, offered |-> FALSE]

\* The world after the event was offered, and whether q is kept stopped.
handle_ptracee_event(w, q, ev) ==
    LET p  == w.t[q].as_ptracee.ptracer
        e  == w.t[q].as_ptracee
        w1 == [w EXCEPT !.t[q].as_ptracee = [@ EXCEPT !.proot = TRUE, !.pval = ev,
                                                !.started = e.started \/ ev \notin SyscallStops]]
        w2 == IF ev \in SyscallStops /\ w.t[q].status = "exit"   \* handled by PRoot first
                THEN [handle_tracee_event(w1, q, ev) EXCEPT !.t[q].as_ptracee.pval = "none"]
                ELSE w1
        o  == OfferEvent([w2 EXCEPT !.t[q].as_ptracee = [@ EXCEPT !.ptr = TRUE, !.tval = ev]],
                         p, q)
    IN  IF ev \in SyscallStops /\ (e.ignore \/ ~e.started)
          THEN [w |-> w1, keep |-> FALSE]
          ELSE [w |-> o.w, keep |-> ev # "DIED" /\ (o.offered => o.taken)]

-----------------------------------------------------------------------------
(* tracee.c: freeing a terminated tracee.                                  *)

\* What fits into the array a list walk collects tracees in.
Batch(S) ==
    IF Cardinality(S) <= MaxBatch THEN S
    ELSE CHOOSE B \in SUBSET S : Cardinality(B) = MaxBatch

\* free_terminated_tracees() detaches the ptracees of p before it frees p ...
DetachPtracees(w, p) ==
    LET B == Batch({q \in P : w.t[q].listed /\ w.t[q].as_ptracee.ptracer = p}) IN
    [w EXCEPT !.t = [q \in P |-> IF q \in B
                                 THEN [w.t[q] EXCEPT !.as_ptracee.ptracer = None]
                                 ELSE w.t[q]]]

\* The children of p keep a pointer to it.
Unlink_KeepParent(w, p) ==
    [w EXCEPT !.t[p] = [@ EXCEPT !.listed = FALSE, !.zombies = {}, !.wait_pid = None,
                                 !.as_ptracee = Unattached]]

\* ... and the destructor remove_tracee() unlinks p, forgets it as a parent,
\* leaves a zombie to the ptracer that has not seen its end, and tells a
\* ptracer that waits for its last ptracee that there is none.
Unlink(w, p) ==
    LET B == Batch({q \in P : w.t[q].listed /\ w.t[q].parent = p}) IN
    [w EXCEPT !.t = [q \in P |-> IF q = p THEN [w.t[p] EXCEPT !.listed = FALSE, !.zombies = {},
                                                              !.wait_pid = None,
                                                              !.as_ptracee = Unattached]
                                 ELSE IF q \in B THEN [w.t[q] EXCEPT !.parent = None]
                                 ELSE w.t[q]]]

LeavePtracer(w, p) ==
    LET m == w.t[p].as_ptracee.ptracer
        e == w.t[p].as_ptracee
        w1 == detach_from_ptracer(w, p)
    IN  IF m = None THEN w
        ELSE IF e.ptr /\ e.tval = "DIED"
          THEN [w EXCEPT !.t[m].zombies = @ \cup {[pid |-> p, own |-> w.t[p].parent = m]}]
        ELSE IF w1.t[m].nb_ptracees = 0 /\ w1.t[m].wait_pid # None
          THEN restart_tracee([w1 EXCEPT !.t[m].wait_pid = None], m)
        ELSE w1

remove_tracee(w, p) == Unlink(LeavePtracer(DetachPtracees(w, p), p), p)

-----------------------------------------------------------------------------
(* The guests and the kernel.                                              *)

\* Guest p makes a system call.
Call(p, c) ==
    /\ ~crashed /\ k[p].st = "run" /\ ~k[p].stopsig /\ script[p].left > 0
    /\ c \in script[p].may
    /\ k' = [k EXCEPT ![p] = [@ EXCEPT !.st = "stop", !.ev = "ENTER", !.reported = FALSE,
                                       !.call = c, !.void = FALSE, !.kres = None]]
    /\ script' = [script EXCEPT ![p].left = @ - 1]
    /\ UNCHANGED <<t, waited, crashed, nsig>>

Leaves(p, res) ==
    k' = [k EXCEPT ![p] = [@ EXCEPT !.st = "stop", !.ev = "LEAVE", !.reported = FALSE,
                                    !.kres = res]]

Return(p) ==
    /\ ~crashed /\ k[p].st = "insys"
    /\ Leaves(p, None)
    /\ UNCHANGED <<t, waited, crashed, script, nsig>>

\* A dead child the kernel can give to its parent p; ptrace hides it until the
\* tracer has collected it.
Collectable(p, a) == {q \in P \ waited : Parent[q] = p /\ Expects(a, q) /\ k[q].st = "gone"}

KernelWait(p) ==
    /\ ~crashed /\ k[p].st = "kwait"
    /\ \/ \E q \in Collectable(p, k[p].call.arg) :
             Leaves(p, q) /\ waited' = waited \cup {q}
       \/ /\ \/ k[p].stopsig                                  \* interrupted
             \/ {q \in P \ waited : Parent[q] = p /\ Expects(k[p].call.arg, q)} = {} \* ECHILD
             \/ k[p].call.op = "waitnohang"
          /\ Leaves(p, None) /\ UNCHANGED waited
    /\ UNCHANGED <<t, crashed, script, nsig>>

TakeStop(p) ==
    /\ ~crashed /\ k[p].st = "run" /\ k[p].stopsig
    /\ k' = [k EXCEPT ![p] = [@ EXCEPT !.st = "stop", !.ev = "SIGSTOP", !.reported = FALSE,
                                       !.stopsig = FALSE]]
    /\ UNCHANGED <<t, waited, crashed, script, nsig>>

Signal(p) ==
    /\ ~crashed /\ k[p].st = "run" /\ nsig < MaxSignals
    /\ k' = [k EXCEPT ![p] = [@ EXCEPT !.st = "stop", !.ev = "SIG", !.reported = FALSE]]
    /\ nsig' = nsig + 1
    /\ UNCHANGED <<t, waited, crashed, script>>

Die(p) ==
    /\ ~crashed /\ k[p].st \notin {"dead", "gone"}
    /\ k' = [k EXCEPT ![p] = [@ EXCEPT !.st = "dead", !.ev = "DIED", !.reported = FALSE]]
    /\ UNCHANGED <<t, waited, crashed, script, nsig>>

-----------------------------------------------------------------------------
(* The event loop.                                                         *)

Free(p) ==
    /\ ~crashed /\ t[p].listed /\ t[p].terminated
    /\ Become(remove_tracee(W, p))
    /\ UNCHANGED <<waited, script, nsig>>

\* waitpid() returns p; its ptracer is offered the event first.
Event(p) ==
    /\ ~crashed /\ \A q \in P : t[q].listed => ~t[q].terminated
    /\ k[p].st \in {"stop", "dead"} /\ ~k[p].reported
    /\ LET ev == k[p].ev
           w0 == [W EXCEPT !.k[p].reported = TRUE,
                           !.k[p].st = IF @ = "dead" THEN "gone" ELSE @,
                           !.t[p].running = FALSE]
           h  == IF t[p].as_ptracee.ptracer = None THEN [w |-> w0, keep |-> FALSE]
                 ELSE handle_ptracee_event(w0, p, ev)
       IN  Become(IF h.keep THEN h.w
                  ELSE restart_tracee(handle_tracee_event(h.w, p, ev), p))
    /\ UNCHANGED <<waited, script, nsig>>

\* Nothing is left to happen.
Quiet ==
    /\ crashed \/ \A p \in P : k[p].st = "gone" /\ ~t[p].listed
    /\ UNCHANGED vars

Next ==
    \/ \E p \in P, c \in Calls : Call(p, c)
    \/ \E p \in P : Return(p) \/ KernelWait(p) \/ TakeStop(p) \/ Signal(p) \/ Die(p)
    \/ \E p \in P : Event(p) \/ Free(p)
    \/ Quiet

Spec == Init /\ [][Next]_vars
-----------------------------------------------------------------------------
(* Properties.                                                             *)

TraceeType ==
    [listed : BOOLEAN, terminated : BOOLEAN, running : BOOLEAN, parent : P \cup {None},
     status : {"enter", "exit"}, sigstop : {"IGNORED", "ALLOWED"},
     chain : {"none", "queued", "running"},
     as_ptracee : [ptracer : P \cup {None}, proot : BOOLEAN,
                   pval : {"none", "ENTER", "LEAVE", "SIG", "SIGSTOP", "DIED"},
                   ptr : BOOLEAN, tval : {"none", "ENTER", "LEAVE", "SIG", "SIGSTOP", "DIED"},
                   started : BOOLEAN, ignore : BOOLEAN],
     nb_ptracees : Nat, zombies : SUBSET [pid : P, own : BOOLEAN],
     wait_pid : P \cup {None, AnyPid},
     waits_in : {"DOESNT_WAIT", "WAITS_IN_KERNEL", "WAITS_IN_PROOT"}]

TypeOK ==
    /\ k \in [P -> [st : {"run", "insys", "kwait", "stop", "dead", "gone"},
                    ev : {"none", "ENTER", "LEAVE", "SIG", "SIGSTOP", "DIED"},
                    reported : BOOLEAN, call : Calls, void : BOOLEAN,
                    stopsig : BOOLEAN, kres : P \cup {None}]]
    /\ t \in [P -> TraceeType]
    /\ waited \subseteq P /\ crashed \in BOOLEAN

Live(p) == t[p].listed /\ ~t[p].terminated

\* nb_ptracees, which decides whether wait() is emulated and whether a waiting
\* ptracer gets ECHILD, counts the attached tracees and the zombies; the
\* assertion of detach_from_ptracer() can never fail.
PtraceesCounted ==
    \A p \in P : t[p].listed =>
        t[p].nb_ptracees = Cardinality({q \in P : t[q].listed /\ t[q].as_ptracee.ptracer = p})
                             + Cardinality(t[p].zombies)

\* A ptracer is left waiting only while none of the ptracees it waits for has an event that
\* it was not told, and while it has ptracees at all.  A ptracee with the mark of an event
\* was just killed, and its end will be told; or it waits itself, and was continued without
\* a wait for the event it had before: update_wait_status() alone takes the mark off.
NoMissedEvent ==
    \A p \in P : Live(p) /\ t[p].wait_pid # None =>
        /\ t[p].nb_ptracees > 0
        /\ Zombies(W, p, t[p].wait_pid) = {}
        /\ \A q \in Stopped(W, p, t[p].wait_pid, TRUE) :
             ~t[q].terminated /\ (k[q].st = "dead" \/ t[q].wait_pid # None)

\* A ptracer that waits is stopped (or was killed), never running.
WaiterIsStopped ==
    \A p \in P : Live(p) /\ t[p].wait_pid # None =>
        k[p].st \in {"stop", "dead"} /\ ~t[p].running

\* A Tracee on the list points to no Tracee that was freed, as long as what has
\* to be corrected when one is freed fits the arrays.
NoDanglingPointer ==
    \A q \in P : t[q].listed =>
        \A p \in {t[q].parent, t[q].as_ptracee.ptracer} \cap P : t[p].listed

NobodyKilled == \A p \in P : k[p].st \notin {"dead", "gone"}

\* Every system call stop is handled once, by the loop, on behalf of the ptracer or when
\* the ptracer resumes its ptracee, so the enter and exit stages keep in step: a guest
\* that executes has tracee.h's status 0, enter.  A ptracer that is killed while it waits
\* for the stop makes the loop handle it twice.
StageAgrees ==
    NobodyKilled => \A p \in P : k[p].st = "run" => t[p].status = "enter"

\* wait.c: "Don't emulate the ptrace mechanism if the requested pid is not a ptracee."
WaitsForPtracee ==
    \A p \in P : Live(p) /\ t[p].wait_pid \in P => t[t[p].wait_pid].as_ptracee.ptracer = p

\* wait.c: "this ptracee should be kept stopped until its ptracer restarts it".  A guest
\* that is stopped when its event has been handled waits, or has a ptracer to restart it;
\* free_terminated_tracees() takes a killed ptracer away from the ptracees it holds.
StoppedForPtracer ==
    NobodyKilled =>
    \A q \in P : Live(q) /\ k[q].st = "stop" /\ k[q].reported /\ t[q].wait_pid = None
                   => t[q].as_ptracee.ptracer # None

\* The records of who traces whom are whole: of their types, with their counts right and
\* without a pointer to a record that was freed (attach_to_ptracer(),
\* detach_from_ptracer(), free_terminated_tracees()).
LinksSound == TypeOK /\ PtraceesCounted /\ NoDanglingPointer

\* Waiting is in step with what is waited for: no event is missed, who waits is stopped,
\* every stop of a guest is handled once, and who stays stopped has somebody to restart it
\* (wait.c, handle_ptracee_event()).
WaitSound == NoMissedEvent /\ WaiterIsStopped /\ StageAgrees /\ StoppedForPtracer
=============================================================================
