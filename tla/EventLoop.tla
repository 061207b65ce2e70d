------------------------------ MODULE EventLoop ------------------------------
(***************************************************************************)
(* The tracer's event loop and its registry of tracees: how a new guest    *)
(* process is met, configured and released, and how processes and the loop *)
(* end (src/src/tracee/event.c, src/src/tracee/tracee.c).                  *)
(*                                                                         *)
(* The kernel reports a fork twice: the child stops on the SIGSTOP of its  *)
(* automatic attachment, and the parent stops on a FORK event that names   *)
(* the child.  The two reports reach waitpid() in either order, and only   *)
(* the second one knows what the child has to inherit.  The loop is one    *)
(* thread; between any two of its steps the kernel may run, stop or kill   *)
(* any guest process.  Emulated ptracers are the subject of                *)
(* PtraceEmulation; here no tracee has one.                                *)
(***************************************************************************)
EXTENDS Integers, FiniteSets

CONSTANTS
    Pid,         \* the process identifiers the kernel can hand out
    Root,        \* the process launch_process() starts (vpid 1)
    NoPid,       \* no process
    Status,      \* the exit statuses a program can return
    MaxSignals,  \* how many signals the guests receive in one behaviour
    MaxQuit,     \* how many SIGQUITs the tracer receives in one behaviour
    KillOnExit,  \* whether --kill-on-exit was given
    MAX_KILL_BATCH  \* how many tracees one kill_all_tracees() kills (512)

ASSUME RootAssumption == Root \in Pid
ASSUME NoPidAssumption == NoPid \notin Pid
ASSUME StatusAssumption == Status \subseteq Nat
ASSUME BoundAssumption == MaxSignals \in Nat /\ MaxQuit \in Nat
ASSUME KillOnExitAssumption == KillOnExit \in BOOLEAN
ASSUME BatchAssumption == MAX_KILL_BATCH \in Nat

VARIABLES
    \* the kernel's view of the guest processes
    kstate,      \* "absent", "running", "stopped" (ptrace-stop), "dead", "reaped"
    kevent,      \* why the process stopped or died
    unreported,  \* the processes whose stop or death waitpid() has not returned
    pendstop,    \* the processes that still have to take their attach SIGSTOP
    forked,      \* the child a FORK event names (PTRACE_GETEVENTMSG)
    xstatus,     \* the exit status of a process that leaves by itself
    nsig,        \* signals sent so far
    nquit,       \* SIGQUITs received so far
    \* the tracer's registry: the list "tracees" and fields of its entries
    tracees, exe, sigstop, running, terminated,
    \* the loop
    pc, cur, curev, root_exited, last_exit_status,
    \* history, read by properties only
    lostFork,    \* children whose FORK event died with their parent
    earlyDeath   \* tracees whose death was handled before they were configured

kernel   == <<kstate, kevent, unreported, pendstop, forked, xstatus, nsig>>
registry == <<tracees, exe, sigstop, running, terminated>>
loop     == <<pc, cur, curev, root_exited, last_exit_status>>
history  == <<lostFork, earlyDeath>>
vars     == <<kernel, registry, loop, history, nquit>>

KStates == {"absent", "running", "stopped", "dead", "reaped"}
Events  == {"none", "SIGSTOP", "SIG", "FORK", "EXIT", "EXITED", "SIGNALED"}
SigStop == {"IGNORED", "ALLOWED", "PENDING"}

Alive == {p \in Pid : kstate[p] \in {"running", "stopped"}}

\* A process executes guest instructions when it runs and owes no SIGSTOP.
Executing(p) == kstate[p] = "running" /\ p \notin pendstop

Signaled == -2   \* the end of a program that left no exit status

Init ==
    /\ kstate = [p \in Pid |-> IF p = Root THEN "running" ELSE "absent"]
    /\ kevent = [p \in Pid |-> "none"]
    /\ unreported = {}
    /\ pendstop = {Root}
    /\ forked = [p \in Pid |-> NoPid]
    /\ xstatus = [p \in Pid |-> Signaled]
    /\ nsig = 0
    /\ nquit = 0
    /\ tracees = {Root}
    /\ exe = {Root}
    /\ sigstop = [p \in Pid |-> "IGNORED"]
    /\ running = [p \in Pid |-> FALSE]
    /\ terminated = {}
    /\ pc = "top"
    /\ cur = NoPid
    /\ curev = "none"
    /\ root_exited = FALSE
    /\ last_exit_status = -1
    /\ lostFork = {}
    /\ earlyDeath = {}

-----------------------------------------------------------------------------
(* The kernel and the guests.                                              *)

Stops(p, ev) ==
    /\ kstate' = [kstate EXCEPT ![p] = "stopped"]
    /\ kevent' = [kevent EXCEPT ![p] = ev]
    /\ unreported' = unreported \cup {p}

\* p calls fork(): p stops on the event, its child q is born attached.
Fork(p, q) ==
    /\ pc # "done" /\ Executing(p) /\ kstate[q] = "absent"
    /\ kstate' = [kstate EXCEPT ![p] = "stopped", ![q] = "running"]
    /\ kevent' = [kevent EXCEPT ![p] = "FORK"]
    /\ unreported' = unreported \cup {p}
    /\ pendstop' = pendstop \cup {q}
    /\ forked' = [forked EXCEPT ![p] = q]
    /\ UNCHANGED <<xstatus, nsig, nquit, registry, loop, history>>

\* The SIGSTOP of the attachment (of kill(getpid(), SIGSTOP) for the root).
AttachStop(p) ==
    /\ pc # "done" /\ kstate[p] = "running" /\ p \in pendstop
    /\ Stops(p, "SIGSTOP")
    /\ pendstop' = pendstop \ {p}
    /\ UNCHANGED <<forked, xstatus, nsig, nquit, registry, loop, history>>

\* Any other signal; it may be dequeued before the attach SIGSTOP.
Signal(p) ==
    /\ pc # "done" /\ kstate[p] = "running" /\ nsig < MaxSignals
    /\ Stops(p, "SIG")
    /\ nsig' = nsig + 1
    /\ UNCHANGED <<pendstop, forked, xstatus, nquit, registry, loop, history>>

\* p calls exit(st): it first stops on the PTRACE_EVENT_EXIT.
Exit(p, st) ==
    /\ pc # "done" /\ Executing(p)
    /\ Stops(p, "EXIT")
    /\ xstatus' = [xstatus EXCEPT ![p] = st]
    /\ UNCHANGED <<pendstop, forked, nsig, nquit, registry, loop, history>>

\* SIGKILL of the processes in K: a ptrace-stop ends, and a FORK event that
\* was not handled yet is gone.
Killed(K) ==
    LET D == K \cap Alive IN
    /\ kstate' = [p \in Pid |-> IF p \in D THEN "dead" ELSE kstate[p]]
    /\ kevent' = [p \in Pid |-> IF p \in D THEN "SIGNALED" ELSE kevent[p]]
    /\ lostFork' = lostFork \cup
         {forked[p] : p \in {r \in D : kstate[r] = "stopped" /\ kevent[r] = "FORK"}}

Kill(p) ==
    /\ pc # "done" /\ p \in Alive
    /\ Killed({p})
    /\ unreported' = unreported \cup {p}
    /\ UNCHANGED <<pendstop, forked, xstatus, nsig, nquit, registry, loop, earlyDeath>>

-----------------------------------------------------------------------------
(* Restarting and killing tracees.                                         *)

\* restart_tracee() of the tracees in S while the event of cur is handled:
\* nothing for one that terminated, and the ptrace request fails for one that
\* is not stopped any more.
restart_tracee(S) ==
    LET R == {p \in S : p \notin terminated /\ kstate[p] = "stopped"}
        X == {p \in R : kevent[p] = "EXIT"}
    IN  /\ kstate' = [p \in Pid |-> IF p \in X THEN "dead"
                                    ELSE IF p \in R THEN "running" ELSE kstate[p]]
        /\ kevent' = [p \in Pid |-> IF p \in X THEN "EXITED" ELSE kevent[p]]
        /\ unreported' = unreported \cup X
        /\ running' = [p \in Pid |-> IF p \in R THEN TRUE
                                     ELSE IF p = cur THEN FALSE ELSE running[p]]

\* The pids kill_all_tracees() may collect from the list L into its array.
KillBatches(L) ==
    IF Cardinality(L) <= MAX_KILL_BATCH THEN {L}
    ELSE {B \in SUBSET L : Cardinality(B) = MAX_KILL_BATCH}

\* A sweep that was forgotten: only the tracees of the list L are killed.
kill_all_tracees_NoSweep(L, D) ==
    /\ Killed(L)
    /\ unreported' = unreported \cup (L \cap Alive)

\* kill_all_tracees() of the tracees in L, then the WNOHANG sweep of
\* waitpid() that detaches and kills whatever else has something to report; D
\* is the part of the former that is already dead when the sweep looks.
kill_all_tracees_safely(L, D) ==
    LET K == L \cap Alive
        S == (unreported \ K) \cup D
    IN  /\ kstate' = [p \in Pid |-> IF p \in S THEN "reaped"
                                    ELSE IF p \in K THEN "dead" ELSE kstate[p]]
        /\ kevent' = [p \in Pid |-> IF p \in K THEN "SIGNALED" ELSE kevent[p]]
        /\ unreported' = (unreported \cup K) \ S
        /\ lostFork' = lostFork \cup
             {forked[p] : p \in {r \in K \cup S : kstate[r] = "stopped" /\ kevent[r] = "FORK"}}

\* The SIGQUIT handler, kill_all_tracees2(): the loop goes on afterwards; an
\* interrupted waitpid() fails with EINTR.
Quit ==
    /\ pc # "done" /\ nquit < MaxQuit
    /\ \E B \in KillBatches(tracees) : \E D \in SUBSET (B \cap Alive) :
          kill_all_tracees_safely(B, D)
    /\ nquit' = nquit + 1
    /\ pc' = IF pc = "wait" THEN "top" ELSE pc
    /\ UNCHANGED <<pendstop, forked, xstatus, nsig, registry, cur, curev,
                   root_exited, last_exit_status, earlyDeath>>

-----------------------------------------------------------------------------
(* One iteration of the loop: "top", "wait", "handle".                     *)

\* A terminated tracee that is left on the list.
free_terminated_tracees_Keep ==
    /\ terminated' = {}
    /\ UNCHANGED <<tracees, exe, sigstop>>

free_terminated_tracees ==
    /\ tracees' = tracees \ terminated
    /\ exe' = exe \ terminated
    /\ sigstop' = [p \in Pid |-> IF p \in terminated THEN "IGNORED" ELSE sigstop[p]]
    /\ terminated' = {}

Top ==
    /\ pc = "top" /\ ~root_exited
    /\ free_terminated_tracees
    /\ pc' = "wait"
    /\ UNCHANGED <<kernel, running, cur, curev, root_exited, last_exit_status,
                   history, nquit>>

\* The first guest program is gone: kill the others and leave the loop.
TopRootExited ==
    /\ pc = "top" /\ root_exited
    /\ free_terminated_tracees
    /\ \E B \in KillBatches(tracees \ terminated) : \E D \in SUBSET (B \cap Alive) :
          kill_all_tracees_safely(B, D)
    /\ pc' = "done"
    /\ UNCHANGED <<pendstop, forked, xstatus, nsig, nquit, running, cur, curev,
                   root_exited, last_exit_status, earlyDeath>>

\* waitpid(-1, &tracee_status, __WALL) returns any process with news.
WaitPid(p) ==
    /\ pc = "wait" /\ p \in unreported
    /\ unreported' = unreported \ {p}
    /\ kstate' = IF kstate[p] = "dead" THEN [kstate EXCEPT ![p] = "reaped"] ELSE kstate
    /\ pc' = "handle" /\ cur' = p /\ curev' = kevent[p]
    /\ UNCHANGED <<kevent, pendstop, forked, xstatus, nsig, nquit, registry,
                   root_exited, last_exit_status, history>>

\* waitpid() fails with ECHILD: nobody is left for kill_all_tracees_safely().
WaitNoChild ==
    /\ pc = "wait" /\ \A p \in Pid : kstate[p] \in {"absent", "reaped"}
    /\ pc' = "done"
    /\ UNCHANGED <<kernel, registry, cur, curev, root_exited, last_exit_status,
                   history, nquit>>

\* The part every event shares: get_tracee(NULL, pid, true), then back to the top.
Handle(ev) ==
    /\ pc = "handle" /\ curev = ev
    /\ pc' = "top"
    /\ UNCHANGED <<pendstop, forked, xstatus, nsig, nquit, cur, curev>>

\* last_exit_status after the end of cur: a fatal signal leaves it as it was.
ExitStatus == IF curev = "EXITED" THEN xstatus[cur] ELSE last_exit_status

\* The end of the first program noticed only when it exits by itself.
RootEnded_ExitOnly == root_exited \/ (cur = Root /\ curev = "EXITED")

RootEnded == root_exited \/ cur = Root

\* handle_tracee_event() of an exit or a fatal signal, terminate_tracee() included.
HandleDeath ==
    /\ \E ev \in {"EXITED", "SIGNALED"} : Handle(ev)
    /\ tracees' = tracees \cup {cur}
    /\ terminated' = terminated \cup {cur}
    /\ running' = [running EXCEPT ![cur] = FALSE]
    /\ root_exited' = RootEnded
    /\ last_exit_status' = ExitStatus
    /\ earlyDeath' = IF cur \in exe THEN earlyDeath ELSE earlyDeath \cup {cur}
    /\ IF KillOnExit /\ cur = Root
         THEN \E B \in KillBatches(tracees) :
                 Killed(B) /\ unreported' = unreported \cup (B \cap Alive)
         ELSE UNCHANGED <<kstate, kevent, unreported, lostFork>>
    /\ UNCHANGED <<exe, sigstop>>

\* A child whose SIGSTOP came first and that stays stopped for ever.
new_child_NoRestart(p, c) ==
    /\ tracees' = tracees \cup {p, c}
    /\ exe' = exe \cup {c}
    /\ sigstop' = [sigstop EXCEPT ![c] = IF @ = "PENDING" THEN "ALLOWED" ELSE @]
    /\ restart_tracee({p})

\* new_child(): c inherits from p; if its SIGSTOP came first it was kept
\* stopped until now.
new_child(p, c) ==
    /\ tracees' = tracees \cup {p, c}
    /\ exe' = exe \cup {c}
    /\ sigstop' = [sigstop EXCEPT ![c] = IF @ = "PENDING" THEN "ALLOWED" ELSE @]
    /\ restart_tracee(IF sigstop[c] = "PENDING" THEN {p, c} ELSE {p})

HandleFork ==
    /\ Handle("FORK")
    /\ IF kstate[cur] = "stopped"
         THEN new_child(cur, forked[cur])
         ELSE \* killed since: PTRACE_GETEVENTMSG fails
              /\ tracees' = tracees \cup {cur}
              /\ restart_tracee({})
              /\ UNCHANGED <<exe, sigstop>>
    /\ UNCHANGED <<terminated, root_exited, last_exit_status, history>>

\* A child released by its own SIGSTOP whether it is configured or not.
HandleSigstop_Release ==
    /\ Handle("SIGSTOP")
    /\ tracees' = tracees \cup {cur}
    /\ sigstop' = [sigstop EXCEPT ![cur] = "ALLOWED"]
    /\ restart_tracee({cur})
    /\ UNCHANGED <<exe, terminated, root_exited, last_exit_status, history>>

\* The SIGSTOP of a child that is not configured yet leaves it stopped; the one
\* of a configured child is dropped, the first time.
HandleSigstop ==
    /\ Handle("SIGSTOP")
    /\ tracees' = tracees \cup {cur}
    /\ sigstop' = [sigstop EXCEPT ![cur] = IF cur \notin exe THEN "PENDING"
                                          ELSE IF @ = "IGNORED" THEN "ALLOWED" ELSE @]
    /\ restart_tracee(IF cur \in exe THEN {cur} ELSE {})
    /\ UNCHANGED <<exe, terminated, root_exited, last_exit_status, history>>

\* Other signals are delivered, PTRACE_EVENT_EXIT is let through.
HandleOther ==
    /\ \E ev \in {"SIG", "EXIT"} : Handle(ev)
    /\ tracees' = tracees \cup {cur}
    /\ restart_tracee({cur})
    /\ UNCHANGED <<exe, sigstop, terminated, root_exited, last_exit_status, history>>

\* event_loop() has returned.
Done == pc = "done" /\ UNCHANGED vars

Kernel ==
    \/ \E p, q \in Pid : Fork(p, q)
    \/ \E p \in Pid : AttachStop(p) \/ Signal(p) \/ Kill(p)
    \/ \E p \in Pid, st \in Status : Exit(p, st)

Loop ==
    \/ Top \/ TopRootExited
    \/ \E p \in Pid : WaitPid(p)
    \/ WaitNoChild
    \/ HandleDeath \/ HandleFork \/ HandleSigstop \/ HandleOther

Next == Kernel \/ Quit \/ Loop \/ Done

\* The tracer keeps running and the kernel makes a new child take its SIGSTOP;
\* nothing obliges a guest to do anything.
Fairness == WF_vars(Loop) /\ \A p \in Pid : WF_vars(AttachStop(p))

Spec == Init /\ [][Next]_vars
FairSpec == Spec /\ Fairness

-----------------------------------------------------------------------------
(* Properties.                                                             *)

TypeOK ==
    /\ kstate \in [Pid -> KStates]
    /\ kevent \in [Pid -> Events]
    /\ unreported \subseteq Pid /\ pendstop \subseteq Pid
    /\ forked \in [Pid -> Pid \cup {NoPid}]
    /\ xstatus \in [Pid -> Status \cup {Signaled}]
    /\ nsig \in 0..MaxSignals /\ nquit \in 0..MaxQuit
    /\ tracees \subseteq Pid /\ exe \subseteq Pid
    /\ sigstop \in [Pid -> SigStop]
    /\ running \in [Pid -> BOOLEAN]
    /\ terminated \subseteq Pid
    /\ pc \in {"top", "wait", "handle", "done"}
    /\ cur \in Pid \cup {NoPid} /\ curev \in Events
    /\ root_exited \in BOOLEAN
    /\ last_exit_status \in Status \cup {-1}
    /\ lostFork \subseteq Pid /\ earlyDeath \subseteq Pid

\* No guest process executes an instruction before new_child() (or the launch,
\* for the first one) has given its tracee a configuration: whichever of the
\* two reports of a fork comes first, the child is held until both are in.
ConfiguredBeforeRun ==
    pc # "done" => \A p \in Pid : Executing(p) => p \in tracees /\ p \in exe

\* The FORK event that names p has still to be handled.
ForkOutstanding(p) ==
    \E q \in Pid : kstate[q] = "stopped" /\ kevent[q] = "FORK" /\ forked[q] = p

\* A process whose stop was collected and is not being handled was restarted,
\* except a new child that waits for its parent's FORK event, and that event
\* is on its way unless the parent was killed in between: the loop forgets no
\* stopped tracee.
NobodyForgotten ==
    pc # "done" => \A p \in Pid :
        (kstate[p] = "stopped" /\ p \notin unreported /\ ~(pc = "handle" /\ cur = p))
          => /\ sigstop[p] = "PENDING" /\ p \in tracees /\ p \notin exe
             /\ ForkOutstanding(p) \/ p \in lostFork

\* cli/proot.h on --kill-on-exit: "Kill all child processes on exit."  When
\* event_loop() returns every guest process has been killed, but for one that
\* was just born: it is on no list and has had nothing to report.
NoEscape ==
    pc = "done" => \A p \in Alive : p \in pendstop /\ p \notin tracees /\ p \notin exe

\* A list entry outlives its process only until the next iteration frees it;
\* the exceptions are the entry new_child() makes for a child that died before
\* its parent's event was handled, and what a SIGQUIT swept away.
NoStaleEntry ==
    \A p \in tracees \ terminated :
        kstate[p] = "reaped" => \/ pc = "handle" /\ cur = p
                                \/ p \in earlyDeath
                                \/ nquit > 0
                                \/ pc = "done"

\* A guest process is never let run too early and never left behind: from the two reports
\* of its fork on it is held, configured and released (new_child(), the SIGSTOP case of
\* handle_tracee_event()).
GuestsReleased == ConfiguredBeforeRun /\ NobodyForgotten

\* The list of tracees is of its type and holds nobody who is gone
\* (free_terminated_tracees()).
RegistryTrue == TypeOK /\ NoStaleEntry

\* Every stopped process is restarted or dies, unless the parent that would
\* have released it was killed before its FORK event was handled.
StoppedResumes ==
    \A p \in Pid : kstate[p] = "stopped"
        ~> (kstate[p] # "stopped" \/ p \in lostFork \/ pc = "done")

\* event_loop() returns once it was told the end of the first program, however
\* it ended, or no guest process is left.
LoopEnds == ((kstate[Root] = "reaped" /\ nquit = 0) \/ Alive = {}) ~> pc = "done"
=============================================================================
