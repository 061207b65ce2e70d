---------------------------- MODULE TracerThreads ----------------------------
(***************************************************************************)
(* The threads of control inside the tracer and what they share: the event *)
(* loop, the thread that answers seccomp notifications (--seccomp-notify), *)
(* and the signal handlers that may interrupt either one.  They share the  *)
(* list of tracees, guarded by a spin lock, and the Tracee structures,     *)
(* guarded by a mutex the event loop takes around each event               *)
(* (src/src/tracee/event.c, src/src/tracee/tracee.c,                       *)
(* src/src/syscall/seccomp_notify.c).                                      *)
(*                                                                         *)
(* A frame is one stack frame of control: the base code of a thread, or    *)
(* the handler running on top of it.  While a handler runs its thread's    *)
(* base code is frozen, locks included.                                    *)
(***************************************************************************)
EXTENDS Naturals

CONSTANTS
    Tracee,     \* the guest processes
    NoTracee,   \* no process
    MaxSig,     \* how many signals the tracer itself receives
    MaxNotif    \* how many notifications the guests raise

ASSUME TraceeAssumption == NoTracee \notin Tracee
ASSUME BoundAssumption == MaxSig \in Nat /\ MaxNotif \in Nat

Base     == {"main", "notif"}
Handler  == {"main_sig", "notif_sig"}
Frame    == Base \cup Handler
\* The frame a handler runs on top of.
Under(h) == IF h = "main_sig" THEN "main" ELSE "notif"
Above(b) == IF b = "main" THEN "main_sig" ELSE "notif_sig"

VARIABLES
    pc,                  \* what each frame does; "none" for a handler that does not run
    listlock,            \* the frame that holds tracee_list_lock, or "free"
    mutex,               \* the frame that holds user_notif_tracee_lock, or "free"
    listed,              \* the tracees on the list
    terminated,          \* the tracees terminate_tracee() has marked
    freed,               \* the Tracee structures given back to the allocator
    killed,              \* the processes that were sent SIGKILL or exited
    batch,               \* free_terminated_tracees(): what is left to free
    evt,                 \* the tracee whose event the loop handles
    target,              \* the tracee the notification thread works on
    pids,                \* kill_all_tracees(): the pids collected by each frame
    signal_in_progress, cleanup_done, handling_signal,   \* the atomic flags
    fatal,               \* whether the signal a handler got ends the tracer
    returned,            \* event_loop() has returned: what follows is exit()'s
    exited,              \* the tracer has exited
    by,                  \* history: the frame that ended the tracer
    cut,                 \* history: a flag made some frame skip the killing
    nsig, nnotif

flags == <<signal_in_progress, cleanup_done, handling_signal>>
data  == <<listed, terminated, freed, batch, evt, target>>
vars  == <<pc, listlock, mutex, data, killed, pids, flags, fatal, returned, exited, by, cut, nsig, nnotif>>

Init ==
    /\ pc = [f \in Frame |-> IF f = "main" THEN "top" ELSE IF f = "notif" THEN "recv" ELSE "none"]
    /\ listlock = "free" /\ mutex = "free"
    /\ \E x \in Tracee : listed = {x}
    /\ terminated = {} /\ freed = {} /\ killed = {}
    /\ batch = {} /\ evt = NoTracee /\ target = NoTracee
    /\ pids = [f \in Frame |-> {}]
    /\ signal_in_progress = FALSE /\ cleanup_done = FALSE /\ handling_signal = FALSE
    /\ fatal = [f \in Frame |-> FALSE]
    /\ returned = FALSE /\ exited = FALSE /\ by = "none" /\ cut = FALSE
    /\ nsig = 0 /\ nnotif = 0

\* f is at label l and not frozen.
At(f, l) ==
    /\ ~exited /\ pc[f] = l
    /\ f \in Base => pc[Above(f)] = "none"

Goto(f, l) == pc' = [pc EXCEPT ![f] = l]

\* A step that changes nothing shared but the program counter.
Step(f, l, m) == At(f, l) /\ Goto(f, m)

\* A spin lock that is tested and not set.
Acquire_NoSet(f) == listlock = "free" /\ listlock' = listlock

Acquire(f) == listlock = "free" /\ listlock' = f
Release(f) == listlock' = "free"

-----------------------------------------------------------------------------
(* kill_all_tracees_safely(), run by the loop when it ends, by exit() and by *)
(* handlers; the part "kill" is kill_all_tracees(), which the loop also     *)
(* calls, holding the mutex, when the first program ends (--kill-on-exit).  *)

Killers == {"main"} \cup Handler

\* Where kill_all_tracees() returns to.
After(f) == IF mutex = f THEN "unlock" ELSE "sweep"

EnterKill(f) ==
    /\ IF cleanup_done THEN Step(f, "safely", "kdone") /\ cut' = TRUE
                       ELSE Step(f, "safely", "kill") /\ cut' = cut
    /\ cleanup_done' = TRUE
    /\ UNCHANGED <<listlock, mutex, data, killed, pids, signal_in_progress, handling_signal,
                   fatal, returned, exited, by, nsig, nnotif>>

KillFlag(f) ==
    /\ IF signal_in_progress THEN Step(f, "kill", After(f)) /\ cut' = TRUE
                             ELSE Step(f, "kill", "kspin") /\ cut' = cut
    /\ signal_in_progress' = TRUE
    /\ UNCHANGED <<listlock, mutex, data, killed, pids, cleanup_done, handling_signal,
                   fatal, returned, exited, by, nsig, nnotif>>

KillSpin(f) ==
    /\ Step(f, "kspin", "kcs") /\ Acquire(f)
    /\ UNCHANGED <<mutex, data, killed, pids, flags, fatal, returned, exited, by, cut, nsig, nnotif>>

\* A walk that leaves out the tracee whose event was handled last.
KillCollect_SkipCurrent(f) ==
    /\ Step(f, "kcs", "kkill") /\ Release(f)
    /\ pids' = [pids EXCEPT ![f] = listed \ {evt}]
    /\ UNCHANGED <<mutex, data, killed, flags, fatal, returned, exited, by, cut, nsig, nnotif>>

KillCollect(f) ==
    /\ Step(f, "kcs", "kkill") /\ Release(f)
    /\ pids' = [pids EXCEPT ![f] = listed]
    /\ UNCHANGED <<mutex, data, killed, flags, fatal, returned, exited, by, cut, nsig, nnotif>>

KillAll(f) ==
    /\ Step(f, "kkill", After(f))
    /\ killed' = killed \cup pids[f]
    /\ signal_in_progress' = FALSE
    /\ UNCHANGED <<listlock, mutex, data, pids, cleanup_done, handling_signal, fatal,
                   returned, exited, by, cut, nsig, nnotif>>

Sweep(f) ==
    /\ Step(f, "sweep", "kdone")
    /\ cleanup_done' = FALSE
    /\ UNCHANGED <<listlock, mutex, data, killed, pids, signal_in_progress, handling_signal,
                   fatal, returned, exited, by, cut, nsig, nnotif>>

-----------------------------------------------------------------------------
(* The signal handler kill_all_tracees2().                                 *)

SignalArrives(h, isFatal) ==
    /\ ~exited /\ pc[h] = "none" /\ nsig < MaxSig
    /\ Goto(h, "enter")
    /\ fatal' = [fatal EXCEPT ![h] = isFatal]
    /\ nsig' = nsig + 1
    /\ UNCHANGED <<listlock, mutex, data, killed, pids, flags, returned, exited, by, cut, nnotif>>

\* The handler of the loop's own thread makes a waitpid() fail with EINTR.
HandlerReturns(h) ==
    pc' = [pc EXCEPT ![h] = "none",
                     !["main"] = IF h = "main_sig" /\ @ = "wait" THEN "top" ELSE @]

HandlerEnter(h) ==
    /\ At(h, "enter")
    /\ IF handling_signal THEN HandlerReturns(h) ELSE Goto(h, "safely")
    /\ handling_signal' = TRUE
    /\ UNCHANGED <<listlock, mutex, data, killed, pids, signal_in_progress, cleanup_done,
                   fatal, returned, exited, by, cut, nsig, nnotif>>

HandlerEnd(h) ==
    /\ At(h, "kdone") /\ HandlerReturns(h)
    /\ handling_signal' = IF fatal[h] THEN handling_signal ELSE FALSE
    /\ exited' = fatal[h]
    /\ by' = IF fatal[h] THEN h ELSE by
    /\ UNCHANGED <<listlock, mutex, data, killed, pids, signal_in_progress, cleanup_done,
                   fatal, returned, cut, nsig, nnotif>>

-----------------------------------------------------------------------------
(* The event loop.                                                         *)

Rest == <<killed, pids, flags, fatal, returned, exited, by, cut, nsig, nnotif>>

\* free_terminated_tracees(): collect under the spin lock, free without it.
FreeSpin ==
    /\ Step("main", "top", "top_cs") /\ Acquire("main")
    /\ UNCHANGED <<mutex, data, Rest>>

FreeCollect ==
    /\ Step("main", "top_cs", "free") /\ Release("main")
    /\ batch' = terminated
    /\ UNCHANGED <<mutex, listed, terminated, freed, evt, target, Rest>>

\* remove_tracee() unlinks one of them, then its memory is released.
FreeUnlink(x) ==
    /\ x \in batch
    /\ Step("main", "free", "free_cs") /\ Acquire("main")
    /\ evt' = x
    /\ UNCHANGED <<mutex, listed, terminated, freed, batch, target, Rest>>

FreeRelease ==
    /\ Step("main", "free_cs", "free") /\ Release("main")
    /\ listed' = listed \ {evt}
    /\ freed' = freed \cup {evt}
    /\ terminated' = terminated \ {evt}
    /\ batch' = batch \ {evt}
    /\ UNCHANGED <<mutex, evt, target, Rest>>

\* Nothing left to free: wait, or end with the first program.
FreeDone(m) ==
    /\ batch = {} /\ Step("main", "free", m)
    /\ UNCHANGED <<listlock, mutex, data, Rest>>

\* waitpid() returns a stop of x, or its end; x may be a child the loop has not
\* met yet.
WaitEvent(x) ==
    /\ listed # {} /\ x \notin freed /\ Step("main", "wait", "lock")
    /\ evt' = x
    /\ UNCHANGED <<listlock, mutex, listed, terminated, freed, batch, target, Rest>>

\* waitpid() fails with ECHILD.
WaitNoChild ==
    /\ listed = {} /\ Step("main", "wait", "safely")
    /\ UNCHANGED <<listlock, mutex, data, Rest>>

MainLock ==
    /\ Step("main", "lock", "get") /\ mutex = "free" /\ mutex' = "main"
    /\ UNCHANGED <<listlock, data, Rest>>

MainGetSpin ==
    /\ Step("main", "get", "get_cs") /\ Acquire("main")
    /\ UNCHANGED <<mutex, data, Rest>>

\* get_tracee(NULL, evt, true)
MainGet ==
    /\ Step("main", "get_cs", IF evt \in listed THEN "handle" ELSE "new") /\ Release("main")
    /\ UNCHANGED <<mutex, data, Rest>>

MainNewSpin ==
    /\ Step("main", "new", "new_cs") /\ Acquire("main")
    /\ UNCHANGED <<mutex, data, Rest>>

MainNew ==
    /\ Step("main", "new_cs", "handle") /\ Release("main")
    /\ listed' = listed \cup {evt}
    /\ UNCHANGED <<mutex, terminated, freed, batch, evt, target, Rest>>

\* handle_tracee_event(); killall says that evt is the first program and
\* --kill-on-exit was given.
MainHandle(ends, killall) ==
    /\ Step("main", "handle", IF ends /\ killall THEN "kill" ELSE "unlock")
    /\ terminated' = IF ends THEN terminated \cup {evt} ELSE terminated
    /\ killed' = IF ends THEN killed \cup {evt} ELSE killed
    /\ UNCHANGED <<listlock, mutex, listed, freed, batch, evt, target, pids, flags, fatal,
                   returned, exited, by, cut, nsig, nnotif>>

\* A path back to the top that keeps the mutex.
MainUnlock_Keep ==
    /\ Step("main", "unlock", "top")
    /\ UNCHANGED <<listlock, mutex, data, Rest>>

MainUnlock ==
    /\ Step("main", "unlock", "top") /\ mutex' = "free"
    /\ UNCHANGED <<listlock, data, Rest>>

\* event_loop() returns; exit() calls kill_all_tracees_safely() once more.
MainReturn ==
    /\ ~returned /\ Step("main", "kdone", "safely") /\ returned' = TRUE
    /\ UNCHANGED <<listlock, mutex, data, killed, pids, flags, fatal, exited, by, cut, nsig, nnotif>>

MainExit ==
    /\ returned /\ Step("main", "kdone", "kdone") /\ exited' = TRUE /\ by' = "main"
    /\ UNCHANGED <<listlock, mutex, data, killed, pids, flags, fatal, returned, cut, nsig, nnotif>>

-----------------------------------------------------------------------------
(* The notification thread, handle_seccomp_user_notif().                   *)

NotifRecv(x) ==
    /\ x \notin killed /\ nnotif < MaxNotif
    /\ Step("notif", "recv", "lock")
    /\ target' = x
    /\ nnotif' = nnotif + 1
    /\ UNCHANGED <<listlock, mutex, listed, terminated, freed, batch, evt, killed, pids, flags,
                   fatal, returned, exited, by, cut, nsig>>

NotifLock ==
    /\ Step("notif", "lock", "get") /\ mutex = "free" /\ mutex' = "notif"
    /\ UNCHANGED <<listlock, data, Rest>>

NotifGetSpin ==
    /\ Step("notif", "get", "get_cs") /\ Acquire("notif")
    /\ UNCHANGED <<mutex, data, Rest>>

\* An error path that does not unlock.
NotifGet_Leak ==
    /\ Step("notif", "get_cs", IF target \in listed THEN "emulate" ELSE "send")
    /\ Release("notif")
    /\ UNCHANGED <<mutex, data, Rest>>

\* get_tracee(NULL, target, false): -ESRCH when the tracee is not listed.
NotifGet ==
    /\ Step("notif", "get_cs", IF target \in listed THEN "emulate" ELSE "unlock")
    /\ Release("notif")
    /\ UNCHANGED <<mutex, data, Rest>>

\* The emulation reads and writes the Tracee; then unlock and send the answer.
NotifEmulate ==
    /\ Step("notif", "emulate", "unlock")
    /\ UNCHANGED <<listlock, mutex, data, Rest>>

NotifUnlock ==
    /\ Step("notif", "unlock", "send") /\ mutex' = "free"
    /\ UNCHANGED <<listlock, data, Rest>>

NotifSend ==
    /\ Step("notif", "send", "recv")
    /\ target' = NoTracee
    /\ UNCHANGED <<listlock, mutex, listed, terminated, freed, batch, evt, Rest>>

Exited == exited /\ UNCHANGED vars

-----------------------------------------------------------------------------
\* What each thread does between two calls that block on the guests.
MainBusy == \/ FreeSpin \/ FreeCollect \/ FreeRelease \/ WaitNoChild
            \/ MainLock \/ MainGetSpin \/ MainGet \/ MainNewSpin \/ MainNew \/ MainUnlock \/ MainReturn \/ MainExit
            \/ \E x \in Tracee : FreeUnlink(x)
            \/ \E m \in {"wait", "safely"} : FreeDone(m)
            \/ \E e, a \in BOOLEAN : MainHandle(e, a)
Main == MainBusy \/ \E x \in Tracee : WaitEvent(x)

NotifBusy == NotifLock \/ NotifGetSpin \/ NotifGet \/ NotifEmulate \/ NotifUnlock \/ NotifSend
Notif == NotifBusy \/ \E x \in Tracee : NotifRecv(x)

Killing(f) == EnterKill(f) \/ KillFlag(f) \/ KillSpin(f) \/ KillCollect(f) \/ KillAll(f) \/ Sweep(f)

Signals == \E h \in Handler : \/ \E b \in BOOLEAN : SignalArrives(h, b)
                              \/ HandlerEnter(h) \/ HandlerEnd(h)

Next == Main \/ Notif \/ Signals \/ Exited \/ \E f \in Killers : Killing(f)

Spec == Init /\ [][Next]_vars

\* Every frame that can move does, but no guest has to produce an event; a
\* thread that finds a lock free again and again takes it in the end.
Fairness ==
    /\ WF_vars(MainBusy) /\ WF_vars(NotifBusy)
    /\ SF_vars(MainLock) /\ SF_vars(FreeSpin \/ MainGetSpin \/ MainNewSpin)
    /\ SF_vars(NotifLock) /\ SF_vars(NotifGetSpin)
    /\ \A f \in Killers : WF_vars(Killing(f))
    /\ \A h \in Handler : WF_vars(HandlerEnter(h)) /\ WF_vars(HandlerEnd(h))
FairSpec == Spec /\ Fairness

-----------------------------------------------------------------------------
(* Properties.                                                             *)

Labels == {"none", "enter", "safely", "kill", "kspin", "kcs", "kkill", "sweep", "kdone",
           "top", "top_cs", "free", "free_cs", "wait", "lock", "get", "get_cs", "new", "new_cs", "handle",
           "recv", "emulate", "unlock", "send"}

TypeOK ==
    /\ pc \in [Frame -> Labels]
    /\ listlock \in Frame \cup {"free"} /\ mutex \in Base \cup {"free"}
    /\ listed \subseteq Tracee /\ terminated \subseteq Tracee /\ freed \subseteq Tracee
    /\ killed \subseteq Tracee /\ batch \subseteq Tracee
    /\ evt \in Tracee \cup {NoTracee} /\ target \in Tracee \cup {NoTracee}
    /\ pids \in [Frame -> SUBSET Tracee]
    /\ signal_in_progress \in BOOLEAN /\ cleanup_done \in BOOLEAN /\ handling_signal \in BOOLEAN
    /\ fatal \in [Frame -> BOOLEAN] /\ returned \in BOOLEAN /\ exited \in BOOLEAN /\ cut \in BOOLEAN
    /\ by \in Frame \cup {"none"}
    /\ nsig \in 0..MaxSig /\ nnotif \in 0..MaxNotif

InListSection(f)  == pc[f] \in {"top_cs", "free_cs", "get_cs", "new_cs", "kcs"}
InEventSection(f) == pc[f] \in {"get", "get_cs", "new", "new_cs", "handle", "emulate", "unlock"}

\* Two frames are never inside the list of tracees at the same time, even when
\* one is a handler that interrupted the other's thread, and the loop and the
\* notification thread never handle a Tracee at the same time.
Exclusion ==
    /\ \A f, g \in Frame : InListSection(f) /\ InListSection(g) => f = g
    /\ ~(InEventSection("main") /\ InEventSection("notif"))

\* A tracer that exits has sent SIGKILL to every tracee it knows, unless a flag
\* against re-entrance made one of its frames skip the killing, or it was ended
\* by a handler of the other thread while the loop went on meeting tracees.
KilledAtExit == exited /\ ~cut /\ by # "notif_sig" => listed \subseteq killed

\* tracee.c on kill_all_tracees(): safe in a signal handler, "no deadlock".
HandlerNeverStuck ==
    \A h \in Handler : pc[h] = "kspin" => ~InListSection(Under(h))

\* A handler waits for the lock of the list.
HandlerSpins == \E h \in Handler : pc[h] = "kspin"

\* Every notification is answered: neither lock, nor a tracee that disappears
\* meanwhile, can keep the guest waiting; only a handler that waits for the lock of the
\* code it interrupted can.
NotifAnswered == pc["notif"] = "lock" ~> (pc["notif"] = "send" \/ exited \/ HandlerSpins)

\* An event that waitpid() returned is handled and the loop comes back to its
\* top, whatever the notification thread does.
LoopReturns == pc["main"] = "lock" ~> (pc["main"] = "top" \/ exited \/ HandlerSpins)
=============================================================================
