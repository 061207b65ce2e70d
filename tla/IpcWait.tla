------------------------------ MODULE IpcWait ------------------------------
(***************************************************************************)
(* How the System V IPC emulation answers a system call and how it makes   *)
(* one wait (src/src/extension/sysvipc/sysvipc.c).                         *)
(*                                                                         *)
(* The tracer cannot leave a guest inside a call the kernel does not have. *)
(* A call that can be answered at once is turned into getpid(), whose      *)
(* result is replaced when it returns.  A call that has to wait is turned  *)
(* into ppoll() without descriptors; whoever completes it stores the       *)
(* result and interrupts the ppoll() with SIGSTOP.  On systems whose       *)
(* seccomp policy refuses the call the tracer hears of it by SIGSYS, after *)
(* the fact: then an answer is put into the registers directly and a       *)
(* waiting guest is sent back to execute ppoll().                          *)
(*                                                                         *)
(* cfg[p] is the SysVIpcConfig of guest p, kern[p] is where p is:          *)
(*   user     running its program;                                         *)
(*   restart  about to execute the ppoll() it was sent back to;            *)
(*   ppoll    asleep in the kernel;                                        *)
(*   exit     its system call is over, the exit stop is not handled yet;   *)
(*   dead     killed, the tracer has not seen it yet;                      *)
(*   gone     its Tracee is freed.                                         *)
(***************************************************************************)
EXTENDS Integers, Sequences, FiniteSets

CONSTANTS
    N,            \* number of guests
    FromSigsys,   \* for every guest, whether its calls reach the extension by SIGSYS:
                  \* a subset of BOOLEAN
    MaxIntr,      \* how many signals or timeouts end a ppoll()
    MaxDeath      \* how many guests are killed

ASSUME NAssumption == N \in Nat
ASSUME FromSigsysAssumption == \A p \in 1 .. N : FromSigsys[p] \subseteq BOOLEAN
ASSUME IntrAssumption == MaxIntr \in Nat /\ MaxDeath \in Nat

VARIABLES
    cfg,      \* struct SysVIpcConfig of every guest
    kern,     \* where the kernel has every guest
    sigstop,  \* guests with a SIGSTOP of the tracer under way
    result,   \* what the last call of every guest returned, 0 while it is in one
    nintr, ndeath

waitVars == <<cfg, kern, sigstop, result, nintr, ndeath>>

\* The guests in the order of the list of tracees.
Tracee == 1 .. N

Listed == {p \in Tracee : kern[p] # "gone"}

EINTR == -4
EAGAIN == -11
EFAULT == -14
EINVAL == -22
E2BIG == -7
EEXIST == -17
ENOENT == -2
ENOMSG == -42
EIDRM == -43
ERANGE == -34
EFBIG == -27
Errors == {EINTR, EAGAIN, EFAULT, EINVAL, E2BIG, EEXIST, ENOENT, ENOMSG, EIDRM, ERANGE, EFBIG}

WaitStates == {"not", "canceled", "restarted", "entered", "signaled", "getpid"}
Kern       == {"user", "restart", "ppoll", "exit", "dead", "gone"}

\* The configuration of a guest that does not wait.  The code leaves the status and the
\* arguments of the last call behind; the next call that waits overwrites them before
\* anything reads them, so they are cleared here.
Idle == [wait_reason |-> "none", wait_state |-> "not", chain_state |-> "none",
         status_after_wait |-> 0, waiting_object_index |-> 0, args |-> <<>>]

\* sysvipc_wake_tracee(): the part that changes the configuration.
Woken(c, status) ==
    [c EXCEPT !.wait_reason = "none",
              !.status_after_wait = status,
              !.wait_state = CASE @ = "entered" -> "signaled"
                               [] @ = "restarted" -> "canceled"
                               [] OTHER -> @]

\* Mutant: the wake-up is recorded and the sleeper is not told.
Signaled_Nobody(c) == {}

\* sysvipc_wake_tracee(): whom it sends SIGSTOP when c becomes the configuration.
Signaled(c) == {p \in Tracee : cfg[p].wait_state = "entered" /\ c[p].wait_state = "signaled"}

\* What sysvipc_syscall_common() does once the call of p has left the
\* configurations as c and its result is status.
syscall_common(p, from_sigsys, c, status) ==
    /\ sigstop' = sigstop \cup Signaled(c)
    /\ \/ /\ c[p].wait_reason # "none"
          /\ cfg' = [c EXCEPT ![p].wait_state = IF from_sigsys THEN "restarted" ELSE "entered"]
          /\ kern' = [kern EXCEPT ![p] = IF from_sigsys THEN "restart" ELSE "ppoll"]
          /\ result' = [result EXCEPT ![p] = 0]
       \/ /\ c[p].wait_reason = "none"
          /\ from_sigsys
          /\ cfg' = c
          /\ result' = [result EXCEPT ![p] = status]
          /\ UNCHANGED kern
       \/ /\ c[p].wait_reason = "none"
          /\ ~from_sigsys
          /\ cfg' = [c EXCEPT ![p].status_after_wait = status, ![p].wait_state = "getpid"]
          /\ kern' = [kern EXCEPT ![p] = "exit"]
          /\ result' = [result EXCEPT ![p] = 0]
    /\ UNCHANGED <<nintr, ndeath>>

\* SYSCALL_ENTER_START of the ppoll() a guest was sent back to.
PpollEnter(p) ==
    /\ kern[p] = "restart"
    /\ cfg[p].wait_state = "restarted"
    /\ cfg' = [cfg EXCEPT ![p].wait_state = "entered"]
    /\ kern' = [kern EXCEPT ![p] = "ppoll"]
    /\ UNCHANGED <<sigstop, result, nintr, ndeath>>

\* SYSCALL_ENTER_START when the guest was woken before it got there: the call
\* is voided and answers status.
PpollCanceled(p, status) ==
    /\ kern[p] = "restart"
    /\ cfg[p].wait_state = "canceled"
    /\ cfg' = [cfg EXCEPT ![p] = Idle]
    /\ kern' = [kern EXCEPT ![p] = "user"]
    /\ result' = [result EXCEPT ![p] = status]
    /\ UNCHANGED <<sigstop, nintr, ndeath>>

\* The kernel: a signal of the guest, or the timeout of semtimedop(), ends ppoll().
PpollInterrupted(p) ==
    /\ kern[p] = "ppoll"
    /\ nintr < MaxIntr
    /\ nintr' = nintr + 1
    /\ kern' = [kern EXCEPT ![p] = "exit"]
    /\ UNCHANGED <<cfg, sigstop, result, ndeath>>

\* The kernel: the tracer's SIGSTOP ends ppoll().
PpollStopped(p) ==
    /\ kern[p] = "ppoll"
    /\ p \in sigstop
    /\ kern' = [kern EXCEPT ![p] = "exit"]
    /\ UNCHANGED <<cfg, sigstop, result, nintr, ndeath>>

\* The end of a system call: SIGSTOP is delivered before the guest runs again,
\* and handle_tracee_event() drops it (SIGSTOP_IGNORED).
ReturnsWith(p, status) ==
    /\ cfg' = [cfg EXCEPT ![p] = Idle]
    /\ kern' = [kern EXCEPT ![p] = "user"]
    /\ sigstop' = sigstop \ {p}
    /\ result' = [result EXCEPT ![p] = status]
    /\ UNCHANGED <<nintr, ndeath>>

\* Mutant: a wake-up that comes after the interruption is overlooked.
ExitInterrupted_Late(p) ==
    /\ kern[p] = "exit"
    /\ cfg[p].wait_state \in {"entered", "signaled"}
    /\ ReturnsWith(p, EINTR)

\* SYSCALL_EXIT_START of a ppoll() nobody has woken: a timeout too is EINTR.
ExitInterrupted(p) ==
    /\ kern[p] = "exit"
    /\ cfg[p].wait_state = "entered"
    /\ ReturnsWith(p, EINTR)

\* SYSCALL_EXIT_START of a woken ppoll() and of a getpid().
ExitAnswered(p, status) ==
    /\ kern[p] = "exit"
    /\ cfg[p].wait_state \in {"signaled", "getpid"}
    /\ ReturnsWith(p, status)

\* The kernel: a guest is killed wherever it is.
GuestDies(p) ==
    /\ kern[p] \notin {"dead", "gone"}
    /\ ndeath < MaxDeath
    /\ ndeath' = ndeath + 1
    /\ kern' = [kern EXCEPT ![p] = "dead"]
    /\ UNCHANGED <<cfg, sigstop, result, nintr>>

\* The tracer learns of the death and frees the Tracee with its extensions.
FreeGuest(p) ==
    /\ kern[p] = "dead"
    /\ kern' = [kern EXCEPT ![p] = "gone"]
    /\ sigstop' = sigstop \ {p}
    /\ UNCHANGED <<cfg, result, nintr, ndeath>>

-----------------------------------------------------------------------------
\* A guest that sleeps is known to sleep, and one that was told to wake up has a
\* SIGSTOP under way: the reason to wait, the state of the wait and the place of the
\* guest in the kernel agree whatever the order of wake-ups, signals and timeouts.
\* (sysvipc_wake_tracee() sees only the first two of the three.)
WaitersAgree ==
    \A p \in Tracee :
      /\ kern[p] = "user" => cfg[p].wait_state = "not" /\ cfg[p].wait_reason = "none"
      /\ kern[p] = "restart" => cfg[p].wait_state \in {"restarted", "canceled"}
      /\ kern[p] = "ppoll" => \/ cfg[p].wait_state = "entered" /\ cfg[p].wait_reason # "none"
                              \/ cfg[p].wait_state = "signaled" /\ p \in sigstop
      /\ kern[p] = "exit" => cfg[p].wait_state \in {"entered", "signaled", "getpid"}
      /\ cfg[p].wait_state \in {"restarted", "entered"} => cfg[p].wait_reason # "none"
      /\ cfg[p].wait_state \in {"not", "canceled", "signaled", "getpid"}
            => cfg[p].wait_reason = "none"
=============================================================================
