--------------------------- MODULE EventLoopProofs ---------------------------
(***************************************************************************)
(* Proofs that the safety properties of EventLoop hold for any number of   *)
(* processes, signals and SIGQUITs.  The invariants of the runs say what   *)
(* must not happen; they are not inductive, because they do not mention    *)
(* how a stopped process relates to the report that will release it.       *)
(* IInv does. At the end: the same of PipeShadow, for any number of guests, *)
(* pipes and slots.                                                        *)
(***************************************************************************)
EXTENDS EventLoop, PipeShadow, FiniteSetTheorems, TLAPS

StopEvents  == {"SIGSTOP", "SIG", "FORK", "EXIT"}
DeathEvents == {"EXITED", "SIGNALED"}

\* The kernel's own bookkeeping.
KernelInv ==
    /\ \A p \in Pid : kstate[p] = "stopped" => kevent[p] \in StopEvents
    /\ \A p \in Pid : kstate[p] = "dead" => kevent[p] \in DeathEvents
    /\ \A p \in unreported : kstate[p] \in {"stopped", "dead"}
    /\ \A p \in Pid : kstate[p] = "stopped" /\ kevent[p] # "SIG" => p \notin pendstop
    /\ \A p \in Pid : kstate[p] = "stopped" /\ kevent[p] = "FORK" => forked[p] \in Pid
    /\ \A p \in Pid : kstate[p] = "stopped" /\ kevent[p] = "EXIT" => xstatus[p] \in Status
    /\ \A p \in Pid : kevent[p] = "EXITED" =>
          kstate[p] \in {"dead", "reaped"} /\ xstatus[p] \in Status

\* The status the loop holds is still true of a process that did not die since.
CurInv ==
    pc = "handle" =>
        /\ cur \in Pid
        /\ kstate[cur] \in {"stopped", "dead", "reaped"}
        /\ kstate[cur] = "stopped" => kevent[cur] = curev /\ cur \notin unreported
        /\ curev \in DeathEvents => kstate[cur] = "reaped"
        /\ curev = "EXITED" => xstatus[cur] \in Status

\* Entries of the list.
ListInv ==
    /\ \A p \in terminated : kstate[p] = "reaped"
    /\ exe \subseteq tracees
    /\ \A p \in Pid : sigstop[p] = "PENDING" =>
          /\ p \in tracees /\ p \notin exe
          /\ kstate[p] \in {"stopped", "dead", "reaped"}
          /\ kstate[p] = "stopped" =>
                kevent[p] = "SIGSTOP" /\ p \notin unreported /\ ~(pc = "handle" /\ cur = p)

\* A living process that is not configured has not passed its SIGSTOP, and the
\* event that will configure it is outstanding or lost.
BirthInv ==
    \A p \in Alive \ exe :
        /\ p \in pendstop \/ (kstate[p] = "stopped" /\ kevent[p] = "SIGSTOP")
        /\ ForkOutstanding(p) \/ p \in lostFork

\* Whoever is stopped has its status on the way, in hand, or waits as PENDING.
HeldInv ==
    \A p \in Pid : kstate[p] = "stopped" =>
        p \in unreported \/ (pc = "handle" /\ cur = p) \/ sigstop[p] = "PENDING"

\* Every list of tracees fits the array of kill_all_tracees().
FitsBatch == \A L \in SUBSET Pid : KillBatches(L) = {L}

DoneInv ==
    FitsBatch /\ pc = "done" => \A p \in Alive : p \notin tracees /\ p \notin unreported

IInv == TypeOK /\ KernelInv /\ CurInv /\ ListInv /\ BirthInv /\ HeldInv /\ DoneInv

USE DEF StopEvents, DeathEvents, KStates, Events, SigStop, Alive, Executing, Signaled,
        ExitStatus, RootEnded

\* restart_tracee() keeps the types of what it writes.
LEMMA RestartType ==
    ASSUME TypeOK, NEW S, restart_tracee(S)
    PROVE  /\ kstate' \in [Pid -> KStates] /\ kevent' \in [Pid -> Events]
           /\ unreported' \subseteq Pid \cup S /\ running' \in [Pid -> BOOLEAN]
  BY DEF TypeOK, restart_tracee

LEMMA InitIInv == Init => IInv
  <1> SUFFICES ASSUME Init PROVE IInv
    OBVIOUS
  <1> USE DEF Init
  <1>1. TypeOK
    <2>1. kstate \in [Pid -> KStates] /\ kevent \in [Pid -> Events] /\ sigstop \in [Pid -> SigStop]
      OBVIOUS
    <2>2. forked \in [Pid -> Pid \cup {NoPid}] /\ xstatus \in [Pid -> Status \cup {Signaled}]
      OBVIOUS
    <2>3. nsig \in 0..MaxSignals /\ nquit \in 0..MaxQuit
      BY BoundAssumption
    <2> QED
      BY <2>3, RootAssumption DEF TypeOK
  <1>2. KernelInv /\ CurInv /\ ListInv /\ HeldInv /\ DoneInv
    BY DEF KernelInv, CurInv, ListInv, HeldInv, DoneInv
  <1>3. BirthInv
    BY DEF BirthInv
  <1> QED
    BY <1>1, <1>2, <1>3 DEF IInv

LEMMA ForkStep == ASSUME IInv, NEW p \in Pid, NEW q \in Pid, Fork(p, q) PROVE IInv'
  <1>1. TypeOK'
    BY DEF IInv, TypeOK, Fork, registry, loop, history
  <1>2. KernelInv'
    BY DEF IInv, KernelInv, TypeOK, Fork
  <1>3. CurInv'
    BY DEF IInv, CurInv, TypeOK, Fork, loop
  <1>4. ListInv'
    BY DEF IInv, ListInv, TypeOK, Fork, registry, loop
  <1>5. BirthInv'
    BY DEF IInv, BirthInv, TypeOK, ForkOutstanding, Fork, registry, history
  <1>6. HeldInv'
    BY DEF IInv, HeldInv, TypeOK, Fork, registry, loop
  <1>7. DoneInv'
    BY DEF DoneInv, Fork, loop
  <1> QED BY <1>1, <1>2, <1>3, <1>4, <1>5, <1>6, <1>7 DEF IInv

LEMMA AttachStopStep == ASSUME IInv, NEW p \in Pid, AttachStop(p) PROVE IInv'
  <1>1. TypeOK'
    BY DEF IInv, TypeOK, AttachStop, Stops, registry, loop, history
  <1>2. KernelInv'
    BY DEF IInv, KernelInv, TypeOK, AttachStop, Stops
  <1>3. CurInv'
    BY DEF IInv, CurInv, AttachStop, Stops, loop
  <1>4. ListInv'
    BY DEF IInv, ListInv, AttachStop, Stops, registry, loop
  <1>5. BirthInv'
    BY DEF IInv, BirthInv, TypeOK, ForkOutstanding, AttachStop, Stops, registry, history
  <1>6. HeldInv'
    BY DEF IInv, HeldInv, AttachStop, Stops, registry, loop
  <1>7. DoneInv'
    BY DEF DoneInv, AttachStop, loop
  <1> QED BY <1>1, <1>2, <1>3, <1>4, <1>5, <1>6, <1>7 DEF IInv

LEMMA SignalStep == ASSUME IInv, NEW p \in Pid, Signal(p) PROVE IInv'
  <1>1. TypeOK'
    BY BoundAssumption DEF IInv, TypeOK, Signal, Stops, registry, loop, history
  <1>2. KernelInv'
    BY DEF IInv, KernelInv, TypeOK, Signal, Stops
  <1>3. CurInv'
    BY DEF IInv, CurInv, Signal, Stops, loop
  <1>4. ListInv'
    BY DEF IInv, ListInv, Signal, Stops, registry, loop
  <1>5. BirthInv'
    BY DEF IInv, BirthInv, ForkOutstanding, Signal, Stops, registry, history
  <1>6. HeldInv'
    BY DEF IInv, HeldInv, Signal, Stops, registry, loop
  <1>7. DoneInv'
    BY DEF DoneInv, Signal, loop
  <1> QED BY <1>1, <1>2, <1>3, <1>4, <1>5, <1>6, <1>7 DEF IInv

LEMMA ExitStep == ASSUME IInv, NEW p \in Pid, NEW st \in Status, Exit(p, st) PROVE IInv'
  <1>1. TypeOK'
    BY DEF IInv, TypeOK, Exit, Stops, registry, loop, history
  <1>2. KernelInv'
    BY DEF IInv, KernelInv, TypeOK, Exit, Stops
  <1>3. CurInv'
    BY DEF IInv, CurInv, Exit, Stops, loop
  <1>4. ListInv'
    BY DEF IInv, ListInv, Exit, Stops, registry, loop
  <1>5. BirthInv'
    BY DEF IInv, BirthInv, ForkOutstanding, Exit, Stops, registry, history
  <1>6. HeldInv'
    BY DEF IInv, HeldInv, Exit, Stops, registry, loop
  <1>7. DoneInv'
    BY DEF DoneInv, Exit, loop
  <1> QED BY <1>1, <1>2, <1>3, <1>4, <1>5, <1>6, <1>7 DEF IInv

LEMMA KillStep == ASSUME IInv, NEW p \in Pid, Kill(p) PROVE IInv'
  <1>1. TypeOK'
    BY DEF IInv, KernelInv, TypeOK, Kill, Killed, registry, loop
  <1>2. KernelInv'
    BY DEF IInv, KernelInv, TypeOK, Kill, Killed
  <1>3. CurInv'
    BY DEF IInv, CurInv, Kill, Killed, loop
  <1>4. ListInv'
    BY DEF IInv, ListInv, TypeOK, Kill, Killed, registry, loop
  <1>5. BirthInv'
    BY DEF IInv, BirthInv, ForkOutstanding, Kill, Killed, registry
  <1>6. HeldInv'
    BY DEF IInv, HeldInv, Kill, Killed, registry, loop
  <1>7. DoneInv'
    BY DEF DoneInv, Kill, loop
  <1> QED BY <1>1, <1>2, <1>3, <1>4, <1>5, <1>6, <1>7 DEF IInv

LEMMA QuitStep == ASSUME IInv, Quit PROVE IInv'
  <1>1. TypeOK'
    BY BoundAssumption
       DEF IInv, KernelInv, TypeOK, Quit, kill_all_tracees_safely, registry
  <1>2. KernelInv'
    BY DEF IInv, KernelInv, Quit, kill_all_tracees_safely
  <1>3. CurInv'
    BY DEF IInv, CurInv, Quit, kill_all_tracees_safely
  <1>4. ListInv'
    BY DEF IInv, ListInv, TypeOK, Quit, kill_all_tracees_safely, registry
  <1>5. BirthInv'
    BY DEF IInv, BirthInv, ForkOutstanding, Quit, kill_all_tracees_safely, registry
  <1>6. HeldInv'
    BY DEF IInv, HeldInv, Quit, kill_all_tracees_safely, registry
  <1>7. DoneInv'
    BY DEF DoneInv, Quit
  <1> QED BY <1>1, <1>2, <1>3, <1>4, <1>5, <1>6, <1>7 DEF IInv

LEMMA TopStep == ASSUME IInv, Top PROVE IInv'
  <1>1. TypeOK'
    BY DEF IInv, TypeOK, Top, free_terminated_tracees, kernel, history
  <1>2. KernelInv'
    BY DEF IInv, KernelInv, Top, kernel
  <1>3. CurInv'
    BY DEF CurInv, Top
  <1>4. ListInv'
    BY DEF IInv, ListInv, Top, free_terminated_tracees, kernel
  <1>5. BirthInv'
    BY DEF IInv, ListInv, BirthInv, ForkOutstanding, Top, free_terminated_tracees,
           kernel, history
  <1>6. HeldInv'
    BY DEF IInv, ListInv, HeldInv, Top, free_terminated_tracees, kernel
  <1>7. DoneInv'
    BY DEF DoneInv, Top
  <1> QED BY <1>1, <1>2, <1>3, <1>4, <1>5, <1>6, <1>7 DEF IInv

LEMMA TopRootExitedStep == ASSUME IInv, TopRootExited PROVE IInv'
  <1>1. TypeOK'
    BY DEF IInv, KernelInv, TypeOK, TopRootExited, free_terminated_tracees,
           kill_all_tracees_safely
  <1>2. KernelInv'
    BY DEF IInv, KernelInv, TopRootExited, kill_all_tracees_safely
  <1>3. CurInv'
    BY DEF CurInv, TopRootExited
  <1>4. ListInv'
    BY DEF IInv, ListInv, TopRootExited, free_terminated_tracees,
           kill_all_tracees_safely
  <1>5. BirthInv'
    BY DEF IInv, ListInv, BirthInv, ForkOutstanding, TopRootExited,
           free_terminated_tracees, kill_all_tracees_safely
  <1>6. HeldInv'
    BY DEF IInv, ListInv, HeldInv, TopRootExited, free_terminated_tracees,
           kill_all_tracees_safely
  <1>7. DoneInv'
    BY DEF IInv, DoneInv, TypeOK, TopRootExited, FitsBatch, free_terminated_tracees,
           kill_all_tracees_safely
  <1> QED BY <1>1, <1>2, <1>3, <1>4, <1>5, <1>6, <1>7 DEF IInv

LEMMA WaitPidStep == ASSUME IInv, NEW p \in Pid, WaitPid(p) PROVE IInv'
  <1>1. TypeOK'
    BY DEF IInv, TypeOK, WaitPid, registry, history
  <1>2. KernelInv'
    BY DEF IInv, KernelInv, WaitPid
  <1>3. CurInv'
    BY DEF IInv, KernelInv, CurInv, TypeOK, WaitPid
  <1>4. ListInv'
    BY DEF IInv, ListInv, WaitPid, registry
  <1>5. BirthInv'
    BY DEF IInv, BirthInv, ForkOutstanding, WaitPid, registry, history
  <1>6. HeldInv'
    BY DEF IInv, HeldInv, WaitPid, registry
  <1>7. DoneInv'
    BY DEF DoneInv, WaitPid
  <1> QED BY <1>1, <1>2, <1>3, <1>4, <1>5, <1>6, <1>7 DEF IInv

LEMMA WaitNoChildStep == ASSUME IInv, WaitNoChild PROVE IInv'
  <1>1. TypeOK'
    BY DEF IInv, TypeOK, WaitNoChild, kernel, registry, history
  <1>2. KernelInv'
    BY DEF IInv, KernelInv, WaitNoChild, kernel
  <1>3. CurInv'
    BY DEF CurInv, WaitNoChild
  <1>4. ListInv'
    BY DEF IInv, ListInv, WaitNoChild, kernel, registry
  <1>5. BirthInv'
    BY DEF BirthInv, WaitNoChild, kernel
  <1>6. HeldInv'
    BY DEF HeldInv, WaitNoChild, kernel
  <1>7. DoneInv'
    BY DEF DoneInv, WaitNoChild, kernel
  <1> QED BY <1>1, <1>2, <1>3, <1>4, <1>5, <1>6, <1>7 DEF IInv

LEMMA HandleDeathStep == ASSUME IInv, HandleDeath PROVE IInv'
  <1>1. TypeOK'
    BY DEF IInv, KernelInv, CurInv, TypeOK, HandleDeath, Handle, Killed
  <1>2. KernelInv'
    BY DEF IInv, KernelInv, TypeOK, HandleDeath, Handle, Killed
  <1>3. CurInv'
    BY DEF CurInv, HandleDeath, Handle
  <1>4. ListInv'
    BY DEF IInv, CurInv, ListInv, TypeOK, HandleDeath, Handle, Killed
  <1>5. BirthInv'
    BY DEF IInv, BirthInv, ForkOutstanding, HandleDeath, Handle, Killed
  <1>6. HeldInv'
    BY DEF IInv, CurInv, HeldInv, HandleDeath, Handle, Killed
  <1>7. DoneInv'
    BY DEF DoneInv, HandleDeath, Handle
  <1> QED BY <1>1, <1>2, <1>3, <1>4, <1>5, <1>6, <1>7 DEF IInv

LEMMA HandleForkStep == ASSUME IInv, HandleFork PROVE IInv'
  <1> USE DEF HandleFork, Handle
  <1>1. CASE kstate[cur] = "stopped"
    <2> DEFINE c == forked[cur]
               S == IF sigstop[c] = "PENDING" THEN {cur, c} ELSE {cur}
    <2>1. cur \in Pid /\ c \in Pid /\ kevent[cur] = "FORK" /\ cur \notin unreported
      BY <1>1 DEF IInv, KernelInv, CurInv
    <2>2. \A p \in S : kstate[p] = "stopped" =>
                kevent[p] # "EXIT" /\ p \notin terminated /\ p \notin unreported
      BY <2>1 DEF IInv, ListInv
    <2>3. /\ restart_tracee(S)
          /\ tracees' = tracees \cup {cur, c} /\ exe' = exe \cup {c}
          /\ sigstop' = [sigstop EXCEPT ![c] = IF @ = "PENDING" THEN "ALLOWED" ELSE @]
      BY <1>1 DEF new_child
    <2>4. /\ kstate' = [p \in Pid |-> IF p \in S /\ kstate[p] = "stopped"
                                      THEN "running" ELSE kstate[p]]
          /\ kevent' = kevent /\ unreported' = unreported
      BY <2>2, <2>3 DEF restart_tracee, IInv, TypeOK
    <2>5. S \subseteq Pid /\ cur \in S /\ (sigstop[c] = "PENDING" => c \in S)
      BY <2>1
    <2> HIDE DEF S, c
    <2>6. TypeOK'
      BY <2>1, <2>3, <2>5, RestartType DEF IInv, TypeOK, history
    <2>7. KernelInv'
      BY <2>2, <2>4 DEF IInv, KernelInv, TypeOK
    <2>8. CurInv'
      BY DEF CurInv
    <2>9. ListInv'
      BY <2>3, <2>4 DEF IInv, ListInv, TypeOK, S
    <2>10. BirthInv'
      BY <2>1, <2>3, <2>4 DEF IInv, BirthInv, ListInv, ForkOutstanding, history, c, S
    <2>11. HeldInv'
      BY <2>3, <2>4, <2>5 DEF IInv, HeldInv
    <2>12. DoneInv'
      BY DEF DoneInv
    <2> QED
      BY <2>6, <2>7, <2>8, <2>9, <2>10, <2>11, <2>12 DEF IInv
  <1>2. CASE kstate[cur] # "stopped"
    <2>1. /\ kstate' = kstate /\ kevent' = kevent /\ unreported' = unreported
          /\ tracees' = tracees \cup {cur} /\ exe' = exe /\ sigstop' = sigstop
          /\ cur \in Pid
      BY <1>2 DEF restart_tracee, IInv, TypeOK, CurInv
    <2>2. TypeOK'
      BY <1>2, <2>1, RestartType DEF IInv, TypeOK, history
    <2>3. KernelInv' /\ CurInv' /\ ListInv' /\ HeldInv' /\ DoneInv'
      BY <1>2, <2>1 DEF IInv, KernelInv, CurInv, ListInv, HeldInv, DoneInv
    <2>4. BirthInv'
      BY <2>1 DEF IInv, BirthInv, ForkOutstanding, history
    <2> QED
      BY <2>2, <2>3, <2>4 DEF IInv
  <1> QED
    BY <1>1, <1>2

LEMMA HandleSigstopStep == ASSUME IInv, HandleSigstop PROVE IInv'
  <1>1. TypeOK'
    BY RestartType DEF IInv, TypeOK, CurInv, HandleSigstop, Handle, history
  <1>2. KernelInv'
    BY DEF IInv, KernelInv, CurInv, TypeOK, HandleSigstop, Handle, restart_tracee
  <1>3. CurInv'
    BY DEF CurInv, HandleSigstop, Handle
  <1>4. ListInv'
    BY DEF IInv, CurInv, ListInv, TypeOK, HandleSigstop, Handle, restart_tracee
  <1>5. BirthInv'
    BY DEF IInv, CurInv, BirthInv, ForkOutstanding, HandleSigstop, Handle,
           restart_tracee, history
  <1>6. HeldInv'
    BY DEF IInv, ListInv, HeldInv, TypeOK, HandleSigstop, restart_tracee
  <1>7. DoneInv'
    BY DEF DoneInv, HandleSigstop, Handle
  <1> QED BY <1>1, <1>2, <1>3, <1>4, <1>5, <1>6, <1>7 DEF IInv

LEMMA HandleOtherStep == ASSUME IInv, HandleOther PROVE IInv'
  <1>1. TypeOK'
    BY RestartType DEF IInv, TypeOK, CurInv, HandleOther, Handle, history
  <1>2. KernelInv'
    BY DEF IInv, KernelInv, CurInv, TypeOK, HandleOther, Handle, restart_tracee
  <1>3. CurInv'
    BY DEF CurInv, HandleOther, Handle
  <1>4. ListInv'
    BY DEF IInv, ListInv, TypeOK, HandleOther, Handle, restart_tracee
  <1>5. BirthInv'
    BY DEF IInv, CurInv, BirthInv, ForkOutstanding, HandleOther, Handle, restart_tracee,
           history
  <1>6. HeldInv'
    BY DEF IInv, ListInv, HeldInv, HandleOther, restart_tracee
  <1>7. DoneInv'
    BY DEF DoneInv, HandleOther, Handle
  <1> QED BY <1>1, <1>2, <1>3, <1>4, <1>5, <1>6, <1>7 DEF IInv

LEMMA NextIInv == ASSUME IInv, [Next]_vars PROVE IInv'
  <1>1. CASE Kernel
    BY <1>1, ForkStep, AttachStopStep, SignalStep, KillStep, ExitStep DEF Kernel
  <1>2. CASE Quit
    BY <1>2, QuitStep
  <1>3. CASE Loop
    BY <1>3, TopStep, TopRootExitedStep, WaitPidStep, WaitNoChildStep, HandleDeathStep,
       HandleForkStep, HandleSigstopStep, HandleOtherStep DEF Loop
  <1>4. CASE UNCHANGED vars
    BY <1>4
       DEF IInv, KernelInv, CurInv, ListInv, BirthInv, HeldInv, DoneInv, TypeOK,
           ForkOutstanding, vars, kernel, registry, loop, history
  <1> QED
    BY <1>1, <1>2, <1>3, <1>4 DEF Next, Done

\* IInv is an invariant of the loop, whatever the kernel and the guests do.
THEOREM Inductive == Spec => []IInv
  BY InitIInv, NextIInv, PTL DEF Spec

\* Every variable keeps its type.
THEOREM TypeCorrect == Spec => []TypeOK
  BY Inductive, PTL DEF IInv

\* handle_tracee_event() and new_child() hold a new process until it is
\* configured, for any number of processes and any order of their events.
THEOREM NeverRunsUnconfigured == Spec => []ConfiguredBeforeRun
  <1>1. IInv => ConfiguredBeforeRun
    BY DEF IInv, BirthInv, ListInv, TypeOK, ConfiguredBeforeRun
  <1> QED
    BY <1>1, Inductive, PTL

\* The loop leaves no tracee stopped that nobody will restart.
THEOREM StoppedIsAccountedFor == Spec => []NobodyForgotten
  <1>1. IInv => NobodyForgotten
    BY DEF IInv, HeldInv, ListInv, BirthInv, NobodyForgotten
  <1> QED
    BY <1>1, Inductive, PTL

\* A guest process is never let run too early and never left behind (new_child(), the
\* SIGSTOP case of handle_tracee_event()), for any number of processes.
THEOREM EveryGuestReleased == Spec => []GuestsReleased
  BY NeverRunsUnconfigured, StoppedIsAccountedFor, PTL DEF GuestsReleased

\* event_loop() returns with every process it ever met killed, as long as there
\* are no more of them than kill_all_tracees() has room for.
THEOREM NothingEscapes ==
    ASSUME IsFiniteSet(Pid), Cardinality(Pid) <= MAX_KILL_BATCH
    PROVE  Spec => []NoEscape
  <1>1. FitsBatch
    <2> SUFFICES ASSUME NEW L \in SUBSET Pid PROVE KillBatches(L) = {L}
      BY DEF FitsBatch
    <2>1. Cardinality(L) <= Cardinality(Pid) /\ Cardinality(L) \in Nat /\ Cardinality(Pid) \in Nat
      BY FS_Subset, FS_CardinalityType
    <2> QED
      BY <2>1, BatchAssumption DEF KillBatches
  <1>2. IInv => NoEscape
    BY <1>1 DEF IInv, DoneInv, HeldInv, ListInv, BirthInv, NoEscape
  <1> QED
    BY <1>2, Inductive, PTL

-----------------------------------------------------------------------------
\* A FORK event that is still to be handled names a child of its own, which is not
\* configured and, unless it died before it was, is not gone.
Forking(q) == kstate[q] = "stopped" /\ kevent[q] = "FORK"
OwnChild ==
    \A q \in Pid : Forking(q) =>
        /\ forked[q] \in Pid /\ kstate[forked[q]] # "absent" /\ forked[q] \notin exe
        /\ \A r \in Pid : Forking(r) /\ forked[r] = forked[q] => r = q
EarlyEnd ==
    nquit = 0 /\ pc # "done" =>
        \A q \in Pid : Forking(q) /\ kstate[forked[q]] = "reaped" =>
            forked[q] \in earlyDeath \/ (pc = "handle" /\ cur = forked[q])
\* Without a SIGQUIT whoever was reaped is known to the loop by its end.
ReapedHere == pc = "handle" /\ nquit = 0 /\ kstate[cur] = "reaped" => curev \in DeathEvents
Existing == kstate[Root] # "absent" /\ \A p \in exe : kstate[p] # "absent"
StaleInv == OwnChild /\ EarlyEnd /\ ReapedHere /\ Existing /\ NoStaleEntry

LEMMA InitStale == Init => StaleInv
  BY RootAssumption
     DEF Init, StaleInv, Forking, OwnChild, EarlyEnd, ReapedHere, Existing, NoStaleEntry

\* restart_tracee() makes nobody stop, be reaped or come into being.
LEMMA RestartKeeps ==
    ASSUME TypeOK, NEW S \in SUBSET Pid, restart_tracee(S), NEW p \in Pid
    PROVE  /\ kstate'[p] = "stopped" =>
                kstate[p] = "stopped" /\ kevent'[p] = kevent[p] /\ p \notin S \ terminated
           /\ kstate'[p] = "reaped" <=> kstate[p] = "reaped"
           /\ kstate'[p] = "absent" <=> kstate[p] = "absent"
  BY DEF TypeOK, restart_tracee

LEMMA NextStale == ASSUME IInv, StaleInv, [Next]_vars PROVE StaleInv'
  <1> USE DEF IInv, TypeOK, StaleInv, Forking
  <1>1. ASSUME NEW p \in Pid, NEW q \in Pid, Fork(p, q) PROVE StaleInv'
    <2>1. OwnChild'
      BY <1>1 DEF OwnChild, Existing, Fork, registry, loop, history
    <2>2. EarlyEnd'
      BY <1>1 DEF OwnChild, EarlyEnd, Fork, registry, loop, history
    <2>3. ReapedHere'
      BY <1>1 DEF ReapedHere, CurInv, Fork, registry, loop, history
    <2>4. Existing'
      BY <1>1, RootAssumption DEF Existing, Fork, registry, loop, history
    <2>5. NoStaleEntry'
      BY <1>1 DEF NoStaleEntry, Fork, registry, loop, history
    <2> QED BY <2>1, <2>2, <2>3, <2>4, <2>5
  <1>2. ASSUME NEW p \in Pid, AttachStop(p) PROVE StaleInv'
    BY <1>2 DEF OwnChild, EarlyEnd, ReapedHere, Existing, NoStaleEntry, AttachStop, Stops, registry, loop, history
  <1>3. ASSUME NEW p \in Pid, Signal(p) PROVE StaleInv'
    BY <1>3 DEF OwnChild, EarlyEnd, ReapedHere, Existing, NoStaleEntry, Signal, Stops, registry, loop, history
  <1>4. ASSUME NEW p \in Pid, Kill(p) PROVE StaleInv'
    <2>1. OwnChild'
      BY <1>4 DEF OwnChild, Kill, Killed, registry, loop, history
    <2>2. EarlyEnd'
      BY <1>4 DEF OwnChild, EarlyEnd, Kill, Killed, registry, loop, history
    <2>3. ReapedHere'
      BY <1>4 DEF ReapedHere, CurInv, Kill, Killed, registry, loop, history
    <2>4. Existing'
      BY <1>4, RootAssumption DEF Existing, Kill, Killed, registry, loop, history
    <2>5. NoStaleEntry'
      BY <1>4 DEF NoStaleEntry, Kill, Killed, registry, loop, history
    <2> QED BY <2>1, <2>2, <2>3, <2>4, <2>5
  <1>5. ASSUME NEW p \in Pid, NEW st \in Status, Exit(p, st) PROVE StaleInv'
    BY <1>5 DEF OwnChild, EarlyEnd, ReapedHere, Existing, NoStaleEntry, Exit, Stops, registry, loop, history
  <1>6. CASE Quit
    <2>1. OwnChild'
      BY <1>6 DEF OwnChild, Quit, kill_all_tracees_safely, registry
    <2>2. EarlyEnd'
      BY <1>6 DEF OwnChild, EarlyEnd, Quit, kill_all_tracees_safely, registry
    <2>3. ReapedHere'
      BY <1>6 DEF ReapedHere, Quit, kill_all_tracees_safely, registry
    <2>4. Existing'
      BY <1>6, RootAssumption DEF Existing, Quit, kill_all_tracees_safely, registry
    <2>5. NoStaleEntry'
      BY <1>6 DEF NoStaleEntry, Quit, kill_all_tracees_safely, registry
    <2> QED BY <2>1, <2>2, <2>3, <2>4, <2>5
  <1>7. CASE Top
    BY <1>7 DEF OwnChild, EarlyEnd, ReapedHere, Existing, NoStaleEntry, ListInv, Top, free_terminated_tracees, kernel, history
  <1>8. CASE TopRootExited
    <2>1. OwnChild'
      BY <1>8 DEF OwnChild, ListInv, TopRootExited, free_terminated_tracees, kill_all_tracees_safely
    <2>2. EarlyEnd'
      BY <1>8 DEF OwnChild, EarlyEnd, ListInv, TopRootExited, free_terminated_tracees, kill_all_tracees_safely
    <2>3. ReapedHere'
      BY <1>8 DEF ReapedHere, ListInv, TopRootExited, free_terminated_tracees, kill_all_tracees_safely
    <2>4. Existing'
      BY <1>8, RootAssumption DEF Existing, TopRootExited, free_terminated_tracees, kill_all_tracees_safely
    <2>5. NoStaleEntry'
      BY <1>8 DEF NoStaleEntry, ListInv, TopRootExited, free_terminated_tracees, kill_all_tracees_safely
    <2> QED BY <2>1, <2>2, <2>3, <2>4, <2>5
  <1>9. ASSUME NEW p \in Pid, WaitPid(p) PROVE StaleInv'
    BY <1>9 DEF OwnChild, EarlyEnd, ReapedHere, Existing, NoStaleEntry, KernelInv, WaitPid, registry, history
  <1>10. CASE WaitNoChild
    BY <1>10 DEF OwnChild, EarlyEnd, ReapedHere, Existing, NoStaleEntry, WaitNoChild, kernel, registry, history
  <1>11. CASE HandleDeath
    <2>1. OwnChild'
      BY <1>11 DEF OwnChild, CurInv, HandleDeath, Handle, Killed
    <2>2. EarlyEnd'
      BY <1>11 DEF OwnChild, EarlyEnd, CurInv, HandleDeath, Handle, Killed
    <2>3. ReapedHere'
      BY <1>11 DEF ReapedHere, CurInv, HandleDeath, Handle, Killed
    <2>4. Existing'
      BY <1>11 DEF Existing, CurInv, HandleDeath, Handle, Killed
    <2>5. NoStaleEntry'
      BY <1>11 DEF NoStaleEntry, CurInv, HandleDeath, Handle, Killed
    <2> QED BY <2>1, <2>2, <2>3, <2>4, <2>5
  <1>12. CASE HandleFork
    <2>0. PICK S \in SUBSET Pid : restart_tracee(S) /\ (kstate[cur] = "stopped" => cur \in S)
      BY <1>12 DEF CurInv, KernelInv, HandleFork, Handle, new_child
    <2>2. CASE kstate[cur] = "stopped"
      <3>1. /\ Forking(cur) /\ cur \in Pid /\ cur \notin terminated /\ exe' = exe \cup {forked[cur]}
            /\ tracees' = tracees \cup {cur, forked[cur]}
        BY <1>12, <2>2 DEF CurInv, ListInv, HandleFork, Handle, new_child
      <3>2. OwnChild'
        BY <1>12, <2>0, <3>1, RestartKeeps DEF OwnChild, HandleFork, Handle, history
      <3>3. EarlyEnd'
        BY <1>12, <2>0, <3>1, RestartKeeps DEF OwnChild, EarlyEnd, HandleFork, Handle, history
      <3>4. Existing'
        BY <1>12, <2>0, <3>1, RestartKeeps, RootAssumption DEF OwnChild, Existing
      <3>5. NoStaleEntry'
        BY <1>12, <2>0, <3>1, RestartKeeps
           DEF NoStaleEntry, OwnChild, EarlyEnd, HandleFork, Handle, history
      <3>6. ReapedHere'
        BY <1>12 DEF ReapedHere, HandleFork, Handle
      <3> QED BY <3>2, <3>3, <3>4, <3>5, <3>6
    <2>3. CASE kstate[cur] # "stopped"
      <3>1. cur \in Pid /\ exe' = exe /\ tracees' = tracees \cup {cur}
        BY <1>12, <2>3 DEF CurInv, HandleFork, Handle
      <3>2. OwnChild'
        BY <1>12, <2>0, <3>1, RestartKeeps DEF OwnChild, HandleFork, Handle, history
      <3>3. EarlyEnd'
        BY <1>12, <2>0, <3>1, RestartKeeps DEF OwnChild, EarlyEnd, ReapedHere, HandleFork, Handle, history
      <3>4. Existing'
        BY <1>12, <2>0, <3>1, RestartKeeps, RootAssumption DEF Existing
      <3>5. NoStaleEntry'
        BY <1>12, <2>0, <3>1, RestartKeeps
           DEF NoStaleEntry, ReapedHere, HandleFork, Handle, history
      <3>6. ReapedHere'
        BY <1>12 DEF ReapedHere, HandleFork, Handle
      <3> QED BY <3>2, <3>3, <3>4, <3>5, <3>6
    <2> QED BY <2>2, <2>3
  <1>13. CASE HandleSigstop
    <2>0. PICK S \in SUBSET Pid : restart_tracee(S)
      BY <1>13 DEF CurInv, HandleSigstop, Handle
    <2>1. OwnChild'
      BY <1>13, <2>0, RestartKeeps DEF OwnChild, HandleSigstop, Handle, history
    <2>2. EarlyEnd'
      BY <1>13, <2>0, RestartKeeps DEF OwnChild, EarlyEnd, ReapedHere, HandleSigstop, Handle, history
    <2>3. ReapedHere'
      BY <1>13 DEF ReapedHere, HandleSigstop, Handle
    <2>4. Existing'
      BY <1>13, <2>0, RestartKeeps, RootAssumption DEF Existing, HandleSigstop, history
    <2>5. NoStaleEntry'
      BY <1>13, <2>0, RestartKeeps DEF NoStaleEntry, ReapedHere, CurInv, HandleSigstop, Handle, history
    <2> QED BY <2>1, <2>2, <2>3, <2>4, <2>5
  <1>14. CASE HandleOther
    <2>0. PICK S \in SUBSET Pid : restart_tracee(S)
      BY <1>14 DEF CurInv, HandleOther, Handle
    <2>1. OwnChild'
      BY <1>14, <2>0, RestartKeeps DEF OwnChild, HandleOther, Handle, history
    <2>2. EarlyEnd'
      BY <1>14, <2>0, RestartKeeps DEF OwnChild, EarlyEnd, ReapedHere, HandleOther, Handle, history
    <2>3. ReapedHere'
      BY <1>14 DEF ReapedHere, HandleOther, Handle
    <2>4. Existing'
      BY <1>14, <2>0, RestartKeeps, RootAssumption DEF Existing, HandleOther, history
    <2>5. NoStaleEntry'
      BY <1>14, <2>0, RestartKeeps DEF NoStaleEntry, ReapedHere, CurInv, HandleOther, Handle, history
    <2> QED BY <2>1, <2>2, <2>3, <2>4, <2>5
  <1>15. CASE UNCHANGED vars
    BY <1>15 DEF OwnChild, EarlyEnd, ReapedHere, Existing, NoStaleEntry, vars, kernel, registry, loop, history
  <1> QED
    BY <1>1, <1>2, <1>3, <1>4, <1>5, <1>6, <1>7, <1>8, <1>9, <1>10, <1>11, <1>12, <1>13,
       <1>14, <1>15 DEF Next, Kernel, Loop, Done

\* The list of tracees keeps its type and, outside a SIGQUIT, nobody who is gone, but a
\* child that died before its parent's FORK event (free_terminated_tracees(), new_child()).
THEOREM RegistryStaysTrue == Spec => []RegistryTrue
  <1>1. IInv /\ StaleInv => RegistryTrue
    BY DEF IInv, StaleInv, RegistryTrue
  <1>2. IInv /\ StaleInv /\ [Next]_vars => StaleInv'
    BY NextStale
  <1> QED
    BY <1>1, <1>2, InitStale, Inductive, PTL DEF Spec

-----------------------------------------------------------------------------
(***************************************************************************)
(* PipeShadow.                                                             *)
(***************************************************************************)

\* A guest that closes an end has it, and only its own; slots hold pipes.
EndsHeld ==
    /\ open \subseteq Ends
    /\ at \in [Guests -> [op : {"run", "stopped", "closing", "blocked", "gone"},
                          end : Ends \cup {None}]]
    /\ \A g \in Guests : at[g].op \in {"stopped", "closing"} =>
          at[g].end \in open /\ at[g].end[1] = g
    /\ slot \in [1..Slots -> [pipe : Pipes \cup {None}, old : BOOLEAN]]

\* A read end that is not on its way out.
StaysRead(p) ==
    \E g \in Guests : <<g, p, "r">> \in open /\ at[g] # [op |-> "closing", end |-> <<g, p, "r">>]

\* What can be written has a reader, a shadow, or is one of the exceptions.
HeldOpen == \A p \in Pipes : Written(p) => p \in lost \/ Shadowed(p) \/ StaysRead(p)

PipeInv == EndsHeld /\ HeldOpen /\ WritesReach

LEMMA PipeInvInit == PipeInit => PipeInv
<1> SUFFICES ASSUME PipeInit PROVE PipeInv  OBVIOUS
<1> USE DEF PipeInit, Running, Unused
<1>1. EndsHeld
  BY PipeShadowAssumption DEF EndsHeld
<1>2. HeldOpen
  <2> SUFFICES ASSUME NEW p \in Pipes, Written(p) PROVE StaysRead(p)
    BY DEF HeldOpen
  <2>1. PICK g \in Guests : <<g, p, "w">> \in Ends
    BY DEF Written
  <2>2. PICK h \in Guests : <<h, p, "r">> \in Ends
    BY <2>1, PipeShadowAssumption
  <2> QED  BY <2>2 DEF StaysRead
<1>3. WritesReach
  BY DEF WritesReach
<1> QED  BY <1>1, <1>2, <1>3 DEF PipeInv

\* Shadows stay or come, nothing is opened, and what was closing goes.
LEMMA HeldOpenKept ==
    ASSUME PipeInv, open' = open, lost \subseteq lost',
           \A p \in Pipes : Shadowed(p) => Shadowed(p)' \/ p \in lost' \/ ~Written(p),
           \A p \in Pipes, g \in Guests :
               at'[g] = [op |-> "closing", end |-> <<g, p, "r">>] =>
                   at[g] = [op |-> "closing", end |-> <<g, p, "r">>] \/ Shadowed(p)' \/ p \in lost'
    PROVE  HeldOpen'
<1> SUFFICES ASSUME NEW p \in Pipes, Written(p)' PROVE p \in lost' \/ Shadowed(p)' \/ StaysRead(p)'
  BY DEF HeldOpen
<1>1. Written(p)
  BY DEF Written
<1>2. CASE p \in lost \/ Shadowed(p)
  BY <1>1, <1>2
<1>3. CASE StaysRead(p)
  BY <1>3 DEF StaysRead
<1> QED  BY <1>1, <1>2, <1>3 DEF PipeInv, HeldOpen

LEMMA PipeInvStep == PipeInv /\ [PipeNext]_pipevars => PipeInv'
<1> SUFFICES ASSUME PipeInv, [PipeNext]_pipevars PROVE PipeInv'  OBVIOUS
<1> USE DEF PipeInv
<1>1. ASSUME NEW g \in Guests, HandleClose(g) PROVE PipeInv'
  <2> DEFINE e == at[g].end
  <2>1. e \in Ends /\ e \in open /\ e[1] = g /\ e[2] \in Pipes /\ e = <<g, e[2], e[3]>>
    BY <1>1, PipeShadowAssumption DEF HandleClose, EndsHeld
  <2>2. at' = [at EXCEPT ![g] = [op |-> "closing", end |-> e]] /\ open' = open /\ refused' = refused
    BY <1>1 DEF HandleClose, Do
  <2>3. CASE e[3] = "r" /\ lost' = lost \cup {e[2]} /\ slot' = slot
    <3>1. HeldOpen'
      BY <2>1, <2>2, <2>3, HeldOpenKept DEF EndsHeld, Shadowed
    <3> QED  BY <2>1, <2>2, <2>3, <3>1 DEF EndsHeld, WritesReach
  <2>4. CASE e[3] # "r" /\ slot' = slot /\ lost' = lost
    <3>1. HeldOpen'
      BY <2>1, <2>2, <2>4, HeldOpenKept DEF EndsHeld, Shadowed
    <3> QED  BY <2>1, <2>2, <2>4, <3>1 DEF EndsHeld, WritesReach
  <2>5. ASSUME NEW i \in DOMAIN slot, e[3] = "r", slot[i].pipe = None, lost' = lost,
               slot' = [slot EXCEPT ![i] = [pipe |-> e[2], old |-> FALSE]]
        PROVE  PipeInv'
    <3>1. DOMAIN slot = 1..Slots /\ slot'[i].pipe = e[2]
      BY <2>5 DEF EndsHeld
    <3>2. \A j \in DOMAIN slot : j # i => slot'[j] = slot[j]
      BY <2>5, <3>1 DEF EndsHeld
    <3>3. DOMAIN slot' = DOMAIN slot
      BY <2>5
    <3>4. ASSUME NEW p \in Pipes, Shadowed(p) \/ p = e[2] PROVE Shadowed(p)'
      BY <2>5, <3>1, <3>2, <3>4, <3>3, PipeShadowAssumption DEF Shadowed
    <3>5. HeldOpen'
      BY <2>1, <2>2, <2>5, <3>4, HeldOpenKept DEF EndsHeld
    <3>6. EndsHeld'
      BY <2>1, <2>2, <2>5 DEF EndsHeld
    <3> QED  BY <2>2, <2>5, <3>5, <3>6 DEF WritesReach
  <2> QED  BY <1>1, <2>3, <2>4, <2>5 DEF HandleClose, shadow_pipe_read_end
<1>2. CASE LoopTop
  <2>1. open' = open /\ at' = at /\ refused' = refused
    BY <1>2 DEF LoopTop, guests
  <2>2. CASE slot' = slot /\ lost' = lost
    <3>1. HeldOpen'
      BY <2>1, <2>2, HeldOpenKept DEF Shadowed
    <3> QED  BY <2>1, <2>2, <3>1 DEF EndsHeld, WritesReach
  <2> DEFINE dropped == {i \in DOMAIN slot : slot[i].pipe # None /\ Useless(slot[i])}
  <2>3. CASE /\ slot' = [i \in DOMAIN slot |-> IF i \in dropped THEN Unused ELSE slot[i]]
             /\ lost' = lost \cup {p \in Pipes : \E i \in dropped :
                                     \/ slot[i] = [pipe |-> p, old |-> TRUE]
                                     \/ slot[i].pipe = p /\ writer_would_block(p)}
    <3>1. ASSUME NEW p \in Pipes, Shadowed(p) PROVE Shadowed(p)' \/ p \in lost' \/ ~Written(p)
      <4>1. PICK i \in DOMAIN slot : slot[i].pipe = p
        BY <3>1 DEF Shadowed
      <4>2. CASE i \notin dropped
        BY <2>3, <4>1, <4>2 DEF Shadowed
      <4>3. CASE i \in dropped
        <5>1. slot[i] \in [pipe : Pipes \cup {None}, old : BOOLEAN]
          BY DEF EndsHeld
        <5>2. slot[i].old => slot[i] = [pipe |-> p, old |-> TRUE]
          BY <4>1, <5>1
        <5>3. ~Written(p) \/ writer_would_block(p) \/ slot[i].old
          BY <4>1, <4>3 DEF Useless, HungUp
        <5> QED  BY <2>3, <4>1, <4>3, <5>2, <5>3
      <4> QED  BY <4>2, <4>3
    <3>2. lost \subseteq lost'
      BY <2>3
    <3> HIDE DEF dropped
    <3>3. HeldOpen'
      BY <2>1, <3>1, <3>2, HeldOpenKept
    <3>4. EndsHeld'
      BY <2>1, <2>3 DEF EndsHeld, Unused
    <3> QED  BY <2>1, <3>2, <3>3, <3>4 DEF WritesReach
  <2> QED  BY <1>2, <2>2, <2>3 DEF LoopTop, shadow_pipes_reap
<1>3. ASSUME NEW i \in DOMAIN slot, Ages(i) PROVE PipeInv'
  <2>1. /\ slot' = [slot EXCEPT ![i].old = TRUE] /\ open' = open /\ at' = at /\ refused' = refused
        /\ lost' = lost
    BY <1>3 DEF Ages, guests
  <2>2. \A j \in DOMAIN slot : slot'[j].pipe = slot[j].pipe
    BY <2>1 DEF EndsHeld
  <2>3. HeldOpen'
    BY <2>1, <2>2, HeldOpenKept DEF Shadowed, EndsHeld
  <2>4. EndsHeld'
    BY <2>1 DEF EndsHeld
  <2> QED  BY <2>1, <2>3, <2>4 DEF WritesReach
<1>4. CASE \/ Wait \/ maybe_recv_user_notif_listener \/ wakeup_event_loop \/ Interval
           \/ UNCHANGED pipevars
  <2>1. /\ slot' = slot /\ open' = open /\ at' = at /\ refused' = refused /\ lost' = lost
    BY <1>4 DEF Wait, maybe_recv_user_notif_listener, wakeup_event_loop, Interval, guests, pipevars
  <2>2. HeldOpen'
    BY <2>1, HeldOpenKept DEF Shadowed
  <2> QED  BY <2>1, <2>2 DEF EndsHeld, WritesReach
<1>5. CASE Guest /\ UNCHANGED <<slot, recent, timer, turn, polling, missed>>
  <2>1. ASSUME NEW g \in Guests, Exits(g), lost' = lost \cup Reads(g) PROVE PipeInv'
    <3>1. /\ at' = [at EXCEPT ![g] = [op |-> "gone", end |-> None]]
          /\ open' = {e \in open : e[1] # g} /\ refused' = refused /\ slot' = slot
      BY <1>5, <2>1 DEF Exits, Do
    <3>2. EndsHeld'
      BY <3>1 DEF EndsHeld
    <3>3. ASSUME NEW p \in Pipes, Written(p)' PROVE p \in lost' \/ Shadowed(p)' \/ StaysRead(p)'
      <4>1. Written(p)
        BY <3>1, <3>3 DEF Written
      <4>2. CASE p \in lost \/ Shadowed(p)
        BY <2>1, <3>1, <4>2 DEF Shadowed
      <4>3. CASE StaysRead(p)
        <5>1. PICK h \in Guests : /\ <<h, p, "r">> \in open
                                  /\ at[h] # [op |-> "closing", end |-> <<h, p, "r">>]
          BY <4>3 DEF StaysRead
        <5>2. CASE h = g
          BY <2>1, <5>1, <5>2 DEF Reads
        <5>3. CASE h # g
          BY <3>1, <5>1, <5>3 DEF StaysRead, EndsHeld
        <5> QED  BY <5>2, <5>3
      <4> QED  BY <4>1, <4>2, <4>3 DEF HeldOpen
    <3> QED  BY <2>1, <3>1, <3>2, <3>3 DEF HeldOpen, WritesReach
  <2>2. ASSUME NEW g \in Guests, Closes(g), lost' = lost PROVE PipeInv'
    <3>1. /\ at' = [at EXCEPT ![g] = Running] /\ open' = open \ {at[g].end} /\ refused' = refused
          /\ slot' = slot /\ at[g].op = "closing"
      BY <1>5, <2>2 DEF Closes
    <3>2. EndsHeld'
      BY <3>1 DEF EndsHeld, Running
    <3>3. ASSUME NEW p \in Pipes, Written(p)' PROVE p \in lost' \/ Shadowed(p)' \/ StaysRead(p)'
      <4>1. Written(p)
        BY <3>1, <3>3 DEF Written
      <4>2. CASE p \in lost \/ Shadowed(p)
        BY <2>2, <3>1, <4>2 DEF Shadowed
      <4>3. CASE StaysRead(p)
        <5>1. PICK h \in Guests : /\ <<h, p, "r">> \in open
                                  /\ at[h] # [op |-> "closing", end |-> <<h, p, "r">>]
          BY <4>3 DEF StaysRead
        <5>2. at[g] = [op |-> "closing", end |-> at[g].end] /\ at[g].end[1] = g
          BY <3>1 DEF EndsHeld
        <5>3. <<h, p, "r">> \in open'
          BY <3>1, <5>1, <5>2
        <5>4. at'[h] # [op |-> "closing", end |-> <<h, p, "r">>]
          BY <3>1, <5>1 DEF Running, EndsHeld
        <5> QED  BY <5>3, <5>4 DEF StaysRead
      <4> QED  BY <4>1, <4>2, <4>3 DEF HeldOpen
    <3> QED  BY <2>2, <3>1, <3>2, <3>3 DEF HeldOpen, WritesReach
  <2>3. ASSUME NEW g \in Guests, NEW p \in Pipes, Write(g, p), lost' = lost PROVE PipeInv'
    <3>1. /\ open' = open /\ slot' = slot /\ <<g, p, "w">> \in open /\ at[g].op = "run"
          /\ (at' = at \/ at' = [at EXCEPT ![g] = [op |-> "blocked", end |-> <<g, p, "w">>]])
      BY <1>5, <2>3 DEF Write, Do
    <3>2. EndsHeld'
      BY <3>1 DEF EndsHeld
    <3>3. HeldOpen'
      BY <2>3, <3>1, HeldOpenKept DEF Shadowed, EndsHeld
    <3>4. refused' \subseteq refused \cup (IF Read(p) \/ Shadowed(p) THEN {} ELSE {p})
      BY <2>3 DEF Write
    <3>5. Read(p) \/ Shadowed(p) \/ p \in lost
      BY <3>1 DEF HeldOpen, Written, StaysRead, Read
    <3> QED  BY <2>3, <3>2, <3>3, <3>4, <3>5 DEF WritesReach
  <2>4. ASSUME NEW g \in Guests, Close(g) \/ Unblock(g) \/ \E p \in Pipes : Drain(g, p), lost' = lost
        PROVE  PipeInv'
    <3>1. /\ open' = open /\ slot' = slot /\ refused' = refused
          /\ \/ at' = at
             \/ at' = [at EXCEPT ![g] = Running]
             \/ \E e \in open : e[1] = g /\ at' = [at EXCEPT ![g] = [op |-> "stopped", end |-> e]]
      BY <1>5, <2>4 DEF Close, Unblock, Drain, Do
    <3>2. EndsHeld'
      BY <3>1 DEF EndsHeld, Running
    <3>3. HeldOpen'
      BY <2>4, <3>1, HeldOpenKept DEF Shadowed, EndsHeld, Running
    <3> QED  BY <2>4, <3>1, <3>2, <3>3 DEF WritesReach
  <2> QED  BY <1>5, <2>1, <2>2, <2>3, <2>4 DEF Guest
<1> QED  BY <1>1, <1>2, <1>3, <1>4, <1>5 DEF PipeNext, PipeLoop

\* No write fails that would not fail without the tracer (shadow_pipe_read_end(),
\* shadow_pipes_reap()), for any number of guests, pipes, ends and slots.
THEOREM EveryWriteReaches == PipeSpec => []WritesReach
<1>1. PipeInv => WritesReach
  BY DEF PipeInv
<1> QED  BY <1>1, PipeInvInit, PipeInvStep, PTL DEF PipeSpec
=============================================================================
