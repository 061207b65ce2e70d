------------------------- MODULE TracerThreadsProofs -------------------------
(***************************************************************************)
(* Proofs that the tracer's locks do exclude, and that an orderly end      *)
(* kills every tracee, for any number of tracees, signals and              *)
(* notifications.                                                          *)
(***************************************************************************)
EXTENDS TracerThreads, TLAPS

\* Who is inside a section holds its lock; the converse is not needed.
LockInv ==
    /\ \A f \in Frame : InListSection(f) => listlock = f
    /\ \A b \in Base : InEventSection(b) => mutex = b

\* evt is a tracee wherever the loop uses it as one.
EvtInv ==
    pc["main"] \in {"lock", "get", "get_cs", "new", "new_cs", "handle", "free_cs"}
        => evt \in Tracee

IInv == TypeOK /\ LockInv /\ EvtInv

USE DEF Base, Handler, Frame, Labels, Under, Above, InListSection, InEventSection

LEMMA InitIInv == Init => IInv
  <1> SUFFICES ASSUME Init PROVE IInv
    OBVIOUS
  <1>1. /\ pc \in [Frame -> Labels] /\ pids \in [Frame -> SUBSET Tracee]
        /\ fatal \in [Frame -> BOOLEAN]
    BY DEF Init
  <1>2. nsig \in 0..MaxSig /\ nnotif \in 0..MaxNotif
    BY BoundAssumption DEF Init
  <1>3. TypeOK
    BY <1>1, <1>2 DEF Init, TypeOK
  <1>4. LockInv /\ EvtInv
    BY DEF Init, LockInv, EvtInv
  <1> QED
    BY <1>3, <1>4 DEF IInv

\* The steps of kill_all_tracees_safely().
LEMMA KillingStep == ASSUME IInv, NEW f \in Killers, Killing(f) PROVE IInv'
  <1> USE DEF IInv, Step, At, Goto, Killers, data, flags
  <1>1. CASE EnterKill(f)
    <2>1. /\ cut' \in BOOLEAN /\ signal_in_progress' \in BOOLEAN
          /\ cleanup_done' \in BOOLEAN /\ handling_signal' \in BOOLEAN
      BY <1>1, Zenon DEF EnterKill, TypeOK
    <2>2. TypeOK'
      BY <1>1, <2>1 DEF EnterKill, TypeOK
    <2>3. LockInv' /\ EvtInv'
      BY <1>1 DEF EnterKill, TypeOK, LockInv, EvtInv
    <2> QED BY <2>2, <2>3
  <1>2. CASE KillFlag(f)
    <2>1. /\ cut' \in BOOLEAN /\ signal_in_progress' \in BOOLEAN
          /\ cleanup_done' \in BOOLEAN /\ handling_signal' \in BOOLEAN
      BY <1>2, Zenon DEF KillFlag, TypeOK
    <2>2. TypeOK'
      BY <1>2, <2>1 DEF KillFlag, After, TypeOK
    <2>3. LockInv' /\ EvtInv'
      BY <1>2 DEF KillFlag, After, TypeOK, LockInv, EvtInv
    <2> QED BY <2>2, <2>3
  <1>3. CASE KillSpin(f) BY <1>3 DEF KillSpin, Acquire, TypeOK, LockInv, EvtInv
  <1>4. CASE KillCollect(f) BY <1>4 DEF KillCollect, Release, TypeOK, LockInv, EvtInv
  <1>5. CASE KillAll(f)
    <2>1. /\ cut' \in BOOLEAN /\ signal_in_progress' \in BOOLEAN
          /\ cleanup_done' \in BOOLEAN /\ handling_signal' \in BOOLEAN
      BY <1>5, Zenon DEF KillAll, TypeOK
    <2>2. TypeOK'
      BY <1>5, <2>1 DEF KillAll, After, TypeOK
    <2>3. LockInv' /\ EvtInv'
      BY <1>5 DEF KillAll, After, TypeOK, LockInv, EvtInv
    <2> QED BY <2>2, <2>3
  <1>6. CASE Sweep(f)
    <2>1. /\ cut' \in BOOLEAN /\ signal_in_progress' \in BOOLEAN
          /\ cleanup_done' \in BOOLEAN /\ handling_signal' \in BOOLEAN
      BY <1>6, Zenon DEF Sweep, TypeOK
    <2>2. TypeOK'
      BY <1>6, <2>1 DEF Sweep, TypeOK
    <2>3. LockInv' /\ EvtInv'
      BY <1>6 DEF Sweep, TypeOK, LockInv, EvtInv
    <2> QED BY <2>2, <2>3
  <1> QED BY <1>1, <1>2, <1>3, <1>4, <1>5, <1>6 DEF Killing

\* The steps of the signal handler.
LEMMA SignalsStep == ASSUME IInv, Signals PROVE IInv'
  <1> USE BoundAssumption DEF IInv, Step, At, Goto, data, flags
  <1>1. ASSUME NEW h \in Handler, NEW b \in BOOLEAN, SignalArrives(h, b) PROVE IInv'
    BY <1>1 DEF SignalArrives, TypeOK, LockInv, EvtInv
  <1>2. ASSUME NEW h \in Handler, HandlerEnter(h) PROVE IInv'
    BY <1>2 DEF HandlerEnter, HandlerReturns, TypeOK, LockInv, EvtInv
  <1>3. ASSUME NEW h \in Handler, HandlerEnd(h) PROVE IInv'
    <2>1. /\ handling_signal' \in BOOLEAN /\ exited' \in BOOLEAN
          /\ by' \in Frame \cup {"none"}
      <3>1. fatal[h] \in BOOLEAN
        BY <1>3 DEF TypeOK
      <3> QED
        BY <1>3, <3>1, Zenon DEF HandlerEnd, TypeOK
    <2>2. pc' \in [Frame -> Labels]
      BY <1>3 DEF HandlerEnd, HandlerReturns, TypeOK
    <2>3. TypeOK'
      BY <1>3, <2>1, <2>2 DEF HandlerEnd, TypeOK
    <2>4. LockInv' /\ EvtInv'
      BY <1>3 DEF HandlerEnd, HandlerReturns, TypeOK, LockInv, EvtInv
    <2> QED BY <2>3, <2>4
  <1> QED BY <1>1, <1>2, <1>3 DEF Signals

\* The steps of the loop.
LEMMA MainStep == ASSUME IInv, Main PROVE IInv'
  <1> USE DEF IInv, Step, At, Goto, data, flags, Rest
  <1>1. CASE FreeSpin BY <1>1 DEF FreeSpin, Acquire, TypeOK, LockInv, EvtInv
  <1>2. CASE FreeCollect BY <1>2 DEF FreeCollect, Release, TypeOK, LockInv, EvtInv
  <1>3. CASE FreeRelease BY <1>3 DEF FreeRelease, Release, TypeOK, LockInv, EvtInv
  <1>4. CASE WaitNoChild BY <1>4 DEF WaitNoChild, TypeOK, LockInv, EvtInv
  <1>5. CASE MainLock BY <1>5 DEF MainLock, TypeOK, LockInv, EvtInv
  <1>6. CASE MainGetSpin BY <1>6 DEF MainGetSpin, Acquire, TypeOK, LockInv, EvtInv
  <1>7. CASE MainGet BY <1>7 DEF MainGet, Release, TypeOK, LockInv, EvtInv
  <1>8. CASE MainNewSpin BY <1>8 DEF MainNewSpin, Acquire, TypeOK, LockInv, EvtInv
  <1>9. CASE MainNew BY <1>9 DEF MainNew, Release, TypeOK, LockInv, EvtInv
  <1>10. CASE MainUnlock BY <1>10 DEF MainUnlock, TypeOK, LockInv, EvtInv
  <1>11. CASE MainReturn BY <1>11 DEF MainReturn, TypeOK, LockInv, EvtInv
  <1>12. CASE MainExit BY <1>12 DEF MainExit, TypeOK, LockInv, EvtInv
  <1>13. ASSUME NEW x \in Tracee, FreeUnlink(x) PROVE IInv'
    BY <1>13 DEF FreeUnlink, Acquire, TypeOK, LockInv, EvtInv
  <1>14. ASSUME NEW m \in {"wait", "safely"}, FreeDone(m) PROVE IInv'
    BY <1>14 DEF FreeDone, TypeOK, LockInv, EvtInv
  <1>15. ASSUME NEW e \in BOOLEAN, NEW a \in BOOLEAN, MainHandle(e, a) PROVE IInv'
    BY <1>15 DEF MainHandle, TypeOK, LockInv, EvtInv
  <1>16. ASSUME NEW x \in Tracee, WaitEvent(x) PROVE IInv'
    BY <1>16 DEF WaitEvent, TypeOK, LockInv, EvtInv
  <1> QED
    BY <1>1, <1>2, <1>3, <1>4, <1>5, <1>6, <1>7, <1>8, <1>9, <1>10, <1>11, <1>12, <1>13,
       <1>14, <1>15, <1>16 DEF Main, MainBusy

\* The steps of the notification thread.
LEMMA NotifStep == ASSUME IInv, Notif PROVE IInv'
  <1> USE DEF IInv, Step, At, Goto, data, flags, Rest
  <1>1. CASE NotifLock BY <1>1 DEF NotifLock, TypeOK, LockInv, EvtInv
  <1>2. CASE NotifGetSpin BY <1>2 DEF NotifGetSpin, Acquire, TypeOK, LockInv, EvtInv
  <1>3. CASE NotifGet BY <1>3 DEF NotifGet, Release, TypeOK, LockInv, EvtInv
  <1>4. CASE NotifEmulate BY <1>4 DEF NotifEmulate, TypeOK, LockInv, EvtInv
  <1>5. CASE NotifUnlock BY <1>5 DEF NotifUnlock, TypeOK, LockInv, EvtInv
  <1>6. CASE NotifSend BY <1>6 DEF NotifSend, TypeOK, LockInv, EvtInv
  <1>7. ASSUME NEW x \in Tracee, NotifRecv(x) PROVE IInv'
    BY <1>7, BoundAssumption DEF NotifRecv, TypeOK, LockInv, EvtInv
  <1> QED BY <1>1, <1>2, <1>3, <1>4, <1>5, <1>6, <1>7 DEF Notif, NotifBusy

LEMMA NextIInv == IInv /\ [Next]_vars => IInv'
  <1> SUFFICES ASSUME IInv, [Next]_vars PROVE IInv'
    OBVIOUS
  <1>1. CASE UNCHANGED vars
    BY <1>1 DEF vars, data, flags, IInv, TypeOK, LockInv, EvtInv
  <1> QED
    BY <1>1, KillingStep, SignalsStep, MainStep, NotifStep DEF Next, Exited

\* The locks' bookkeeping is an invariant of all frames together.
THEOREM Inductive == Spec => []IInv
  BY InitIInv, NextIInv, PTL DEF Spec

\* Every variable keeps its type.
THEOREM TypeCorrect == Spec => []TypeOK
  BY Inductive, PTL DEF IInv

\* tracee_list_lock and user_notif_tracee_lock exclude, handlers included.
THEOREM LocksExclude == Spec => []Exclusion
  <1>1. IInv => Exclusion
    BY DEF IInv, LockInv, Exclusion
  <1> QED
    BY <1>1, Inductive, PTL

-----------------------------------------------------------------------------
(* The killing is complete.                                                *)

\* What the frames of the loop's thread have collected, and then killed: while
\* one of them is at work nobody else changes the list.
KillInv ==
    ~cut => \A f \in {"main", "main_sig"} :
        /\ pc[f] = "kkill" => listed \subseteq pids[f]
        /\ pc[f] \in {"sweep", "kdone"} => listed \subseteq killed

KInv == KillInv /\ KilledAtExit

LEMMA InitKInv == Init => KInv
  BY DEF Init, KInv, KillInv, KilledAtExit

LEMMA KillingKInv == ASSUME IInv, KInv, NEW f \in Killers, Killing(f) PROVE KInv'
  <1> USE DEF IInv, TypeOK, KInv, KillInv, KilledAtExit, Step, At, Goto, Killers, data, flags
  <1>1. CASE EnterKill(f) BY <1>1 DEF EnterKill
  <1>2. CASE KillFlag(f) BY <1>2 DEF KillFlag, After
  <1>3. CASE KillSpin(f) BY <1>3 DEF KillSpin
  <1>4. CASE KillCollect(f) BY <1>4 DEF KillCollect
  <1>5. CASE KillAll(f) BY <1>5 DEF KillAll, After
  <1>6. CASE Sweep(f) BY <1>6 DEF Sweep
  <1> QED BY <1>1, <1>2, <1>3, <1>4, <1>5, <1>6 DEF Killing

LEMMA SignalsKInv == ASSUME IInv, KInv, Signals PROVE KInv'
  <1> USE DEF IInv, TypeOK, KInv, KillInv, KilledAtExit, Step, At, Goto, data, flags
  <1>1. ASSUME NEW h \in Handler, NEW b \in BOOLEAN, SignalArrives(h, b) PROVE KInv'
    BY <1>1 DEF SignalArrives
  <1>2. ASSUME NEW h \in Handler, HandlerEnter(h) PROVE KInv'
    BY <1>2 DEF HandlerEnter, HandlerReturns
  <1>3. ASSUME NEW h \in Handler, HandlerEnd(h) PROVE KInv'
    BY <1>3 DEF HandlerEnd, HandlerReturns
  <1> QED BY <1>1, <1>2, <1>3 DEF Signals

LEMMA MainKInv == ASSUME IInv, KInv, Main PROVE KInv'
  <1> USE DEF IInv, TypeOK, KInv, KillInv, KilledAtExit, Step, At, Goto, data, flags, Rest
  <1>1. CASE FreeSpin BY <1>1 DEF FreeSpin
  <1>2. CASE FreeCollect BY <1>2 DEF FreeCollect
  <1>3. CASE FreeRelease BY <1>3 DEF FreeRelease
  <1>4. CASE WaitNoChild BY <1>4 DEF WaitNoChild
  <1>5. CASE MainLock BY <1>5 DEF MainLock
  <1>6. CASE MainGetSpin BY <1>6 DEF MainGetSpin
  <1>7. CASE MainGet BY <1>7 DEF MainGet
  <1>8. CASE MainNewSpin BY <1>8 DEF MainNewSpin
  <1>9. CASE MainNew BY <1>9 DEF MainNew
  <1>10. CASE MainUnlock BY <1>10 DEF MainUnlock
  <1>11. CASE MainReturn BY <1>11 DEF MainReturn
  <1>12. CASE MainExit BY <1>12 DEF MainExit
  <1>13. ASSUME NEW x \in Tracee, FreeUnlink(x) PROVE KInv'
    BY <1>13 DEF FreeUnlink
  <1>14. ASSUME NEW m \in {"wait", "safely"}, FreeDone(m) PROVE KInv'
    BY <1>14 DEF FreeDone
  <1>15. ASSUME NEW e \in BOOLEAN, NEW a \in BOOLEAN, MainHandle(e, a) PROVE KInv'
    BY <1>15 DEF MainHandle
  <1>16. ASSUME NEW x \in Tracee, WaitEvent(x) PROVE KInv'
    BY <1>16 DEF WaitEvent
  <1> QED
    BY <1>1, <1>2, <1>3, <1>4, <1>5, <1>6, <1>7, <1>8, <1>9, <1>10, <1>11, <1>12, <1>13,
       <1>14, <1>15, <1>16 DEF Main, MainBusy

LEMMA NotifKInv == ASSUME IInv, KInv, Notif PROVE KInv'
  <1> USE DEF IInv, TypeOK, KInv, KillInv, KilledAtExit, Step, At, Goto, data, flags, Rest
  <1>1. CASE NotifLock BY <1>1 DEF NotifLock
  <1>2. CASE NotifGetSpin BY <1>2 DEF NotifGetSpin
  <1>3. CASE NotifGet BY <1>3 DEF NotifGet
  <1>4. CASE NotifEmulate BY <1>4 DEF NotifEmulate
  <1>5. CASE NotifUnlock BY <1>5 DEF NotifUnlock
  <1>6. CASE NotifSend BY <1>6 DEF NotifSend
  <1>7. ASSUME NEW x \in Tracee, NotifRecv(x) PROVE KInv'
    BY <1>7 DEF NotifRecv
  <1> QED BY <1>1, <1>2, <1>3, <1>4, <1>5, <1>6, <1>7 DEF Notif, NotifBusy

LEMMA NextKInv == IInv /\ KInv /\ [Next]_vars => KInv'
  <1> SUFFICES ASSUME IInv, KInv, [Next]_vars PROVE KInv'
    OBVIOUS
  <1>1. CASE UNCHANGED vars
    BY <1>1 DEF vars, data, flags, KInv, KillInv, KilledAtExit
  <1> QED
    BY <1>1, KillingKInv, SignalsKInv, MainKInv, NotifKInv DEF Next, Exited

\* A tracer that exits through its own thread, with no killing skipped, has
\* sent SIGKILL to every tracee on its list.
THEOREM ExitKillsAll == Spec => []KilledAtExit
  <1>1. KInv => KilledAtExit
    BY DEF KInv
  <1> QED
    BY <1>1, Inductive, InitKInv, NextKInv, PTL DEF Spec
=============================================================================
