-------------------------------- MODULE UmProofs --------------------------------
(* What the caller of a run is told is true of every run: for any output of the      *)
(* guest, any buffer, any number of signals and any status. And what runs make and   *)
(* remove on the host: for any number of them, any root, and any bind targets. And that  *)
(* a session is served by one daemon, for any number of starts and crashes.           *)
EXTENDS UmRun, UmSetup, UmSession, SequenceTheorems, TLAPS

Started == {"guard", "loop", "reap", "clean", "cleaned", "dismiss"}
Over == {"clean", "cleaned", "dismiss", "exit"}

(* Killed by SIGKILL or by the signal that was forwarded, not run, ended by itself.   *)
Ends == {128 + SIGKILL, 128 + SIGTERM, 127, 0}

Types ==
  /\ run \in {"setup", "armed", "fork", "exit", "dead"} \cup Started
  /\ child \in {"none", "forked", "leader", "told", "ran", "zombie", "reaped"}
  /\ kin \in {"none", "alive", "dying"} /\ pipe \in {"empty", "G", "eof"}
  /\ shake \in {"open", "ready", "closed"} /\ dog \in {"none", "watch", "kill", "gone"}
  /\ req \in {0, SIGTERM} /\ status \in Codes \cup {None} /\ ended \in Ends \cup {None}
  /\ pty \in Nat /\ buf \in Nat

Flags ==
  /\ fwd \in BOOLEAN /\ late \in BOOLEAN /\ drained \in BOOLEAN /\ eof \in BOOLEAN
  /\ failed \in BOOLEAN /\ reader \in BOOLEAN /\ gone \in BOOLEAN

(* The group pipe ends without the marker only if the child died before it was the    *)
(* leader of a group, and then it had no processes.                              *)
MarkerTold ==
  /\ run \in {"setup", "armed", "fork"} => child = "none"
  /\ child = "none" => pipe = "empty"
  /\ kin # "none" => pipe = "G"
  /\ pipe = "empty" => child \in {"none", "forked", "leader"}
  /\ pipe = "eof" => child \in {"zombie", "reaped"}
  /\ shake = "closed" => pipe = "eof"

(* What the last look at the group found is still so.                            *)
GoneForGood == run \in {"dismiss", "exit"} /\ gone => child \in {"none", "reaped"} /\ kin = "none"

(* Why a child is dead, and what holds of a loop that ended.                       *)
CausesKnown ==
  /\ child \in {"zombie", "reaped"} <=> ended # None
  /\ ended = 128 + SIGTERM => req # 0
  /\ drained => child = "reaped"
  /\ eof => pty = 0 /\ child \in {"zombie", "reaped"}
  /\ run = "reap" => child = "reaped" /\ (drained \/ eof)

(* The result is final: nothing it was made of changes any more.                   *)
ResultStays ==
  /\ dog # "none" => run \notin {"setup", "armed", "fork", "guard"}
  /\ run \in Over /\ dog # "none" =>
       /\ child = "reaped"
       /\ result = status /\ ~failed /\ ~drained => pty = 0 /\ buf = 0
       /\ late /\ ~failed => result = 124
       /\ ended = 128 + SIGTERM /\ ~late /\ ~failed => result = 128 + SIGTERM

IInv == Types /\ Flags /\ MarkerTold /\ GoneForGood /\ CausesKnown /\ ResultStays

-------------------------------------------------------------------------------
LEMMA InvInit == UmRunAssumption /\ RunInit => IInv
<1> SUFFICES ASSUME UmRunAssumption, RunInit PROVE IInv  OBVIOUS
<1>1. Types /\ MarkerTold
  BY DEF RunInit, Types, MarkerTold
<1>2. Flags
  BY DEF RunInit, Flags
<1>3. GoneForGood /\ CausesKnown /\ ResultStays
  BY DEF RunInit, GoneForGood, CausesKnown, ResultStays, None, SIGTERM
<1> QED BY <1>1, <1>2, <1>3 DEF IInv

(* The start: there is no child yet, or it has not been told of.                    *)
LEMMA StartKeeps ==
  ASSUME UmRunAssumption, IInv,
         um_install_signal_handlers \/ Forget \/ ForkKernel \/ ForkWatchdog \/ ForkFails
  PROVE  IInv'
<1> USE DEF IInv, Types, Flags, MarkerTold, GoneForGood, CausesKnown, ResultStays, Started, Over
<1>1. CASE um_install_signal_handlers
  BY <1>1 DEF um_install_signal_handlers, procs, outs
<1>2. CASE Forget
  BY <1>2 DEF Forget, procs, outs, None, SIGTERM
<1>3. CASE ForkKernel
  BY <1>3 DEF ForkKernel, outs, None
<1>4. CASE ForkWatchdog
  <2>1. Types'
    BY <1>4 DEF ForkWatchdog, procs, outs
  <2>6. Flags'
    BY <1>4 DEF ForkWatchdog, procs, outs
  <2>2. MarkerTold'
    BY <1>4 DEF ForkWatchdog, procs, outs
  <2>3. GoneForGood'
    BY <1>4 DEF ForkWatchdog, procs, outs
  <2>4. CausesKnown'
    BY <1>4 DEF ForkWatchdog, procs, outs
  <2>5. ResultStays'
    BY <1>4 DEF ForkWatchdog, procs, outs
  <2> QED BY <2>1, <2>6, <2>2, <2>3, <2>4, <2>5
<1>5. CASE ForkFails
  <2>1. Types'
    BY <1>5 DEF ForkFails, procs, outs
  <2>6. Flags'
    BY <1>5 DEF ForkFails, procs, outs
  <2>2. MarkerTold'
    BY <1>5 DEF ForkFails, procs, outs
  <2>3. GoneForGood'
    BY <1>5 DEF ForkFails, procs, outs
  <2>4. CausesKnown'
    BY <1>5 DEF ForkFails, procs, outs
  <2>5. ResultStays'
    BY <1>5 DEF ForkFails, procs, outs
  <2> QED BY <2>1, <2>6, <2>2, <2>3, <2>4, <2>5
<1> QED BY <1>1, <1>2, <1>3, <1>4, <1>5

(* The loop: waiting, signals, deadlines, output.                                *)
LEMMA LoopKeeps ==
  ASSUME UmRunAssumption, IInv,
         \/ Reap \/ Forward \/ Timeout \/ Escalate \/ DrainDeadline \/ Handshake
         \/ ReadMaster \/ MasterEnds \/ WriteOut \/ LoopEnds
  PROVE  IInv'
<1> USE DEF IInv, Types, Flags, MarkerTold, GoneForGood, CausesKnown, ResultStays, Started, Over
<1>1. CASE Reap
  BY <1>1 DEF Reap, outs
<1>2. CASE Forward
  BY <1>2 DEF Forward, outs, procs, ChildAlive, None, SIGTERM, Ends
<1>3. CASE Timeout
  BY <1>3 DEF Timeout, Kill, ChildAlive, outs, Looping, None, SIGKILL, SIGTERM, Ends
<1>4. CASE Escalate
  BY <1>4 DEF Escalate, Kill, ChildAlive, outs, None, SIGKILL, SIGTERM, Ends
<1>5. CASE DrainDeadline
  BY <1>5 DEF DrainDeadline, procs, outs, child_done
<1>6. CASE Handshake
  BY <1>6 DEF Handshake, procs, outs
<1>7. CASE ReadMaster
  <2>1. Types'
    BY <1>7 DEF ReadMaster, procs, Kill, Ends
  <2>6. Flags'
    <3>1. UNCHANGED <<fwd, late, drained, eof, reader, gone>>
      BY <1>7 DEF ReadMaster
    <3>2. failed' = failed \/ failed' = TRUE
      BY <1>7 DEF ReadMaster
    <3> QED BY <3>1, <3>2
  <2>2. MarkerTold'
    BY <1>7 DEF ReadMaster, procs, Kill, ChildAlive
  <2>3. GoneForGood'
    BY <1>7 DEF ReadMaster, procs, Kill, ChildAlive
  <2>4. CausesKnown'
    BY <1>7 DEF ReadMaster, procs, Kill, ChildAlive, None, SIGKILL, SIGTERM
  <2>5. ResultStays'
    BY <1>7 DEF ReadMaster, procs, Kill, ChildAlive
  <2> QED BY <2>1, <2>6, <2>2, <2>3, <2>4, <2>5
<1>8. CASE MasterEnds
  BY <1>8 DEF MasterEnds, procs
<1>9. CASE WriteOut
  BY <1>9 DEF WriteOut, procs
<1>10. CASE LoopEnds
  BY <1>10 DEF LoopEnds, procs, outs, child_done
<1> QED BY <1>1, <1>2, <1>3, <1>4, <1>5, <1>6, <1>7, <1>8, <1>9, <1>10

(* After the loop: the result is made, and the group looked at a last time.            *)
LEMMA EndKeeps ==
  ASSUME UmRunAssumption, IInv, AfterLoop \/ CleanKill \/ CleanReap \/ CleanWait \/ Exit
  PROVE  IInv'
<1> USE DEF IInv, Types, Flags, MarkerTold, GoneForGood, CausesKnown, ResultStays, Started, Over
<1>1. CASE AfterLoop
  <2>1. Types'
    BY <1>1 DEF AfterLoop, procs, FlushUntil
  <2>6. Flags'
    <3>1. UNCHANGED <<fwd, late, drained, eof, reader>> /\ gone' \in BOOLEAN
      BY <1>1 DEF AfterLoop
    <3>2. failed' = failed \/ failed' = TRUE \/ failed' = FALSE
      BY <1>1 DEF AfterLoop, FlushUntil
    <3> QED BY <3>1, <3>2
  <2>2. MarkerTold'
    BY <1>1 DEF AfterLoop, procs
  <2>3. GoneForGood'
    BY <1>1 DEF AfterLoop
  <2>4. CausesKnown'
    BY <1>1 DEF AfterLoop, procs
  <2>5. ResultStays'
    BY <1>1 DEF AfterLoop, procs, FlushUntil, Result
  <2> QED BY <2>1, <2>6, <2>2, <2>3, <2>4, <2>5
<1>2. CASE CleanKill
  BY <1>2 DEF CleanKill, Kill, ChildAlive, outs, None, SIGKILL, SIGTERM, Ends
<1>3. CASE CleanReap
  BY <1>3 DEF CleanReap, procs, outs
<1>4. CASE CleanWait
  BY <1>4 DEF CleanWait, procs, outs, child_done, GroupGone
<1>5. CASE Exit
  BY <1>5 DEF Exit, procs, outs
<1> QED BY <1>1, <1>2, <1>3, <1>4, <1>5

(* The child, and the guest in it.                                             *)
LEMMA GuestKeeps ==
  ASSUME UmRunAssumption, IInv, Guest
  PROVE  IInv'
<1> USE DEF IInv, Types, Flags, MarkerTold, GoneForGood, CausesKnown, ResultStays, Started, Over
<1>1. CASE ChildLeader
  BY <1>1 DEF ChildLeader, outs, Rest
<1>2. CASE ChildTells
  BY <1>2 DEF ChildTells, outs, Rest
<1>3. CASE ChildExec
  BY <1>3 DEF ChildExec, outs, Rest
<1>4. CASE ChildFails
  BY <1>4 DEF ChildFails, outs, Rest, None, SIGTERM, Ends
<1>5. CASE KernelForks
  BY <1>5 DEF KernelForks, outs, Rest
<1>6. CASE GuestOutput
  BY <1>6 DEF GuestOutput, procs, Rest
<1>7. CASE GuestEnds
  BY <1>7 DEF GuestEnds, outs, Rest
<1>8. CASE KernelEnds
  BY <1>8 DEF KernelEnds, outs, Rest, None, SIGTERM, Ends
<1> QED BY <1>1, <1>2, <1>3, <1>4, <1>5, <1>6, <1>7, <1>8 DEF Guest

(* Signals, the end of the supervisor, and what the system does.                    *)
LEMMA OutsideKeeps ==
  ASSUME UmRunAssumption, IInv, \/ KinGoes \/ InitReaps \/ ReaderLeaves
         \/ um_signal_handler \/ SupervisorKilled
  PROVE  IInv'
<1> USE DEF IInv, Types, Flags, MarkerTold, GoneForGood, CausesKnown, ResultStays, Started, Over
<1>1. CASE KinGoes
  BY <1>1 DEF KinGoes, outs, Rest
<1>2. CASE InitReaps
  BY <1>2 DEF InitReaps, outs, Rest
<1>3. CASE ReaderLeaves
  <2>1. Types'
    BY <1>3 DEF ReaderLeaves, procs, Rest
  <2>6. Flags'
    BY <1>3 DEF ReaderLeaves, procs, Rest
  <2>2. MarkerTold'
    BY <1>3 DEF ReaderLeaves, procs, Rest
  <2>3. GoneForGood'
    BY <1>3 DEF ReaderLeaves, procs, Rest
  <2>4. CausesKnown'
    BY <1>3 DEF ReaderLeaves, procs, Rest
  <2>5. ResultStays'
    BY <1>3 DEF ReaderLeaves, procs, Rest
  <2> QED BY <2>1, <2>6, <2>2, <2>3, <2>4, <2>5
<1>4. CASE um_signal_handler
  BY <1>4 DEF um_signal_handler, procs, outs
<1>5. CASE SupervisorKilled
  BY <1>5 DEF SupervisorKilled, Kill, ChildAlive, outs, None, SIGKILL, SIGTERM, Ends
<1> QED BY <1>1, <1>2, <1>3, <1>4, <1>5

(* The watchdog.                                                              *)
LEMMA WatchdogKeeps ==
  ASSUME UmRunAssumption, IInv, um_watchdog_main
  PROVE  IInv'
<1> USE DEF IInv, Types, Flags, MarkerTold, GoneForGood, CausesKnown, ResultStays, Started, Over
<1>1. CASE DogDismissed
  BY <1>1 DEF DogDismissed, procs, outs
<1>2. CASE DogKills
  BY <1>2 DEF DogKills, Kill, ChildAlive, outs, None, SIGKILL, SIGTERM, Ends
<1>3. CASE DogGroup
  BY <1>3 DEF DogGroup, outs, Rest
<1>4. CASE DogEnds
  BY <1>4 DEF DogEnds, procs, outs
<1> QED BY <1>1, <1>2, <1>3, <1>4 DEF um_watchdog_main

LEMMA StutterKeeps == IInv /\ UNCHANGED runvars => IInv'
BY DEF runvars, IInv, Types, Flags, MarkerTold, GoneForGood, CausesKnown, ResultStays

LEMMA Invariant == ASSUME UmRunAssumption PROVE RunSpec => []IInv
<1>1. IInv /\ [RunNext]_runvars => IInv'
  BY StartKeeps, LoopKeeps, EndKeeps, GuestKeeps, OutsideKeeps, WatchdogKeeps, StutterKeeps
  DEF RunNext, Supervisor, Deadlines
<1>2. RunInit => IInv
  BY InvInit
<1> QED BY <1>1, <1>2, PTL DEF RunSpec

(* The caller of a run may remove its directories when it is told that the group is   *)
(* gone, and the status it is given means what it says (um_run_kernel(), the reports    *)
(* of the cleanup and um_read_guest_status()).                                     *)
THEOREM RunsAreSound == ASSUME UmRunAssumption PROVE RunSpec => []RunSound
<1>1. IInv => RunSound
  BY DEF IInv, GoneForGood, ResultStays, Over, RunSound, NothingLeft, StatusMeansAll
<1> QED BY <1>1, Invariant, PTL

--------------------------------------------------------------------------------
(* What runs make and remove on the host: UmSetup.                                  *)
PathTo(x, n) == SubSeq(x, 1, n)
Stages == {"parse", "targets", "runtime", "ext4binds", "session", "binds", "wrapper", "meta",
           "run", "clean", "failed", "undo", "exit"}
Things == {"runtime", ".owner", "session"} \cup Inside

SetupTypes ==
  /\ pc \in [Runs -> Stages] /\ opt \in [Runs -> Options]
  /\ have \in [Runs -> SUBSET Things] /\ session \in [Runs -> BOOLEAN]
  /\ todo \in [Runs -> [target : Nat \ {0}, depth : Nat \ {0}]]
  /\ \A r \in Runs : Left(r) => todo[r].depth =< Len(ThisTarget(r))
  /\ created \in [Runs -> Seq(Tree)] /\ tree \in [Tree -> Runs \cup {"none", "before"}]

(* Who has a directory of its own, when, and what he knows of it.                         *)
Unstarted == {"parse", "targets", "runtime"}
HaveOk(r) ==
  /\ pc[r] \in Unstarted => have[r] = {}
  /\ "runtime" \in have[r] <=> ".owner" \in have[r]
  /\ "runtime" \in have[r] => Ext4(r)
  /\ "session" \in have[r] => session[r] \/ r \in lost
  /\ pc[r] \in {"binds", "wrapper", "meta", "run"} => session[r]
  /\ pc[r] \in {"ext4binds", "session", "binds", "wrapper", "meta", "run", "failed"} =>
       have[r] \cap {"status", "other", "root.cow"} = {}
  /\ pc[r] \notin {"undo", "exit", "clean"} /\ r \notin lost /\ have[r] \cap Inside # {} => session[r]
  /\ pc[r] \in {"undo", "exit"} => have[r] = {} \/ "other" \in have[r] \/ r \in lost
HaveKnown == \A r \in Runs : HaveOk(r)

(* Nothing is where there is no directory.                                               *)
ParentsThere == \A x \in Tree : There(x) => \A n \in 1..Len(x) : There(PathTo(x, n))

(* What a run has recorded it has made, parents first; what it has made and not recorded   *)
(* it has left because of another run, or forgotten.                                      *)
Before(c, y, z) == \E i, j \in 1..Len(c) : i < j /\ c[i] = y /\ c[j] = z
OwnRecorded ==
  /\ \A r \in Runs : \A i \in 1..Len(created[r]) : tree[created[r][i]] = r
  /\ \A r \in Runs : \A y, z \in Tree :
       Before(created[r], y, z) => y # z /\ y \notin Below(z)
  /\ \A r \in Runs \ lost : \A x \in Tree :
       tree[x] = r => x \in kept \/ \E i \in 1..Len(created[r]) : created[r][i] = x
  /\ \A r \in Runs : pc[r] \in {"parse", "exit"} => created[r] = <<>>
  /\ \A e \in removed : e[1] = e[2]

SetupInv == SetupTypes /\ HaveKnown /\ ParentsThere /\ OwnRecorded

-------------------------------------------------------------------------------
LEMMA SetupInvInit == SetupInit => SetupInv
  <1> SUFFICES ASSUME SetupInit PROVE SetupInv  OBVIOUS
  <1>1. SetupTypes
    <2>1. \A r \in Runs : Left(r) => todo[r].depth =< Len(ThisTarget(r))
      <3> SUFFICES ASSUME NEW r \in Runs, Left(r) PROVE todo[r].depth =< Len(ThisTarget(r))  OBVIOUS
      <3>1. todo[r] = [target |-> 1, depth |-> 1] /\ opt[r] \in CommandLine
        BY SetupAssumption DEF SetupInit
      <3>2. opt[r].targets \in Seq(Tree) /\ 1 =< Len(opt[r].targets)
        BY <3>1 DEF Left, CommandLine
      <3>3. opt[r].targets[1] \in Tree
        BY <3>2
      <3>4. opt[r].targets[1] \in Seq(Components) /\ opt[r].targets[1] # <<>>
        BY <3>3, SetupAssumption DEF PrefixClosed
      <3> QED
        BY <3>1, <3>4 DEF ThisTarget
    <2>2. created \in [Runs -> Seq(Tree)] /\ have \in [Runs -> SUBSET Things]
      BY DEF SetupInit
    <2>3. pc \in [Runs -> Stages] /\ session \in [Runs -> BOOLEAN] /\ opt \in [Runs -> Options]
      BY DEF SetupInit, Stages
    <2>4. tree \in [Tree -> Runs \cup {"none", "before"}]
      BY DEF SetupInit
    <2>5. todo \in [Runs -> [target : Nat \ {0}, depth : Nat \ {0}]]
      BY DEF SetupInit
    <2> QED
      BY <2>1, <2>2, <2>3, <2>4, <2>5 DEF SetupTypes
  <1>2. HaveKnown
    BY DEF SetupInit, HaveKnown, HaveOk, Unstarted
  <1>3. ParentsThere
    <2>1. \A x \in Tree : There(x) <=> x \in Initial
      BY DEF SetupInit, There
    <2>2. \A x \in Initial : \A n \in 1..Len(x) : PathTo(x, n) \in Initial /\ PathTo(x, n) \in Tree
      BY SetupAssumption DEF PrefixClosed, PathTo
    <2> QED
      BY <2>1, <2>2 DEF ParentsThere
  <1>4. OwnRecorded
    <2>1. \A r \in Runs : created[r] = <<>>
      BY DEF SetupInit
    <2>2. \A r \in Runs : \A x \in Tree : tree[x] # r
      BY SetupAssumption DEF SetupInit
    <2>3. removed = {}
      BY DEF SetupInit
    <2> QED
      BY <2>1, <2>2, <2>3 DEF OwnRecorded, Before
  <1> QED
    BY <1>1, <1>2, <1>3, <1>4 DEF SetupInv

(* A step of run r that concerns its own directories only.                                *)
OwnStep(r) ==
  /\ UNCHANGED <<opt, todo, created, tree, removed, kept>> /\ lost \subseteq lost'
  /\ pc' \in [Runs -> Stages] /\ have' \in [Runs -> SUBSET Things] /\ session' \in [Runs -> BOOLEAN]
  /\ \A u \in Runs \ {r} : pc'[u] = pc[u] /\ have'[u] = have[u] /\ session'[u] = session[u]
  /\ pc'[r] = "exit" => pc[r] = "parse"
  /\ pc'[r] # "parse"
  /\ HaveOk(r)'

LEMMA OwnStepKeeps ==
  ASSUME SetupInv, NEW r \in Runs, OwnStep(r)
  PROVE  SetupInv'
  <1>1. UNCHANGED <<opt, todo, created, tree, removed, kept>> /\ lost \subseteq lost'
    BY DEF OwnStep
  <1>2. /\ pc' \in [Runs -> Stages] /\ have' \in [Runs -> SUBSET Things] /\ session' \in [Runs -> BOOLEAN]
        /\ \A u \in Runs \ {r} : pc'[u] = pc[u] /\ have'[u] = have[u] /\ session'[u] = session[u]
    BY DEF OwnStep
  <1>3. SetupTypes'
    BY <1>1, <1>2 DEF SetupInv, SetupTypes, Left, ThisTarget
  <1>4. HaveKnown'
    <2>1. \A u \in Runs \ {r} : HaveOk(u)'
      BY <1>1, <1>2 DEF SetupInv, HaveKnown, HaveOk, Ext4
    <2> QED
      BY <2>1 DEF HaveKnown, OwnStep
  <1>5. ParentsThere'
    BY <1>1 DEF SetupInv, ParentsThere, There
  <1>6. OwnRecorded'
    <2>1. \A u \in Runs : pc'[u] \in {"parse", "exit"} => pc[u] \in {"parse", "exit"}
      BY <1>2 DEF OwnStep
    <2>2. \A x : Below(x)' = Below(x)
      BY <1>1 DEF Below, There
    <2> QED
      BY <1>1, <2>1, <2>2 DEF SetupInv, OwnRecorded
  <1> QED
    BY <1>3, <1>4, <1>5, <1>6 DEF SetupInv

(* One step of making things, or of failing to.                                           *)
LEMMA MakeOwn ==
  ASSUME SetupInv, NEW r \in Runs, NEW at \in Stages \ {"parse"}, NEW onto \in Stages \ {"exit", "parse"},
         NEW needed \in BOOLEAN, NEW things \in SUBSET Things, Make(r, at, onto, needed, things),
         at \in {"runtime", "ext4binds", "binds", "wrapper", "meta"},
         onto \in {"ext4binds", "session", "wrapper", "meta", "run"},
         "runtime" \in things <=> ".owner" \in things,
         "runtime" \in things /\ needed => Ext4(r),
         "session" \notin things, things \cap {"status", "other", "root.cow"} = {},
         things \cap Inside # {} => session[r],
         onto \in {"wrapper", "meta", "run"} => session[r]
  PROVE  OwnStep(r)
  <1>1. /\ pc[r] = at /\ UNCHANGED <<opt, session, todo, created, tree, lost, removed, kept>>
        /\ \/ pc' = [pc EXCEPT ![r] = onto] /\ have' = [have EXCEPT ![r] = have[r] \cup If2(needed, things)]
           \/ pc' = [pc EXCEPT ![r] = "failed"] /\ have' = have
    BY DEF Make, Set, Own
  <1>2. /\ pc \in [Runs -> Stages] /\ have \in [Runs -> SUBSET Things] /\ session \in [Runs -> BOOLEAN]
        /\ HaveOk(r)
    BY DEF SetupInv, SetupTypes, HaveKnown
  <1>3. If2(needed, things) \in SUBSET Things /\ "failed" \in Stages
    BY DEF If2, Stages
  <1>4. /\ pc' \in [Runs -> Stages] /\ have' \in [Runs -> SUBSET Things]
        /\ \A u \in Runs \ {r} : pc'[u] = pc[u] /\ have'[u] = have[u]
        /\ pc'[r] \notin {"exit", "parse"}
    BY <1>1, <1>2, <1>3
  <1>5. HaveOk(r)'
    <2>1. CASE pc' = [pc EXCEPT ![r] = onto] /\ have' = [have EXCEPT ![r] = have[r] \cup If2(needed, things)]
      <3>1. pc'[r] = onto /\ have'[r] = have[r] \cup If2(needed, things)
        BY <1>2, <2>1
      <3>2. onto \notin Unstarted \cup {"undo", "exit"}
        BY DEF Unstarted
      <3>3. Ext4(r)' = Ext4(r)
        BY <1>1 DEF Ext4
      <3> QED
        BY <1>1, <1>2, <3>1, <3>2, <3>3 DEF HaveOk, If2, Unstarted
    <2>2. CASE pc' = [pc EXCEPT ![r] = "failed"] /\ have' = have
      <3>1. pc'[r] = "failed" /\ have'[r] = have[r] /\ Ext4(r)' = Ext4(r)
        BY <1>1, <1>2, <2>2 DEF Ext4
      <3> QED
        BY <1>1, <1>2, <3>1 DEF HaveOk, Unstarted
    <2> QED
      BY <1>1, <2>1, <2>2
  <1> QED
    BY <1>1, <1>2, <1>4, <1>5 DEF OwnStep

LEMMA MakesKeep ==
  ASSUME SetupInv, NEW r \in Runs,
         \/ um_make_runtime_root(r) \/ um_prepare_ext4_binds(r) \/ um_write_binds_file(r)
         \/ um_write_wrapper(r) \/ um_write_session_meta(r)
  PROVE  OwnStep(r)
  <1>1. Ext4(r) \in BOOLEAN /\ opt[r].session \in BOOLEAN
    BY SetupAssumption DEF Ext4, SetupInv, SetupTypes, CommandLine
  <1>2. CASE um_make_runtime_root(r)
    <2>1. {"runtime", ".owner"} \cap Inside = {}
      BY DEF Inside
    <2> QED
      BY <1>1, <1>2, <2>1, MakeOwn DEF um_make_runtime_root, Stages, Things
  <1>3. CASE um_prepare_ext4_binds(r)
    BY <1>1, <1>3, MakeOwn DEF um_prepare_ext4_binds, Stages, Things
  <1>4. pc[r] \in {"binds", "wrapper", "meta"} => session[r]
    BY DEF SetupInv, HaveKnown, HaveOk
  <1>5. CASE um_write_binds_file(r)
    <2>1. pc[r] = "binds"
      BY <1>5 DEF um_write_binds_file, Make
    <2> QED
      BY <1>1, <1>4, <1>5, <2>1, MakeOwn DEF um_write_binds_file, Stages, Things, Inside
  <1>6. CASE um_write_wrapper(r)
    <2>1. pc[r] = "wrapper"
      BY <1>6 DEF um_write_wrapper, Make
    <2> QED
      BY <1>1, <1>4, <1>6, <2>1, MakeOwn DEF um_write_wrapper, Stages, Things, Inside
  <1>7. CASE um_write_session_meta(r)
    <2>1. pc[r] = "meta"
      BY <1>7 DEF um_write_session_meta, Make
    <2> QED
      BY <1>1, <1>4, <1>7, <2>1, MakeOwn DEF um_write_session_meta, Stages, Things
  <1> QED
    BY <1>2, <1>3, <1>5, <1>6, <1>7

LEMMA SessionKeeps ==
  ASSUME SetupInv, NEW r \in Runs, um_make_session(r)
  PROVE  OwnStep(r)
  <1>1. /\ pc \in [Runs -> Stages] /\ have \in [Runs -> SUBSET Things] /\ session \in [Runs -> BOOLEAN]
        /\ HaveOk(r)
    BY DEF SetupInv, SetupTypes, HaveKnown
  <1>2. pc[r] = "session" /\ UNCHANGED <<opt, todo, created, tree, removed, kept>>
    BY DEF um_make_session
  <1>3. Ext4(r)' = Ext4(r)
    BY <1>2 DEF Ext4
  <1> DEFINE more == {"session"} \cup If2(opt[r].session, {"channel"})
  <1>4. /\ more \in SUBSET Things /\ "runtime" \notin more /\ ".owner" \notin more
        /\ more \cap {"status", "other", "root.cow"} = {}
    BY DEF Things, Inside, If2
  <1>5. CASE /\ have' = Set(have, r, Own(r) \cup more)
             /\ pc' = Set(pc, r, "binds") /\ session' = Set(session, r, TRUE) /\ lost' = lost
    <2> HIDE DEF more
    <2>1. /\ pc' \in [Runs -> Stages] /\ have' \in [Runs -> SUBSET Things] /\ session' \in [Runs -> BOOLEAN]
          /\ \A u \in Runs \ {r} : pc'[u] = pc[u] /\ have'[u] = have[u] /\ session'[u] = session[u]
          /\ pc'[r] = "binds" /\ session'[r] /\ have'[r] = have[r] \cup more
      BY <1>1, <1>4, <1>5 DEF Set, Own, Stages
    <2>2. HaveOk(r)'
      BY <1>1, <1>2, <1>3, <1>4, <1>5, <2>1 DEF HaveOk, Unstarted
    <2> QED
      BY <1>2, <1>5, <2>1, <2>2 DEF OwnStep
  <1>6. CASE pc' = Set(pc, r, "failed") /\ UNCHANGED <<have, session, lost>>
    <2>1. /\ pc' \in [Runs -> Stages] /\ pc'[r] = "failed" /\ \A u \in Runs \ {r} : pc'[u] = pc[u]
      BY <1>1, <1>6 DEF Set, Stages
    <2>2. HaveOk(r)'
      BY <1>1, <1>2, <1>3, <1>6, <2>1 DEF HaveOk, Unstarted
    <2> QED
      BY <1>1, <1>2, <1>6, <2>1, <2>2 DEF OwnStep
  <1>7. CASE /\ pc' = Set(pc, r, "failed") /\ UNCHANGED session
             /\ have' = Set(have, r, Own(r) \cup {"session"}) /\ lost' = lost \cup {r}
    <2>1. /\ pc' \in [Runs -> Stages] /\ have' \in [Runs -> SUBSET Things]
          /\ \A u \in Runs \ {r} : pc'[u] = pc[u] /\ have'[u] = have[u]
          /\ pc'[r] = "failed" /\ have'[r] = have[r] \cup {"session"} /\ r \in lost'
      BY <1>1, <1>7 DEF Set, Own, Stages, Things
    <2>2. HaveOk(r)'
      BY <1>1, <1>2, <1>3, <1>7, <2>1 DEF HaveOk, Unstarted
    <2> QED
      BY <1>1, <1>2, <1>7, <2>1, <2>2 DEF OwnStep
  <1> QED
    BY <1>5, <1>6, <1>7 DEF um_make_session

LEMMA RunKeeps ==
  ASSUME SetupInv, NEW r \in Runs, Run(r)
  PROVE  OwnStep(r)
  <1>1. /\ pc \in [Runs -> Stages] /\ have \in [Runs -> SUBSET Things] /\ session \in [Runs -> BOOLEAN]
        /\ HaveOk(r)
    BY DEF SetupInv, SetupTypes, HaveKnown
  <1>2. pc[r] = "run" /\ UNCHANGED <<opt, session, todo, created, tree, removed, kept>>
    BY DEF Run
  <1>3. Ext4(r)' = Ext4(r)
    BY <1>2 DEF Ext4
  <1>4. PICK more \in SUBSET {"status", "other"} :
          have' = Set(have, r, Own(r) \cup more
                                \cup If2(TemporaryCow(opt[r]), {"root.cow"})
                                \cup If2(Ext4(r) /\ opt[r].targets # <<>>, {"init-features"}))
    BY DEF Run
  <1> DEFINE all == more \cup If2(TemporaryCow(opt[r]), {"root.cow"})
                         \cup If2(Ext4(r) /\ opt[r].targets # <<>>, {"init-features"})
  <1>5. all \in SUBSET Inside
    BY DEF Inside, If2
  <1>6. have' = [have EXCEPT ![r] = have[r] \cup all]
    BY <1>4 DEF Set, Own
  <1> HIDE DEF all
  <1>7. all \in SUBSET Things /\ "runtime" \notin all /\ ".owner" \notin all /\ "session" \notin all
    BY <1>5 DEF Things, Inside
  <1>8. PICK to \in {"clean", "undo"} : pc' = [pc EXCEPT ![r] = to] /\ lost' = IF to = "clean" THEN lost ELSE lost \cup {r}
    BY DEF Run, Set
  <1>9. /\ pc' \in [Runs -> Stages] /\ have' \in [Runs -> SUBSET Things]
        /\ \A u \in Runs \ {r} : pc'[u] = pc[u] /\ have'[u] = have[u]
        /\ pc'[r] = to /\ have'[r] = have[r] \cup all
    BY <1>1, <1>6, <1>7, <1>8 DEF Stages
  <1>10. HaveOk(r)'
    BY <1>1, <1>2, <1>3, <1>7, <1>8, <1>9 DEF HaveOk, Unstarted
  <1> QED
    BY <1>1, <1>2, <1>8, <1>9, <1>10 DEF OwnStep

(* The two ways out: what is known of is removed.                                         *)
LEMMA CleanKeeps ==
  ASSUME SetupInv, NEW r \in Runs, Clean(r)
  PROVE  OwnStep(r)
  <1> DEFINE h == RmSession(have[r] \ {"root.cow", "binds", "init-features", "init.sh", "status", "channel"})
             k == IF "session" \notin h THEN um_cleanup_runtime_root(h) ELSE h
  <1>1. /\ pc \in [Runs -> Stages] /\ have \in [Runs -> SUBSET Things] /\ session \in [Runs -> BOOLEAN]
        /\ HaveOk(r)
    BY DEF SetupInv, SetupTypes, HaveKnown
  <1>2. /\ pc[r] = "clean" /\ pc' = [pc EXCEPT ![r] = "undo"] /\ have' = [have EXCEPT ![r] = k]
        /\ UNCHANGED <<opt, session, todo, created, tree, lost, removed, kept>>
    BY DEF Clean, Set, Own
  <1>3. Ext4(r)' = Ext4(r)
    BY <1>2 DEF Ext4
  <1>4. have[r] \subseteq Things
    BY <1>1
  <1>5. /\ h \subseteq {"runtime", ".owner", "session", "other"}
        /\ "runtime" \in h <=> ".owner" \in h
        /\ "session" \in h => "session" \in have[r] /\ "other" \in h
        /\ "runtime" \in h => "runtime" \in have[r]
    BY <1>1, <1>4 DEF RmSession, Things, Inside, HaveOk
  <1> HIDE DEF h
  <1>6. /\ k \subseteq h
        /\ "runtime" \in k <=> ".owner" \in k
        /\ k = {} \/ "other" \in k
    BY <1>5 DEF um_cleanup_runtime_root
  <1> HIDE DEF k
  <1>7. /\ pc' \in [Runs -> Stages] /\ have' \in [Runs -> SUBSET Things]
        /\ \A u \in Runs \ {r} : pc'[u] = pc[u] /\ have'[u] = have[u]
        /\ pc'[r] = "undo" /\ have'[r] = k
    BY <1>1, <1>2, <1>5, <1>6 DEF Stages, Things, Inside
  <1>8. HaveOk(r)'
    BY <1>1, <1>2, <1>3, <1>5, <1>6, <1>7 DEF HaveOk, Unstarted
  <1> QED
    BY <1>1, <1>2, <1>7, <1>8 DEF OwnStep

LEMMA FailedKeeps ==
  ASSUME SetupInv, NEW r \in Runs, Failed(r)
  PROVE  OwnStep(r)
  <1> DEFINE h == have[r] \ {"channel"}
             i == IF session[r] THEN RmSession(h \ {"init.sh", "status", "binds", "init-features"}) ELSE h
             k == IF Ext4(r) THEN um_cleanup_runtime_root(i) ELSE i
  <1>1. /\ pc \in [Runs -> Stages] /\ have \in [Runs -> SUBSET Things] /\ session \in [Runs -> BOOLEAN]
        /\ HaveOk(r)
    BY DEF SetupInv, SetupTypes, HaveKnown
  <1>2. /\ pc[r] = "failed" /\ pc' = [pc EXCEPT ![r] = "undo"] /\ have' = [have EXCEPT ![r] = k]
        /\ UNCHANGED <<opt, session, todo, created, tree, lost, removed, kept>>
    BY DEF Failed, Set, Own
  <1>3. Ext4(r)' = Ext4(r)
    BY <1>2 DEF Ext4
  <1>4. have[r] \subseteq Things
    BY <1>1
  <1>5. /\ i \subseteq have[r]
        /\ "runtime" \in i <=> ".owner" \in i
        /\ r \notin lost => i \subseteq {"runtime", ".owner"}
    <2>1. CASE session[r]
      BY <1>1, <1>2, <1>4, <2>1 DEF RmSession, Things, Inside, HaveOk
    <2>2. CASE ~session[r]
      BY <1>1, <1>2, <1>4, <2>2 DEF Things, Inside, HaveOk
    <2> QED
      BY <2>1, <2>2
  <1> HIDE DEF i
  <1>6. /\ k \subseteq i
        /\ "runtime" \in k <=> ".owner" \in k
        /\ k = {} \/ r \in lost
    BY <1>1, <1>5 DEF um_cleanup_runtime_root, HaveOk
  <1> HIDE DEF k
  <1>7. /\ pc' \in [Runs -> Stages] /\ have' \in [Runs -> SUBSET Things]
        /\ \A u \in Runs \ {r} : pc'[u] = pc[u] /\ have'[u] = have[u]
        /\ pc'[r] = "undo" /\ have'[r] = k
    BY <1>1, <1>2, <1>5, <1>6 DEF Stages
  <1>8. HaveOk(r)'
    BY <1>1, <1>2, <1>3, <1>5, <1>6, <1>7 DEF HaveOk, Unstarted
  <1> QED
    BY <1>1, <1>2, <1>7, <1>8 DEF OwnStep

LEMMA TurnKeeps ==
  ASSUME SetupInv, NEW r \in Runs, Parse(r) \/ TargetFails(r) \/ TargetsDone(r)
  PROVE  OwnStep(r)
  <1>1. /\ pc \in [Runs -> Stages] /\ have \in [Runs -> SUBSET Things] /\ session \in [Runs -> BOOLEAN]
        /\ HaveOk(r)
    BY DEF SetupInv, SetupTypes, HaveKnown
  <1>2. PICK to \in {"exit", "targets", "runtime", "undo"} :
          /\ pc' = [pc EXCEPT ![r] = to] /\ (to = "exit" => pc[r] = "parse") /\ pc[r] \in {"parse", "targets"}
          /\ UNCHANGED <<opt, have, session, todo, created, tree, lost, removed, kept>>
    <2>1. CASE Parse(r)
      BY <2>1 DEF Parse, Set
    <2>2. CASE TargetFails(r)
      BY <2>2 DEF TargetFails, Set
    <2>3. CASE TargetsDone(r)
      BY <2>3 DEF TargetsDone, Set
    <2> QED
      BY <2>1, <2>2, <2>3
  <1>3. /\ pc' \in [Runs -> Stages] /\ pc'[r] = to /\ \A u \in Runs \ {r} : pc'[u] = pc[u]
    BY <1>1, <1>2 DEF Stages
  <1>4. HaveOk(r)'
    BY <1>1, <1>2, <1>3 DEF HaveOk, Unstarted, Ext4
  <1> QED
    BY <1>1, <1>2, <1>3, <1>4 DEF OwnStep

-------------------------------------------------------------------------------
(* The paths down to a path.                                                              *)
LEMMA PathsTo ==
  ASSUME NEW x \in Tree
  PROVE  /\ x \in Seq(Components) /\ Len(x) \in Nat \ {0} /\ PathTo(x, Len(x)) = x
         /\ \A n \in 1..Len(x) : /\ PathTo(x, n) \in Tree /\ Len(PathTo(x, n)) = n
                               /\ \A m \in 1..n : PathTo(PathTo(x, n), m) = PathTo(x, m)
  <1>1. x \in Seq(Components) /\ x # <<>> /\ \A n \in 1..Len(x) : PathTo(x, n) \in Tree
    BY SetupAssumption DEF PrefixClosed, PathTo
  <1>2. Len(x) \in Nat \ {0}
    BY <1>1
  <1>3. PathTo(x, Len(x)) = x
    BY <1>1, SubSeqFull DEF PathTo
  <1>4. ASSUME NEW n \in 1..Len(x)
        PROVE  Len(PathTo(x, n)) = n /\ \A m \in 1..n : PathTo(PathTo(x, n), m) = PathTo(x, m)
    <2>1. \A i \in 1..n : x[i] \in Components
      BY <1>1, <1>2
    <2>2. n \in Int /\ 1 =< n
      BY <1>2
    <2>3. Len(SubSeq(x, 1, n)) = n
      BY <2>1, <2>2, SubSeqProperties
    <2>4. ASSUME NEW m \in 1..n PROVE SubSeq(SubSeq(x, 1, n), 1, m) = SubSeq(x, 1, m)
      <3>1. 1 \in 1..Len(x) /\ 1 \in 1..n-1+1 /\ m \in 1..n-1+1 /\ 1 + 1 - 1 = 1 /\ 1 + m - 1 = m
        BY <1>2
      <3> QED
        BY <1>1, <3>1, SubSeqOfSubSeq
    <2> QED
      BY <2>3, <2>4 DEF PathTo
  <1> QED
    BY <1>1, <1>2, <1>3, <1>4

LEMMA BelowIs ==
  ASSUME NEW x \in Tree, NEW y
  PROVE  y \in Below(x) <=> /\ y \in Tree /\ There(y) /\ Len(y) > Len(x) /\ PathTo(y, Len(x)) = x
  BY DEF Below, PathTo

(* What is not there has nothing in it.                                                   *)
LEMMA NothingBelow ==
  ASSUME ParentsThere, NEW x \in Tree, ~There(x)
  PROVE  Below(x) = {}
  <1> SUFFICES ASSUME NEW y \in Below(x) PROVE FALSE  OBVIOUS
  <1>1. y \in Tree /\ There(y) /\ Len(y) > Len(x) /\ PathTo(y, Len(x)) = x
    BY BelowIs
  <1>2. Len(x) \in 1..Len(y)
    BY <1>1, PathsTo
  <1> QED
    BY <1>1, <1>2 DEF ParentsThere

(* Target(r) looks at a path of the tree and goes on to the next.                          *)
LEMMA LooksAt ==
  ASSUME SetupInv, NEW r \in Runs, Left(r), todo' = Set(todo, r, NextPath(r)), UNCHANGED opt
  PROVE  /\ ThisPath(r) \in Tree
         /\ todo' \in [Runs -> [target : Nat \ {0}, depth : Nat \ {0}]]
         /\ \A u \in Runs : Left(u)' => todo'[u].depth =< Len(ThisTarget(u)')
  <1>1. /\ todo \in [Runs -> [target : Nat \ {0}, depth : Nat \ {0}]]
        /\ \A u \in Runs : Left(u) => todo[u].depth =< Len(ThisTarget(u))
        /\ opt[r].targets \in Seq(Tree)
    BY SetupAssumption DEF SetupInv, SetupTypes, CommandLine
  <1>2. todo[r].target \in Nat \ {0} /\ todo[r].depth \in Nat \ {0}
    BY <1>1
  <1>3. ThisTarget(r) \in Tree
    BY <1>1, <1>2 DEF Left, ThisTarget
  <1>4. todo[r].depth \in 1..Len(ThisTarget(r)) /\ Len(ThisTarget(r)) \in Nat
    BY <1>1, <1>2, <1>3, PathsTo
  <1>5. ThisPath(r) \in Tree
    BY <1>3, <1>4, PathsTo DEF ThisPath, PathTo
  <1>6. NextPath(r) \in [target : Nat \ {0}, depth : Nat \ {0}]
    BY <1>1, <1>2 DEF NextPath
  <1>7. /\ todo' \in [Runs -> [target : Nat \ {0}, depth : Nat \ {0}]]
        /\ todo'[r] = NextPath(r) /\ \A u \in Runs \ {r} : todo'[u] = todo[u]
    BY <1>1, <1>6 DEF Set
  <1>8. Left(r)' => todo'[r].depth =< Len(ThisTarget(r)')
    <2>1. CASE todo[r].depth < Len(ThisTarget(r))
      <3>1. todo'[r].target = todo[r].target /\ todo'[r].depth = todo[r].depth + 1
        BY <1>1, <1>7, <2>1 DEF NextPath
      <3>2. ThisTarget(r)' = ThisTarget(r)
        BY <3>1 DEF ThisTarget
      <3> QED
        BY <1>2, <1>4, <2>1, <3>1, <3>2
    <2>2. CASE ~(todo[r].depth < Len(ThisTarget(r)))
      <3>1. todo'[r].target = todo[r].target + 1 /\ todo'[r].depth = 1
        BY <1>7, <2>2 DEF NextPath
      <3>2. Left(r)' => opt[r].targets[todo'[r].target] \in Tree
        BY <1>1, <1>2, <3>1 DEF Left
      <3> QED
        BY <3>1, <3>2, PathsTo DEF ThisTarget
    <2> QED
      BY <2>1, <2>2
  <1>9. \A u \in Runs \ {r} : Left(u)' => todo'[u].depth =< Len(ThisTarget(u)')
    BY <1>1, <1>7 DEF Left, ThisTarget
  <1> QED
    BY <1>5, <1>7, <1>8, <1>9

LEMMA TargetThere ==
  ASSUME SetupInv, NEW r \in Runs, Target(r), There(ThisPath(r))
  PROVE  SetupInv'
  <1>1. UNCHANGED <<opt, have, session, removed, kept, created, tree, pc, lost>>
    BY DEF Target
  <1>2. /\ todo' \in [Runs -> [target : Nat \ {0}, depth : Nat \ {0}]]
        /\ \A u \in Runs : Left(u)' => todo'[u].depth =< Len(ThisTarget(u)')
    BY LooksAt DEF Target
  <1>3. SetupTypes'
    BY <1>1, <1>2 DEF SetupInv, SetupTypes
  <1>4. HaveKnown' /\ ParentsThere'
    BY <1>1 DEF SetupInv, HaveKnown, HaveOk, Ext4, ParentsThere, There
  <1>5. OwnRecorded'
    BY <1>1 DEF SetupInv, OwnRecorded, Below, There
  <1> QED
    BY <1>3, <1>4, <1>5 DEF SetupInv

LEMMA TargetMade ==
  ASSUME SetupInv, NEW r \in Runs, Target(r), ~There(ThisPath(r))
  PROVE  SetupInv'
  <1>0. PICK x : x = ThisPath(r)
    OBVIOUS
  <1>1. /\ x \in Tree
        /\ todo' \in [Runs -> [target : Nat \ {0}, depth : Nat \ {0}]]
        /\ \A u \in Runs : Left(u)' => todo'[u].depth =< Len(ThisTarget(u)')
    BY <1>0, LooksAt DEF Target
  <1>2. /\ pc[r] = "targets" /\ tree[x] = "none" /\ CanMake(x) /\ tree' = [tree EXCEPT ![x] = r]
        /\ UNCHANGED <<opt, have, session, removed, kept>>
        /\ IF Len(created[r]) < MaxCreated
           THEN created' = [created EXCEPT ![r] = Append(created[r], x)] /\ UNCHANGED <<pc, lost>>
           ELSE created' = created /\ pc' = [pc EXCEPT ![r] = "undo"] /\ lost' = lost \cup {r}
    BY <1>0 DEF Target, Set, There
  <1>3. /\ pc \in [Runs -> Stages] /\ created \in [Runs -> Seq(Tree)]
        /\ tree \in [Tree -> Runs \cup {"none", "before"}] /\ "none" \notin Runs /\ "before" \notin Runs
    BY SetupAssumption DEF SetupInv, SetupTypes
  <1>4. /\ tree' \in [Tree -> Runs \cup {"none", "before"}] /\ tree'[x] = r
        /\ \A y \in Tree : y # x => tree'[y] = tree[y]
    BY <1>1, <1>2, <1>3
  <1>5. \A y \in Tree : There(y)' <=> There(y) \/ y = x
    BY <1>1, <1>3, <1>4 DEF There
  <1>6. Below(x) = {}
    BY <1>1, <1>2, NothingBelow DEF SetupInv, There
  <1>7. \A y \in Tree : Below(y)' \subseteq Below(y) \cup {x}
    BY <1>5 DEF Below
  <1>8. Below(x)' = {}
    <2>1. x \notin Below(x)'
      BY <1>1, PathsTo DEF Below
    <2> QED
      BY <1>1, <1>6, <1>7, <2>1
  <1>9. /\ pc' \in [Runs -> Stages] /\ created' \in [Runs -> Seq(Tree)] /\ lost \subseteq lost'
        /\ \A u \in Runs \ {r} : pc'[u] = pc[u] /\ created'[u] = created[u]
        /\ IF created'[r] = created[r] THEN pc'[r] = "undo" /\ r \in lost'
           ELSE pc'[r] = "targets" /\ created'[r] = Append(created[r], x)
    <2>1. Append(created[r], x) \in Seq(Tree) /\ Append(created[r], x) # created[r]
      BY <1>1, <1>3, AppendProperties
    <2>2. CASE Len(created[r]) < MaxCreated
      <3>1. /\ pc' = pc /\ lost' = lost /\ created'[r] = Append(created[r], x)
            /\ \A u \in Runs \ {r} : created'[u] = created[u]
        BY <1>2, <1>3, <2>2
      <3>2. created' \in [Runs -> Seq(Tree)]
        BY <1>2, <1>3, <2>1, <2>2
      <3> QED
        BY <1>2, <1>3, <2>1, <3>1, <3>2
    <2>3. CASE ~(Len(created[r]) < MaxCreated)
      BY <1>2, <1>3, <2>3 DEF Stages
    <2> QED
      BY <2>2, <2>3
  <1>10. SetupTypes'
    BY <1>1, <1>2, <1>4, <1>9 DEF SetupInv, SetupTypes
  <1>11. HaveKnown'
    <2>1. \A u \in Runs \ {r} : HaveOk(u)'
      BY <1>2, <1>9 DEF SetupInv, HaveKnown, HaveOk, Ext4
    <2>2. HaveOk(r) /\ have[r] = {}
      BY <1>2 DEF SetupInv, HaveKnown, HaveOk, Unstarted
    <2>3. HaveOk(r)'
      BY <1>2, <1>9, <2>2 DEF HaveOk, Ext4
    <2> QED
      BY <2>1, <2>3 DEF HaveKnown
  <1>12. ParentsThere'
    <2> SUFFICES ASSUME NEW y \in Tree, There(y)', NEW n \in 1..Len(y) PROVE There(PathTo(y, n))'
      BY DEF ParentsThere
    <2>1. PathTo(y, n) \in Tree
      BY PathsTo
    <2>2. CASE y # x
      BY <1>5, <2>1, <2>2 DEF SetupInv, ParentsThere
    <2>3. CASE y = x /\ n = Len(x)
      BY <1>1, <1>5, <2>3, PathsTo
    <2>4. CASE y = x /\ n # Len(x)
      <3> DEFINE m == Len(x) - 1
      <3>1. m \in 1..Len(x) /\ n \in 1..m /\ Len(x) > 1
        BY <1>1, <2>4, PathsTo
      <3>2. There(PathTo(x, m))
        BY <1>2, <3>1 DEF CanMake, Front, PathTo
      <3> HIDE DEF m
      <3>3. PathTo(x, m) \in Tree /\ Len(PathTo(x, m)) = m /\ PathTo(PathTo(x, m), n) = PathTo(x, n)
        BY <1>1, <3>1, PathsTo
      <3>4. There(PathTo(x, n))
        BY <3>1, <3>2, <3>3 DEF SetupInv, ParentsThere
      <3> QED
        BY <1>5, <2>1, <2>4, <3>4
    <2> QED
      BY <2>2, <2>3, <2>4
  <1>13. OwnRecorded'
    <2>0. /\ \A u \in Runs : \A i \in 1..Len(created[u]) : tree[created[u][i]] = u
          /\ \A u \in Runs : \A y, z \in Tree :
               Before(created[u], y, z) => y # z /\ y \notin Below(z)
          /\ \A u \in Runs \ lost : \A y \in Tree :
               tree[y] = u => y \in kept \/ \E i \in 1..Len(created[u]) : created[u][i] = y
          /\ \A u \in Runs : pc[u] \in {"parse", "exit"} => created[u] = <<>>
          /\ \A e \in removed : e[1] = e[2]
      BY DEF SetupInv, OwnRecorded
    <2>1. \A u \in Runs : \A i \in 1..Len(created[u]) : created[u][i] \in Tree /\ created[u][i] # x
      BY <1>2, <1>3, <2>0
    <2>2. \A u \in Runs : \A y, z \in Tree :
            Before(created[u], y, z) => y # z /\ y \notin Below(z)'
      BY <1>7, <2>0, <2>1 DEF Before
    <2>3. \A u \in Runs : created'[u] # created[u] =>
            /\ u = r /\ Len(created'[u]) = Len(created[u]) + 1 /\ Len(created[u]) \in Nat
            /\ created'[u][Len(created[u]) + 1] = x
            /\ \A i \in 1..Len(created[u]) : created'[u][i] = created[u][i]
      <3>1. \A u \in Runs : created'[u] # created[u] => u = r /\ created'[r] = Append(created[r], x)
        BY <1>9
      <3>2. created[r] \in Seq(Tree)
        BY <1>3
      <3> QED
        BY <1>1, <3>1, <3>2, AppendProperties
    <2>4. ASSUME NEW u \in Runs PROVE \A i \in 1..Len(created'[u]) : tree'[created'[u][i]] = u
      <3>1. CASE created'[u] = created[u]
        BY <1>4, <2>0, <2>1, <3>1
      <3>2. CASE created'[u] # created[u]
        <4>1. \A i \in 1..Len(created[u]) : tree'[created'[u][i]] = u
          BY <1>4, <2>0, <2>1, <2>3, <3>2
        <4> QED
          BY <1>4, <2>3, <3>2, <4>1
      <3> QED
        BY <3>1, <3>2
    <2>5. ASSUME NEW u \in Runs, NEW y \in Tree, NEW z \in Tree, Before(created'[u], y, z)
          PROVE  y # z /\ y \notin Below(z)'
      <3>1. CASE created'[u] = created[u]
        BY <2>2, <2>5, <3>1
      <3>2. CASE created'[u] # created[u]
        <4>1. PICK i, j \in 1..Len(created'[u]) : i < j /\ created'[u][i] = y /\ created'[u][j] = z
          BY <2>5 DEF Before
        <4>2. i \in 1..Len(created[u]) /\ created[u][i] = y
          BY <2>3, <3>2, <4>1
        <4>3. CASE j \in 1..Len(created[u])
          <5>1. created[u][j] = z
            BY <2>3, <3>2, <4>1, <4>3
          <5> QED
            BY <2>2, <4>1, <4>2, <4>3, <5>1 DEF Before
        <4>4. CASE j \notin 1..Len(created[u])
          <5>1. z = x
            BY <2>3, <3>2, <4>1, <4>4
          <5> QED
            BY <1>8, <2>1, <4>2, <5>1
        <4> QED
          BY <4>3, <4>4
      <3> QED
        BY <3>1, <3>2
    <2>6. ASSUME NEW u \in Runs \ lost', NEW y \in Tree, tree'[y] = u
          PROVE  y \in kept' \/ \E i \in 1..Len(created'[u]) : created'[u][i] = y
      <3>1. CASE y = x
        <4>1. u = r /\ created'[u] # created[u]
          BY <1>4, <1>9, <2>6, <3>1
        <4> QED
          BY <2>3, <3>1, <4>1
      <3>2. CASE y # x
        <4>1. y \in kept \/ \E i \in 1..Len(created[u]) : created[u][i] = y
          <5>1. tree[y] = u /\ u \in Runs \ lost
            BY <1>4, <1>9, <2>6, <3>2
          <5> QED
            BY <2>0, <5>1
        <4>2. \A i \in 1..Len(created[u]) : i \in 1..Len(created'[u]) /\ created'[u][i] = created[u][i]
          BY <2>3
        <4> QED
          BY <1>2, <4>1, <4>2
      <3> QED
        BY <3>1, <3>2
    <2>7. \A u \in Runs : pc'[u] \in {"parse", "exit"} => created'[u] = <<>>
      BY <1>9, <2>0
    <2> QED
      BY <1>2, <2>0, <2>4, <2>5, <2>6, <2>7 DEF OwnRecorded
  <1> QED
    BY <1>10, <1>11, <1>12, <1>13 DEF SetupInv

(* The last recorded path goes if nothing is in it.                                       *)
LEMMA UndoKeeps ==
  ASSUME SetupInv, NEW r \in Runs, Undo(r)
  PROVE  SetupInv'
  <1>1. /\ pc \in [Runs -> Stages] /\ created \in [Runs -> Seq(Tree)]
        /\ tree \in [Tree -> Runs \cup {"none", "before"}] /\ "none" \notin Runs /\ "before" \notin Runs
    BY SetupAssumption DEF SetupInv, SetupTypes
  <1>2. pc[r] = "undo" /\ UNCHANGED <<opt, have, session, todo, lost>>
    BY DEF Undo
  <1>3. CASE created[r] = <<>>
    <2>1. pc' = [pc EXCEPT ![r] = "exit"] /\ UNCHANGED <<created, tree, removed, kept>>
      BY <1>3 DEF Undo, Set
    <2>2. pc' \in [Runs -> Stages] /\ pc'[r] = "exit" /\ \A u \in Runs \ {r} : pc'[u] = pc[u]
      BY <1>1, <2>1 DEF Stages
    <2>3. SetupTypes' /\ ParentsThere'
      BY <1>2, <2>1, <2>2 DEF SetupInv, SetupTypes, Left, ThisTarget, ParentsThere, There
    <2>4. HaveKnown'
      BY <1>2, <2>2 DEF SetupInv, HaveKnown, HaveOk, Unstarted, Ext4
    <2>5. OwnRecorded'
      <3>1. \A y : Below(y)' = Below(y)
        BY <2>1 DEF Below, There
      <3> QED
        BY <1>2, <1>3, <2>1, <2>2, <3>1 DEF SetupInv, OwnRecorded
    <2> QED
      BY <2>3, <2>4, <2>5 DEF SetupInv
  <1>4. CASE created[r] # <<>>
    <2>1. PICK x, goes : x = Last(created[r]) /\ goes = (There(x) /\ Below(x) = {})
      OBVIOUS
    <2>2. /\ created' = [created EXCEPT ![r] = Front(created[r])] /\ pc' = pc
          /\ tree' = IF goes THEN [tree EXCEPT ![x] = "none"] ELSE tree
          /\ removed' = removed \cup If2(goes, {<<r, tree[x]>>})
          /\ kept' = kept \cup If2(\E y \in Below(x) : tree[y] # r \/ y \in kept, {x})
      BY <1>4, <2>1 DEF Undo, Set
    <2>3. PICK n \in Nat \ {0} : n = Len(created[r])
      BY <1>1, <1>4
    <2>4. /\ x \in Tree /\ created[r][n] = x
          /\ created' \in [Runs -> Seq(Tree)] /\ Len(created'[r]) = n - 1
          /\ \A i \in 1..n - 1 : created'[r][i] = created[r][i]
          /\ \A u \in Runs \ {r} : created'[u] = created[u]
      <3>1. x = created[r][n] /\ created[r] \in Seq(Tree) /\ \A i \in 1..n : created[r][i] \in Tree
        BY <1>1, <2>1, <2>3 DEF Last
      <3>2. x \in Tree
        BY <3>1
      <3>3. \A i \in 1..n - 1 : created[r][i] \in Tree
        BY <3>1
      <3>4. 1 \in Int /\ n - 1 \in Int
        OBVIOUS
      <3>5. /\ SubSeq(created[r], 1, n - 1) \in Seq(Tree)
            /\ Len(SubSeq(created[r], 1, n - 1)) = IF 1 <= n - 1 THEN n - 1 - 1 + 1 ELSE 0
            /\ \A i \in 1..n - 1 - 1 + 1 : SubSeq(created[r], 1, n - 1)[i] = created[r][1 + i - 1]
        BY <3>3, <3>4, SubSeqProperties
      <3>6. Front(created[r]) = SubSeq(created[r], 1, n - 1)
        BY <2>3 DEF Front
      <3>7. created'[r] = SubSeq(created[r], 1, n - 1) /\ \A u \in Runs \ {r} : created'[u] = created[u]
        BY <1>1, <2>2, <3>6
      <3>8. created' \in [Runs -> Seq(Tree)]
        BY <1>1, <2>2, <3>5, <3>6
      <3>9. Len(created'[r]) = n - 1
        BY <3>5, <3>7
      <3>10. \A i \in 1..n - 1 : created'[r][i] = created[r][i]
        BY <3>5, <3>7
      <3> QED
        BY <3>1, <3>2, <3>7, <3>8, <3>9, <3>10
    <2>5. /\ \A u \in Runs : \A i \in 1..Len(created[u]) : tree[created[u][i]] = u
          /\ \A u \in Runs : \A y, z \in Tree :
               Before(created[u], y, z) => y # z /\ y \notin Below(z)
          /\ \A u \in Runs \ lost : \A y \in Tree :
               tree[y] = u => y \in kept \/ \E i \in 1..Len(created[u]) : created[u][i] = y
          /\ \A u \in Runs : pc[u] \in {"parse", "exit"} => created[u] = <<>>
          /\ \A e \in removed : e[1] = e[2]
      BY DEF SetupInv, OwnRecorded
    <2>6. tree[x] = r /\ There(x)
      BY <1>1, <2>3, <2>4, <2>5 DEF There
    <2>7. /\ tree' \in [Tree -> Runs \cup {"none", "before"}]
          /\ \A y \in Tree : y # x => tree'[y] = tree[y]
          /\ IF goes THEN tree'[x] = "none" ELSE tree'[x] = r
      BY <1>1, <2>2, <2>4, <2>6
    <2>8. \A y \in Tree : There(y)' <=> There(y) /\ ~(goes /\ y = x)
      BY <1>1, <2>6, <2>7 DEF There
    <2>9. \A y : Below(y)' \subseteq Below(y)
      BY <2>8 DEF Below
    <2>10. SetupTypes'
      BY <1>1, <1>2, <2>2, <2>4, <2>7 DEF SetupInv, SetupTypes, Left, ThisTarget
    <2>11. HaveKnown'
      BY <1>2, <2>2 DEF SetupInv, HaveKnown, HaveOk, Ext4
    <2>12. ParentsThere'
      <3> SUFFICES ASSUME NEW y \in Tree, There(y)', NEW m \in 1..Len(y) PROVE There(PathTo(y, m))'
        BY DEF ParentsThere
      <3>1. PathTo(y, m) \in Tree /\ There(y) /\ There(PathTo(y, m)) /\ Len(PathTo(y, m)) = m
        BY <2>8, PathsTo DEF SetupInv, ParentsThere
      <3>2. ASSUME goes, PathTo(y, m) = x PROVE FALSE
        <4>1. m = Len(x) /\ Below(x) = {}
          BY <2>1, <3>1, <3>2
        <4>2. m = Len(y)
          <5>1. m < Len(y) => y \in Below(x)
            BY <2>4, <3>1, <3>2, <4>1, BelowIs
          <5> QED
            BY <4>1, <5>1, PathsTo
        <4>3. y = x
          BY <3>2, <4>2, PathsTo
        <4> QED
          BY <2>8, <3>2, <4>3
      <3> QED
        BY <2>8, <3>1, <3>2
    <2>13. OwnRecorded'
      <3>1. \A u \in Runs : \A i \in 1..Len(created'[u]) :
              i \in 1..Len(created[u]) /\ created'[u][i] = created[u][i]
        BY <2>3, <2>4
      <3>2. \A u \in Runs : \A y, z \in Tree : Before(created'[u], y, z) => Before(created[u], y, z)
        BY <3>1 DEF Before
      <3>3. \A i \in 1..n - 1 : Before(created[r], created[r][i], x)
        BY <2>3, <2>4 DEF Before
      <3>4. \A u \in Runs : \A i \in 1..Len(created'[u]) : created'[u][i] \in Tree /\ created'[u][i] # x
        <4>1. \A i \in 1..n - 1 : created[r][i] \in Tree /\ created[r][i] # x
          BY <1>1, <2>3, <2>4, <2>5, <3>3
        <4>2. \A u \in Runs \ {r} : \A i \in 1..Len(created[u]) : created[u][i] \in Tree /\ created[u][i] # x
          BY <1>1, <2>5, <2>6
        <4> QED
          BY <2>4, <4>1, <4>2
      <3>5. \A u \in Runs : \A i \in 1..Len(created'[u]) : tree'[created'[u][i]] = u
        BY <2>5, <2>7, <3>1, <3>4
      <3>6. \A u \in Runs : \A y, z \in Tree : Before(created'[u], y, z) => y # z /\ y \notin Below(z)'
        BY <2>5, <2>9, <3>2
      <3>7. ASSUME NEW u \in Runs \ lost, NEW y \in Tree, tree'[y] = u
            PROVE  y \in kept' \/ \E i \in 1..Len(created'[u]) : created'[u][i] = y
        <4>1. tree[y] = u /\ (y = x => ~goes /\ u = r)
          BY <1>1, <2>6, <2>7, <3>7
        <4>2. y \in kept \/ \E i \in 1..Len(created[u]) : created[u][i] = y
          BY <2>5, <4>1
        <4>3. CASE y \in kept
          BY <2>2, <4>3
        <4>4. CASE y = x
          <5>1. PICK z \in Below(x) : TRUE
            BY <2>1, <2>6, <4>1, <4>4
          <5>2. z \in Tree /\ Len(z) > Len(x)
            BY <2>4, <5>1, BelowIs
          <5>3. CASE tree[z] # r \/ z \in kept
            BY <2>2, <4>4, <5>1, <5>3 DEF If2
          <5>4. CASE tree[z] = r /\ z \notin kept
            <6>1. PICK i \in 1..n : created[r][i] = z
              BY <2>3, <2>5, <4>1, <4>4, <5>2, <5>4
            <6>2. i # n
              BY <2>4, <5>2, <6>1, PathsTo
            <6>3. Before(created[r], z, x)
              BY <3>3, <6>1, <6>2
            <6> QED
              BY <2>4, <2>5, <5>1, <5>2, <6>3
          <5> QED
            BY <5>3, <5>4
        <4>5. CASE y \notin kept /\ y # x
          <5>1. PICK i \in 1..Len(created[u]) : created[u][i] = y
            BY <4>2, <4>5
          <5>2. i \in 1..Len(created'[u]) /\ created'[u][i] = y
            BY <2>3, <2>4, <4>5, <5>1
          <5> QED
            BY <5>2
        <4> QED
          BY <4>3, <4>4, <4>5
      <3>8. \A u \in Runs : pc'[u] \in {"parse", "exit"} => created'[u] = <<>>
        BY <1>2, <2>2, <2>4, <2>5
      <3>9. \A e \in removed' : e[1] = e[2]
        BY <2>2, <2>5, <2>6 DEF If2
      <3> QED
        BY <1>2, <3>5, <3>6, <3>7, <3>8, <3>9 DEF OwnRecorded
    <2> QED
      BY <2>10, <2>11, <2>12, <2>13 DEF SetupInv
  <1> QED
    BY <1>3, <1>4

LEMMA SetupInvStep == SetupInv /\ [SetupNext]_setupvars => SetupInv'
  <1> SUFFICES ASSUME SetupInv, [SetupNext]_setupvars PROVE SetupInv'  OBVIOUS
  <1>1. CASE SetupNext
    <2>1. PICK r \in Runs :
            \/ Parse(r) \/ Target(r) \/ TargetFails(r) \/ TargetsDone(r)
            \/ um_make_runtime_root(r) \/ um_prepare_ext4_binds(r) \/ um_make_session(r)
            \/ um_write_binds_file(r) \/ um_write_wrapper(r) \/ um_write_session_meta(r)
            \/ Run(r) \/ Clean(r) \/ Failed(r) \/ Undo(r)
      BY <1>1 DEF SetupNext
    <2>2. CASE Target(r)
      BY <2>2, TargetThere, TargetMade
    <2>3. CASE Undo(r)
      BY <2>3, UndoKeeps
    <2>4. CASE ~Target(r) /\ ~Undo(r)
      <3>1. OwnStep(r)
        BY <2>1, <2>4, TurnKeeps, MakesKeep, SessionKeeps, RunKeeps, CleanKeeps, FailedKeeps
      <3> QED
        BY <3>1, OwnStepKeeps
    <2> QED
      BY <2>2, <2>3, <2>4
  <1>2. CASE UNCHANGED setupvars
    BY <1>2 DEF setupvars, SetupInv, SetupTypes, Left, ThisTarget, HaveKnown, HaveOk, Ext4, ParentsThere,
                There, OwnRecorded, Below
  <1> QED
    BY <1>1, <1>2

(* Whatever step fails, in whichever order any number of runs set up and undo whatever      *)
(* targets of one root: a run that ended has left nothing it knew of, has removed only what  *)
(* it made, and its arguments fit (neoproot_um_supervisor_main(), um_cleanup_created_paths()). *)
THEOREM SetupsAreSound == SetupSpec => []SetupSound
  <1>1. SetupInv => SetupSound
    <2> SUFFICES ASSUME SetupInv PROVE SetupSound  OBVIOUS
    <2>1. LeavesNothing
      BY DEF SetupInv, HaveKnown, HaveOk, LeavesNothing, Gone
    <2>2. OnlyOwn
      <3>1. ASSUME NEW r \in Runs \ lost, Gone(r), NEW x \in Tree, tree[x] = r PROVE x \in kept
        <4>1. created[r] = <<>>
          BY <3>1 DEF SetupInv, OwnRecorded, Gone
        <4>2. x \in kept \/ \E i \in 1..Len(created[r]) : created[r][i] = x
          BY <3>1 DEF SetupInv, OwnRecorded
        <4> QED
          BY <4>1, <4>2
      <3> QED
        BY <3>1 DEF OnlyOwn, SetupInv, OwnRecorded
    <2>3. ArgumentsFit
      <3> SUFFICES ASSUME NEW r \in Runs
                   PROVE  KernelEntries(opt[r]) =< 28 /\ NetworkOptions(opt[r]) =< 18
                          /\ NetworkEntries(opt[r]) =< 18 + 28
        BY DEF ArgumentsFit
      <3>1. opt[r].values \in 0..3
        BY SetupAssumption DEF SetupInv, SetupTypes, CommandLine
      <3>3. NetworkOptions(opt[r]) \in 0..18
        BY <3>1 DEF NetworkOptions, If
      <3>4. KernelEntries(opt[r]) \in 0..27
        BY DEF KernelEntries, If
      <3> QED
        BY <3>3, <3>4 DEF NetworkEntries
    <2> QED
      BY <2>1, <2>2, <2>3 DEF SetupSound
  <1> QED
    BY <1>1, SetupInvInit, SetupInvStep, PTL DEF SetupSpec

--------------------------------------------------------------------------------
(* One daemon for a session: UmSession.                                             *)
Holders == {"pid", "meta", "bind", "serve", "ready", "remove", "pidfile", "lockfile"}

Preparing == {"prepare", "open", "check", "owner", "prepared"}
AfterFork == {"pid", "wait", "started", "exited"}
StartStages == Preparing \cup AfterFork \cup {"new"}
DaemonStages == Holders \cup Preparing \cup {"none", "lock", "ownerfile", "rest", "rmdir", "close", "exited"}

SessionTypes ==
  /\ lock \in Nat /\ next \in Nat \ {0}
  /\ opened \in [Starts -> Nat] /\ holds \in [Starts -> Nat]
  /\ p \in [Starts -> StartStages] /\ dm \in [Starts -> DaemonStages]

(* A daemon that took the lock has the file that the directory names, until it   *)
(* removes that file itself.                                                    *)
HoldsIt == \A s \in Starts : dm[s] \in Holders => holds[s] = lock /\ lock # 0

(* A lock file that is made is not one that somebody still has open.             *)
Fresh == lock < next /\ \A s \in Starts : holds[s] < next /\ opened[s] < next

(* What flock() gives.                                                         *)
Exclusive == \A s, t \in Starts : holds[s] = holds[t] /\ holds[s] # 0 => s = t

(* A start command and its daemon look at the lock one after the other, and what *)
(* the daemon is about to lock is open.                                         *)
Turns == \A s \in Starts : (dm[s] = "none" \/ p[s] \in AfterFork) /\ (dm[s] = "lock" => opened[s] # 0)

SessionInv == SessionTypes /\ Fresh /\ Exclusive /\ Turns /\ (astray \/ HoldsIt)

-------------------------------------------------------------------------------
LEMMA SessionInvInit == Init => SessionInv
<1> SUFFICES ASSUME Init PROVE SessionInv  OBVIOUS
<1>1. SessionTypes  BY DEF Init, SessionTypes, DaemonStages, StartStages
<1>2. HoldsIt  BY DEF Init, HoldsIt, Holders
<1>3. Fresh /\ Exclusive /\ Turns  BY DEF Init, Fresh, Exclusive, Turns
<1> QED BY <1>1, <1>2, <1>3 DEF SessionInv

(* A step of one start command, or of its daemon or supervisor, that takes no lock  *)
(* and removes no lock file.                                                     *)
FilesGrow ==
  /\ lock' \in Nat /\ next' \in Nat \ {0} /\ lock' < next' /\ next =< next'
  /\ lock # 0 => lock' = lock

OpensOwn(s) ==
  /\ opened' \in [Starts -> Nat] /\ \A t \in Starts : opened'[t] < next'
  /\ \A t \in Starts : t # s => opened'[t] = opened[t]

Lets ==
  /\ holds' \in [Starts -> Nat]
  /\ \A t \in Starts : holds'[t] = holds[t] \/ (holds'[t] = 0 /\ dm'[t] \notin Holders)

Moves(s) ==
  /\ p' \in [Starts -> StartStages] /\ dm' \in [Starts -> DaemonStages]
  /\ \A t \in Starts : t # s => dm'[t] = dm[t] /\ p'[t] = p[t]
  /\ dm'[s] \in Holders => dm[s] \in Holders
  /\ dm'[s] = "none" \/ p'[s] \in AfterFork
  /\ dm'[s] = "lock" => opened'[s] # 0

Plain(s) == FilesGrow /\ OpensOwn(s) /\ Lets /\ Moves(s) /\ astray' = astray

LEMMA PlainKeeps ==
  ASSUME SessionInv, NEW s \in Starts, Plain(s)
  PROVE  SessionInv'
<1>1. SessionTypes'
  BY DEF Plain, FilesGrow, OpensOwn, Lets, Moves, SessionTypes
<1>2. Fresh'
  BY DEF SessionInv, SessionTypes, Fresh, Plain, FilesGrow, OpensOwn, Lets
<1>3. Exclusive'
  BY DEF SessionInv, Exclusive, Plain, Lets
<1>4. Turns'
  BY DEF SessionInv, Turns, Plain, Moves, OpensOwn
<1>5. HoldsIt => HoldsIt'
  BY DEF HoldsIt, Plain, Moves, Lets, FilesGrow
<1> QED BY <1>1, <1>2, <1>3, <1>4, <1>5 DEF SessionInv, Plain

(* The files of the lock are left as they are.                                   *)
LEMMA FilesStay ==
  ASSUME SessionInv, UNCHANGED <<lock, next, opened>>
  PROVE  FilesGrow /\ \A s \in Starts : OpensOwn(s)
BY DEF SessionInv, SessionTypes, Fresh, FilesGrow, OpensOwn

LEMMA Closes ==
  ASSUME SessionInv, NEW s \in Starts, Shut(s), UNCHANGED <<lock, next>>
  PROVE  FilesGrow /\ OpensOwn(s)
BY DEF SessionInv, SessionTypes, Fresh, FilesGrow, OpensOwn, Shut

LEMMA OpensFile ==
  ASSUME SessionInv, NEW s \in Starts, Open(s)
  PROVE  FilesGrow /\ OpensOwn(s) /\ opened'[s] # 0
<1>1. /\ Opened \in Nat \ {0} /\ lock' = Opened /\ next' \in Nat \ {0} /\ Opened < next' /\ next =< next'
      /\ (lock # 0 => lock' = lock)
  BY DEF Open, Opened, SessionInv, SessionTypes, Fresh
<1>2. opened' = [opened EXCEPT ![s] = Opened]
  BY DEF Open
<1> QED BY <1>1, <1>2 DEF SessionInv, SessionTypes, Fresh, FilesGrow, OpensOwn

LEMMA SamelyHeld ==
  ASSUME SessionInv, UNCHANGED holds
  PROVE  Lets
BY DEF SessionInv, SessionTypes, Lets

(* What a step of um_session_prepare_state() does to the lock.                    *)
LEMMA PrepareFiles ==
  ASSUME SessionInv, NEW s \in Starts, NEW to,
         \/ to \in Prepared /\ um_session_prepare_state(to) /\ UNCHANGED opened
         \/ to \in {"check", "exited"} /\ PrepareOpen(s, to)
         \/ to \in {"prepared", "exited"} /\ PrepareCheck(s, to)
         \/ to \in {"prepared", "exited"} /\ um_session_write_owner(to) /\ UNCHANGED opened
  PROVE  FilesGrow /\ OpensOwn(s) /\ to \in StartStages \cap DaemonStages /\ to \notin Holders
<1>1. CASE to \in Prepared /\ um_session_prepare_state(to) /\ UNCHANGED opened
  BY <1>1, FilesStay DEF Prepared, um_session_prepare_state, StartStages, DaemonStages, Holders, Preparing, AfterFork
<1>2. CASE to \in {"check", "exited"} /\ PrepareOpen(s, to)
  BY <1>2, FilesStay, OpensFile DEF PrepareOpen, files, StartStages, DaemonStages, Holders, Preparing, AfterFork
<1>3. CASE to \in {"prepared", "exited"} /\ PrepareCheck(s, to)
  BY <1>3, Closes DEF PrepareCheck, files, StartStages, DaemonStages, Holders, Preparing, AfterFork
<1>4. CASE to \in {"prepared", "exited"} /\ um_session_write_owner(to) /\ UNCHANGED opened
  BY <1>4, FilesStay DEF um_session_write_owner, files, StartStages, DaemonStages, Holders, Preparing, AfterFork
<1> QED BY <1>1, <1>2, <1>3, <1>4

(* The daemon is where it was and the start command goes on, or the other way.     *)
LEMMA CommandMoves ==
  ASSUME SessionInv, NEW s \in Starts, NEW to \in StartStages, P(s, to), UNCHANGED dm,
         opened' = opened \/ p[s] \notin AfterFork, to \in AfterFork \/ p[s] \notin AfterFork
  PROVE  Moves(s)
BY DEF SessionInv, SessionTypes, Turns, Moves, P

LEMMA DaemonMoves ==
  ASSUME SessionInv, NEW s \in Starts, NEW to \in DaemonStages, D(s, to), UNCHANGED p,
         p[s] \in AfterFork, to \in Holders => dm[s] \in Holders, to = "lock" => opened'[s] # 0
  PROVE  Moves(s)
BY DEF SessionInv, SessionTypes, Turns, Moves, D

LEMMA SessionInvStart ==
  ASSUME SessionInv, NEW s \in Starts, Start(s)
  PROVE  SessionInv'
<1> USE DEF StartStages, Preparing, AfterFork
<1>1. CASE Begin(s)
  <2>1. P(s, "prepare") /\ p[s] = "new" /\ UNCHANGED <<lock, next, opened, holds, dm, astray>>
    BY <1>1 DEF Begin
  <2>2. Moves(s)  BY <2>1, CommandMoves
  <2> QED BY <2>1, <2>2, FilesStay, SamelyHeld, PlainKeeps DEF Plain
<1>2. CASE Prepare(s)
  <2>1. PICK to : /\ P(s, to) /\ p[s] \notin AfterFork
                  /\ \/ to \in Prepared /\ um_session_prepare_state(to) /\ UNCHANGED opened
                     \/ to \in {"check", "exited"} /\ PrepareOpen(s, to)
                     \/ to \in {"prepared", "exited"} /\ PrepareCheck(s, to)
                     \/ to \in {"prepared", "exited"} /\ um_session_write_owner(to) /\ UNCHANGED opened
    BY <1>2 DEF Prepare
  <2>2. UNCHANGED <<holds, dm, astray>>  BY <1>2 DEF Prepare
  <2>3. FilesGrow /\ OpensOwn(s) /\ to \in StartStages  BY <2>1, PrepareFiles
  <2>4. Moves(s)  BY <2>1, <2>2, <2>3, CommandMoves
  <2> QED BY <2>2, <2>3, <2>4, SamelyHeld, PlainKeeps DEF Plain
<1>3. CASE Fork(s)
  <2>1. P(s, "pid") /\ D(s, "prepare") /\ UNCHANGED <<lock, next, opened, holds, astray>>
    BY <1>3 DEF Fork, files
  <2>2. Moves(s)
    BY <2>1 DEF P, D, Moves, SessionInv, SessionTypes, DaemonStages, Holders
  <2> QED BY <2>1, <2>2, FilesStay, SamelyHeld, PlainKeeps DEF Plain
<1>4. CASE PidWrite(s) \/ Wait(s)
  <2>1. UNCHANGED <<lock, next, opened, holds, dm, astray>>
    BY <1>4 DEF PidWrite, Wait, um_session_pid_write, files
  <2>2. \E to \in {"wait", "started", "exited"} : P(s, to)
    BY <1>4 DEF PidWrite, Wait
  <2>3. Moves(s)  BY <2>1, <2>2, CommandMoves
  <2> QED BY <2>1, <2>3, FilesStay, SamelyHeld, PlainKeeps DEF Plain
<1> QED BY <1>1, <1>2, <1>3, <1>4 DEF Start

LEMMA SessionInvLock ==
  ASSUME SessionInv, NEW s \in Starts, Lock(s)
  PROVE  SessionInv'
<1>1. dm[s] = "lock" /\ Shut(s) /\ UNCHANGED <<lock, next, p>>  BY DEF Lock, files
<1>2. p[s] \in AfterFork /\ opened[s] \in Nat \ {0} /\ opened[s] < next
  BY <1>1 DEF SessionInv, Turns, SessionTypes, Fresh
<1>3. CASE D(s, "exited") /\ UNCHANGED <<holds, astray>>
  <2>1. Moves(s)
    BY <1>1, <1>2, <1>3, DaemonMoves DEF DaemonStages, Holders
  <2> QED BY <1>1, <1>3, <2>1, Closes, SamelyHeld, PlainKeeps DEF Plain
<1>4. CASE /\ Free(s) /\ D(s, "pid")
           /\ holds' = [holds EXCEPT ![s] = opened[s]] /\ astray' = (astray \/ opened[s] # lock)
  <2>1. /\ holds' \in [Starts -> Nat] /\ dm' \in [Starts -> DaemonStages] /\ opened' \in [Starts -> Nat]
        /\ \A t \in Starts : holds'[t] = IF t = s THEN opened[s] ELSE holds[t]
        /\ \A t \in Starts : dm'[t] = IF t = s THEN "pid" ELSE dm[t]
        /\ \A t \in Starts : opened'[t] = IF t = s THEN 0 ELSE opened[t]
        /\ \A t \in Starts : holds[t] # opened[s]
    BY <1>1, <1>2, <1>4 DEF Shut, D, Free, Locked, SessionInv, SessionTypes, DaemonStages, Holders
  <2>2. SessionTypes' /\ Fresh'  BY <1>1, <1>2, <2>1 DEF SessionInv, SessionTypes, Fresh
  <2>3. Exclusive'  BY <1>2, <2>1 DEF SessionInv, SessionTypes, Exclusive
  <2>4. Turns'  BY <1>1, <1>2, <2>1 DEF SessionInv, Turns
  <2>5. astray' \/ HoldsIt'  BY <1>1, <1>2, <1>4, <2>1 DEF SessionInv, HoldsIt
  <2> QED BY <2>2, <2>3, <2>4, <2>5 DEF SessionInv
<1> QED BY <1>3, <1>4 DEF Lock

LEMMA SessionInvRemove ==
  ASSUME SessionInv, NEW s \in Starts, um_session_remove_state(s)
  PROVE  SessionInv'
<1>1. dm[s] # "none" /\ p[s] \in AfterFork /\ UNCHANGED <<next, opened, holds, p, astray>>
  BY DEF um_session_remove_state, RemoveFiles, SessionInv, Turns
<1>2. CASE dm[s] = "lockfile"
  <2>1. lock' = 0 /\ dm' = [dm EXCEPT ![s] = "ownerfile"]
    BY <1>2 DEF um_session_remove_state, RemoveFiles, D
  <2>2. HoldsIt => \A t \in Starts : dm'[t] \notin Holders
    BY <1>2, <2>1 DEF SessionInv, SessionTypes, HoldsIt, Exclusive, Holders
  <2>3. SessionTypes'  BY <1>1, <2>1 DEF SessionInv, SessionTypes, DaemonStages
  <2>4. Fresh' /\ Exclusive' /\ Turns'
    BY <1>1, <2>1 DEF SessionInv, SessionTypes, Fresh, Exclusive, Turns
  <2> QED BY <1>1, <2>2, <2>3, <2>4 DEF SessionInv, HoldsIt
<1>3. CASE dm[s] # "lockfile"
  <2>1. UNCHANGED lock /\ \E to \in {"pidfile", "close", "lockfile", "rest", "rmdir"} :
                            D(s, to) /\ (to \in Holders => dm[s] \in Holders)
    BY <1>3 DEF um_session_remove_state, RemoveFiles, Holders
  <2>2. Moves(s)
    BY <1>1, <2>1, DaemonMoves DEF DaemonStages, Holders
  <2> QED BY <1>1, <2>1, <2>2, FilesStay, SamelyHeld, PlainKeeps DEF Plain
<1> QED BY <1>2, <1>3

(* A process that goes lets its lock go, unless its supervisor has it too.         *)
LEMMA SessionInvExits ==
  ASSUME SessionInv, NEW s \in Starts, Exits(s), UNCHANGED <<p, astray>>,
         FilesGrow, OpensOwn(s), dm[s] # "none"
  PROVE  SessionInv'
<1>1. p[s] \in AfterFork /\ D(s, "exited")
  BY DEF SessionInv, Turns, Exits
<1>2. Moves(s)
  BY <1>1, DaemonMoves DEF DaemonStages, Holders
<1>3. dm'[s] = "exited"
  BY <1>1 DEF D, SessionInv, SessionTypes
<1>4. Lets
  BY <1>3 DEF Exits, Lets, SessionInv, SessionTypes, Holders
<1> QED BY <1>2, <1>4, PlainKeeps DEF Plain

LEMMA SessionInvDaemon ==
  ASSUME SessionInv, NEW s \in Starts, Daemon(s)
  PROVE  SessionInv'
<1>0. p[s] \in AfterFork
  BY DEF Daemon, DPrepare, OpenLock, Lock, DPidWrite, um_daemon_read_meta, Bind, Ready, Leave,
         um_session_remove_state, RemoveFiles, Close, SessionInv, Turns
<1>1. CASE DPrepare(s)
  <2>1. PICK to : /\ D(s, to)
                  /\ \/ to \in Prepared /\ um_session_prepare_state(to) /\ UNCHANGED opened
                     \/ to \in {"check", "exited"} /\ PrepareOpen(s, to)
                     \/ to \in {"prepared", "exited"} /\ PrepareCheck(s, to)
                     \/ to \in {"prepared", "exited"} /\ um_session_write_owner(to) /\ UNCHANGED opened
    BY <1>1 DEF DPrepare
  <2>2. UNCHANGED <<holds, p, astray>>  BY <1>1 DEF DPrepare
  <2>3. FilesGrow /\ OpensOwn(s) /\ to \in DaemonStages /\ to \notin Holders  BY <2>1, PrepareFiles
  <2>4. to # "lock"  BY <2>1 DEF Prepared
  <2>5. Moves(s)  BY <1>0, <2>1, <2>2, <2>3, <2>4, DaemonMoves
  <2> QED BY <2>2, <2>3, <2>5, SamelyHeld, PlainKeeps DEF Plain
<1>2. CASE OpenLock(s)
  <2>1. UNCHANGED <<holds, p, astray>>  BY <1>2 DEF OpenLock
  <2>2. CASE Open(s) /\ D(s, "lock")
    <3>1. Moves(s)  BY <1>0, <2>1, <2>2, OpensFile, DaemonMoves DEF DaemonStages, Holders
    <3> QED BY <2>1, <2>2, <3>1, OpensFile, SamelyHeld, PlainKeeps DEF Plain
  <2>3. CASE D(s, "exited") /\ UNCHANGED <<files, opened>>
    <3>1. Moves(s)  BY <1>0, <2>1, <2>3, DaemonMoves DEF DaemonStages, Holders
    <3> QED BY <2>1, <2>3, <3>1, FilesStay, SamelyHeld, PlainKeeps DEF Plain, files
  <2> QED BY <1>2, <2>2, <2>3 DEF OpenLock
<1>3. CASE Lock(s)  BY <1>3, SessionInvLock
<1>4. CASE DPidWrite(s)
  <2>1. dm[s] = "pid" /\ UNCHANGED <<lock, next, opened, p, astray>>
    BY <1>4 DEF DPidWrite, um_session_pid_write, files
  <2>2. CASE Exits(s)  BY <2>1, <2>2, FilesStay, SessionInvExits
  <2>3. CASE D(s, "meta") /\ UNCHANGED holds
    <3>1. Moves(s)  BY <1>0, <2>1, <2>3, DaemonMoves DEF DaemonStages, Holders
    <3> QED BY <2>1, <2>3, <3>1, FilesStay, SamelyHeld, PlainKeeps DEF Plain
  <2> QED BY <1>4, <2>2, <2>3 DEF DPidWrite
<1>5. CASE um_daemon_read_meta(s)
  <2>1. dm[s] = "meta" /\ UNCHANGED <<lock, next, opened, p, astray>>
    BY <1>5 DEF um_daemon_read_meta, files
  <2>2. CASE Exits(s)  BY <2>1, <2>2, FilesStay, SessionInvExits
  <2>3. CASE (D(s, "bind") \/ D(s, "remove")) /\ UNCHANGED holds
    <3>1. Moves(s)  BY <1>0, <2>1, <2>3, DaemonMoves DEF DaemonStages, Holders
    <3> QED BY <2>1, <2>3, <3>1, FilesStay, SamelyHeld, PlainKeeps DEF Plain
  <2> QED BY <1>5, <2>2, <2>3 DEF um_daemon_read_meta
<1>6. CASE Bind(s) \/ Ready(s) \/ Leave(s)
  <2>1. dm[s] \in Holders /\ UNCHANGED <<lock, next, opened, holds, p, astray>>
    BY <1>6 DEF Bind, Ready, Leave, Holders
  <2>2. D(s, "serve") \/ D(s, "ready") \/ D(s, "remove")
    BY <1>6 DEF Bind, Ready, Leave
  <2>3. Moves(s)  BY <1>0, <2>1, <2>2, DaemonMoves DEF DaemonStages, Holders
  <2> QED BY <2>1, <2>3, FilesStay, SamelyHeld, PlainKeeps DEF Plain
<1>7. CASE um_session_remove_state(s)  BY <1>7, SessionInvRemove
<1>8. CASE Close(s)
  <2>1. dm[s] = "close" /\ Exits(s) /\ UNCHANGED <<lock, next, opened, p, astray>>
    BY <1>8 DEF Close, files
  <2> QED BY <2>1, FilesStay, SessionInvExits
<1> QED BY <1>1, <1>2, <1>3, <1>4, <1>5, <1>6, <1>7, <1>8 DEF Daemon

LEMMA SessionInvNext == SessionInv /\ [Next]_vars => SessionInv'
<1> SUFFICES ASSUME SessionInv, [Next]_vars PROVE SessionInv'  OBVIOUS
<1>1. ASSUME NEW s \in Starts, Start(s) PROVE SessionInv'  BY <1>1, SessionInvStart
<1>2. ASSUME NEW s \in Starts, Daemon(s) PROVE SessionInv'  BY <1>2, SessionInvDaemon
<1>3. ASSUME UNCHANGED <<lock, next, opened, holds, p, dm, astray>> PROVE SessionInv'
  BY <1>3 DEF SessionInv, SessionTypes, HoldsIt, Fresh, Exclusive, Turns
<1>4. ASSUME NEW s \in Starts, write_session_meta(s) PROVE SessionInv'
  BY <1>3, <1>4 DEF write_session_meta
<1>5. ASSUME NEW s \in Starts, SupervisorExits(s) PROVE SessionInv'
  <2>1. UNCHANGED <<lock, next, opened, p, dm, astray>>
        /\ holds' = [holds EXCEPT ![s] = IF Alive(s) THEN @ ELSE 0]
    BY <1>5 DEF SupervisorExits, files
  <2>2. Moves(s)  BY <2>1 DEF Moves, SessionInv, SessionTypes, Turns
  <2>3. Lets  BY <2>1 DEF Lets, Alive, Holders, SessionInv, SessionTypes
  <2> QED BY <2>1, <2>2, <2>3, FilesStay, PlainKeeps DEF Plain
<1>6. ASSUME NEW s \in Starts, Crash(s) PROVE SessionInv'
  <2>1. Exits(s) /\ Shut(s) /\ dm[s] # "none" /\ UNCHANGED <<lock, next, p, astray>>
    BY <1>6 DEF Crash, Alive
  <2> QED BY <2>1, Closes, SessionInvExits
<1>7. CASE Stop \/ UNCHANGED vars
  BY <1>3, <1>7 DEF Stop, vars, files
<1> QED BY <1>1, <1>2, <1>4, <1>5, <1>6, <1>7 DEF Next

(* No file operation of any start, daemon, supervisor or crash makes a second daemon *)
(* serve a session that one serves, until a daemon locks a file that was unlinked     *)
(* since it opened it: the lock is exclusive, its file has a name that only its        *)
(* holder removes, and it outlives the daemon while the supervisor runs.             *)
THEOREM OneServerAlways == Spec => []OneServer
<1>1. SessionInv => OneServer
  BY DEF SessionInv, HoldsIt, Exclusive, OneServer, Serving, Holders
<1> QED BY <1>1, SessionInvInit, SessionInvNext, PTL DEF Spec
================================================================================
