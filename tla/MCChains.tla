------------------------------- MODULE MCChains -------------------------------
(* System calls the tracer has a guest make in a row, each on an instance of its own:   *)
(* those of the stages of a call (SyscallStages: every kind of call, on every kind of     *)
(* kernel, with two signals) and those of shmat() (IpcShm: two guests that want the       *)
(* helper at once, with an interrupted wait); and the calls that mount, which it does not  *)
(* have anybody make (Mounts). A behaviour is one of either; `part` says which, and the    *)
(* variables of the others stay as they are at the beginning.                             *)
EXTENDS IpcShm

(* Every guest is a process of its own; the second one's calls come without SIGSYS.        *)
MCSigsys == [p \in Tracee |-> {p # 2}]
MCApart  == [p \in Tracee |-> p]
MCCreates == {[creat |-> TRUE, excl |-> FALSE]}

VARIABLES
  part,
  kernel, pc, regs, scno, arg0, mode, sigsys, t, found, call, done, out, sent, pend, got, crowded,
  undone

S == INSTANCE SyscallStages WITH
       MaxSig <- 2,
       Calls <- {"read", "open", "openp", "stat", "bad", "mount", "time", "accept4",
                 "wait", "ptrace", "old", "setgid"}
svars == <<kernel, pc, regs, scno, arg0, mode, sigsys, t, found, call, done, out, sent, pend,
           got, crowded, undone>>

(* The tree bubblewrap builds: a new root with a directory of its own, and /u.              *)
MCStarts ==
  {<< <<<<"R">>, <<>> >> >>,
   << <<<<"R">>, <<>> >>, <<<<"S">>, <<"u">> >> >>,
   << <<<<"R">>, <<>> >>, <<<<"S">>, <<"u">> >>, <<<<"T">>, <<"n">> >>, <<<<"S", "v">>, <<"n", "u">> >> >>}

VARIABLES guest, host, calls, did, stack, thin
M == INSTANCE Mounts WITH
       Starts <- MCStarts, Targets <- {<<"n">>, <<"n", "u">>, <<"u">>, <<"u", "v">>},
       Sources <- {<<>>, <<"u">>, <<"n">>, <<"w">>},
       Pivots <- {<< <<"n">>, <<"n", "o">> >>, << <<"u">>, <<"u">> >>, << <<>>, <<"o">> >>},
       Probes <- {<<>>, <<"u">>, <<"v">>, <<"n">>, <<"u", "v">>, <<"n", "u">>, <<"n", "u", "v">>},
       MaxCalls <- 3
mvars == <<guest, host, calls, did, stack, thin>>
NoMounts == guest = 0 /\ host = 0 /\ calls = 0 /\ did = <<"init">> /\ stack = 0 /\ thin = 0

InM == part = "mounts"
InH == part = "shm"
InS == part = "stages"

SomeKernel == [new |-> TRUE, filter |-> TRUE, setnr |-> TRUE, quiet |-> FALSE, strict |-> FALSE]
(* A guest of SyscallStages always has a next step; the others may be at rest.             *)
MCInit == /\ ShmInit /\ S!Init /\ part \in {"shm", "stages", "mounts"}
          /\ (InS \/ kernel = SomeKernel)
          /\ IF InM THEN M!Init ELSE NoMounts
MCNext == \/ InH /\ ShmNext /\ UNCHANGED <<svars, mvars, part>>
          \/ InS /\ S!Next /\ UNCHANGED <<shmvars, mvars, part>>
          \/ InM /\ M!Next /\ UNCHANGED <<shmvars, svars, part>>
          \/ ~InS /\ UNCHANGED <<shmvars, svars, mvars, part>>

(* The fairness of IpcShm and of SyscallStages, each for its own behaviours.               *)
MCFair ==
  /\ WF_shmvars(InH /\ HelperDistribute) /\ \A p \in Tracee : WF_shmvars(InH /\ Progress(p))
  /\ []<>(pc = "user" /\ call = "none") \/ []<><<S!Kernel>>_svars

MCSpec == MCInit /\ [][MCNext]_<<shmvars, svars, mvars, part>> /\ MCFair

(* SyscallStages: registers, stack and signals are the guest's when its call returns.      *)
ReturnsClean == S!Settled /\ S!SignalsArrive

(* SyscallStages: the stages of the calls implement GuestCalls.                            *)
Implements == S!Implements

(* Mounts: what is mounted where is recorded soundly, to the last covered layer.           *)
MountsSound == InM => M!MountsSound

(* Mounts: what a bind and a pivot_root() make of the tree the guest sees.                 *)
MountsMove == M!MountsMove

(* SyscallStages: every call returns.                                                      *)
CallsReturn == S!CallsReturn
===============================================================================
