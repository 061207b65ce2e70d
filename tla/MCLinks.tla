------------------------------- MODULE MCLinks --------------------------------
(* What guests hold of others that may die: ptracers and ptracees of each other         *)
(* (PtraceEmulation), and processes of shared segments (IpcShm). The two share no state: a  *)
(* behaviour is one of either, `part` says which, and the variables of the other stay as   *)
(* they are at the beginning.                                                             *)
EXTENDS PtraceEmulation, IpcShm, TLC

CONSTANTS p1, p2, p3

Do(op, arg) == [op |-> op, arg |-> arg]
Makes(calls, n) == [may |-> calls, left |-> n]

(* p1 is the parent of the two others.                                                   *)
Siblings == (p1 :> None) @@ (p2 :> p1) @@ (p3 :> p1)

(* p2 and p3 ask to be traced; p1 waits for them, lets them go on, and may also wait for  *)
(* the one that is not its ptracee.                                                       *)
AskToBeTraced ==
    (p1 :> Makes({Do("wait", AnyPid), Do("wait", p2), Do("waitnohang", AnyPid), Do("CONT", p2)}, 2))
    @@ (p2 :> Makes({Do("TRACEME", None)}, 1)) @@ (p3 :> Makes({Do("TRACEME", None)}, 1))

(* p2 attaches to p3, which is not its child.                                             *)
AttachToSibling ==
    (p1 :> Makes({Do("wait", AnyPid)}, 1))
    @@ (p2 :> Makes({Do("ATTACH", p3), Do("wait", p3), Do("SYSCALL", p3), Do("DETACH", p3)}, 4))
    @@ (p3 :> Makes({NoCall}, 1))

(* Three in a row: p1 traces p2, which traces p3. p1 may let p2 go on before it waits, or  *)
(* wait in the kernel, as the parent of p2.                                              *)
InARow ==
    (p1 :> Makes({Do("ATTACH", p2), Do("CONT", p2), Do("wait", p2)}, 3))
    @@ (p2 :> Makes({Do("ATTACH", p3), Do("wait", AnyPid)}, 2)) @@ (p3 :> Makes({}, 0))

mcScripts == {AskToBeTraced, AttachToSibling, InARow}

VARIABLE part

(* Segments: two guests that are processes of their own; the second one's calls come      *)
(* without SIGSYS; one guest may be killed, or one call of a chain, or the helper, fails.   *)
(* A segment may be empty, and a mapping that mmap() refused be detached again.           *)
Apart     == <<1, 2>>
MCSigsys  == <<{TRUE}, {FALSE}>>
MCCreates == {[creat |-> TRUE, excl |-> FALSE]}
MaxFaults == 1
MCDetach  == {1, ENOMEM, EINVAL}

InP == part = "ptrace"
InH == part = "shm"

MCInit == /\ Init /\ ShmInit /\ part \in {"ptrace", "shm"}
          /\ InH => script = AskToBeTraced
(* The guests of IpcShm may come to rest: the last disjunct.                               *)
MCNext == \/ InP /\ Next /\ UNCHANGED <<shmvars, part>>
          \/ InH /\ ShmNext /\ nfail' + ndeath' <= MaxFaults /\ UNCHANGED <<vars, part>>
          \/ InH /\ UNCHANGED <<vars, shmvars, part>>
MCSpec == MCInit /\ [][MCNext]_<<vars, shmvars, part>>
===============================================================================
