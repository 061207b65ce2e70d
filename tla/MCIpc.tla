-------------------------------- MODULE MCIpc ---------------------------------
(* Message queues (IpcMsg) and semaphores (IpcSem) of System V, each on an instance of *)
(* its own, over the same waiting mechanism. A behaviour is one of either; `part` says  *)
(* which, and the variables of the other stay as they are at the beginning.            *)
EXTENDS IpcMsg

(* The first guest makes, fills and removes objects, and looks into them; the others    *)
(* wait, one of them by the path without SIGSYS.                                        *)
MsgDoes   == [p \in Tracee |-> IF p = 1 THEN CallNames ELSE {"msgrcv"}]
SemDoes   == [p \in Tracee |-> IF p = 1 THEN {"semget", "semop", "semctl"} ELSE {"semop"}]
MCSigsys  == [p \in Tracee |-> {p # 2}]

Flags(c, e) == [creat |-> c, excl |-> e]
MCFlags == {Flags(TRUE, TRUE), Flags(FALSE, FALSE)}

(* A receive that blocks for any message, and variants of it: a copy, a buffer that is  *)
(* too small for a message of length 2, a buffer that cuts it.                          *)
Any   == [NoRequest EXCEPT !.sz = 2]
Copy  == [Any EXCEPT !.copy = TRUE, !.nowait = TRUE]
Small == [Any EXCEPT !.typ = -1, !.sz = 1]
Cut   == [Any EXCEPT !.typ = 2, !.except = TRUE, !.sz = 1, !.noerror = TRUE]
MCRequests == [p \in Tracee |-> CASE p = 1 -> {Copy} [] p = 2 -> {Small, Cut} [] OTHER -> {Any}]

(* Posts on two semaphores, on one there is not, and no operation at all; a test for    *)
(* zero and a step that also tests, without waiting, the other semaphore; a step that   *)
(* takes from both.                                                                     *)
Op(n, o) == [num |-> n, op |-> o, nowait |-> FALSE]
Try(n, o) == [num |-> n, op |-> o, nowait |-> TRUE]
SemCalls == [p \in Tracee |->
    CASE p = 1 -> {<<Op(0, 1)>>, <<Op(1, 1)>>, <<Op(2, 1)>>, <<>>}
      [] p = 2 -> {<<Op(0, 0)>>, <<Op(0, -1), Try(1, 0)>>}
      [] OTHER -> {<<Op(1, -1), Op(0, -1)>>}]

VARIABLES
  part,
  scfg, skern, ssigstop, sresult, snintr, sndeath, snrmid,
  semaphores, doing, credited, passed

Sem == INSTANCE IpcSem WITH
         cfg <- scfg, kern <- skern, sigstop <- ssigstop, result <- sresult,
         nintr <- snintr, ndeath <- sndeath, nrmid <- snrmid,
         Does <- SemDoes, Creates <- MCFlags, Sizes <- {0, 2}, Calls <- SemCalls,
         Values <- {0, 2}, MaxVal <- 1, MaxNsems <- 2, MaxSets <- 1
ASSUME Sem!SemAssumption

semvars == <<scfg, skern, ssigstop, sresult, snintr, sndeath, snrmid,
             semaphores, doing, credited, passed>>

MCInit == Init /\ Sem!Init /\ part \in {"msg", "sem"}
MCNext ==
  \/ part = "msg" /\ Next /\ UNCHANGED <<semvars, part>>
  \/ part = "sem" /\ Sem!Next /\ UNCHANGED <<vars, part>>
MCSpec == MCInit /\ [][MCNext]_<<vars, semvars, part>>

(* IpcSem: values are in their range, and the sums of the operations that were granted. *)
ValuesRight == Sem!ValuesRight

(* IpcSem: nobody waits for operations that are possible or for a set that is gone, and *)
(* who sleeps is known to.                                                              *)
PostersServed == Sem!PostersServed /\ Sem!WaitersAgree
===============================================================================
