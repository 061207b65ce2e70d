------------------------------ MODULE MCIpcMsg ------------------------------
(* Two guests that do everything with one queue, no call refused by the host. *)
EXTENDS IpcMsg

mcAll   == [p \in Tracee |-> CallNames]
mcNever == [p \in Tracee |-> {FALSE}]
mcCreat == {[creat |-> TRUE, excl |-> FALSE]}

\* A receive that blocks for any message.
mcAny == [p \in Tracee |-> {[NoRequest EXCEPT !.sz = 2]}]
=============================================================================
