------------------------------ MODULE MCIpcShm ------------------------------
(* Two guests, each a process of its own, whose calls all come with SIGSYS.  *)
EXTENDS IpcShm

mcCreat  == {[creat |-> TRUE, excl |-> FALSE]}
mcAlways == [p \in Tracee |-> {TRUE}]
mcApart  == [p \in Tracee |-> p]
=============================================================================
