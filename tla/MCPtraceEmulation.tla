-------------------------- MODULE MCPtraceEmulation --------------------------
(* A parent and its two children, which ask it to trace them.             *)
EXTENDS PtraceEmulation, TLC

CONSTANTS p1, p2, p3

Do(op, arg) == [op |-> op, arg |-> arg]

Makes(calls, n) == [may |-> calls, left |-> n]

\* p1 is the parent of the two others.
Siblings == (p1 :> None) @@ (p2 :> p1) @@ (p3 :> p1)

\* p2 and p3 ask to be traced; p1 waits for them, lets them go on, and may also wait for
\* the one that is not its ptracee.
AskToBeTraced ==
    (p1 :> Makes({Do("wait", AnyPid), Do("wait", p2), Do("waitnohang", AnyPid), Do("CONT", p2)}, 2))
    @@ (p2 :> Makes({Do("TRACEME", None), NoCall}, 2)) @@ (p3 :> Makes({Do("TRACEME", None)}, 1))

mcTraceMe == {AskToBeTraced}
=============================================================================
