------------------------------ MODULE GuestCalls ------------------------------
(* What a guest may rely on: each of its system calls makes the kernel do the   *)
(* planned calls, in order and once each, and then returns the promised result. *)
EXTENDS Naturals, Sequences

CONSTANTS Calls,     \* the calls a guest may make
          Plan(_),   \* the kernel calls that serve one of them
          Result(_)  \* what it returns

VARIABLES call, done, out
vars == <<call, done, out>>

None == "none"

Init == call = None /\ done = <<>> /\ out = None

Begin(c) == /\ call = None
            /\ call' = c /\ done' = <<>> /\ out' = None

Perform == /\ call # None /\ Len(done) < Len(Plan(call))
           /\ done' = SubSeq(Plan(call), 1, Len(done) + 1)
           /\ UNCHANGED <<call, out>>

End == /\ call # None /\ done = Plan(call)
       /\ out' = Result(call) /\ call' = None /\ done' = <<>>

Next == (\E c \in Calls : Begin(c)) \/ Perform \/ End

Spec == Init /\ [][Next]_vars
===============================================================================
