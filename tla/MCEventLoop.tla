----------------------------- MODULE MCEventLoop -----------------------------
(* The event loop: the life of three processes (EventLoop), and the shadows of   *)
(* pipes that it looks after (PipeShadow), each on an instance of its own. A       *)
(* behaviour is one of either; `part` says which, and the variables of the other  *)
(* stay as they are at the beginning.                                           *)
EXTENDS EventLoop, PipeShadow

CONSTANTS p1, p2, p3

MCPid == {p1, p2, p3}

(* One guest reads two pipes, the other one reads and writes the first of them;    *)
(* there is room for two shadows, and three read ends.                          *)
MCGuests == {1, 2}
MCEnds == {<<1, "a", "r">>, <<2, "a", "r">>, <<2, "a", "w">>, <<1, "b", "r">>}

VARIABLE part

InE == part = "processes"
InP == part = "pipes"

(* A guest of PipeShadow may come to rest: the last disjunct.                    *)
MCInit == Init /\ PipeInit /\ part \in {"processes", "pipes"} /\ (InE => ~polling)
MCNext ==
  \/ InE /\ Next /\ UNCHANGED <<pipevars, part>>
  \/ InP /\ PipeNext /\ UNCHANGED <<vars, part>>
  \/ InP /\ UNCHANGED <<vars, pipevars, part>>

(* The fairness of EventLoop and of PipeShadow, each for its own behaviours.      *)
MCFair ==
  /\ WF_vars(InE /\ Loop) /\ \A p \in Pid : WF_vars(InE /\ AttachStop(p))
  /\ WF_pipevars(InP /\ PipeLoop) /\ WF_pipevars(InP /\ wakeup_event_loop)
  /\ \A i \in 1..Slots : WF_pipevars(InP /\ Ages(i))
  /\ \A g \in Guests : WF_pipevars(InP /\ LetGo(g))

MCSpec == MCInit /\ [][MCNext]_<<vars, pipevars, part>> /\ MCFair
=============================================================================
