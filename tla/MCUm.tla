--------------------------------- MODULE MCUm ----------------------------------
(* The user-mode backend's processes: two starts of one session (UmSession), and a     *)
(* run's supervisor with its child (UmRun), each on an instance of its own. A behaviour   *)
(* is one of either; `part` says which, and the variables of the other stay as they are   *)
(* at the beginning.                                                                    *)
EXTENDS UmSession, UmRun

ASSUME UmRunAssumption

VARIABLE part

InS == part = "session"
InR == part = "run"
MCInit == Init /\ RunInit /\ part \in {"session", "run"}
MCNext == \/ InS /\ Next /\ UNCHANGED <<runvars, part>>
          \/ InR /\ RunNext /\ UNCHANGED <<vars, part>>
(* The fairness of UmSession and of UmRun.                                              *)
MCFair ==
  /\ \A s \in Starts : WF_vars(InS /\ Daemon(s)) /\ WF_vars(InS /\ Start(s))
  /\ WF_runvars(InR /\ Supervisor) /\ WF_runvars(InR /\ Timeout)
  /\ WF_runvars(InR /\ DrainDeadline) /\ WF_runvars(InR /\ um_watchdog_main)
  /\ WF_runvars(InR /\ KinGoes) /\ WF_runvars(InR /\ InitReaps)
MCSpec == MCInit /\ [][MCNext]_<<vars, runvars, part>> /\ MCFair
===============================================================================
