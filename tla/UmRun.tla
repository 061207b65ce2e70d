--------------------------------- MODULE UmRun ---------------------------------
(* One run of a user-mode kernel: um_run_kernel() and um_watchdog_main() of         *)
(* um_supervisor.c. The supervisor forks the kernel and a watchdog, moves output     *)
(* from the kernel's terminal to its own, forwards one signal, kills at the          *)
(* deadline, and tells its caller whether the kernel's process group is gone.       *)
EXTENDS Naturals

CONSTANTS MaxOut,     \* bound: pieces of output the guest makes
          OutLimit,   \* UM_OUTPUT_LIMIT, in pieces
          MaxSignals, \* bound: signals sent to the supervisor
          Codes       \* statuses of the guest's command

UmRunAssumption == MaxOut \in Nat /\ OutLimit \in Nat \ {0} /\ Codes \subseteq 0..120

VARIABLES
  run,      \* where the supervisor is
  child,    \* the kernel's process
  kin,      \* the other processes of its group
  pipe,     \* the group pipe: what the supervisor would read
  shake,    \* what it has read: "open", "ready" or "closed"
  dog,      \* the watchdog
  wire,     \* the pipe to the watchdog
  req,      \* um_requested_signal
  fwd,      \* forwarded_signal is set
  late,     \* timed_out
  drained,  \* the drain deadline has passed
  status,   \* what the guest's command wrote to the status file, or None
  ended,    \* how the kernel ended
  made, pty, buf,   \* output made, in the terminal, in the buffer
  eof,      \* master_eof
  failed,   \* output_failed
  reader,   \* somebody reads the supervisor's output
  gone,     \* *group_gone
  result, signals

outs == <<made, pty, buf, eof, failed, reader>>
procs == <<child, kin, pipe, status, ended>>
runvars == <<run, child, kin, pipe, shake, dog, wire, req, fwd, late, drained, status, ended,
             made, pty, buf, eof, failed, reader, gone, result, signals>>

None == 999
SIGTERM == 15
SIGKILL == 9

RunInit ==
  /\ run = "setup" /\ child = "none" /\ kin = "none" /\ pipe = "empty" /\ shake = "open"
  /\ dog = "none" /\ wire = "open" /\ req = 0 /\ fwd = FALSE /\ late = FALSE /\ drained = FALSE
  /\ status = None /\ ended = None /\ made = 0 /\ pty = 0 /\ buf = 0 /\ eof = FALSE
  /\ failed = FALSE /\ reader = TRUE /\ gone = TRUE /\ result = None /\ signals = 0

ChildAlive == child \in {"forked", "leader", "told", "ran"}
child_done == child = "reaped"
group_ready == shake = "ready"

(* um_kill_group(SIGKILL): the process, and its group once it is known to be one.   *)
Kill(group) ==
  /\ child' = IF ChildAlive THEN "zombie" ELSE child
  /\ ended' = IF ChildAlive THEN 128 + SIGKILL ELSE ended
  /\ kin' = IF group /\ kin = "alive" THEN "dying" ELSE kin
  /\ pipe' = IF ChildAlive /\ pipe = "empty" THEN "eof" ELSE pipe
  /\ status' = status

-------------------------------------------------------------------------------
(* The start. A signal between the two steps is forgotten.                        *)
um_install_signal_handlers ==
  /\ run = "setup" /\ run' = "armed"
  /\ UNCHANGED <<procs, outs, shake, dog, wire, req, fwd, late, drained, gone, result, signals>>

Forget ==
  /\ run = "armed" /\ run' = "fork" /\ req' = 0
  /\ UNCHANGED <<procs, outs, shake, dog, wire, fwd, late, drained, gone, result, signals>>

ForkKernel ==
  /\ run = "fork" /\ run' = "guard" /\ child' = "forked"
  /\ UNCHANGED <<kin, pipe, status, ended, outs, shake, dog, wire, req, fwd, late, drained,
                 gone, result, signals>>

ForkWatchdog ==
  /\ run = "guard" /\ run' = "loop" /\ dog' = "watch" /\ gone' = FALSE
  /\ UNCHANGED <<procs, outs, shake, wire, req, fwd, late, drained, result, signals>>

(* fork() fails: what was started is cleaned up, and the run has failed.           *)
ForkFails ==
  /\ run \in {"fork", "guard"} /\ result' = 1
  /\ run' = IF child = "none" THEN "exit" ELSE "clean"
  /\ UNCHANGED <<procs, outs, shake, dog, wire, req, fwd, late, drained, gone, signals>>

-------------------------------------------------------------------------------
(* The loop: waitpid, signals, deadlines and poll, in the order they come up.       *)
Looping == run = "loop"

(* The kernel is reaped, then killed with its group, if the group is known by now.   *)
Reap ==
  /\ Looping /\ child = "zombie" /\ child' = "reaped"
  /\ kin' = IF group_ready /\ kin = "alive" THEN "dying" ELSE kin
  /\ UNCHANGED <<pipe, status, ended, run, outs, shake, dog, wire, req, fwd, late, drained,
                 gone, result, signals>>

(* The first signal goes to the group; the kernel may end of it, or not.           *)
Forward ==
  /\ Looping /\ req # 0 /\ ~fwd /\ fwd' = TRUE
  /\ \/ UNCHANGED procs
     \/ /\ ChildAlive /\ child' = "zombie" /\ ended' = 128 + req
        /\ pipe' = (IF pipe = "empty" THEN "eof" ELSE pipe) /\ UNCHANGED <<kin, status>>
  /\ UNCHANGED <<run, outs, shake, dog, wire, req, late, drained, gone, result, signals>>

Timeout ==
  /\ Looping /\ ~child_done /\ ~fwd /\ late' = TRUE /\ fwd' = TRUE /\ Kill(group_ready)
  /\ UNCHANGED <<run, outs, shake, dog, wire, req, drained, gone, result, signals>>

(* A mistake: only a group that is known is killed again.                          *)
Escalate_Group ==
  /\ Looping /\ ChildAlive /\ fwd /\ group_ready /\ ~late /\ Kill(group_ready)
  /\ UNCHANGED <<run, outs, shake, dog, wire, req, fwd, late, drained, gone, result, signals>>

(* The grace of a forwarded signal is over.                                       *)
Escalate ==
  /\ Looping /\ ChildAlive /\ fwd /\ Kill(group_ready)
  /\ UNCHANGED <<run, outs, shake, dog, wire, req, fwd, late, drained, gone, result, signals>>

DrainDeadline ==
  /\ Looping /\ child_done /\ ~drained /\ drained' = TRUE
  /\ UNCHANGED <<procs, run, outs, shake, dog, wire, req, fwd, late, gone, result, signals>>

(* The marker, or the end of the pipe if the child died before it was a leader.     *)
Handshake ==
  /\ run = "loop" /\ shake = "open" /\ pipe # "empty"
  /\ shake' = IF pipe = "G" THEN "ready" ELSE "closed"
  /\ UNCHANGED <<procs, run, outs, dog, wire, req, fwd, late, drained, gone, result, signals>>

(* A buffer that is full fails the output and ends the run.                        *)
ReadMaster ==
  /\ Looping /\ pty > 0 /\ ~eof
  /\ IF buf < OutLimit
     THEN pty' = pty - 1 /\ buf' = buf + 1 /\ failed' = failed /\ UNCHANGED procs
     ELSE pty' = 0 /\ buf' = buf /\ failed' = TRUE /\ Kill(group_ready)
  /\ UNCHANGED <<run, made, eof, reader, shake, dog, wire, req, fwd, late, drained, gone, result,
                 signals>>

MasterEnds ==
  /\ Looping /\ pty = 0 /\ ~eof /\ child \in {"zombie", "reaped"} /\ kin = "none" /\ eof' = TRUE
  /\ UNCHANGED <<procs, run, made, pty, buf, failed, reader, shake, dog, wire, req, fwd, late,
                 drained, gone, result, signals>>

WriteOut ==
  /\ Looping /\ buf > 0 /\ ~failed
  /\ buf' = IF reader THEN buf - 1 ELSE buf
  /\ failed' = ~reader
  /\ UNCHANGED <<procs, run, made, pty, eof, reader, shake, dog, wire, req, fwd, late, drained,
                 gone, result, signals>>

(* A mistake: the terminal is not read to its end.                               *)
LoopEnds_NoEof ==
  /\ Looping /\ ((child_done /\ buf = 0 /\ shake # "open") \/ drained)
  /\ run' = "reap"
  /\ UNCHANGED <<procs, outs, shake, dog, wire, req, fwd, late, drained, gone, result, signals>>

LoopEnds ==
  /\ Looping /\ ((child_done /\ eof /\ buf = 0 /\ shake # "open") \/ drained)
  /\ run' = "reap"
  /\ UNCHANGED <<procs, outs, shake, dog, wire, req, fwd, late, drained, gone, result, signals>>

-------------------------------------------------------------------------------
(* After the loop. The group is waited for until it is gone, or for two seconds.     *)
GroupGone(g) ==
  IF group_ready THEN g => kin = "none"
  ELSE g = (shake = "closed" /\ child_done)

(* What is still buffered is written, unless that takes too long.                  *)
FlushUntil ==
  \/ failed /\ UNCHANGED <<buf, failed>>
  \/ ~failed /\ (buf > 0 => reader) /\ buf' = 0 /\ failed' = FALSE
  \/ ~failed /\ buf > 0 /\ failed' = TRUE /\ buf' = buf

(* um_read_guest_status() is asked only if nothing else decides.                    *)
Result(bad) ==
  IF bad THEN 1 ELSE IF late THEN 124 ELSE IF req # 0 THEN 128 + req
  ELSE IF status # None THEN status ELSE ended

AfterLoop ==
  /\ run = "reap" /\ child_done /\ run' = "clean"
  /\ gone' \in {g \in BOOLEAN : GroupGone(g)} /\ FlushUntil
  /\ result' = Result(failed')
  /\ UNCHANGED <<procs, made, pty, eof, reader, shake, dog, wire, req, fwd, late,
                 drained, signals>>

(* The cleanup of a started kernel: kill, reap, look again, dismiss the watchdog.    *)
CleanKill ==
  /\ run = "clean" /\ Kill(group_ready) /\ run' = "cleaned"
  /\ UNCHANGED <<outs, shake, dog, wire, req, fwd, late, drained, gone, result, signals>>

CleanReap ==
  /\ run = "cleaned" /\ child = "zombie" /\ child' = "reaped"
  /\ UNCHANGED <<kin, pipe, status, ended, run, outs, shake, dog, wire, req, fwd, late, drained,
                 gone, result, signals>>

(* A mistake: what was found before the cleanup is not looked at again.             *)
CleanWait_Trusts ==
  /\ run = "cleaned" /\ child_done /\ run' = "dismiss"
  /\ \E g \in BOOLEAN :
       /\ IF group_ready THEN GroupGone(g) ELSE g = gone
       /\ gone' = g /\ wire' = IF g /\ dog # "none" THEN "S" ELSE "eof"
  /\ UNCHANGED <<procs, outs, shake, dog, req, fwd, late, drained, result, signals>>

CleanWait ==
  /\ run = "cleaned" /\ child_done /\ run' = "dismiss"
  /\ \E g \in BOOLEAN :
       /\ IF group_ready THEN GroupGone(g) ELSE g = (gone /\ shake = "closed")
       /\ gone' = g /\ wire' = IF g /\ dog # "none" THEN "S" ELSE "eof"
  /\ UNCHANGED <<procs, outs, shake, dog, req, fwd, late, drained, result, signals>>

Exit ==
  /\ run = "dismiss" /\ dog \in {"none", "gone"} /\ run' = "exit"
  /\ UNCHANGED <<procs, outs, shake, dog, wire, req, fwd, late, drained, gone, result, signals>>

Supervisor ==
  \/ um_install_signal_handlers \/ Forget \/ ForkKernel \/ ForkWatchdog \/ ForkFails
  \/ Reap \/ Forward \/ Escalate \/ Handshake \/ ReadMaster \/ MasterEnds \/ WriteOut \/ LoopEnds
  \/ AfterLoop \/ CleanKill \/ CleanReap \/ CleanWait \/ Exit

-------------------------------------------------------------------------------
(* The child: a session of its own, the marker, the kernel.                       *)
Rest == <<run, shake, dog, wire, req, fwd, late, drained, gone, result, signals>>

ChildLeader ==
  /\ child = "forked" /\ child' = "leader"
  /\ UNCHANGED <<kin, pipe, status, ended, outs, Rest>>
ChildTells ==
  /\ child = "leader" /\ child' = "told" /\ pipe' = "G"
  /\ UNCHANGED <<kin, status, ended, outs, Rest>>
ChildExec ==
  /\ child = "told" /\ child' = "ran" /\ UNCHANGED <<kin, pipe, status, ended, outs, Rest>>
ChildFails ==
  /\ child \in {"forked", "leader", "told"} /\ child' = "zombie" /\ ended' = 127
  /\ pipe' = IF pipe = "empty" THEN "eof" ELSE pipe
  /\ UNCHANGED <<kin, status, outs, Rest>>

(* The kernel: processes of its own, output, the end of the command and of itself.  *)
KernelForks ==
  /\ child = "ran" /\ kin = "none" /\ kin' = "alive"
  /\ UNCHANGED <<child, pipe, status, ended, outs, Rest>>
GuestOutput ==
  /\ child = "ran" /\ made < MaxOut /\ made' = made + 1 /\ pty' = pty + 1
  /\ UNCHANGED <<procs, buf, eof, failed, reader, Rest>>
GuestEnds ==
  /\ child = "ran" /\ status = None /\ status' \in Codes
  /\ UNCHANGED <<child, kin, pipe, ended, outs, Rest>>
KernelEnds ==
  /\ child = "ran" /\ child' = "zombie" /\ ended' = 0
  /\ kin' \in {kin, "none"} /\ UNCHANGED <<pipe, status, outs, Rest>>

(* External: a killed process goes; init reaps; the reader of the output leaves.     *)
KinGoes ==
  /\ kin = "dying" /\ kin' = "none" /\ UNCHANGED <<child, pipe, status, ended, outs, Rest>>
InitReaps ==
  /\ run = "dead" /\ child = "zombie" /\ child' = "reaped"
  /\ UNCHANGED <<kin, pipe, status, ended, outs, Rest>>
ReaderLeaves ==
  /\ reader /\ reader' = FALSE /\ UNCHANGED <<procs, made, pty, buf, eof, failed, Rest>>

(* um_signal_handler(); before it is installed the signal ends the supervisor.      *)
um_signal_handler ==
  /\ signals < MaxSignals /\ run \notin {"exit", "dead"} /\ signals' = signals + 1
  /\ IF run = "setup" THEN run' = "dead" /\ req' = req ELSE req' = SIGTERM /\ run' = run
  /\ UNCHANGED <<procs, outs, shake, dog, wire, fwd, late, drained, gone, result>>

(* SIGKILL of the supervisor: PR_SET_PDEATHSIG ends the child.                     *)
SupervisorKilled ==
  /\ signals < MaxSignals /\ run \notin {"setup", "exit", "dead"} /\ signals' = signals + 1
  /\ run' = "dead" /\ wire' = "eof" /\ Kill(FALSE)
  /\ UNCHANGED <<outs, shake, dog, req, fwd, late, drained, gone, result>>

(* The watchdog. The group is killed only while its leader has not been reaped.      *)
DogDismissed ==
  /\ dog = "watch" /\ wire = "S" /\ dog' = "gone"
  /\ UNCHANGED <<procs, outs, run, shake, wire, req, fwd, late, drained, gone, result, signals>>
DogKills ==
  /\ dog = "watch" /\ wire = "eof" /\ dog' = "kill" /\ Kill(FALSE)
  /\ UNCHANGED <<outs, run, shake, wire, req, fwd, late, drained, gone, result, signals>>
DogGroup ==
  /\ dog = "kill" /\ ~child_done /\ kin = "alive" /\ kin' = "dying"
  /\ UNCHANGED <<child, pipe, status, ended, outs, Rest>>
DogEnds ==
  /\ dog = "kill" /\ dog' = "gone"
  /\ UNCHANGED <<procs, outs, run, shake, wire, req, fwd, late, drained, gone, result, signals>>

um_watchdog_main == DogDismissed \/ DogKills \/ DogGroup \/ DogEnds
Guest == \/ ChildLeader \/ ChildTells \/ ChildExec \/ ChildFails
         \/ KernelForks \/ GuestOutput \/ GuestEnds \/ KernelEnds
Deadlines == Timeout \/ DrainDeadline
RunNext == \/ Supervisor \/ Deadlines \/ Guest \/ um_watchdog_main
        \/ KinGoes \/ InitReaps \/ ReaderLeaves \/ um_signal_handler \/ SupervisorKilled

(* The supervisor and the watchdog run, deadlines pass, the kernel reaps; the guest  *)
(* may do nothing for ever.                                                       *)
Fairness ==
  /\ WF_runvars(Supervisor) /\ WF_runvars(Timeout) /\ WF_runvars(DrainDeadline)
  /\ WF_runvars(um_watchdog_main) /\ WF_runvars(KinGoes) /\ WF_runvars(InitReaps)

RunSpec == RunInit /\ [][RunNext]_runvars /\ Fairness

-------------------------------------------------------------------------------
(* The caller removes the run's directories exactly when the supervisor says that    *)
(* the group is gone: then no process of it is left that could use them, whatever     *)
(* the child had time to announce and however the loop ended.                       *)
NothingLeft == run = "exit" /\ gone => child \in {"none", "reaped"} /\ kin = "none"

(* A run that returns the guest's own status has passed on all the output of its     *)
(* kernel, unless the two seconds for it were over; a signal or the deadline shows    *)
(* in the status of every run it ended.                                            *)
StatusMeansAll ==
  run = "exit" /\ dog = "gone" =>
    /\ result = status /\ ~failed /\ ~drained => pty = 0 /\ buf = 0
    /\ late /\ ~failed => result = 124
    /\ ended = 128 + SIGTERM /\ ~late /\ ~failed => result = 128 + SIGTERM

(* What the caller of a run is told, of the guest and of the processes it had.       *)
RunSound == NothingLeft /\ StatusMeansAll

(* A run ends: the deadline, a signal and SIGKILL see to it, whatever the guest does, *)
(* and a supervisor that is killed takes the kernel along.                          *)
RunEnds ==
  /\ run = "loop" ~> run \in {"exit", "dead"}
  /\ run = "dead" ~> (run = "dead" /\ child \in {"none", "reaped"})
===============================================================================
