------------------------------- MODULE PipeShadow -------------------------------
(* The shadows of pipes (pipe_shadow.c): when a guest closes the read end of a pipe the *)
(* tracer keeps one of its own for a while, because under ptrace the close may overtake  *)
(* a child's write that it would have followed. A reader that never reads must not stay,  *)
(* or the writers that fill the pipe block for ever. The loop looks at the shadows at its *)
(* top, and a timer wakes it when no guest does.                                        *)
EXTENDS Naturals, FiniteSets

CONSTANTS Guests, Pipes, None,
          Slots,   \* MAX_SHADOW_PIPES
          Ends     \* the ends guests have at the start: <<guest, pipe, "r" or "w">>

ASSUME PipeShadowAssumption ==
  /\ Ends \subseteq Guests \X Pipes \X {"r", "w"} /\ None \notin Pipes /\ Slots \in Nat
  /\ \A e \in Ends : \E g \in Guests : <<g, e[2], "r">> \in Ends

VARIABLES
  open,    \* the ends guests have
  level,   \* pipe -> "empty", "part" or "full": less than PIPE_BUF is free
  at,      \* guest -> what it does, and the end it does it with
  slot,    \* shadows: slot -> [pipe, old]; old: SHADOW_MAX_AGE_MS have passed
  recent,  \* SHADOW_REAP_INTERVAL_MS have not passed since last_reap
  timer,   \* the timer is set
  turn,    \* the loop: at its top, about to wait, in waitpid()
  polling, \* user_notif_sock >= 0: the wait polls until the listener arrives
  missed,  \* ghost: the timer ran out and did not bring the loop to its top
  lost,    \* ghost: pipes whose last readers were not shadowed, or not for long enough
  refused  \* ghost: pipes a write to which failed

pipevars == <<open, level, at, slot, recent, timer, turn, polling, missed, lost, refused>>
guests == <<open, level, at, refused>>

Unused == [pipe |-> None, old |-> FALSE]
Running == [op |-> "run", end |-> None]

PipeInit ==
  /\ open = Ends /\ level = [p \in Pipes |-> "empty"] /\ at = [g \in Guests |-> Running]
  /\ slot = [i \in 1..Slots |-> Unused] /\ recent = FALSE /\ timer = FALSE /\ turn = "top"
  /\ polling \in BOOLEAN /\ missed = FALSE /\ lost = {} /\ refused = {}

shadow_pipes_held(s) == \E i \in DOMAIN s : s[i].pipe # None
Read(p) == \E g \in Guests : <<g, p, "r">> \in open
Written(p) == \E g \in Guests : <<g, p, "w">> \in open
Shadowed(p) == \E i \in DOMAIN slot : slot[i].pipe = p
Do(g, op, end) == at' = [at EXCEPT ![g] = [op |-> op, end |-> end]]

-------------------------------------------------------------------------------
(* The tracer.                                                                   *)

(* A guest stops on its way into close(). The read end of a pipe gets a shadow, if   *)
(* there is a slot and the file can be opened.                                    *)
shadow_pipe_read_end(p) ==
  \/ \E i \in DOMAIN slot :
       /\ slot[i].pipe = None /\ \A j \in 1..(i - 1) : slot[j].pipe # None
       /\ slot' = [slot EXCEPT ![i] = [pipe |-> p, old |-> FALSE]] /\ UNCHANGED lost
  \/ lost' = lost \cup {p} /\ UNCHANGED slot

(* waitpid() returns the stop; the timer is taken back first.                        *)
HandleClose(g) ==
  /\ turn = "wait" /\ at[g].op = "stopped" /\ turn' = "top" /\ timer' = FALSE /\ missed' = FALSE
  /\ IF at[g].end[3] = "r" THEN shadow_pipe_read_end(at[g].end[2]) ELSE UNCHANGED <<slot, lost>>
  /\ Do(g, "closing", at[g].end) /\ UNCHANGED <<open, level, recent, polling, refused>>

HungUp(p) == ~Written(p)
writer_would_block(p) == level[p] = "full"

(* Mistakes: a shadow that goes as soon as no guest reads the pipe, or stays as long   *)
(* as the pipe has room.                                                          *)
Useless_Unread(s) == ~Read(s.pipe) \/ writer_would_block(s.pipe) \/ s.old
Useless_NeverOld(s) == HungUp(s.pipe) \/ writer_would_block(s.pipe)

Useless(s) == HungUp(s.pipe) \/ writer_would_block(s.pipe) \/ s.old

(* The top of the loop: the shadows, unless they were looked at a moment ago, and the   *)
(* timer, which a later turn starts anew.                                           *)
shadow_pipes_reap ==
  IF recent \/ ~shadow_pipes_held(slot) THEN UNCHANGED <<slot, recent, lost>>
  ELSE LET gone == {i \in DOMAIN slot : slot[i].pipe # None /\ Useless(slot[i])} IN
       /\ slot' = [i \in DOMAIN slot |-> IF i \in gone THEN Unused ELSE slot[i]]
       /\ recent' = TRUE
       /\ lost' = lost \cup {p \in Pipes : \E i \in gone : slot[i] = [pipe |-> p, old |-> TRUE]
                                             \/ (slot[i].pipe = p /\ writer_would_block(p))}

LoopTop ==
  /\ turn = "top" /\ turn' = "armed" /\ shadow_pipes_reap
  /\ timer' = shadow_pipes_held(slot') /\ missed' = FALSE /\ UNCHANGED <<guests, polling>>

Wait ==
  /\ turn = "armed" /\ turn' = "wait"
  /\ UNCHANGED <<guests, slot, recent, timer, polling, missed, lost>>

(* The listener of the first guest's seccomp filter arrives in a wait that polls, which is   *)
(* a blocking waitpid() from then on. It never arrives if there is no filter.           *)
maybe_recv_user_notif_listener ==
  /\ turn = "wait" /\ polling /\ polling' = FALSE
  /\ UNCHANGED <<guests, slot, recent, timer, turn, missed, lost>>

(* SIGALRM, SHADOW_TIMER_MS after the timer was set, which is longer than the interval:   *)
(* waitpid() returns, if the loop is in it; a wait that polls goes on at EINTR.         *)
wakeup_event_loop ==
  /\ timer /\ timer' = FALSE /\ recent' = FALSE
  /\ IF turn = "wait" /\ ~polling THEN turn' = "top" /\ UNCHANGED missed
     ELSE missed' = TRUE /\ UNCHANGED turn
  /\ UNCHANGED <<guests, slot, polling, lost>>

(* Time: the interval is over, a shadow gets old.                                     *)
Interval ==
  /\ recent /\ recent' = FALSE /\ UNCHANGED <<guests, slot, timer, turn, polling, missed, lost>>
Ages(i) ==
  /\ slot[i].pipe # None /\ ~slot[i].old /\ slot' = [slot EXCEPT ![i].old = TRUE]
  /\ UNCHANGED <<guests, recent, timer, turn, polling, missed, lost>>

PipeLoop == LoopTop \/ Wait \/ \E g \in Guests : HandleClose(g)

-------------------------------------------------------------------------------
(* External: guests and the kernel. A writer that lacks room may be blocked in a pipe   *)
(* whose buffers are all in use though it is not full.                               *)

Close(g) ==
  /\ at[g].op = "run" /\ \E e \in open : e[1] = g /\ Do(g, "stopped", e)
  /\ UNCHANGED <<open, level, refused>>

Closes(g) ==
  /\ at[g].op = "closing" /\ open' = open \ {at[g].end} /\ at' = [at EXCEPT ![g] = Running]
  /\ UNCHANGED <<level, refused>>

Write(g, p) ==
  /\ at[g].op = "run" /\ <<g, p, "w">> \in open /\ UNCHANGED open
  /\ IF Read(p) \/ Shadowed(p)
     THEN /\ \E l \in {"part", "full"} : level' = [level EXCEPT ![p] = l]
          /\ \/ level[p] # "full" /\ UNCHANGED at
             \/ level[p] # "empty" /\ Do(g, "blocked", <<g, p, "w">>)
          /\ level[p] = "full" => level'[p] = "full"
          /\ UNCHANGED refused
     ELSE refused' = refused \cup {p} /\ UNCHANGED <<level, at>>

Drain(g, p) ==
  /\ at[g].op = "run" /\ <<g, p, "r">> \in open /\ level[p] # "empty"
  /\ level' = [level EXCEPT ![p] = "empty"] /\ UNCHANGED <<open, at, refused>>

Blocked(g, p) == at[g].op = "blocked" /\ at[g].end[2] = p
Unblock(g) ==
  /\ \E p \in Pipes : Blocked(g, p) /\ (level[p] = "empty" \/ ~(Read(p) \/ Shadowed(p)))
  /\ at' = [at EXCEPT ![g] = Running] /\ UNCHANGED <<open, level, refused>>

Exits(g) ==
  /\ at[g].op = "run" /\ Do(g, "gone", None) /\ open' = {e \in open : e[1] # g}
  /\ UNCHANGED <<level, refused>>

Reads(g) == {p \in Pipes : <<g, p, "r">> \in open}
Guest ==
  \/ /\ UNCHANGED lost
     /\ \E g \in Guests : Close(g) \/ Closes(g) \/ Unblock(g)
                            \/ \E p \in Pipes : Write(g, p) \/ Drain(g, p)
  \/ \E g \in Guests : Exits(g) /\ lost' = lost \cup Reads(g)

PipeNext ==
  \/ PipeLoop \/ maybe_recv_user_notif_listener \/ wakeup_event_loop
  \/ Interval \/ \E i \in DOMAIN slot : Ages(i)
  \/ Guest /\ UNCHANGED <<slot, recent, timer, turn, polling, missed>>

(* The loop runs, time passes, and the kernel lets go on whom nothing holds.            *)
LetGo(g) == (Closes(g) \/ Unblock(g)) /\ UNCHANGED <<slot, recent, timer, turn, polling, missed, lost>>
PipeFairness ==
  /\ WF_pipevars(PipeLoop) /\ WF_pipevars(wakeup_event_loop)
  /\ \A i \in 1..Slots : WF_pipevars(Ages(i)) /\ \A g \in Guests : WF_pipevars(LetGo(g))

PipeSpec == PipeInit /\ [][PipeNext]_pipevars /\ PipeFairness

-------------------------------------------------------------------------------
(* No write fails that would not fail without the tracer: a close() of the last reader   *)
(* leaves a shadow, until it is old, the pipe is full or nobody can write, unless it      *)
(* could not be made or the reader ended without a close() (shadow_pipe_read_end(),       *)
(* shadow_pipes_reap()).                                                           *)
WritesReach == refused \subseteq lost

(* A writer that only a shadow keeps from failing is not blocked for ever: the timer or    *)
(* another event brings the loop to its top, where the shadow goes at last when it is      *)
(* old (the comment of pipe_shadow.c:40-54). Excepted until the next event is a timer that *)
(* ran out and woke nobody: between setitimer() and waitpid(), or while the loop polls for  *)
(* the listener of the notification thread, where EINTR does not end the wait (event.c:279, *)
(* against the comment of event.c:525) and where the listener may never arrive.          *)
Stuck(g, p) == Blocked(g, p) /\ ~Read(p)
WritersFreed ==
  \A e \in {x \in Ends : x[3] = "w"} : Stuck(e[1], e[2]) ~> ~Stuck(e[1], e[2]) \/ missed
===============================================================================
