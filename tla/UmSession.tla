------------------------------- MODULE UmSession -------------------------------
(* The life of a session of the User-Mode Linux backend: the commands that       *)
(* start and stop it, the daemon that owns its state directory, and the files    *)
(* by which the next command knows whether a daemon is there.                    *)
EXTENDS Naturals, FiniteSets

CONSTANTS Starts,      \* start commands; each has one daemon of the same name
          MaxCrash     \* daemons that are killed

VARIABLES
  dir, owner, ready,   \* the state directory exists; its files owner and ready do
  lock,     \* the number of its lock file, or 0
  pid, meta, sock,     \* the daemon that its other files name
  opened,   \* start command or its daemon -> the lock file it has open, not locked
  holds,    \* daemon -> number of the lock file it has locked; its supervisor is
            \* forked with it and holds it as well
  p,        \* start command -> where it is
  dm,       \* daemon -> where it is
  chan,     \* daemon -> whose channel it uses
  sup,      \* daemons whose supervisor runs
  told,     \* daemons whose supervisor wrote the meta file
  stops,    \* daemons that STOP was sent to
  next,     \* the number of the next lock file
  astray,   \* history: a daemon locked a file that was unlinked since it opened it
  crashes

files == <<dir, owner, ready, lock, pid, meta, sock, next>>
vars == <<files, opened, holds, p, dm, chan, sup, told, stops, astray, crashes>>

Nobody == "nobody"

Init ==
  /\ dir = FALSE /\ owner = FALSE /\ ready = FALSE /\ lock = 0
  /\ pid = Nobody /\ meta = Nobody /\ sock = Nobody /\ holds = [s \in Starts |-> 0]
  /\ opened = [s \in Starts |-> 0] /\ astray = FALSE
  /\ p = [s \in Starts |-> "new"] /\ dm = [s \in Starts |-> "none"]
  /\ chan = [s \in Starts |-> Nobody] /\ sup = {} /\ told = {} /\ stops = {} /\ next = 1 /\ crashes = 0

Alive(s) == dm[s] \notin {"none", "exited"}
P(s, to) == p' = [p EXCEPT ![s] = to]
D(s, to) == dm' = [dm EXCEPT ![s] = to]
Locked(n) == \E s \in Starts : holds[s] = n

(* um_session_lock(): the file is opened, or made, and then locked without a wait. *)
(* A lock that another command or daemon takes to see whether it is free is let go  *)
(* at once, and in that moment it is not.                                        *)
Opened == IF lock = 0 THEN next ELSE lock

Open(s) ==
  /\ opened' = [opened EXCEPT ![s] = Opened]
  /\ lock' = Opened /\ next' = (IF lock = 0 THEN next + 1 ELSE next)
  /\ UNCHANGED <<dir, owner, ready, pid, meta, sock>>

Free(s) == ~Locked(opened[s])
Checked(s) == \E t \in Starts \ {s} : opened[t] = opened[s] /\ "check" \in {p[t], dm[t]}
Shut(s) == opened' = [opened EXCEPT ![s] = 0]

(* um_session_prepare_state(): a directory that is there must be ours, and its     *)
(* lock, which is opened and then tried, free. "to" is what comes next.           *)
Prepared == {"open", "owner", "exited"}

um_session_prepare_state(to) ==
  /\ \/ to = "open" /\ dir /\ owner /\ UNCHANGED dir
     \/ to = "owner" /\ ~dir /\ dir' = TRUE
     \/ to = "exited" /\ dir /\ ~owner /\ UNCHANGED dir
  /\ UNCHANGED <<owner, ready, lock, pid, meta, sock, next>>

PrepareOpen(s, to) ==
  IF dir THEN to = "check" /\ Open(s) ELSE to = "exited" /\ UNCHANGED <<files, opened>>

PrepareCheck(s, to) ==
  /\ (to = "prepared" /\ Free(s)) \/ (to = "exited" /\ (~Free(s) \/ Checked(s)))
  /\ Shut(s) /\ UNCHANGED files

um_session_write_owner(to) ==
  IF dir THEN to = "prepared" /\ owner' = TRUE
              /\ UNCHANGED <<dir, ready, lock, pid, meta, sock, next>>
         ELSE to = "exited" /\ UNCHANGED files

um_session_pid_write(s) ==
  pid' = s /\ UNCHANGED <<dir, owner, ready, lock, meta, sock, next>>

-------------------------------------------------------------------------------
(* The start command.                                                          *)

Begin(s) ==
  /\ p[s] = "new" /\ P(s, "prepare") /\ ready' = FALSE
  /\ UNCHANGED <<dir, owner, lock, pid, meta, sock, next,
                opened, holds, dm, chan, sup, told, stops, astray, crashes>>

Prepare(s) ==
  /\ \/ \E to \in Prepared :
          p[s] = "prepare" /\ um_session_prepare_state(to) /\ UNCHANGED opened /\ P(s, to)
     \/ \E to \in {"check", "exited"} : p[s] = "open" /\ PrepareOpen(s, to) /\ P(s, to)
     \/ \E to \in {"prepared", "exited"} : p[s] = "check" /\ PrepareCheck(s, to) /\ P(s, to)
     \/ \E to \in {"prepared", "exited"} :
          p[s] = "owner" /\ um_session_write_owner(to) /\ UNCHANGED opened /\ P(s, to)
  /\ UNCHANGED <<holds, dm, chan, sup, told, stops, astray, crashes>>

Fork(s) ==
  /\ p[s] = "prepared" /\ P(s, "pid") /\ D(s, "prepare")
  /\ UNCHANGED <<files, opened, holds, chan, sup, told, stops, astray, crashes>>

PidWrite(s) ==
  /\ p[s] = "pid"
  /\ IF dir THEN um_session_pid_write(s) /\ P(s, "wait")
     ELSE P(s, "exited") /\ UNCHANGED files
  /\ UNCHANGED <<opened, holds, dm, chan, sup, told, stops, astray, crashes>>

(* waitpid() first, then the ready file, whoever made it; or the limit.           *)
Wait(s) ==
  /\ p[s] = "wait"
  /\ \/ dm[s] = "exited" /\ P(s, "exited")
     \/ dm[s] # "exited" /\ ready /\ P(s, "started")
     \/ dm[s] # "exited" /\ ~ready /\ P(s, "exited")
  /\ UNCHANGED <<files, opened, holds, dm, chan, sup, told, stops, astray, crashes>>

(* The stop command: STOP goes to the daemon that listens at the socket.          *)
Stop ==
  /\ sock # Nobody /\ Alive(sock) /\ stops' = stops \cup {sock}
  /\ UNCHANGED <<files, opened, holds, p, dm, chan, sup, told, astray, crashes>>

-------------------------------------------------------------------------------
(* The daemon.                                                                 *)

(* A lock goes with the last process that has the file open.                     *)
Exits(s) == D(s, "exited") /\ holds' = [holds EXCEPT ![s] = IF s \in sup THEN @ ELSE 0]

DPrepare(s) ==
  /\ \/ \E to \in Prepared :
          dm[s] = "prepare" /\ um_session_prepare_state(to) /\ UNCHANGED opened /\ D(s, to)
     \/ \E to \in {"check", "exited"} : dm[s] = "open" /\ PrepareOpen(s, to) /\ D(s, to)
     \/ \E to \in {"prepared", "exited"} : dm[s] = "check" /\ PrepareCheck(s, to) /\ D(s, to)
     \/ \E to \in {"prepared", "exited"} :
          dm[s] = "owner" /\ um_session_write_owner(to) /\ UNCHANGED opened /\ D(s, to)
  /\ UNCHANGED <<holds, p, chan, sup, told, stops, astray, crashes>>

OpenLock(s) ==
  /\ dm[s] = "prepared"
  /\ IF dir THEN Open(s) /\ D(s, "lock") ELSE D(s, "exited") /\ UNCHANGED <<files, opened>>
  /\ UNCHANGED <<holds, p, chan, sup, told, stops, astray, crashes>>

(* A mistake: the lock is let go once it is known to be free.                    *)
Lock_Released(s) ==
  /\ dm[s] = "lock" /\ Shut(s)
  /\ \/ Free(s) /\ holds' = holds /\ D(s, "pid") /\ astray' = (astray \/ opened[s] # lock)
     \/ (~Free(s) \/ Checked(s)) /\ D(s, "exited") /\ UNCHANGED <<holds, astray>>
  /\ UNCHANGED <<files, p, chan, sup, told, stops, crashes>>

(* Nobody looks whether the file that is locked is still the one in the directory. *)
Lock(s) ==
  /\ dm[s] = "lock" /\ Shut(s)
  /\ \/ /\ Free(s) /\ D(s, "pid")
        /\ holds' = [holds EXCEPT ![s] = opened[s]] /\ astray' = (astray \/ opened[s] # lock)
     \/ (~Free(s) \/ Checked(s)) /\ D(s, "exited") /\ UNCHANGED <<holds, astray>>
  /\ UNCHANGED <<files, p, chan, sup, told, stops, crashes>>

DPidWrite(s) ==
  /\ dm[s] = "pid"
  /\ IF dir THEN um_session_pid_write(s) /\ D(s, "meta") /\ sup' = sup \cup {s} /\ UNCHANGED holds
     ELSE Exits(s) /\ UNCHANGED <<files, sup>>
  /\ UNCHANGED <<opened, p, chan, told, stops, astray, crashes>>

write_session_meta(s) ==
  /\ s \in sup \ told /\ dir /\ meta' = s /\ told' = told \cup {s}
  /\ UNCHANGED <<dir, owner, ready, lock, pid, sock, next, opened, holds, p, dm, chan, sup, stops,
                astray, crashes>>

(* The channel is the one that the meta file names; waitpid() finds a supervisor    *)
(* that has exited.                                                             *)
um_daemon_read_meta(s) ==
  /\ dm[s] = "meta"
  /\ \/ meta # Nobody /\ chan' = [chan EXCEPT ![s] = meta] /\ D(s, "bind")
        /\ UNCHANGED <<holds, sup>>
     \/ meta = Nobody /\ s \notin sup /\ Exits(s) /\ UNCHANGED <<chan, sup>>
     \/ meta = Nobody /\ s \in sup /\ sup' = sup \ {s} /\ D(s, "remove")
        /\ UNCHANGED <<chan, holds>>
  /\ UNCHANGED <<files, opened, p, told, stops, astray, crashes>>

SupervisorExits(s) ==
  /\ s \in sup /\ sup' = sup \ {s}
  /\ holds' = [holds EXCEPT ![s] = IF Alive(s) THEN @ ELSE 0]
  /\ UNCHANGED <<files, opened, p, dm, chan, told, stops, astray, crashes>>

Bind(s) ==
  /\ dm[s] = "bind"
  /\ IF dir THEN sock' = s /\ D(s, "serve") /\ UNCHANGED sup
     ELSE sup' = sup \ {s} /\ D(s, "remove") /\ UNCHANGED sock
  /\ UNCHANGED <<dir, owner, ready, lock, pid, meta, next, opened, holds, p, chan, told, stops, astray,
                crashes>>

(* The ready file of the guest is in its channel.                               *)
Ready(s) ==
  /\ dm[s] = "serve" /\ chan[s] \in sup /\ ready' = dir /\ D(s, "ready")
  /\ UNCHANGED <<dir, owner, lock, pid, meta, sock, next, opened, holds, p, chan, sup, told, stops, astray,
                crashes>>

(* A mistake: the pid file is not looked at.                                     *)
Ended_NoWatchdog(s) == s \in stops

(* STOP, or the watchdog: the pid file is another's. A supervisor that ended is a   *)
(* child nobody waits for, and kill(pid, 0) still finds it.                       *)
Ended(s) == s \in stops \/ pid # s

(* um_daemon_listen() returns, at the latest when the guest did not become ready  *)
(* in time: the socket goes by its path, then the guest.       *)
Leave(s) ==
  /\ dm[s] = "serve" \/ (dm[s] = "ready" /\ Ended(s))
  /\ sock' = Nobody /\ sup' = sup \ {s} /\ D(s, "remove")
  /\ UNCHANGED <<dir, owner, ready, lock, pid, meta, next, opened, holds, p, chan, told, stops, astray,
                crashes>>

Names == {pid, meta, sock}

(* um_session_remove_state(), file by file; the directory goes if it is empty.    *)
RemoveFiles(s, from, to) ==
  /\ dm[s] = from /\ D(s, to)
  /\ UNCHANGED <<next, opened, holds, p, chan, sup, told, stops, astray, crashes>>

um_session_remove_state(s) ==
  \/ RemoveFiles(s, "remove", IF owner THEN "pidfile" ELSE "close")
     /\ UNCHANGED <<dir, owner, ready, lock, pid, meta, sock>>
  \/ RemoveFiles(s, "pidfile", "lockfile") /\ pid' = Nobody /\ sock' = Nobody
     /\ UNCHANGED <<dir, owner, ready, lock, meta>>
  \/ RemoveFiles(s, "lockfile", "ownerfile") /\ lock' = 0
     /\ UNCHANGED <<dir, owner, ready, pid, meta, sock>>
  \/ RemoveFiles(s, "ownerfile", "rest") /\ owner' = FALSE
     /\ UNCHANGED <<dir, ready, lock, pid, meta, sock>>
  \/ RemoveFiles(s, "rest", "rmdir") /\ meta' = Nobody /\ ready' = FALSE
     /\ UNCHANGED <<dir, owner, lock, pid, sock>>
  \/ RemoveFiles(s, "rmdir", "close") /\ dir' = (owner \/ ready \/ lock # 0 \/ Names # {Nobody})
     /\ UNCHANGED <<owner, ready, lock, pid, meta, sock>>

Close(s) ==
  /\ dm[s] = "close" /\ Exits(s)
  /\ UNCHANGED <<files, opened, p, chan, sup, told, stops, astray, crashes>>

(* SIGKILL: the files and the supervisor stay, and with it the lock.              *)
Crash(s) ==
  /\ crashes < MaxCrash /\ Alive(s) /\ crashes' = crashes + 1 /\ Exits(s) /\ Shut(s)
  /\ sock' = (IF sock = s THEN Nobody ELSE sock)
  /\ UNCHANGED <<dir, owner, ready, lock, pid, meta, next, p, chan, sup, told, stops, astray>>

Daemon(s) ==
  DPrepare(s) \/ OpenLock(s) \/ Lock(s) \/ DPidWrite(s) \/ um_daemon_read_meta(s) \/ Bind(s)
  \/ Ready(s) \/ Leave(s) \/ um_session_remove_state(s) \/ Close(s)

Start(s) == Begin(s) \/ Prepare(s) \/ Fork(s) \/ PidWrite(s) \/ Wait(s)

Next ==
  \/ \E s \in Starts : Start(s) \/ Daemon(s) \/ write_session_meta(s)
                       \/ SupervisorExits(s) \/ Crash(s)
  \/ Stop

Spec == Init /\ [][Next]_vars /\ \A s \in Starts : WF_vars(Daemon(s)) /\ WF_vars(Start(s))

-------------------------------------------------------------------------------
(* Two daemons do not serve one session, whatever starts, stops and crashes        *)
(* overlap, until one of them has locked a file that was unlinked between its open() *)
(* and its flock() (astray): a lock it shares with nobody. Until then the lock of a  *)
(* daemon that serves is the file the directory names, which only it removes.       *)
Serving(s) == dm[s] \in {"pid", "meta", "bind", "serve", "ready"}
OneServer == \A s, t \in Starts : Serving(s) /\ Serving(t) => s = t \/ astray

(* A daemon whose pid file names another, which a later start wrote, leaves (when   *)
(* no client keeps it from its loop, see UmJobs).                                 *)
Evicted == \A s \in Starts : dm[s] = "ready" /\ pid # s ~> dm[s] # "ready" \/ pid = s
===============================================================================
