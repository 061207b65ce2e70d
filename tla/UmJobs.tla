-------------------------------- MODULE UmJobs --------------------------------
(* Commands run in a session of the User-Mode Linux backend: clients, the      *)
(* daemon that serves them one at a time, and the shell loop in the guest. The *)
(* daemon and the guest share nothing but the files of the channel directory.  *)
EXTENDS Naturals, Sequences, FiniteSets

CONSTANTS Clients,     \* each asks for one thing
          Plans,       \* client -> what it asks for: "ends", "endless", "limited", "bad"
                       \* or "stop"
          MaxFaults    \* clients signalled, halted or killed, requests not written

(* The statuses that are not those of a command.                               *)
ASSUME UmJobsAssumption ==
  Clients \cap {"nobody", "0", "124", "125", "128+n"} = {} /\ MaxFaults \in Nat

VARIABLES
  want,     \* client -> its kind of request
  cl,       \* where a client is: new, queued, served, told, gone
  got,      \* the status a client exits with
  fwd,      \* clients that received the output of their command
  sig,      \* clients whose SIGNAL line is on its way
  backlog,  \* connections not accepted yet
  halted,   \* clients that neither write nor read what the daemon waits for
  d,        \* the daemon (struct UmDaemon, and where its loop is)
  queue,    \* channel/queue: id -> the client whose request it is
  res,      \* channel/results: id -> the files of the directory
  marks,    \* channel/state: ids the loop's subshell finished
  stop,     \* channel/stop
  up,       \* the guest kernel runs
  swept,    \* the supervisor removed the channel
  g,        \* the shell loop
  cmd,      \* the command in the guest: who asked for it, its stage
  ran,      \* history: client -> how often its command was started
  misses,   \* history: ids whose kill request reached nobody
  reused,   \* history: an id was given again while its directory existed
  faults

client == <<cl, got, fwd, sig, backlog, halted>>
files == <<queue, res, marks, stop>>
guest == <<up, swept, g, cmd, ran>>
counts == <<want, faults>>
vars == <<client, d, files, guest, misses, reused, counts>>

Nobody == "nobody"
EmptyDir == [request |-> Nobody, pid |-> FALSE, kill |-> FALSE, status |-> Nobody,
             done |-> FALSE, out |-> FALSE]
NoJob == [pc |-> "input", running |-> FALSE, client |-> Nobody, id |-> 0, dir |-> 0,
          listens |-> TRUE, claimed |-> FALSE, killSent |-> FALSE, timedOut |-> FALSE,
          signalled |-> FALSE, limit |-> FALSE]
Idle == [pc |-> "look", id |-> 0, who |-> Nobody]
NoCmd == [who |-> Nobody, id |-> 0, stage |-> "none"]

Init ==
  /\ want \in Plans /\ cl = [c \in Clients |-> "new"] /\ got = [c \in Clients |-> Nobody]
  /\ fwd = {} /\ sig = {} /\ backlog = <<>> /\ halted = {}
  /\ d = NoJob
  /\ queue = <<>> /\ res = <<>> /\ marks = {} /\ stop = FALSE
  /\ up = TRUE /\ swept = FALSE /\ g = Idle /\ cmd = NoCmd
  /\ ran = [c \in Clients |-> 0] /\ misses = {} /\ reused = FALSE
  /\ faults = 0

Has(f, i) == i \in DOMAIN f
Without(f, i) == [j \in DOMAIN f \ {i} |-> f[j]]
With(f, i, v) == [j \in DOMAIN f \cup {i} |-> IF j = i THEN v ELSE f[j]]

-------------------------------------------------------------------------------
(* Clients.                                                                    *)

Connect(c) ==
  /\ cl[c] = "new" /\ d.pc # "ended"
  /\ cl' = [cl EXCEPT ![c] = "queued"] /\ backlog' = Append(backlog, c)
  /\ UNCHANGED <<got, fwd, sig, halted, d, files, guest, misses, reused, counts>>

Signal(c) ==
  /\ cl[c] \in {"queued", "served"} /\ want[c] # "stop" /\ faults < MaxFaults
  /\ sig' = sig \cup {c} /\ faults' = faults + 1
  /\ UNCHANGED <<cl, got, fwd, backlog, halted, d, files, guest, misses, reused, want>>

Leave(c) ==
  /\ cl[c] \in {"queued", "served"} /\ faults < MaxFaults
  /\ cl' = [cl EXCEPT ![c] = "gone"] /\ halted' = halted \ {c} /\ faults' = faults + 1
  /\ UNCHANGED <<got, fwd, sig, backlog, d, files, guest, misses, reused, want>>

(* A client that is stopped, or whose own output is not read, may go on again.  *)
(* What it wrote before, and what its socket holds, it wrote and read.           *)
Halt(c) ==
  /\ cl[c] \in {"queued", "served"} /\ c \notin halted /\ faults < MaxFaults
  /\ halted' = halted \cup {c} /\ faults' = faults + 1
  /\ UNCHANGED <<cl, got, fwd, sig, backlog, d, files, guest, misses, reused, want>>

Resume(c) ==
  /\ c \in halted /\ halted' = halted \ {c}
  /\ UNCHANGED <<cl, got, fwd, sig, backlog, d, files, guest, misses, reused, counts>>

(* EXIT, BYE or BAD to a client. The sockets of clients block.                  *)
Tell(c, status) ==
  /\ c \notin halted
  /\ cl' = [x \in Clients |-> IF x = c /\ cl[x] # "gone" THEN "told" ELSE cl[x]]
  /\ got' = [x \in Clients |-> IF x = c /\ cl[x] # "gone" THEN status ELSE got[x]]

-------------------------------------------------------------------------------
(* The daemon: one turn of its loop is input, done, accept.                     *)

Publish(i) == IF Has(res, i)
              THEN res' = [res EXCEPT ![i].kill = TRUE] /\ misses' = misses
              ELSE res' = res /\ misses' = misses \cup {i}

um_daemon_job_input ==
  /\ sig' = sig \ {d.client}
  /\ IF d.killSent THEN UNCHANGED <<d, res, misses>>
     ELSE /\ d' = [d EXCEPT !.killSent = TRUE, !.signalled = TRUE, !.listens = FALSE,
                            !.pc = "done"]
          /\ Publish(d.dir)

Job == d.running /\ d.client # Nobody

Input ==
  /\ d.pc = "input"
  /\ IF Job /\ d.client \in sig /\ ~d.killSent
     THEN um_daemon_job_input
     ELSE /\ sig' = IF Job THEN sig \ {d.client} ELSE sig
          /\ d' = [d EXCEPT !.pc = "done", !.listens = ~Job,
                            !.client = IF Job /\ cl[d.client] = "gone" THEN Nobody ELSE @]
          /\ UNCHANGED <<res, misses>>
  /\ UNCHANGED <<cl, got, fwd, backlog, halted, queue, marks, stop, guest, reused, counts>>

Output == Has(res, d.dir) /\ res[d.dir].out

Streamed == IF Output THEN fwd \cup ({d.client} \ {Nobody}) ELSE fwd

EndStatus(status) == CASE d.timedOut -> "124" [] d.signalled /\ ~d.timedOut -> "128+n"
                       [] OTHER -> status

um_daemon_end_job(status) ==
  /\ Tell(d.client, EndStatus(status))
  /\ d' = [NoJob EXCEPT !.pc = "accept", !.id = d.id, !.listens = d.listens]
  /\ res' = Without(res, d.dir)

ClaimedNow == d.claimed \/ Has(res, d.dir)

JobDone ==
  /\ Has(res, d.dir) /\ res[d.dir].done
  /\ um_daemon_end_job(IF res[d.dir].status = Nobody THEN "125" ELSE res[d.dir].status)
  /\ UNCHANGED misses

NotDone == ~(Has(res, d.dir) /\ res[d.dir].done)

JobTimeout ==
  /\ NotDone /\ d.limit /\ ~d.killSent
  /\ d' = [d EXCEPT !.timedOut = TRUE, !.killSent = TRUE, !.claimed = ClaimedNow, !.pc = "accept"]
  /\ Publish(d.dir)
  /\ UNCHANGED <<cl, got>>

(* A mistake: no limit to the wait for the claim.                              *)
JobGivenUp_Claimed ==
  /\ NotDone /\ d.killSent /\ d.limit
  /\ um_daemon_end_job("125")
  /\ UNCHANGED misses

(* UM_SESSION_CLAIM_SECONDS passed, or 15 s since the limit.                    *)
JobGivenUp ==
  /\ NotDone /\ (~ClaimedNow \/ (d.killSent /\ d.limit))
  /\ um_daemon_end_job("125")
  /\ UNCHANGED misses

JobGoesOn ==
  /\ NotDone /\ d' = [d EXCEPT !.claimed = ClaimedNow, !.pc = "accept"]
  /\ UNCHANGED <<cl, got, res, misses>>

(* A supervisor that is dead is a child nobody waited for: kill(pid, 0) finds it, *)
(* and the loop goes on.                                                        *)
um_daemon_poll_job ==
  /\ d.pc = "done"
  /\ IF ~d.running
     THEN d' = [d EXCEPT !.pc = "accept"] /\ UNCHANGED <<cl, got, fwd, res, misses>>
     ELSE /\ fwd' = Streamed /\ (Output => d.client \notin halted)
          /\ JobDone \/ JobTimeout \/ JobGivenUp \/ JobGoesOn
  /\ UNCHANGED <<sig, backlog, halted, queue, marks, stop, guest, reused, counts>>

StartedJob(c, i) ==
  [NoJob EXCEPT !.pc = "input", !.running = TRUE, !.client = c, !.id = i, !.dir = i,
                !.limit = want[c] = "limited"]

(* A mistake: the id of the request is the one of the last.                     *)
um_daemon_start_job_SameId(c) ==
  LET i == IF d.id = 0 THEN 1 ELSE d.id
  IN  /\ d' = StartedJob(c, i) /\ queue' = With(queue, i, c)
      /\ reused' = reused /\ cl' = [cl EXCEPT ![c] = IF @ = "gone" THEN @ ELSE "served"]
      /\ UNCHANGED <<got, faults>>

um_daemon_start_job(c) ==
  LET i == d.id + 1 IN
  \/ /\ ~swept
     /\ d' = StartedJob(c, i) /\ queue' = With(queue, i, c)
     /\ reused' = (reused \/ Has(res, i))
     /\ cl' = [cl EXCEPT ![c] = IF @ = "gone" THEN @ ELSE "served"]
     /\ UNCHANGED <<got, faults>>
  \/ /\ IF swept THEN faults' = faults ELSE faults < MaxFaults /\ faults' = faults + 1
     /\ d' = [NoJob EXCEPT !.dir = i, !.running = d.running]
     /\ Tell(c, "125") /\ UNCHANGED <<queue, reused>>

(* Nothing to accept while a job with a client runs: later clients wait in the  *)
(* backlog. The request is read from a socket that blocks, and the reader that    *)
(* took it drops what followed it.                                              *)
Accept ==
  /\ d.pc = "accept"
  /\ IF ~d.listens \/ backlog = <<>>
     THEN d' = [d EXCEPT !.pc = "input"]
          /\ UNCHANGED <<cl, got, sig, backlog, queue, reused, faults>>
     ELSE LET c == Head(backlog) IN
          /\ c \notin halted /\ backlog' = Tail(backlog) /\ sig' \in {sig, sig \ {c}}
          /\ IF want[c] = "stop"
             THEN Tell(c, "0") /\ d' = [d EXCEPT !.pc = "shutdown"]
                  /\ UNCHANGED <<queue, reused, faults>>
             ELSE um_daemon_start_job(c)
  /\ UNCHANGED <<fwd, halted, res, marks, stop, guest, misses, want>>

Cut == {d.client} \cup {backlog[i] : i \in DOMAIN backlog}

(* The loop is left: connections are closed, the guest is told to power off and *)
(* after UM_SESSION_STOP_SECONDS its kernel is killed.                          *)
um_daemon_shutdown ==
  /\ d.pc = "shutdown"
  /\ stop' = ~swept /\ d' = [d EXCEPT !.pc = "ended", !.client = Nobody]
  /\ cl' = [c \in Clients |-> IF c \in Cut /\ cl[c] # "gone" THEN "told" ELSE cl[c]]
  /\ got' = [c \in Clients |-> IF c \in Cut /\ cl[c] # "gone" THEN "125" ELSE got[c]]
  /\ backlog' = <<>>
  /\ UNCHANGED <<fwd, sig, halted, queue, res, marks, guest, misses, reused, counts>>

KernelEnds == up /\ up' = FALSE /\ g' = Idle /\ cmd' = NoCmd
              /\ UNCHANGED <<client, d, files, swept, ran, misses, reused, counts>>

Killed == d.pc = "ended" /\ KernelEnds

Daemon == Input \/ um_daemon_poll_job \/ Accept \/ um_daemon_shutdown \/ Killed

-------------------------------------------------------------------------------
(* The guest: um_session_loop.sh.                                              *)

GoTo(p) == g' = [g EXCEPT !.pc = p]

(* A request is taken from the queue; its directory is made before it is claimed. *)
Look ==
  /\ up /\ g.pc = "look"
  /\ IF stop THEN up' = FALSE /\ UNCHANGED <<g, res>>
     ELSE \E i \in DOMAIN queue :
            /\ g' = [Idle EXCEPT !.pc = "claim", !.id = i] /\ UNCHANGED up
            /\ res' = IF Has(res, i) THEN res ELSE With(res, i, EmptyDir)
  /\ UNCHANGED <<client, d, queue, marks, stop, swept, cmd, ran, misses, reused, counts>>

(* A mistake: the request is copied, and stays claimable.                      *)
Claim_Copy ==
  /\ up /\ g.pc = "claim"
  /\ IF Has(queue, g.id) /\ Has(res, g.id)
     THEN /\ res' = [res EXCEPT ![g.id].request = queue[g.id]] /\ UNCHANGED queue
          /\ g' = [g EXCEPT !.pc = "parse", !.who = queue[g.id]]
     ELSE GoTo("look") /\ UNCHANGED <<queue, res>>
  /\ UNCHANGED <<client, d, marks, stop, up, swept, cmd, ran, misses, reused, counts>>

Claim ==
  /\ up /\ g.pc = "claim"
  /\ IF Has(queue, g.id) /\ Has(res, g.id)
     THEN /\ res' = [res EXCEPT ![g.id].request = queue[g.id]] /\ queue' = Without(queue, g.id)
          /\ g' = [g EXCEPT !.pc = "parse", !.who = queue[g.id]]
     ELSE GoTo("look") /\ UNCHANGED <<queue, res>>
  /\ UNCHANGED <<client, d, marks, stop, up, swept, cmd, ran, misses, reused, counts>>

(* A request without a command, with a directory that does not exist, or that   *)
(* was removed since, ends here with 125 or 126.                               *)
Bad == want[g.who] = "bad" \/ ~Has(res, g.id)

Parse ==
  /\ up /\ g.pc = "parse"
  /\ cmd' = [who |-> g.who, id |-> g.id, stage |-> IF Bad THEN "ended" ELSE "new"]
  /\ ran' = IF Bad THEN ran ELSE [ran EXCEPT ![g.who] = @ + 1]
  /\ GoTo(IF Bad THEN "bad" ELSE "watch")
  /\ UNCHANGED <<client, d, files, up, swept, misses, reused, counts>>

(* The subshell: start the command, publish its pid, wait, publish the rest.    *)
Stage(from, to) == up /\ cmd.stage = from /\ cmd' = [cmd EXCEPT !.stage = to]
InDir(r) == res' = IF Has(res, cmd.id) THEN [res EXCEPT ![cmd.id] = r] ELSE res

Pid == /\ Stage("new", "runs")
       /\ InDir([res[cmd.id] EXCEPT !.pid = TRUE])
       /\ UNCHANGED <<client, d, queue, marks, stop, up, swept, g, ran, misses, reused, counts>>

Ends == /\ Stage("runs", "ended") /\ want[cmd.who] # "endless"
        /\ InDir([res[cmd.id] EXCEPT !.out = TRUE])
        /\ UNCHANGED <<client, d, queue, marks, stop, up, swept, g, ran, misses, reused, counts>>

Status == /\ Stage("ended", "status")
          /\ InDir([res[cmd.id] EXCEPT !.status = cmd.who])
          /\ UNCHANGED <<client, d, queue, marks, stop, up, swept, g, ran, misses, reused, counts>>

DoneFile == /\ Stage("status", "done")
            /\ InDir([res[cmd.id] EXCEPT !.done = TRUE])
            /\ UNCHANGED <<client, d, queue, marks, stop, up, swept, g, ran, misses, reused, counts>>

Mark == /\ Stage("done", "none") /\ marks' = marks \cup {cmd.id}
        /\ UNCHANGED <<client, d, queue, res, stop, up, swept, g, ran, misses, reused, counts>>

(* Without the rest of um_run_one() the mark of a bad request stays.            *)
BadEnds ==
  /\ up /\ g.pc = "bad" /\ cmd.stage = "none" /\ g' = Idle
  /\ UNCHANGED <<client, d, files, up, swept, cmd, ran, misses, reused, counts>>

Finished ==
  /\ up /\ g.pc \in {"watch", "waits"} /\ g.id \in marks /\ cmd.stage = "none"
  /\ marks' = marks \ {g.id} /\ g' = Idle
  /\ UNCHANGED <<client, d, queue, res, stop, up, swept, cmd, ran, misses, reused, counts>>

(* A mistake: TERM without the KILL that follows, to a command that ignores it.  *)
Terminate_TermOnly ==
  /\ up /\ g.pc = "watch" /\ g.id \notin marks /\ Has(res, g.id) /\ res[g.id].kill
  /\ GoTo("waits") /\ UNCHANGED cmd
  /\ misses' = IF res[g.id].pid THEN misses ELSE misses \cup {g.id}
  /\ UNCHANGED <<client, d, files, up, swept, ran, reused, counts>>

(* um_terminate() with the pid that was published: TERM, then KILL. Without one *)
(* it does nothing, and the loop only waits from then on.                      *)
Terminate ==
  /\ up /\ g.pc = "watch" /\ g.id \notin marks /\ Has(res, g.id) /\ res[g.id].kill
  /\ GoTo("waits")
  /\ IF res[g.id].pid
     THEN cmd' = [cmd EXCEPT !.stage = IF @ = "runs" THEN "ended" ELSE @] /\ UNCHANGED misses
     ELSE misses' = misses \cup {g.id} /\ UNCHANGED cmd
  /\ UNCHANGED <<client, d, files, up, swept, ran, reused, counts>>

Guest == Look \/ Claim \/ Parse \/ Pid \/ Ends \/ Status \/ DoneFile \/ Mark
         \/ BadEnds \/ Finished \/ Terminate

(* The kernel dies, alone or with the supervisor that a signal ends.            *)
Dies == d.pc # "ended" /\ KernelEnds

(* A supervisor that outlives its kernel removes the channel and exits (left out   *)
(* once the daemon has closed its connections).                                  *)
um_remove_session_channel ==
  /\ ~up /\ ~swept /\ d.pc # "ended" /\ swept' = TRUE
  /\ queue' = <<>> /\ res' = <<>> /\ marks' = {} /\ stop' = FALSE
  /\ UNCHANGED <<client, d, up, g, cmd, ran, misses, reused, counts>>

Client == \E c \in Clients : Connect(c) \/ Signal(c) \/ Leave(c) \/ Halt(c) \/ Resume(c)
Next == Client \/ Daemon \/ Guest \/ Dies \/ um_remove_session_channel

(* Both loops go on; time passes, so a limit that is met again and again is      *)
(* noticed; a command that ends by itself ends, one that is killed dies.         *)
Fairness ==
  /\ WF_vars(Daemon) /\ WF_vars(Guest)
  /\ SF_vars(um_daemon_poll_job /\ JobTimeout)
  /\ SF_vars(um_daemon_poll_job /\ JobGivenUp)
  /\ SF_vars(Ends) /\ SF_vars(Terminate)

Spec == Init /\ [][Next]_vars /\ Fairness

-------------------------------------------------------------------------------
(* The command of a request is started once, whatever the two loops see of the   *)
(* queue (the claim is a rename), and a client that is told the status of a       *)
(* command is told the one of its own command, whose output it got before: no     *)
(* file of an earlier command is taken for its result. An id that a failed        *)
(* request set back is excluded: the directory of a command whose client left      *)
(* may still have it.                                                             *)
OnceAndRight ==
  \A c \in Clients :
    /\ ran[c] <= 1
    /\ got[c] \in Clients /\ ~reused => got[c] = c /\ (ran[c] = 1 => c \in fwd)

(* What the daemon waits for without end: a claimed command that neither ends nor  *)
(* has a limit, one without a limit whose guest is gone, a client that neither      *)
(* writes nor reads.                                                            *)
Held ==
  \/ ClaimedNow /\ \E x \in Clients : d.client = x /\ (want[x] = "endless" \/ (~up /\ ~d.limit))
  \/ d.client \in halted
  \/ backlog # <<>> /\ Head(backlog) \in halted

Waiting(c) == cl[c] \in {"queued", "served"}

(* A client that connected is answered, unless what is before it holds the daemon  *)
(* for ever: a request that is never claimed, a kill that nobody saw, and with a    *)
(* limit the death of the guest, are noticed.                                    *)
Answered == \A c \in Clients : (Waiting(c) /\ ~Held) ~> (~Waiting(c) \/ Held)

(* A signal ends the command it is for, unless it came before the guest had       *)
(* claimed the request or published the pid of the command, the guest is gone and   *)
(* no limit was set, or the client does not read.                                *)
SignalEnds ==
  \A c \in Clients :
    (d.client = c /\ d.killSent) ~>
      (cl[c] # "served" \/ d.dir \in misses \/ (~up /\ ~d.limit) \/ c \in halted)

===============================================================================
