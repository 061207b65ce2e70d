--------------------------------- MODULE HostModes ---------------------------------
(* The superuser of a guest may read and write every file; the host's user may not.  *)
(* While a call of such a guest is under way the tracer gives its owner access to the *)
(* files the call names (override_permissions), and puts the mode back when the        *)
(* memory of the tracee's event is freed: at its next event, when another tracee's      *)
(* handler looks it up, or when it is gone.                                            *)
EXTENDS Naturals, FiniteSets

CONSTANTS Tracees, Names, Files, NoFile,
          MaxModeCalls   \* bound: calls of the guest

ASSUME HostModesAssumption == NoFile \notin Files /\ "none" \notin Names

VARIABLES
  name,     \* name -> the file it is of
  mode,     \* file -> what the owner may do with it on the host: "open" or "closed"
  nodes,    \* tracee -> the ModifiedNodes of its ctx, <<name, mode>>
  call,     \* tracee -> the call the kernel has yet to do, and whether it is still covered
  calls,    \* number of calls
  wanted,   \* ghost: file -> the mode the guest gave it last
  denied,   \* ghost: a call of the superuser met a closed file
  wronged   \* ghost: files hit by one of the cases the code does not handle

modevars == <<name, mode, nodes, call, calls, wanted, denied, wronged>>

Modes == {"open", "closed"}
Idle == [op |-> "none", name |-> "none", to |-> "none", mode |-> "open",
         covered |-> TRUE, seen |-> FALSE]

ModeInit ==
  /\ name \in [Names -> Files] /\ \A n, m \in Names : name[n] = name[m] => n = m
  /\ mode \in [Files -> Modes] /\ wanted = mode
  /\ nodes = [t \in Tracees |-> {}] /\ call = [t \in Tracees |-> Idle]
  /\ calls = 0 /\ denied = FALSE /\ wronged = {}

Named == {name[n] : n \in Names} \ {NoFile}
Free(t) == call[t].op = "none" /\ ~call[t].seen
Exists(n) == name[n] # NoFile
Touched(t) == {d[1] : d \in nodes[t]} \cup ({call[t].name, call[t].to} \cap Names)
Held(f) == {t \in Tracees : \E n \in Touched(t) : name[n] = f}

Restored_Found(op, m, f) == mode[f]

(* The mode that will be put back: what chmod() and fchmodat() ask for, and for every    *)
(* other call the mode found.                                                           *)
Restored(op, m, f) == IF op \in {"chmod", "fchmodat"} THEN m ELSE mode[f]

(* For every name of the call; the last component of stat() alone is left as it is.      *)
override_permissions(t, ns, op, m) ==
  LET opened == {n \in ns : Exists(n) /\ op # "stat" /\ mode[name[n]] = "closed"} IN
  /\ nodes' = [nodes EXCEPT ![t] = @ \cup {<<n, Restored(op, m, name[n])>> : n \in opened}]
  /\ mode' = [f \in Files |-> IF \E n \in opened : name[n] = f THEN "open" ELSE mode[f]]

(* chmod(path, mode) of every node, by its name.                                         *)
restore_mode(t) ==
  [f \in Files |-> IF \E d \in nodes[t] : name[d[1]] = f
                   THEN (CHOOSE d \in nodes[t] : name[d[1]] = f)[2] ELSE mode[f]]

FreeCtx(t) == mode' = restore_mode(t) /\ nodes' = [nodes EXCEPT ![t] = {}]

(* A file that two tracees have to do with at once, and one whose name was given to       *)
(* another file meanwhile: the mode put back is not the guest's.                         *)
Stray(t, files) == {f \in files : Held(f) \ {t} # {}}

(* The call enters: its paths are translated and the files opened up.                      *)
Enter(t) ==
  \E n, to \in Names, m \in Modes,
     op \in {"open", "stat", "chmod", "fchmodat", "fchmodat2", "unlink", "rename"} :
    /\ Free(t) /\ calls < MaxModeCalls
    /\ op \notin {"chmod", "fchmodat", "fchmodat2"} => m = "open"
    /\ (n # to) <=> (op = "rename")
    /\ override_permissions(t, {n, to}, op, m)
    /\ call' = [call EXCEPT ![t] = [op |-> op, name |-> n, to |-> to, mode |-> m,
                                    covered |-> TRUE, seen |-> FALSE]]
    /\ calls' = calls + 1
    /\ wronged' = wronged \cup Stray(t, {name[n], name[to]} \ {NoFile})
    /\ UNCHANGED <<name, wanted, denied>>

(* fchmod() names no path.                                                                  *)
Fchmod(t) ==
  \E f \in Named, m \in Modes :
    /\ Free(t) /\ calls < MaxModeCalls
    /\ mode' = [mode EXCEPT ![f] = m] /\ wanted' = [wanted EXCEPT ![f] = m]
    /\ wronged' = wronged \cup Stray(t, {f})
    /\ calls' = calls + 1 /\ UNCHANGED <<name, nodes, call, denied>>

(* The kernel does the call. A file that is opened up when it is renamed stays so: its old  *)
(* name is not there when the mode is put back. The mode of fchmodat2() is undone.         *)
Lookup(c, f) ==
  /\ denied' = (denied \/ (c.op = "open" /\ mode[f] = "closed" /\ c.covered /\ f \notin wronged))
  /\ UNCHANGED <<name, mode, wanted, wronged>>

RemoveName(t, c, f) ==
  /\ name' = [n \in Names |-> IF n = c.name THEN NoFile
                             ELSE IF n = c.to /\ c.op = "rename" THEN f ELSE name[n]]
  /\ wronged' = wronged \cup {g \in {f, name[c.to]} \ {NoFile} :
                               \/ \E u \in Tracees \ {t} : Touched(u) \cap {c.name, c.to} # {}
                               \/ \E d \in nodes[t] : d[1] \in {c.name, c.to}}
  /\ UNCHANGED <<mode, wanted, denied>>

Chmod(t, c, f) ==
  /\ mode' = [mode EXCEPT ![f] = c.mode] /\ wanted' = [wanted EXCEPT ![f] = c.mode]
  /\ wronged' = wronged \cup Stray(t, {f})
                        \cup {g \in {f} : c.op = "fchmodat2" /\ \E d \in nodes[t] : TRUE}
  /\ UNCHANGED <<name, denied>>

Kernel(t) ==
  LET c == call[t] IN
  /\ c.op # "none"
  /\ call' = [call EXCEPT ![t] = [Idle EXCEPT !.seen = TRUE]]
  /\ \/ ~Exists(c.name) /\ UNCHANGED <<name, mode, wanted, denied, wronged>>
     \/ Exists(c.name) /\ c.op \in {"open", "stat"} /\ Lookup(c, name[c.name])
     \/ Exists(c.name) /\ c.op \in {"unlink", "rename"} /\ RemoveName(t, c, name[c.name])
     \/ Exists(c.name) /\ c.op \in {"chmod", "fchmodat", "fchmodat2"} /\ Chmod(t, c, name[c.name])
  /\ UNCHANGED <<nodes, calls>>

(* The next event of the tracee.                                                          *)
Event(t) ==
  /\ call[t].seen /\ FreeCtx(t)
  /\ call' = [call EXCEPT ![t] = Idle]
  /\ UNCHANGED <<name, calls, wanted, denied, wronged>>

(* get_tracee() of another tracee's handler (ptrace, SO_PEERCRED, /proc/<pid>, a           *)
(* notification) frees the ctx of t too: a call under way is no longer covered.             *)
get_tracee(t) ==
  /\ nodes[t] # {} /\ FreeCtx(t)
  /\ call' = [call EXCEPT ![t].covered = FALSE]
  /\ UNCHANGED <<name, calls, wanted, denied, wronged>>

(* The tracee is killed before the kernel has done its call, or the tracer is. The mode    *)
(* of a chmod() that is never done is put in force all the same.                           *)
Killed(t) ==
  /\ ~Free(t) /\ FreeCtx(t) /\ call' = [call EXCEPT ![t] = Idle]
  /\ wronged' = wronged \cup {name[n] : n \in {m \in Names : m = call[t].name
                                               /\ call[t].op \in {"chmod", "fchmodat"}}}
  /\ UNCHANGED <<name, calls, wanted, denied>>

TracerKilled ==
  /\ \E t \in Tracees : ~Free(t)
  /\ wronged' = wronged \cup {f \in Files : Held(f) # {}}
  /\ nodes' = [t \in Tracees |-> {}] /\ call' = [t \in Tracees |-> Idle]
  /\ UNCHANGED <<name, mode, calls, wanted, denied>>

ModeNext ==
  \/ \E t \in Tracees : \/ Enter(t) \/ Fchmod(t) \/ Kernel(t) \/ Event(t)
                        \/ get_tracee(t) \/ Killed(t)
  \/ TracerKilled

ModeSpec == ModeInit /\ [][ModeNext]_modevars

------------------------------------------------------------------------------------
(* Whichever calls were under way together, the mode of a file at rest is the one the      *)
(* guest gave it last, and a call of the superuser that is still covered has met no closed  *)
(* file, but for files that one of the named cases has hit (override_permissions and        *)
(* restore_mode, fake_id0.c:242-284).                                                      *)
ModesKept ==
  /\ (\A t \in Tracees : Free(t)) => \A f \in Named \ wronged : mode[f] = wanted[f]
  /\ ~denied
====================================================================================
