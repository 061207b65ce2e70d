-------------------------------- MODULE UmSetup --------------------------------
(* What a run of the user-mode backend makes on the host before the kernel starts,   *)
(* and removes afterwards: um_parse_args(), the bind targets, the runtime and the    *)
(* session directory and the files in it, neoproot_um_supervisor_main() of           *)
(* um_supervisor.c. Every step may fail. Runs share the root file system.            *)
EXTENDS Naturals, Sequences, SequencesExt, FiniteSets

CONSTANTS Runs,
          Options,     \* the command lines a run may be given
          Components,  \* of paths
          Tree,        \* paths of the root file system, as sequences of components
          Initial,     \* those that are there
          MaxCreated   \* UM_MAX_CREATED_PATHS

(* A command line. "values" is how many of --ipv6-addr, --ipv6-gw and --ipv6-dns it has.  *)
CommandLine ==
  [command : BOOLEAN, session : BOOLEAN, ipv6 : BOOLEAN, net : BOOLEAN, dns : BOOLEAN,
   values : 0..3, kind : {"hostfs", "ext4"}, readonly : BOOLEAN,
   cow : {"none", "own", "foreign"}, rootflags : BOOLEAN, hostfs : BOOLEAN, cpus : Nat,
   seccomp : {"off", "on", "auto"}, quiet : BOOLEAN, targets : Seq(Tree)]

PrefixClosed(S) == \A x \in S : x # <<>> /\ \A n \in 1..Len(x) : SubSeq(x, 1, n) \in S

ASSUME SetupAssumption ==
  /\ Options \subseteq CommandLine /\ {"none", "before"} \cap Runs = {} /\ MaxCreated \in Nat
  /\ Tree \subseteq Seq(Components) /\ PrefixClosed(Tree)
  /\ Initial \subseteq Tree /\ PrefixClosed(Initial)

VARIABLES
  pc, opt,
  have,     \* run -> what there is of its own directories and files
  session,  \* run -> session_path is set
  todo,     \* run -> how far it is with its bind targets: which one, down to which depth
  created,  \* run -> created_paths
  tree,     \* path -> the run that made it, "before", or "none"
  lost,     \* ghost: runs that left a directory they no longer know
  removed,  \* ghost: <<run, maker>> of the paths removed
  kept      \* ghost: paths left because another run has something in them

setupvars == <<pc, opt, have, session, todo, created, tree, lost, removed, kept>>

(* um_parse_args(): the combinations it refuses.                                   *)
Accepted(o) ==
  /\ o.command \/ o.session
  /\ o.ipv6 => o.net
  /\ o.kind = "hostfs" => ~o.readonly /\ o.cow = "none" /\ ~o.rootflags
  /\ o.kind = "ext4" => ~o.hostfs
  /\ ~(o.readonly /\ o.cow # "none")
  /\ o.cpus > 1 => o.seccomp # "off"
  /\ o.cow # "foreign"          \* um_check_cow_file(): made for another image

(* The vectors of um_run_kernel(): the entries of kernel_argv with its NULL, and      *)
(* what umnet is given before the "--".                                             *)
If(b, n) == IF b THEN n ELSE 0
KernelEntries(o) ==
  3 + If(o.seccomp # "off", 1) + If(o.quiet, 2) + 5
    + (IF o.kind = "hostfs" THEN 2 ELSE 7 + If(o.readonly \/ o.rootflags, 1)) + 2
(* A mistake: the length of the prefix of the address as an option of its own.       *)
NetworkOptions_Prefix(o) == 9 + If(o.dns, 2) + If(o.ipv6, 3 + 2 * o.values)
NetworkOptions(o) == 9 + If(o.dns, 2) + If(o.ipv6, 1 + 2 * o.values)

(* The vector of umnet: its options, the "--", and all of kernel_argv.                 *)
NetworkEntries(o) == NetworkOptions(o) + 1 + KernelEntries(o)

(* The copy-on-write file is made for this run unless the caller names one.          *)
TemporaryCow(o) == o.kind = "ext4" /\ ~o.readonly /\ o.cow = "none"

SetupInit ==
  /\ pc = [r \in Runs |-> "parse"] /\ opt \in [Runs -> Options]
  /\ have = [r \in Runs |-> {}] /\ session = [r \in Runs |-> FALSE]
  /\ todo = [r \in Runs |-> [target |-> 1, depth |-> 1]] /\ created = [r \in Runs |-> <<>>]
  /\ tree = [x \in Tree |-> IF x \in Initial THEN "before" ELSE "none"]
  /\ lost = {} /\ removed = {} /\ kept = {}

If2(b, s) == IF b THEN s ELSE {}
Set(f, r, v) == [f EXCEPT ![r] = v]
Own(r) == have[r]
Ext4(r) == opt[r].kind = "ext4"

(* The paths from the root down to each target, shortest target first (qsort).       *)
Left(r) == todo[r].target =< Len(opt[r].targets)
ThisTarget(r) == opt[r].targets[todo[r].target]
ThisPath(r) == SubSeq(ThisTarget(r), 1, todo[r].depth)
NextPath(r) ==
  IF todo[r].depth < Len(ThisTarget(r)) THEN [todo[r] EXCEPT !.depth = @ + 1]
  ELSE [target |-> todo[r].target + 1, depth |-> 1]

Parse(r) ==
  /\ pc[r] = "parse"
  /\ pc' = Set(pc, r, IF ~Accepted(opt[r]) THEN "exit"
                      ELSE IF ~Ext4(r) /\ opt[r].targets # <<>> THEN "targets" ELSE "runtime")
  /\ UNCHANGED <<opt, have, session, todo, created, tree, lost, removed, kept>>

(* A path is made in a directory that is there.                                      *)
There(x) == tree[x] # "none"
CanMake(x) == Len(x) > 1 => There(Front(x))

(* A mistake: a target that another run has just made is recorded too.              *)
Target_TakesAll(r) ==
  /\ pc[r] = "targets" /\ Left(r)
  /\ LET x == ThisPath(r) IN
     /\ There(x) \/ CanMake(x)
     /\ IF Len(created[r]) < MaxCreated
        THEN created' = Set(created, r, Append(created[r], x)) /\ pc' = pc
        ELSE created' = created /\ pc' = Set(pc, r, "undo")
     /\ tree' = IF There(x) THEN tree ELSE [tree EXCEPT ![x] = r]
     /\ lost' = lost
  /\ todo' = Set(todo, r, NextPath(r))
  /\ UNCHANGED <<opt, have, session, removed, kept>>

(* um_ensure_bind_parent() and um_prepare_bind_targets(): a path that is not there is  *)
(* made and recorded; one that is there is used. A table that is full loses the path  *)
(* it has just made.                                                               *)
Target(r) ==
  /\ pc[r] = "targets" /\ Left(r)
  /\ LET x == ThisPath(r) IN
     \/ There(x) /\ UNCHANGED <<created, tree, pc, lost>>
     \/ /\ ~There(x) /\ CanMake(x) /\ tree' = [tree EXCEPT ![x] = r]
        /\ IF Len(created[r]) < MaxCreated
           THEN created' = Set(created, r, Append(created[r], x)) /\ UNCHANGED <<pc, lost>>
           ELSE created' = created /\ pc' = Set(pc, r, "undo") /\ lost' = lost \cup {r}
  /\ todo' = Set(todo, r, NextPath(r))
  /\ UNCHANGED <<opt, have, session, removed, kept>>

(* mkdir() and the checks of types may fail; mkdir() does when another run has removed  *)
(* the parent.                                                                     *)
TargetFails(r) ==
  /\ pc[r] = "targets" /\ pc' = Set(pc, r, "undo")
  /\ UNCHANGED <<opt, have, session, todo, created, tree, lost, removed, kept>>

TargetsDone(r) ==
  /\ pc[r] = "targets" /\ ~Left(r) /\ pc' = Set(pc, r, "runtime")
  /\ UNCHANGED <<opt, have, session, todo, created, tree, lost, removed, kept>>

-------------------------------------------------------------------------------
(* neoproot_um_supervisor_main(): a step that makes something, or fails and goes to    *)
(* the common cleanup. "needed" says whether the step does anything for this run.     *)
Make(r, at, next, needed, things) ==
  /\ pc[r] = at
  /\ \/ pc' = Set(pc, r, next) /\ have' = Set(have, r, Own(r) \cup If2(needed, things))
     \/ needed /\ pc' = Set(pc, r, "failed") /\ have' = have
  /\ UNCHANGED <<opt, session, todo, created, tree, lost, removed, kept>>

um_make_runtime_root(r) == Make(r, "runtime", "ext4binds", Ext4(r), {"runtime", ".owner"})
um_prepare_ext4_binds(r) ==
  Make(r, "ext4binds", "session", Ext4(r) /\ opt[r].targets # <<>>, {})
um_write_binds_file(r) ==
  Make(r, "binds", "wrapper", Ext4(r) /\ opt[r].targets # <<>>, {"binds"})
um_write_wrapper(r) == Make(r, "wrapper", "meta", TRUE, {"init.sh"})
um_write_session_meta(r) == Make(r, "meta", "run", opt[r].session, {})

(* um_make_session(): without the channel the directory is forgotten where it is.     *)
um_make_session(r) ==
  /\ pc[r] = "session"
  /\ \/ /\ have' = Set(have, r, Own(r) \cup {"session"} \cup If2(opt[r].session, {"channel"}))
        /\ pc' = Set(pc, r, "binds") /\ session' = Set(session, r, TRUE) /\ lost' = lost
     \/ pc' = Set(pc, r, "failed") /\ UNCHANGED <<have, session, lost>>
     \/ /\ opt[r].session /\ pc' = Set(pc, r, "failed") /\ UNCHANGED session
        /\ have' = Set(have, r, Own(r) \cup {"session"}) /\ lost' = lost \cup {r}
  /\ UNCHANGED <<opt, todo, created, tree, removed, kept>>

(* The run: the guest writes what it is to write, and perhaps something else; what    *)
(* um_run_kernel() says of the group decides whether anything is removed.           *)
Run(r) ==
  /\ pc[r] = "run"
  /\ \E more \in SUBSET {"status", "other"} :
       have' = Set(have, r, Own(r) \cup more
                              \cup If2(TemporaryCow(opt[r]), {"root.cow"})
                              \cup If2(Ext4(r) /\ opt[r].targets # <<>>, {"init-features"}))
  /\ \/ pc' = Set(pc, r, "clean") /\ lost' = lost
     \/ pc' = Set(pc, r, "undo") /\ lost' = lost \cup {r}
  /\ UNCHANGED <<opt, session, todo, created, tree, removed, kept>>

(* rmdir() works on an empty directory only.                                      *)
Inside == {"channel", "binds", "init.sh", "status", "root.cow", "init-features", "other"}
RmSession(h) == IF h \cap Inside = {} THEN h \ {"session"} ELSE h

(* A mistake: the marker goes although the directory stays.                        *)
um_cleanup_runtime_root_Bare(h) ==
  IF "session" \in h THEN h \ {".owner"} ELSE h \ {"runtime", ".owner"}

(* The marker is put back if the directory stays.                                  *)
um_cleanup_runtime_root(h) == IF "session" \in h THEN h ELSE h \ {"runtime", ".owner"}

Clean(r) ==
  LET files == {"root.cow", "binds", "init-features", "init.sh", "status", "channel"}
      h == RmSession(Own(r) \ files) IN
  /\ pc[r] = "clean" /\ pc' = Set(pc, r, "undo")
  /\ have' = Set(have, r, IF "session" \notin h THEN um_cleanup_runtime_root(h) ELSE h)
  /\ UNCHANGED <<opt, session, todo, created, tree, lost, removed, kept>>

(* The label "failed": what is known of is removed.                                *)
Failed(r) ==
  LET h == Own(r) \ {"channel"}
      k == IF session[r] THEN RmSession(h \ {"init.sh", "status", "binds", "init-features"}) ELSE h IN
  /\ pc[r] = "failed" /\ pc' = Set(pc, r, "undo")
  /\ have' = Set(have, r, IF Ext4(r) THEN um_cleanup_runtime_root(k) ELSE k)
  /\ UNCHANGED <<opt, session, todo, created, tree, lost, removed, kept>>

Below(x) == {y \in Tree : There(y) /\ Len(y) > Len(x) /\ SubSeq(y, 1, Len(x)) = x}

(* um_cleanup_created_paths(): the last one first; a directory with something in it   *)
(* stays.                                                                        *)
Undo(r) ==
  /\ pc[r] = "undo"
  /\ IF created[r] = <<>>
     THEN pc' = Set(pc, r, "exit") /\ UNCHANGED <<created, tree, removed, kept>>
     ELSE LET x == Last(created[r])
              goes == There(x) /\ Below(x) = {} IN
          /\ created' = Set(created, r, Front(created[r])) /\ pc' = pc
          /\ tree' = IF goes THEN [tree EXCEPT ![x] = "none"] ELSE tree
          /\ removed' = removed \cup If2(goes, {<<r, tree[x]>>})
          /\ kept' = kept \cup If2(\E y \in Below(x) : tree[y] # r \/ y \in kept, {x})
  /\ UNCHANGED <<opt, have, session, todo, lost>>

SetupNext ==
  \E r \in Runs :
    \/ Parse(r) \/ Target(r) \/ TargetFails(r) \/ TargetsDone(r)
    \/ um_make_runtime_root(r) \/ um_prepare_ext4_binds(r) \/ um_make_session(r)
    \/ um_write_binds_file(r) \/ um_write_wrapper(r) \/ um_write_session_meta(r)
    \/ Run(r) \/ Clean(r) \/ Failed(r) \/ Undo(r)

SetupSpec == SetupInit /\ [][SetupNext]_setupvars

-------------------------------------------------------------------------------
Gone(r) == pc[r] = "exit"

(* Whatever step fails, a run that knows its directories removes all of them; what    *)
(* stays is a runtime directory with its marker, because the guest put something      *)
(* else into the session directory or the kernel is still running.                  *)
LeavesNothing ==
  \A r \in Runs : Gone(r) =>
    /\ have[r] # {} => "other" \in have[r] \/ r \in lost
    /\ "runtime" \in have[r] => ".owner" \in have[r]

(* Nothing is removed from the root file system but what this very run has made        *)
(* there, also if another run makes the same targets at the same time; and all of it   *)
(* is removed in which no other run has made something.                             *)
OnlyOwn ==
  /\ \A e \in removed : e[1] = e[2]
  /\ \A r \in Runs \ lost : Gone(r) => \A x \in Tree : tree[x] = r => x \in kept

(* The kernel's arguments fit into kernel_argv, the options of umnet are no more than   *)
(* UM_NETWORK_OPTIONS counts, and both with the "--" fit into network_argv, whatever      *)
(* combination is accepted.                                                           *)
ArgumentsFit ==
  \A r \in Runs : pc[r] = "run" =>
    KernelEntries(opt[r]) =< 28 /\ NetworkOptions(opt[r]) =< 18 /\ NetworkEntries(opt[r]) =< 18 + 28

(* A run leaves behind what it must, and nothing else, and its arguments fit.          *)
SetupSound == LeavesNothing /\ OnlyOwn /\ ArgumentsFit
===============================================================================
