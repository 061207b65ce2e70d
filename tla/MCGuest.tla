-------------------------------- MODULE MCGuest --------------------------------
(* What is kept of a guest's ids, files, descriptors and memory, and of the files of the    *)
(* user-mode backend: seven components that share no state, each on an instance of its      *)
(* own. A behaviour is one of either; `part` says which, and the variables of the others    *)
(* stay as they are at the beginning.                                                       *)
EXTENDS FakeId, Heap, Netlink, HostModes, LinkToSymlink, UmSetup, DirFds, TLC

CONSTANTS n1, n2, n3, t1, t2, d1, d2, p1, p2, p3

VARIABLE part

(* DirFds: two threads or processes, two descriptors, two directories that may be renamed.  *)
MCHome == d1 :> p1 @@ d2 :> p2

(* Netlink: two threads or processes, two descriptors, one of which a table can hold. Where *)
(* another component moves, a socket is refused.                                         *)
NoNet == NetInit /\ blocked /\ netns = {}

(* LinkToSymlink: three names, two tracees, one suffix, three links to a file. Where another *)
(* component moves, no name has a file and no data has a place.                            *)
NoLinks ==
  /\ vis = [n \in LinkNames |-> Nothing] /\ truth = [n \in LinkNames |-> 0] /\ data = <<>>
  /\ inter = [m \in Families |-> 0] /\ due = [t \in Linkers |-> NoCall]
  /\ made = 0 /\ misled = {}

(* HostModes: two tracees, two names and files, three calls.                               *)
NoMod == ModeInit /\ name = ("a" :> "f" @@ "b" :> "g") /\ \A f \in Files : mode[f] = "open"

MCThreads == {t1, t2}
MCFds == {3, 4}

(* Two runs with bind targets that overlap, of a root that has one of the directories; an   *)
(* image with everything it can be given, and what is refused.                              *)
Plain == [command |-> TRUE, session |-> FALSE, ipv6 |-> FALSE, net |-> FALSE, dns |-> FALSE,
          values |-> 0, kind |-> "hostfs", readonly |-> FALSE, cow |-> "none", rootflags |-> FALSE,
          hostfs |-> FALSE, cpus |-> 1, seccomp |-> "auto", quiet |-> FALSE, targets |-> <<>>]
Deep == <<<<"a">>, <<"a", "b", "c">>>>
Wide == <<<<"d", "b">>, <<"a", "b", "c">>>>
Image == [Plain EXCEPT !.kind = "ext4", !.targets = Wide]
MCOptions ==
  {[Plain EXCEPT !.targets = Deep], [Plain EXCEPT !.targets = Wide, !.session = TRUE],
   Image, [Image EXCEPT !.session = TRUE, !.command = FALSE],
   [Image EXCEPT !.readonly = TRUE, !.rootflags = TRUE, !.quiet = TRUE, !.net = TRUE,
                 !.ipv6 = TRUE, !.dns = TRUE, !.values = 3, !.targets = <<>>],
   [Image EXCEPT !.cow = "own"], [Image EXCEPT !.cow = "foreign"],
   [Plain EXCEPT !.cpus = 2, !.seccomp = "off"], [Plain EXCEPT !.readonly = TRUE]}
MCTree == {<<"a">>, <<"a", "b">>, <<"a", "b", "c">>, <<"d">>, <<"d", "b">>}
MCInitial == {<<"d">>}
NoUm == SetupInit /\ \A r \in Runs : opt[r] = Image

-------------------------------------------------------------------------------
(* The superuser and another one, either of which the tracer runs as, and for user ids a    *)
(* third.                                                                                  *)
MCIds == [k \in Kinds |-> IF k = "u" THEN {0, 1, 2} ELSE {0, 2}]
(* One program does all there is to do with user ids, another with group ids; either may   *)
(* set the other kind.                                                                      *)
Does(k) == Execs \cup {c \in UNION {IdCalls(j) : j \in Kinds} : c[2] = k \/ c[1] = "set"}
MCMakes == [p \in {"users", "groups", "none"} |-> CASE p = "users" -> Does("u")
                                                  [] p = "groups" -> Does("g")
                                                  [] OTHER -> {}]
NoIds == /\ config = [k \in Kinds |-> All(0)] /\ setid = FALSE /\ program = "none"
         /\ host = [k \in Kinds |-> 2]

MCInit ==
  /\ part \in {"ids", "heap", "links", "netlink", "modes", "dirfds", "setup"}
  /\ IF part = "links" THEN LinkInit ELSE NoLinks
  /\ DirInit
  /\ \/ part = "ids" /\ Init /\ program # "none" /\ host["u"] = host["g"] /\ HeapInit /\ NoNet /\ NoMod /\ NoUm
     \/ /\ NoIds /\ HeapInit
        /\ \/ part \in {"heap", "links"} /\ NoNet /\ NoMod /\ NoUm
           \/ part = "netlink" /\ NetInit /\ NoMod /\ NoUm
           \/ part = "modes" /\ ModeInit /\ NoNet /\ NoUm
           \/ part = "dirfds" /\ NoNet /\ NoMod /\ NoUm
           \/ part = "setup" /\ SetupInit /\ NoNet /\ NoMod

(* Both files have met a case the code does not handle: LinksTrue says nothing any more.    *)
Spent == {1, 2} \subseteq misled

MCNext ==
  \/ part = "ids" /\ Next /\ UNCHANGED <<part, heapvars, netvars, modevars, linkvars, dirvars, setupvars>>
  \/ part = "heap" /\ HeapNext /\ UNCHANGED <<part, vars, netvars, modevars, linkvars, dirvars, setupvars>>
  \/ part = "netlink" /\ NetNext /\ UNCHANGED <<part, vars, heapvars, modevars, linkvars, dirvars, setupvars>>
  \/ part = "modes" /\ ModeNext /\ UNCHANGED <<part, vars, heapvars, netvars, linkvars, dirvars, setupvars>>
  \/ /\ part = "links" /\ ~Spent /\ LinkNext
     /\ UNCHANGED <<part, vars, heapvars, netvars, modevars, dirvars, setupvars>>
  \/ part = "dirfds" /\ DirNext /\ UNCHANGED <<part, vars, heapvars, netvars, modevars, linkvars, setupvars>>
  \/ part = "setup" /\ SetupNext /\ UNCHANGED <<part, vars, heapvars, netvars, modevars, linkvars, dirvars>>

MCSpec == MCInit /\ [][MCNext]_<<part, vars, heapvars, netvars, modevars, linkvars, dirvars, setupvars>>

Symmetry == Permutations({n1, n2, n3}) \cup Permutations({t1, t2})
===============================================================================
