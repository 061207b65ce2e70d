--------------------------------- MODULE Mounts --------------------------------
(* The table of bindings of a file-system name space, and the mount calls that are    *)
(* emulated on it: insort_binding() and its users in binding.c, emulate_mount(),      *)
(* emulate_umount() and emulate_pivot_root() of enter.c, and the copy of a table by    *)
(* clone() and unshare() with CLONE_NEWNS. Paths are canonical; the file system below  *)
(* has every path. Attributes of mounts and the /oldroot spellings are left out.      *)
EXTENDS Naturals, Sequences, SequencesExt, FiniteSets

CONSTANTS Starts,    \* tables given on the command line: sequences of <<host, guest>>
          Targets,   \* guest paths that are mounted on
          Sources,   \* guest paths that are bound
          Pivots,    \* <<new_root, put_old>>
          Probes,    \* guest paths the properties look at
          MaxCalls   \* bound: calls

VARIABLES
  guest,  \* bindings.guest: bindings [h, g, under], the covered one in "under"
  host,   \* bindings.host, by the guest paths of its bindings
  calls,  \* number of calls made
  did,    \* ghost: the last call
  stack,  \* ghost: guest path -> the host paths mounted there, the last one first
  thin    \* ghost: guest paths whose covered layers were lost when the table was copied

vars == <<guest, host, calls, did, stack, thin>>

Under(p, q) == IsPrefix(p, q)
Below(p, q) == IsStrictPrefix(p, q)
Rest(p, q) == SubSeq(q, Len(p) + 1, Len(q))
Least(s) == CHOOSE x \in s : \A y \in s : x =< y
Most(s) == CHOOSE x \in s : \A y \in s : y =< x
At(t, g) == CHOOSE b \in ToSet(t.guest) : b.g = g
Has(t, g) == \E b \in ToSet(t.guest) : b.g = g

-------------------------------------------------------------------------------
(* insort_binding(): behind the last binding the new one contains, or else before the   *)
(* first that contains it, where the head of the list does not count.                 *)
Place(paths, x) ==
  LET inside == {i \in DOMAIN paths : Below(x, paths[i])}
      around == {i \in DOMAIN paths \ {1} : Below(paths[i], x)} IN
  IF inside # {} THEN Most(inside) + 1 ELSE IF around # {} THEN Least(around) ELSE 1

InHost(t, b) ==
  LET paths == [i \in DOMAIN t.host |-> At(t, t.host[i]).h]
      same == {i \in DOMAIN paths : paths[i] = b.h} IN
  InsertAt(t.host, IF same # {} THEN Least(same) + 1 ELSE Place(paths, b.h), b.g)

(* A mistake: the covered binding stays in the host list.                             *)
InGuest_HostKept(t, b) ==
  IF Has(t, b.g)
  THEN [t EXCEPT !.guest = [i \in DOMAIN t.guest |->
          IF t.guest[i].g = b.g THEN [b EXCEPT !.under = <<t.guest[i]>>] ELSE t.guest[i]]]
  ELSE [t EXCEPT !.guest = InsertAt(@, Place([i \in DOMAIN t.guest |-> t.guest[i].g], b.g), b)]

(* A binding of the same guest path is covered: it leaves both lists.                  *)
InGuest(t, b) ==
  IF Has(t, b.g)
  THEN LET c == At(t, b.g) IN
       [guest |-> [i \in DOMAIN t.guest |->
                     IF t.guest[i] = c THEN [b EXCEPT !.under = <<c>>] ELSE t.guest[i]],
        host |-> Remove(t.host, b.g)]
  ELSE [guest |-> InsertAt(t.guest, Place([i \in DOMAIN t.guest |-> t.guest[i].g], b.g), b),
        host |-> t.host]

insort_binding2(t, b) == LET u == InGuest(t, b) IN [u EXCEPT !.host = InHost(u, b)]
insort_binding4(t, h, g) == insort_binding2(t, [h |-> h, g |-> g, under |-> <<>>])

remove_binding_from_all_lists(t, b) ==
  IF b \notin ToSet(t.guest) THEN t
  ELSE [guest |-> Remove(t.guest, b), host |-> Remove(t.host, b.g)]

(* A mistake: the covered binding is lost.                                           *)
remove_binding_and_restore_covered_Bare(t, b) == remove_binding_from_all_lists(t, b)

remove_binding_and_restore_covered(t, b) ==
  LET u == remove_binding_from_all_lists(t, b) IN
  IF b.under = <<>> THEN u ELSE insort_binding2(u, b.under[1])

(* get_binding(): the longest guest path; the first host path of the list.            *)
GuestBinding(t, p) ==
  CHOOSE b \in ToSet(t.guest) :
    /\ Under(b.g, p)
    /\ \A c \in ToSet(t.guest) : Under(c.g, p) => Len(c.g) =< Len(b.g)
HostOf(t, p) == LET b == GuestBinding(t, p) IN b.h \o Rest(b.g, p)
detranslate_path(t, x) ==
  LET fits == {i \in DOMAIN t.host : Under(At(t, t.host[i]).h, x)} IN
  IF fits = {} THEN x
  ELSE LET b == At(t, t.host[Least(fits)]) IN b.g \o Rest(b.h, x)

-------------------------------------------------------------------------------
(* emulate_mount() with MS_BIND: for MS_REC the bindings below the source, by the name  *)
(* its host path is found under, are there again below the target.                    *)
Nested(t, source, rec) == SelectSeq(t.guest, LAMBDA b : rec /\ Below(source, b.g))

Replay(t, snapshot, source, target) ==
  FoldLeft(LAMBDA u, b : insort_binding4(u, b.h, target \o Rest(source, b.g)), t, snapshot)

(* A mistake: the snapshot is taken when the target is already mounted.              *)
Bind_Late(t, s, g, rec) ==
  LET h == HostOf(t, s)  u == insort_binding4(t, h, g)  name == detranslate_path(u, h) IN
  Replay(u, Nested(u, name, rec), name, g)

Bind(t, s, g, rec) ==
  LET h == HostOf(t, s)  name == detranslate_path(t, h) IN
  Replay(insort_binding4(t, h, g), Nested(t, name, rec), name, g)

-------------------------------------------------------------------------------
(* emulate_pivot_root(): one binding of the snapshot. Those below the new root move     *)
(* with it; the others stay, and are seen below put_old as well.                     *)
Pivoted(t, b, n, after) ==
  IF b.g = <<>> THEN t
  ELSE IF b.g = n
  THEN LET u == IF after # <<>> /\ b.under # <<>>
                THEN insort_binding4(t, b.under[1].h, after \o b.g) ELSE t IN
       remove_binding_from_all_lists(u, b)
  ELSE IF n # <<>> /\ Below(n, b.g)
  THEN remove_binding_from_all_lists(insort_binding4(t, b.h, Rest(n, b.g)), b)
  ELSE IF after = <<>> \/ Under(after, b.g) THEN t
  ELSE insort_binding4(t, b.h, after \o b.g)

(* A mistake: what is below the new root stays there and is not moved.               *)
emulate_pivot_root_Stay(t, n, put) ==
  LET after == IF Below(n, put) THEN Rest(n, put) ELSE <<>>
      old == At(t, <<>>)
      u == insort_binding4(remove_binding_from_all_lists(t, old), HostOf(t, n), <<>>) IN
  IF after = <<>> THEN u ELSE insort_binding4(u, old.h, after)

emulate_pivot_root(t, n, put) ==
  LET after == IF Below(n, put) THEN Rest(n, put) ELSE <<>>
      old == At(t, <<>>)
      u == insort_binding4(remove_binding_from_all_lists(t, old), HostOf(t, n), <<>>)
      v == IF after = <<>> THEN u ELSE insort_binding4(u, old.h, after) IN
  FoldLeft(LAMBDA w, b : Pivoted(w, b, n, after), v, t.guest)

(* unshare_file_system_namespace(), new_child(): copy_binding() of one after the other. *)
Copied(t) ==
  FoldLeft(LAMBDA u, b : insort_binding4(u, b.h, b.g), [guest |-> <<>>, host |-> <<>>], t.guest)

-------------------------------------------------------------------------------
Table == [guest |-> guest, host |-> host]
Becomes(t) == guest' = t.guest /\ host' = t.host
Mounted(t) == {b.g : b \in ToSet(t.guest)}
RECURSIVE Chain(_)
Chain(b) == IF b.under = <<>> THEN <<b.h>> ELSE <<b.h>> \o Chain(b.under[1])
Stacks(t) == [g \in Mounted(t) |-> Chain(At(t, g))]

(* initialize_bindings(): from the root to the last of the list.                      *)
Init ==
  /\ \E s \in Starts :
       LET t == FoldLeft(LAMBDA u, x : insort_binding4(u, x[1], x[2]),
                         [guest |-> <<>>, host |-> <<>>], s) IN
       guest = t.guest /\ host = t.host /\ stack = Stacks(t)
  /\ calls = 0 /\ did = <<"init">> /\ thin = {}

Call(what) == calls < MaxCalls /\ calls' = calls + 1 /\ did' = what

(* The layers of the paths where a binding is new, with what it covered.              *)
Layered(t, u) ==
  [g \in Mounted(u) |->
     IF ~Has(t, g) THEN <<At(u, g).h>>
     ELSE IF At(u, g) = At(t, g) THEN stack[g] ELSE <<At(u, g).h>> \o stack[g]]

apply_emulated_mount(s, g, rec) ==
  LET t == Bind(Table, s, g, rec) IN
  /\ Call(<<"bind", s, g, rec>>) /\ Becomes(t) /\ stack' = Layered(Table, t) /\ UNCHANGED thin

(* tmpfs: a directory of its own.                                                  *)
MountTmpfs(g) ==
  LET t == insort_binding4(Table, <<"tmp", calls>>, g) IN
  /\ Call(<<"tmpfs", g>>) /\ Becomes(t) /\ stack' = Layered(Table, t) /\ UNCHANGED thin

apply_emulated_umount(g) ==
  LET b == At(Table, g)
      last == Len(stack[g]) = 1 \/ (g \in thin /\ b.under = <<>>) IN
  /\ g # <<>> /\ Has(Table, g) /\ Call(<<"umount", g>>)
  /\ Becomes(remove_binding_and_restore_covered(Table, b))
  /\ stack' = IF last THEN [x \in DOMAIN stack \ {g} |-> stack[x]] ELSE [stack EXCEPT ![g] = Tail(@)]
  /\ thin' = IF last THEN thin \ {g} ELSE thin

apply_emulated_pivot_root(n, put) ==
  LET t == emulate_pivot_root(Table, n, put) IN
  /\ Call(<<"pivot", n, put>>) /\ Becomes(t) /\ stack' = Stacks(t) /\ thin' = {}

unshare_file_system_namespace ==
  /\ Call(<<"unshare">>) /\ Becomes(Copied(Table)) /\ UNCHANGED stack
  /\ thin' = thin \cup {b.g : b \in {c \in ToSet(guest) : c.under # <<>>}}

Next ==
  \/ \E s \in Sources, g \in Targets, rec \in BOOLEAN : apply_emulated_mount(s, g, rec)
  \/ \E g \in Targets : MountTmpfs(g) \/ apply_emulated_umount(g)
  \/ \E x \in Pivots : apply_emulated_pivot_root(x[1], x[2])
  \/ unshare_file_system_namespace

Spec == Init /\ [][Next]_vars

-------------------------------------------------------------------------------
(* One binding per guest path, the same ones in both lists, and the root is the last of *)
(* the guest list, where get_root() takes it from.                                   *)
TableSound ==
  /\ \A i, j \in DOMAIN guest : guest[i].g = guest[j].g => i = j
  /\ ToSet(host) = {b.g : b \in ToSet(guest)} /\ Len(host) = Len(guest)
  /\ guest[Len(guest)].g = <<>>

(* umount finds below a mount what was there before it, however many were made at the   *)
(* same place, also after a pivot; in a copied table it finds the base instead.        *)
LayersKept ==
  /\ DOMAIN stack = Mounted(Table)
  /\ \A b \in ToSet(guest) :
       IF b.g \in thin THEN IsPrefix(Chain(b), stack[b.g]) ELSE Chain(b) = stack[b.g]

(* What is mounted where is recorded soundly, to the last covered layer.               *)
MountsSound == TableSound /\ LayersKept

(* A bind shows at the target what the source shows, and a recursive one also what is   *)
(* mounted below it, provided the source's host path leads back to the source's name,    *)
(* and nothing was mounted below the target before.                                  *)
New == [guest |-> guest', host |-> host']
Sub(g) == \E b \in ToSet(guest) : Below(g, b.g)
Shows(s, g, rec) ==
  ~Sub(g) /\ ~Under(s, g) /\ ~Under(g, s) =>
    \A q \in Probes :
      HostOf(New, g \o q) = IF rec THEN HostOf(Table, s \o q) ELSE HostOf(Table, s) \o q
Mirrors ==
  [][did'[1] = "bind" /\ detranslate_path(Table, HostOf(Table, did'[2])) = did'[2]
       => Shows(did'[2], did'[3], did'[4])]_<<calls, guest, host>>

(* After pivot_root() the new root's tree, with what is mounted in it, is at / and the   *)
(* old one at put_old; where the old root had mounts of its own they stay on top.       *)
MovedTo(n, put) ==
  LET after == Rest(n, put)
      stays == {b \in ToSet(guest) : b.g # <<>> /\ ~Under(n, b.g)}
      clear == \A b \in ToSet(guest) : ~Under(after, b.g) /\ ~Under(put, b.g) IN
  \A q \in Probes :
    /\ ~Under(after, q) /\ (\A b \in stays : ~Under(b.g, q)) => HostOf(New, q) = HostOf(Table, n \o q)
    /\ ~Under(n, q) /\ clear => HostOf(New, after \o q) = HostOf(Table, q)
PivotMoves ==
  [][did'[1] = "pivot" /\ Below(did'[2], did'[3]) => MovedTo(did'[2], did'[3])]_<<calls, guest, host>>

(* What a bind and a pivot_root() make of the tree the guest sees.                      *)
MountsMove == Mirrors /\ PivotMoves
===============================================================================
