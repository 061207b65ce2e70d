----------------------------- MODULE LinkToSymlink -----------------------------
(* Hard links on a file system that has none: link2symlink.c. The data of a file *)
(* with several names is ".l2s.<base><suffix>.<count>", the names are symbolic    *)
(* links to ".l2s.<base><suffix>", which is a symbolic link to the data. The      *)
(* tracer changes the hidden files when a call enters; the kernel changes the     *)
(* name later, if it does.                                                       *)
EXTENDS Naturals, FiniteSets

CONSTANTS LinkNames,   \* the names the guest uses, each the base of a family too
          Linkers,     \* the tracees
          MaxSuffix,   \* MAX_LINK_SUFFIX - 1
          MaxCount,    \* MAX_LINK_COUNT
          MaxFiles     \* bound: files that are created

ASSUME LinkAssumption ==
  /\ IsFiniteSet(LinkNames) /\ IsFiniteSet(Linkers)
  /\ MaxSuffix \in Nat \ {0} /\ MaxCount \in Nat \ {0, 1} /\ MaxFiles \in Nat

VARIABLES
  vis,      \* name -> nothing, a file, or a symbolic link to a family
  inter,    \* family -> the count its intermediate link names, or 0
  data,     \* <<family, count>> -> the file there, or 0
  due,      \* tracee -> the call that the kernel has yet to do
  made,     \* number of files created
  truth,    \* ghost: name -> the file it would have as a hard link, or 0
  misled    \* ghost: files hit by one of the cases the code does not handle

linkvars == <<vis, inter, data, due, made, truth, misled>>

Families == LinkNames \X (1..MaxSuffix)
NoFamily == <<>>
Nothing == [kind |-> "none", file |-> 0, family |-> NoFamily]
PlainFile(f) == [Nothing EXCEPT !.kind = "file", !.file = f]
Link(m) == [Nothing EXCEPT !.kind = "link", !.family = m]
NoCall == [op |-> "none", left |-> NoFamily, file |-> 0]

LinkInit ==
  /\ vis = [n \in LinkNames |-> Nothing] /\ inter = [m \in Families |-> 0]
  /\ data = [s \in Families \X (0..MaxCount) |-> 0]
  /\ due = [t \in Linkers |-> NoCall]
  /\ made = 0 /\ truth = [n \in LinkNames |-> 0] /\ misled = {}

IsLink(n) == vis[n].kind = "link"
FamilyOf(n) == vis[n].family
DataOf(m) == IF inter[m] = 0 THEN 0 ELSE data[<<m, inter[m]>>]
Whole(m) == DataOf(m) # 0

(* What the guest reads under a name: open() follows the two links.               *)
Content(n) == IF IsLink(n) THEN DataOf(FamilyOf(n)) ELSE vis[n].file
(* What handle_sysexit_end() fills in: the count in the name of the data.          *)
st_nlink(n) ==
  IF IsLink(n) /\ Whole(FamilyOf(n)) THEN inter[FamilyOf(n)] ELSE 1

(* A name of a family that is gone, and whose hidden names serve another file now.  *)
Mistaken(n) == IF truth[n] = Content(n) THEN {} ELSE {truth[n], Content(n)}

NotInCall(t) == due[t].op = "none"
Performed(t) == due' = [due EXCEPT ![t] = NoCall]
Members(m) == {n \in LinkNames : vis[n] = Link(m)}

(* rename() of the data to the next count, and a new intermediate link.           *)
Recount(m, c) ==
  /\ data' = [data EXCEPT ![<<m, inter[m]>>] = 0, ![<<m, c>>] = data[<<m, inter[m]>>]]
  /\ inter' = [inter EXCEPT ![m] = c]

Dissolve(m) ==
  /\ inter' = [inter EXCEPT ![m] = 0]
  /\ data' = [data EXCEPT ![<<m, inter[m]>>] = 0]

(* A mistake: the family is given up when one name is left.                      *)
decrement_link_count_One(m) ==
  IF inter[m] > 2 THEN Recount(m, inter[m] - 1) ELSE Dissolve(m)

decrement_link_count(m) ==
  IF inter[m] > 1 THEN Recount(m, inter[m] - 1) ELSE Dissolve(m)

-------------------------------------------------------------------------------
(* open(O_CREAT) of a name that is free.                                          *)
Create(t, n) ==
  /\ NotInCall(t) /\ vis[n].kind = "none" /\ made < MaxFiles
  /\ made' = made + 1 /\ vis' = [vis EXCEPT ![n] = PlainFile(made')]
  /\ truth' = [truth EXCEPT ![n] = made']
  /\ UNCHANGED <<inter, data, due, misled>>

(* move_and_symlink_path() of a file: the first suffix that is free, or the last.  *)
Suffix(b) ==
  LET free == {i \in 1..MaxSuffix : inter[<<b, i>>] = 0} IN
  IF free = {} THEN MaxSuffix ELSE CHOOSE i \in free : \A j \in free : i =< j

(* Names whose family is gone, and that no call in the kernel will remove.         *)
Strays(m) == {n \in Members(m) : \A t \in Linkers : due[t].left = m => due[t].name # n}

(* The name src becomes the first of a family. A name dst that is there keeps what *)
(* it has: the count is set back to 1. Strays of this name lead to the new data.   *)
LinkFirst(src, dst) ==
  LET m == <<src, Suffix(src)>>
      c == IF vis[dst].kind = "none" THEN 2 ELSE 1 IN
  /\ vis[src].kind = "file" /\ inter[m] = 0
  /\ data' = [data EXCEPT ![<<m, c>>] = vis[src].file]
  /\ inter' = [inter EXCEPT ![m] = c]
  /\ vis' = [n \in LinkNames |-> IF n = src \/ (n = dst /\ c = 2) THEN Link(m) ELSE vis[n]]
  /\ misled' = IF Strays(m) = {} THEN misled
                ELSE misled \cup {vis[src].file} \cup {truth[n] : n \in Strays(m)}

(* Every suffix is in use. The data takes the place of what has the name ".0002";   *)
(* symlink() fails, and the names become further names of that family if its link  *)
(* leads somewhere. Otherwise the family is built anew.                           *)
LinkReuse(src, dst) ==
  LET m == <<src, MaxSuffix>>
      moved == [data EXCEPT ![<<m, 2>>] = vis[src].file]
      whole == moved[<<m, inter[m]>>] # 0
      new == vis[dst].kind = "none"
      c == IF whole THEN inter[m] ELSE IF new THEN 2 ELSE 1 IN
  /\ vis[src].kind = "file" /\ Suffix(src) = MaxSuffix /\ inter[m] # 0
  /\ data' = IF whole \/ new THEN moved ELSE [data EXCEPT ![<<m, 1>>] = vis[src].file]
  /\ inter' = [inter EXCEPT ![m] = c]
  /\ vis' = [n \in LinkNames |-> IF n = src \/ (n = dst /\ new) THEN Link(m) ELSE vis[n]]
  /\ misled' = misled \cup {vis[src].file, DataOf(m), data[<<m, 2>>]}
                        \cup {truth[n] : n \in Members(m)}

(* A mistake: the count is not raised for a further name.                        *)
LinkMore_SameCount(src, dst) ==
  /\ IsLink(src) /\ Whole(FamilyOf(src)) /\ inter[FamilyOf(src)] < MaxCount
  /\ vis[dst].kind = "none" /\ UNCHANGED <<inter, data>>
  /\ vis' = [vis EXCEPT ![dst] = Link(FamilyOf(src))] /\ misled' = misled \cup Mistaken(src)

(* One more name; if dst is there the count is raised and set back.               *)
LinkMore(src, dst) ==
  LET m == FamilyOf(src) IN
  /\ IsLink(src) /\ Whole(m) /\ inter[m] < MaxCount
  /\ IF vis[dst].kind = "none"
     THEN Recount(m, inter[m] + 1) /\ vis' = [vis EXCEPT ![dst] = Link(m)]
     ELSE UNCHANGED <<inter, data, vis>>
  /\ misled' = misled \cup Mistaken(src)

move_and_symlink_path(t, src, dst) ==
  /\ NotInCall(t)
  /\ LinkFirst(src, dst) \/ LinkReuse(src, dst) \/ LinkMore(src, dst)
  /\ truth' = IF vis[dst].kind = "none" THEN [truth EXCEPT ![dst] = truth[src]] ELSE truth
  /\ UNCHANGED <<due, made>>

(* unlink() and rename() enter: the name that will go is taken out of its family.   *)
(* A name that is no link of ours, or leads to no family, is left alone; a family  *)
(* without its data fails the call.                                              *)
Counted(n) == IsLink(n) /\ inter[FamilyOf(n)] # 0

Leave(t, op, from, n) ==
  /\ NotInCall(t) /\ (Counted(n) => Whole(FamilyOf(n)))
  /\ IF Counted(n) THEN decrement_link_count(FamilyOf(n)) ELSE UNCHANGED <<inter, data>>
  /\ due' = [due EXCEPT ![t] =
       [op |-> op, from |-> from, name |-> n, file |-> Content(n),
        left |-> IF Counted(n) THEN FamilyOf(n) ELSE NoFamily]]
  /\ UNCHANGED <<vis, made, truth, misled>>

UnlinkEnter(t, n) == Leave(t, "unlink", n, n)
RenameEnter(t, x, y) == Leave(t, "rename", x, y)

(* The kernel does the call. A family that lost a count for a name that did not go, *)
(* or kept the count of one that went, is wronged.                                *)
Wronged(t, gone) ==
  IF due[t].left = gone /\ (gone # NoFamily => truth[due[t].name] = due[t].file)
  THEN {} ELSE {due[t].file, Content(due[t].name)}
Tell(t, gone) == misled' = misled \cup Wronged(t, gone)
FamilyIf(b, n) == IF b /\ IsLink(n) THEN FamilyOf(n) ELSE NoFamily

KernelUnlink(t) ==
  LET n == due[t].name IN
  /\ due[t].op = "unlink" /\ Performed(t) /\ Tell(t, FamilyIf(TRUE, n))
  /\ vis' = [vis EXCEPT ![n] = Nothing] /\ truth' = [truth EXCEPT ![n] = 0]
  /\ UNCHANGED <<inter, data, made>>

(* rename() of a name to itself does nothing; of one that is gone, it fails. Of two  *)
(* names of one file POSIX keeps both: here they are two symbolic links, and the      *)
(* kernel lets the one replace the other.                                           *)
KernelRename(t) ==
  LET n == due[t].name x == due[t].from
      works == x # n /\ vis[x].kind # "none"
      alike == works /\ truth[x] = truth[n] IN
  /\ due[t].op = "rename" /\ Performed(t)
  /\ misled' = misled \cup Wronged(t, FamilyIf(works, n)) \cup (IF alike THEN {truth[x]} ELSE {})
  /\ vis' = IF works THEN [vis EXCEPT ![n] = vis[x], ![x] = Nothing] ELSE vis
  /\ truth' = IF works /\ ~alike THEN [truth EXCEPT ![n] = truth[x], ![x] = 0] ELSE truth
  /\ UNCHANGED <<inter, data, made>>

(* EACCES, EROFS, RENAME_NOREPLACE and the like: the names stay.                   *)
KernelFails(t) ==
  /\ ~NotInCall(t) /\ Performed(t) /\ Tell(t, NoFamily)
  /\ UNCHANGED <<vis, inter, data, made, truth>>

-------------------------------------------------------------------------------
(* A mistake: the copy does not take its name out of the family.                 *)
materialize_executable_Kept(t, n) ==
  /\ NotInCall(t) /\ IsLink(n) /\ Whole(FamilyOf(n)) /\ made < MaxFiles
  /\ made' = made + 1 /\ vis' = [vis EXCEPT ![n] = PlainFile(made')]
  /\ truth' = [truth EXCEPT ![n] = made']
  /\ misled' = misled \cup Mistaken(n)
  /\ UNCHANGED <<inter, data, due>>

(* The copy that exec, readlink and an absolute or O_PATH open make of a name: it   *)
(* leaves its family and becomes a file of its own.                               *)
materialize_executable(t, n) ==
  /\ NotInCall(t) /\ IsLink(n) /\ Whole(FamilyOf(n)) /\ made < MaxFiles
  /\ made' = made + 1 /\ vis' = [vis EXCEPT ![n] = PlainFile(made')]
  /\ truth' = [truth EXCEPT ![n] = made']
  /\ decrement_link_count(FamilyOf(n)) /\ misled' = misled \cup Mistaken(n)
  /\ UNCHANGED due

(* The name is removed first: a copy that fails (no space, no permission) loses it. *)
MaterializeFails(t, n) ==
  /\ NotInCall(t) /\ IsLink(n) /\ Whole(FamilyOf(n))
  /\ vis' = [vis EXCEPT ![n] = Nothing] /\ truth' = [truth EXCEPT ![n] = 0]
  /\ misled' = misled \cup {Content(n)}
  /\ UNCHANGED <<inter, data, due, made>>

LinkNext ==
  \E t \in Linkers :
    \/ KernelUnlink(t) \/ KernelRename(t) \/ KernelFails(t)
    \/ \E n \in LinkNames : \/ Create(t, n) \/ UnlinkEnter(t, n)
                        \/ materialize_executable(t, n) \/ MaterializeFails(t, n)
    \/ \E x, y \in LinkNames : move_and_symlink_path(t, x, y) \/ RenameEnter(t, x, y)

LinkSpec == LinkInit /\ [][LinkNext]_linkvars

-------------------------------------------------------------------------------
Unsettled == misled \cup {due[t].file : t \in {u \in Linkers : due[u].left # NoFamily}}

(* st_nlink of a file is the number of its names, and the same under each of them,  *)
(* unless the file met a case the code does not handle: the count in the name of    *)
(* the data is changed at link, at the entry of unlink and rename and by the copy,  *)
(* and the names at other moments by other calls.                                 *)
NlinkTrue ==
  \A m \in Families : Whole(m) /\ DataOf(m) \notin Unsettled =>
    LET named == {n \in LinkNames : truth[n] = DataOf(m)} IN
    \A n \in named : st_nlink(n) = Cardinality(named)

(* A name leads to the file that the guest's calls gave it, through every count     *)
(* that the data is renamed to, and hidden data is of a file that has a name: none  *)
(* is lost and none is left over, unless the file met a case the code does not     *)
(* handle: rename() of one of its names to another, which drops the first, is one.   *)
ContentTrue ==
  /\ \A n \in LinkNames : truth[n] \notin Unsettled => Content(n) = truth[n]
  /\ \A s \in DOMAIN data : data[s] \notin Unsettled \cup {0} =>
       inter[s[1]] = s[2] /\ \E n \in LinkNames : truth[n] = data[s]

(* Link counts and contents are those of hard links, whatever calls overlap.         *)
LinksTrue == NlinkTrue /\ ContentTrue
===============================================================================
