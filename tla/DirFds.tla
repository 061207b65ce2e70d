--------------------------------- MODULE DirFds ---------------------------------
(* What the tracer remembers about open directories: the names of dirfd_cache (path.c) *)
(* and the guest names of proc_fd_path_cache (exit.c), both kept per thread and          *)
(* descriptor in a ring of slots, against descriptor tables that threads share, dup()     *)
(* without a stop, directories that are renamed and bindings that come and go. A host     *)
(* path is the name of a directory; "x" is a name below it that may be a mount point.     *)
EXTENDS Naturals

CONSTANTS Openers, Numbers, Dirs, Paths,
          FirstOpener,   \* the tracee that is there at the start
          Home,          \* the path of each directory at the start
          Nil,
          Slots,         \* DIRFD_CACHE_SIZE and PROC_FD_PATH_CACHE_SIZE
          MaxDirCalls    \* bound: calls

(* What the constants are.                                                              *)
ASSUME DirAssumption ==
  /\ Slots \in Nat \ {0} /\ FirstOpener \in Openers /\ Nil \notin Openers \cup Dirs
  /\ Home \in [Dirs -> Paths]

VARIABLES
  owner,   \* thread -> the owner of its descriptor table, Nil: no tracee
  tables,  \* owner -> descriptor -> directory
  at,      \* directory -> host path
  mount,   \* Nil, or <<host path, guest path>>: a binding of one directory on another
  inner,   \* guest paths of directories whose "x" is a mount point
  cache,   \* dirfd_cache and dirfd_cache_next
  names,   \* proc_fd_path_cache: the directory the kept name was opened for
  untold,  \* ghost: <<thread, descriptor>> changed without a stop of that thread
  ndircalls

dirvars == <<owner, tables, at, mount, inner, cache, names, untold, ndircalls>>

Empty == [pid |-> Nil]
Ring == [slot |-> [i \in 1..Slots |-> Empty], next |-> 1]

Opened == {t \in Openers : owner[t] # Nil}
Table(t) == tables[owner[t]]
detranslate_path(p) == IF mount # Nil /\ mount[1] = p THEN mount[2] ELSE p
substitute_binding(g) == IF mount # Nil /\ mount[2] = g THEN mount[1] ELSE g

-------------------------------------------------------------------------------
(* Both caches: the slot of a descriptor, and a new entry, over the oldest if need be.   *)
Is(e, t, S) == e.pid = t /\ e.fd \in S
Of(c, t, fd) == {i \in 1..Slots : c.slot[i].pid # Nil /\ Is(c.slot[i], t, {fd})}
Known(c, t, fd) == Of(c, t, fd) # {}
Entry(c, t, fd) == c.slot[CHOOSE i \in Of(c, t, fd) : TRUE]

Put(c, e) ==
  IF Known(c, e.pid, e.fd)
  THEN [c EXCEPT !.slot = [i \in 1..Slots |-> IF i \in Of(c, e.pid, e.fd) THEN e ELSE @[i]]]
  ELSE [slot |-> [c.slot EXCEPT ![c.next] = e], next |-> (c.next % Slots) + 1]

Forget(c, t, S) ==
  [c EXCEPT !.slot = [i \in 1..Slots |->
     IF @[i].pid # Nil /\ Is(@[i], t, S) THEN Empty ELSE @[i]]]

(* remember_translated_dirfd(): an entry that says the same stays, with its host_fd.      *)
remember_translated_dirfd(c, t, fd, proc, guest) ==
  IF Known(c, t, fd) /\ Entry(c, t, fd).proc = proc /\ Entry(c, t, fd).guest = guest THEN c
  ELSE Put(c, [pid |-> t, fd |-> fd, proc |-> proc, guest |-> guest, host |-> Nil, old |-> FALSE])

attach_host_dirfd(c, t, fd, d) ==
  IF d = Nil THEN c ELSE Put(c, [Entry(c, t, fd) EXCEPT !.host = d])

Carry(c, e, t, fd) ==
  LET u == remember_translated_dirfd(c, t, fd, e.proc, e.guest)
      v == attach_host_dirfd(u, t, fd, e.host) IN
  IF u = c THEN v ELSE Put(v, [Entry(v, t, fd) EXCEPT !.old = e.old])

copy_translated_dirfd(c, t, source, target) ==
  IF Known(c, t, source) THEN Carry(c, Entry(c, t, source), t, target) ELSE Forget(c, t, {target})

(* The loop reads the ring while it writes to it.                                    *)
inherit_translated_dirfds(c, parent, child) ==
  LET upto[i \in 0..Slots] ==
        IF i = 0 THEN Forget(c, child, Numbers)
        ELSE LET u == upto[i - 1] IN
             IF u.slot[i].pid = parent THEN Carry(u, u.slot[i], child, u.slot[i].fd) ELSE u
  IN  upto[Slots]

inherit_proc_fd_paths(c, parent, child) ==
  LET upto[i \in 0..Slots] ==
        IF i = 0 THEN Forget(c, child, Numbers)
        ELSE LET u == upto[i - 1] IN
             IF u.slot[i].pid = parent THEN Put(u, [u.slot[i] EXCEPT !.pid = child]) ELSE u
  IN  upto[Slots]

(* A mistake: the target keeps the name it had.                                      *)
copy_proc_fd_path_Keeps(c, t, source, target) ==
  IF Known(c, t, source) THEN Put(c, [Entry(c, t, source) EXCEPT !.fd = target]) ELSE c

copy_proc_fd_path(c, t, source, target) ==
  IF Known(c, t, source) THEN Put(c, [Entry(c, t, source) EXCEPT !.fd = target])
  ELSE Forget(c, t, {target})

(* A mistake: the calling thread's names are not forgotten.                            *)
invalidate_binding_cache_Keeps(c, t) ==
  [c EXCEPT !.slot = [i \in 1..Slots |->
     IF @[i].pid \in {Nil, t} THEN @[i] ELSE [@[i] EXCEPT !.old = TRUE]]]

(* invalidate_binding_cache(): of all who share the bindings, the calling thread's only. *)
invalidate_binding_cache(c, t) ==
  [c EXCEPT !.slot = [i \in 1..Slots |->
     IF @[i].pid = Nil \/ @[i].pid = t THEN Empty ELSE [@[i] EXCEPT !.old = TRUE]]]

-------------------------------------------------------------------------------
DirInit ==
  /\ owner = [t \in Openers |-> IF t = FirstOpener THEN FirstOpener ELSE Nil]
  /\ tables = [t \in Openers |-> [fd \in Numbers |-> Nil]]
  /\ at = Home /\ mount = Nil /\ inner = {}
  /\ cache = Ring /\ names = Ring
  /\ untold = {} /\ ndircalls = 0

DirCall == ndircalls < MaxDirCalls /\ ndircalls' = ndircalls + 1

(* Those who share t's table and did not stop for its call.                            *)
Sharers(t, S) == {u \in Opened \ {t} : owner[u] = owner[t]} \X S

open(t, fd, d) ==
  /\ t \in Opened /\ Table(t)[fd] = Nil /\ DirCall
  /\ tables' = [tables EXCEPT ![owner[t]][fd] = d]
  /\ names' = Put(names, [pid |-> t, fd |-> fd, dir |-> d])
  /\ untold' = (untold \ {<<t, fd>>}) \cup Sharers(t, {fd})
  /\ UNCHANGED <<owner, at, mount, inner, cache>>

(* close(), close_range(): both caches forget at the entry of the call.                 *)
forget_proc_fd_paths_range(t, S) ==
  /\ t \in Opened /\ DirCall
  /\ tables' = [tables EXCEPT ![owner[t]] = [fd \in Numbers |-> IF fd \in S THEN Nil ELSE @[fd]]]
  /\ cache' = Forget(cache, t, S) /\ names' = Forget(names, t, S)
  /\ untold' = (untold \ ({t} \X S)) \cup Sharers(t, S)
  /\ UNCHANGED <<owner, at, mount, inner>>

(* dup3(), with a stop only if kompat is loaded.                                       *)
dup(t, source, target, traced) ==
  /\ t \in Opened /\ source # target /\ Table(t)[source] # Nil /\ DirCall
  /\ tables' = [tables EXCEPT ![owner[t]][target] = Table(t)[source]]
  /\ IF traced
     THEN /\ names' = copy_proc_fd_path(names, t, source, target)
          /\ cache' = copy_translated_dirfd(
                 IF Known(names, t, source) THEN cache ELSE Forget(cache, t, {target}),
                 t, source, target)
          /\ untold' = (IF <<t, source>> \in untold THEN untold \cup {<<t, target>>}
                       ELSE untold \ {<<t, target>>}) \cup Sharers(t, {target})
     ELSE /\ untold' = untold \cup {<<t, target>>} \cup Sharers(t, {target})
          /\ UNCHANGED <<cache, names>>
  /\ UNCHANGED <<owner, at, mount, inner>>

inherits(t, u, shared) ==
  /\ t \in Opened /\ u \notin Opened /\ DirCall
  /\ \/ shared /\ owner' = [owner EXCEPT ![u] = owner[t]] /\ UNCHANGED tables
     \/ /\ ~shared /\ \A v \in Opened : owner[v] # u
        /\ owner' = [owner EXCEPT ![u] = u] /\ tables' = [tables EXCEPT ![u] = Table(t)]
  /\ cache' = inherit_translated_dirfds(cache, t, u)
  /\ names' = inherit_proc_fd_paths(names, t, u)
  /\ untold' = {x \in untold : x[1] # u} \cup {<<u, fd>> : fd \in {g \in Numbers : <<t, g>> \in untold}}
  /\ UNCHANGED <<at, mount, inner>>

remove_tracee(t) ==
  /\ t \in Opened \ {FirstOpener} /\ DirCall /\ owner' = [owner EXCEPT ![t] = Nil]
  /\ cache' = Forget(cache, t, Numbers) /\ names' = Forget(names, t, Numbers)
  /\ UNCHANGED <<tables, at, mount, inner, untold>>

(* A successful execve() of a single thread: descriptors marked so are closed.           *)
execve(t, S) ==
  /\ t \in Opened /\ Sharers(t, Numbers) = {} /\ DirCall
  /\ tables' = [tables EXCEPT ![owner[t]] = [fd \in Numbers |-> IF fd \in S THEN Nil ELSE @[fd]]]
  /\ cache' = Forget(cache, t, Numbers) /\ names' = Forget(names, t, Numbers)
  /\ untold' = untold \ ({t} \X Numbers)
  /\ UNCHANGED <<owner, at, mount, inner>>

(* translate_path() of a name in the directory: the cache if it is about the same host   *)
(* path and no mount point is between, or else the path is translated and kept.         *)
translate_path(t, fd) ==
  /\ t \in Opened /\ Table(t)[fd] # Nil /\ DirCall
  /\ LET proc == at[Table(t)[fd]]
         hit == Known(cache, t, fd) /\ Entry(cache, t, fd).proc = proc
                /\ Entry(cache, t, fd).guest \notin inner IN
     cache' = IF hit THEN cache
              ELSE remember_translated_dirfd(cache, t, fd, proc, detranslate_path(proc))
  /\ UNCHANGED <<owner, tables, at, mount, inner, names, untold>>

(* lookup_cached_host_dirfd(), for a stat call in the notification thread: an entry with  *)
(* a descriptor of the tracer's own must be of the same directory, one without gets it.   *)
lookup_cached_host_dirfd(t, fd) ==
  /\ t \in Opened /\ Table(t)[fd] # Nil /\ DirCall
  /\ LET d == Table(t)[fd]
         stale == Known(cache, t, fd) /\ Entry(cache, t, fd).host \notin {Nil, d}
         c == IF Known(cache, t, fd) /\ ~stale THEN cache
              ELSE remember_translated_dirfd(Forget(cache, t, {fd}), t, fd, at[d],
                                             detranslate_path(at[d]))
         e == Entry(c, t, fd) IN
     cache' = IF e.guest \notin inner /\ e.host = Nil THEN attach_host_dirfd(c, t, fd, d) ELSE c
  /\ UNCHANGED <<owner, tables, at, mount, inner, names, untold>>

(* mount(), umount() by t: a directory on another, or something on "x" in a directory.   *)
Bind(t, m, I) ==
  /\ t \in Opened /\ <<m, I>> # <<mount, inner>> /\ DirCall /\ mount' = m /\ inner' = I
  /\ cache' = invalidate_binding_cache(cache, t)
  /\ UNCHANGED <<owner, tables, at, names, untold>>

Rename(d, p) ==
  /\ p \notin {at[e] : e \in Dirs} /\ DirCall /\ at' = [at EXCEPT ![d] = p]
  /\ UNCHANGED <<owner, tables, mount, inner, cache, names, untold>>

DirNext ==
  \/ \E t \in Openers, fd \in Numbers :
       \/ \E d \in Dirs : open(t, fd, d)
       \/ \E g \in Numbers, traced \in BOOLEAN : dup(t, fd, g, traced)
       \/ translate_path(t, fd) \/ lookup_cached_host_dirfd(t, fd)
  \/ \E t \in Openers, S \in SUBSET Numbers :
       (S # {} /\ forget_proc_fd_paths_range(t, S)) \/ execve(t, S)
  \/ \E t \in Openers :
       \/ \E u \in Openers, shared \in BOOLEAN : inherits(t, u, shared)
       \/ remove_tracee(t)
       \/ \E m \in {Nil} \cup (Paths \X Paths) : Bind(t, m, inner)
       \/ \E I \in SUBSET {CHOOSE p \in Paths : TRUE} : Bind(t, mount, I)
  \/ \E d \in Dirs, p \in Paths : Rename(d, p)

DirSpec == DirInit /\ [][DirNext]_dirvars

-------------------------------------------------------------------------------
(* A kept guest name of the directory a descriptor has is the one the full translation   *)
(* would give now, unless another thread changed the bindings both share since.          *)
CacheAgrees ==
  \A t \in Opened, fd \in Numbers :
    Table(t)[fd] # Nil /\ Known(cache, t, fd) =>
      LET e == Entry(cache, t, fd) IN
      e.proc = at[Table(t)[fd]] /\ ~e.old => e.guest = detranslate_path(e.proc)

(* A name kept for a descriptor is the one its directory was opened by: no call that      *)
(* stops leaves a name behind for another use of the number, whatever was copied to a     *)
(* child, to a duplicate or over the oldest slot.                                    *)
NameOfFd ==
  \A t \in Opened, fd \in Numbers :
    Known(names, t, fd) /\ <<t, fd>> \notin untold => Entry(names, t, fd).dir = Table(t)[fd]

(* What is remembered of a descriptor is true of the directory it has now.                 *)
NamesAgree == CacheAgrees /\ NameOfFd
===============================================================================
