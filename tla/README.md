# A formal model of neoproot

neoproot runs Linux programs in a directory that plays the role of `/`, without
privileges. A *tracer* process watches its *guests* with `ptrace(2)`: it stops them at
system calls, rewrites arguments (above all paths) on the way in and results on the
way out, and makes up calls the kernel refuses or does not have. The alternative
backend boots an image with User-Mode Linux (UML) instead.

This directory holds TLA+ modules of the parts where order, concurrency and failure
decide whether that works, configurations that check them with TLC, and proofs of some
of the results for every value of the constants. Source paths are relative to the
repository (`src/src/...` in `PROJECT.json`, shortened below).

## Inventory

| Component | State | Operations | Talks to | What is hard | What makes it correct |
|---|---|---|---|---|---|
| Event loop and registry `tracee/event.c`, `tracee/tracee.c` | list of `Tracee`s; `exe`, `sigstop`, `running`, `terminated`; `root_exited`, `last_exit_status` | launch, `waitpid()` dispatch, `new_child`, restart, kill on exit, freeing | kernel (stops), every other component (events) | a fork is reported twice in either order; processes die between any two steps; SIGQUIT sweeps reports away | no guest runs unconfigured, none is forgotten in a stop, none survives `--kill-on-exit`, the loop ends |
| Pipe shadows `syscall/pipe_shadow.c` | table of read ends the tracer keeps open, a timer | keep at `close()`, reap at the top of the loop, wake the loop | event loop | a close overtakes a write; a shadow keeps a writer blocked | no write fails for the tracer's sake, no writer is blocked for ever |
| Threads and signal handlers same files, `syscall/seccomp_notify.c` | spin lock of the list, mutex of the events, atomic flags | list sections, event sections, killing, notifications | each other | handlers interrupt lock holders; structures freed outside the mutex | exclusion, no use after free, every notification answered |
| ptrace emulation `ptrace/*.c` | `as_ptracer`, `as_ptracee` of each tracee: counts, zombies, pending events, `waits_in` | TRACEME, ATTACH, CONT, SYSCALL, DETACH, `wait4`, death of either side | event loop, system call translation (`wait4`) | a wait and an event race; a ptracer or ptracee dies at any step | no event missed, waiters stay stopped, counts exact, no dangling pointers |
| System V IPC `extension/sysvipc/*.c` | queues, semaphore sets, segments, mappings; per guest the state of its wait | `msg*`, `sem*`, `shm*`, waits by way of `ppoll()`, wake-ups by SIGSTOP, the chain of calls of `shmat()`, the helper process | extension events, chained calls, event loop | wake-ups race with interruptions; objects vanish under waiters; the helper serves one guest at a time | nothing lost or applied twice, nobody sleeps whose condition holds, segments live while mapped |
| System call stages `syscall/syscall.c`, `chain.c`, `tracee/seccomp.c` | `status`, saved registers, chain of calls, suppressed signal | enter, exit, chained and restarted calls, SIGSYS | everything above | stops differ by kernel and filter; signals inside chains | stages alternate, registers restored, no signal lost |
| System call translation `syscall/enter.c`, `exit.c`, `socket.c`, `rlimit.c` | the table of mounts, faked sockets, names of descriptors | one case per call | path translation | state kept per number of a descriptor; covered mounts | the guest sees what it asked for |
| Heap `syscall/heap.c` | start, size of the heap | `brk()` by `mmap()`, `mremap()` | stages | two stops per call, shared by threads | the heap known is the heap mapped |
| Path translation `path/*.c` | list of bindings, caches | bind, translate, detranslate, canonicalise | all calls with paths | order of bindings, stale caches | result stays in the guest's tree; round trip |
| link2symlink | families of hidden files on disk | link, unlink, rename, exec | translation | steps at enter and exit, concurrent unlinks | count equals number of names, data is neither lost nor left over |
| fake_id0 | emulated credentials, modes of files | `set*id`, opening a file for its owner | translation | four ids of two kinds; overlapping calls | as the kernel's rules |
| netlink_route and other extensions | netlink_route: descriptors of faked sockets; the others little | rewrite arguments and results | translation | answers cut at buffers | every dump ends |
| User-mode backend `backend/*.c`, `um_session_loop.sh` | a session's directory, lock, socket; jobs; processes of a run | start, attach, relay, stop; supervise a kernel | command line | two starts race for one session; daemon or supervisor dies; files are the only protocol with the guest | one daemon per session, a command runs once, every client is answered, every run ends and leaves nothing |
| Temporary files, program execution, extension mechanism, command line, memory and registers, stat shim | see "Not modelled" | | | | |

`PROJECT.json` lists each with its sources and whether it is modelled, and under
"hazards" what is hard to test in this code, at its line, with the property meant for
it.

## Modules

| Module | Models | Composed in |
|---|---|---|
| `EventLoop` | `event_loop()`, `new_child()`, `kill_all_tracees()`, `free_terminated_tracees()` and the kernel's side | `MCEventLoop` |
| `PipeShadow` | `pipe_shadow.c` and the part of the loop that calls it | `MCEventLoop` |
| `EventLoopProofs` | theorems about these two | - |
| `TracerThreads`, `TracerThreadsProofs` | locks, sections, signal handlers, notification thread | - |
| `PtraceEmulation`, `PtraceEmulationProofs` | `ptrace/*.c` | `MCLinks`, `MCPtraceEmulation` |
| `IpcWait` | `sysvipc.c`: how a call is answered, waits, and is woken | extended by the next three |
| `IpcMsg` + `IpcMsgProofs`, `IpcSem`, `IpcShm` + `IpcShmProofs` | queues, semaphores, segments with the helper | `MCIpc`, `MCIpcMsg`, `MCLinks`, `MCIpcShm`, `MCChains` |
| `GuestCalls` | abstract: a call, the kernel calls that serve it, its result | refined by `SyscallStages` |
| `SyscallStages` | `translate_syscall()`, chains, SIGSYS, seccomp stops | `MCChains` |
| `Mounts` | `binding.c`, emulated mount, umount, pivot_root, unshare | `MCChains` |
| `DirFds` | `dirfd_cache` and `proc_fd_path_cache` | `MCGuest` |
| `Netlink` | faked and acknowledged netlink sockets | `MCGuest` |
| `FakeId`, `HostModes` | ids and modes of `fake_id0.c` | `MCGuest` |
| `LinkToSymlink` | `link2symlink.c` | `MCGuest` |
| `Heap` | `heap.c` | `MCGuest` |
| `GuestProofs` | theorems about FakeId, HostModes, LinkToSymlink, Heap, Netlink and DirFds | - |
| `UmJobs`, `UmJobsProofs` | clients, daemon, guest loop of a session | `MCUmJobs` |
| `UmSession` | start, stop, crash of a session's daemon | `MCUm` |
| `UmRun`, `UmProofs` | one run of a kernel and its watchdog; the proofs are also about UmSession and UmSetup | `MCUm` |
| `UmSetup` | what a run makes and removes on the host | `MCGuest` |

The MC modules give the constants their values. Where one of them holds several
components, these share no state: a variable `part` is chosen at the start and says
which component's `Next` the behaviour follows; the variables of the others stay at
their initial value (or at a smaller one). A property of one component is then stated
as `part = ... => ...`, or holds of the value the others rest at.

`MCEventLoop`, `MCIpc`, `MCLinks`, `MCUm` and `MCGuest` EXTEND the modules whose properties
are proved, so that the property of the run and that of the theorem are one definition,
and INSTANCE the rest. Modules that are extended together have no name in common, which
is why some call their parts after themselves (`PipeSpec`, `HeapNext`, `netvars`).

Operators with a second part in their name (`Deliver_KeepCut`) are plausible mistakes in
the operator of the first part; nothing uses them, and each is paired in `PROJECT.json`
("mutants") with a property that tells it from the original.

**EventLoop.** The kernel part keeps where a process is (`kstate`), why it stopped
(`kevent`) and whether `waitpid()` has told (`unreported`); the tracer part keeps the
list and four fields of each entry. One iteration is `Top` (free what ended), `WaitPid`
(get one report), then one handler. In between, the kernel may fork, stop, signal or
kill any guest.

**PipeShadow.** Guests hold ends of pipes; `HandleClose` keeps a shadow of a read end
that goes, `shadow_pipes_reap` drops shadows at the top of the loop, `Interval` and `Ages`
are time (the interval between reaps, the age of a shadow), `wakeup_event_loop` is the
SIGALRM. `polling` says that the notification thread is on and has no listener yet: then
the loop waits in `wait_for_tracee_or_notif()`, which EINTR does not end (`event.c:279`),
until a report comes or `maybe_recv_user_notif_listener`. A SIGALRM there, or between
`setitimer()` and `waitpid()`, is the step that sets `missed`.

**TracerThreads.** Every lock operation and the section it guards is a step of a *frame*:
a thread's code or the handler on top of it. A frame below a running handler is frozen
with its locks.

**PtraceEmulation.** The handlers of a ptracee's event, of the ptracer's `wait4`, of the
ptrace requests and of deaths call one another, so they are operators from a *world*
(kernel, tracees) to the next world; an action applies the composition the code makes.
`Scripts` is a set of arrangements that give every guest the calls it may make.

**IpcWait, IpcMsg, IpcSem, IpcShm.** `syscall_common` answers at once (through `getpid()`
or, on systems that report the call by SIGSYS, in the registers) or puts the guest in
`ppoll()`; `Woken` and `Signaled` are `sysvipc_wake_tracee()`; the rest is the entry and the
exit of `ppoll()`. A call is one action that ends in `syscall_common`. `Does`, `Requests`,
`Calls` and `FromSigsys` say which calls a guest makes and how the tracer gets to see
them. In `IpcShm` the chain `socket`, `connect`, `recvmsg`, `mmap` has a step per call,
`HelperDistribute` is the helper process, and `Unmap` is the destructor of a mapping. Only
-EPERM ends the chain when `mmap()` fails, since the code compares with -1
(`sysvipc_shm.c:351`); -EINVAL of an empty segment and -ENOMEM become the address of a
mapping (`Mmapped`), which later calls see in the list like any other.

**SyscallStages, GuestCalls.** One guest between the instruction of a call and its return.
`kernel` says which of the kernels it runs on: seccomp events before or after the enter
stop, filter loaded or not, whether a tracer may change the number of a call, whether a
refused call is followed by an exit stop (`quiet`), whether a filter of the environment
also refuses the number -1 (`strict`), so that a SIGSYS comes for a call the tracer voided
itself and is thrown away (`event.c:871`). `Calls` are kinds of calls, one per way the
tracer treats them: left alone, with a path argument, replaced, voided, chained,
restarted, refused by the host's filter. `Implements` instantiates `GuestCalls` with what
the kernel has been made to do (`done`) and what the guest gets (`out`): each call makes
the planned kernel calls, once each and in order, and returns the promised result.

**Mounts.** The table of bindings as the code keeps it: two orders of the same bindings
(by guest and by host path), each with what it covers (`under`). `stack` is what a list
of mounts at each place would be, `did` the last call with what was seen before.

**DirFds.** Per thread and descriptor, in a ring of slots, what the tracer remembers of
an open directory, against descriptor tables that threads share, `dup()` without a stop,
renamed directories and changing mounts.

**Netlink.** Per thread, the numbers of sockets that are faked (the host denies
NETLINK_ROUTE) or real; answers are sequences of kinds of messages; `ack` remembers the
one request to be acknowledged in the kernel's place. `Duplicate` is every call by which a
number comes to name what another does.

**FakeId.** Beside each emulated `set*id` call stands the kernel's, in the same terms; the
property compares them, for every call of the guest's program (`Makes`). `host` is who
runs the tracer, root or not. The kernel's rules are external to the repository.

**HostModes.** `override_permissions()` opens a file for its owner while a call of the
guest's superuser is under way; `restore_mode` closes it when the memory of the
tracee's event is freed.

**LinkToSymlink.** A family of hidden files per file with several names: `vis` (what a
name is), `inter` (the intermediate link), `data`. What the tracer does at the entry of a
call and what the kernel does later are separate steps. `truth` is what each name would
be with hard links.

**Heap.** `brk()` at its two stops, with the mapping (`len`), pages of others, threads
that share the heap, fork and exec.

**UmJobs.** The daemon's poll loop, the shell loop in the guest (`um_session_loop.sh`) and
the clients; the queue directory, claims by rename, `pid`, `kill`, `status` and output
files are the only thing the two loops share. Times are nondeterministic: a time limit
may be over whenever its condition is met. A client may be stopped and go on again
(`Halt`, `Resume`); the daemon's reads from and writes to it block. The guest may die, the
supervisor then removes the channel, and the daemon, whose child it is, does not notice:
`kill(pid, 0)` finds a zombie (`um_session.c:1450`, `:1780`).

**UmSession.** `um_session_command_start`, the daemon's preparation, pid, meta and socket
files, eviction and clean-up, with SIGKILL of a daemon at any step. `um_session_lock()` is
two steps, `open()` and `flock()`, and the file may be unlinked in between. Lock files have
numbers, so that a daemon may hold the lock of a file that no longer has a name. The
supervisor is forked with the locked descriptor, so the lock goes with the last of the
two.

**UmRun.** `um_run_kernel()`: handshake and process groups, relaying of output up to a
limit, forwarded signal, deadline, escalation, draining, the watchdog with its pipe, the
closing of the terminal, and SIGKILL of the supervisor.

**UmSetup.** Every step of making bind targets, the runtime and session directories and
their files may fail; runs share one root, and a path is made only in a directory that is
still there, because another run may have removed it meanwhile. The numbers of arguments of the kernel and
of umnet are counted against the arrays they go into.

## Runs

Runs that must pass:

| Run | Question | Bounds and why they are enough |
|---|---|---|
| `event` | Is every guest configured before it runs, remembered while it is stopped and killed at the end? Is every stopped guest restarted, and does the loop end? Do writes reach pipes whose reader closed early, and are writers freed? | three processes: a parent, a child, and one that dies or stops meanwhile; one signal and one SIGQUIT at any point. Two guests, two pipes, two slots for three read ends, so that the table can be full when the last one closes; with the notification thread and without |
| `threads` | Do the locks exclude, is everybody killed at exit, is every notification answered and does the loop return? | two tracees, one signal that may arrive on either thread between any two steps, one notification |
| `links` | Does an emulated ptracer get every event of its ptracees, whichever way the two meet and end? Do segments live as long as they are mapped, and is the helper handed on? | a parent with two children, one signal, anybody may be killed: either both children ask to be traced and the parent waits and continues them, or one attaches to its sibling, waits, continues and detaches, or the parent traces or waits for one that traces and waits for the other, so that a ptracer waits for one that waits itself. Two processes, two mappings, one slot that is reused, an empty segment and one of a page, a failing call or a death (one of the two in a behaviour) |
| `ipc` | Are messages neither lost nor duplicated, operations on semaphores atomic, and waiters found? | three guests: one makes, fills and removes the object, two wait in different ways, one of them on the path without SIGSYS. Two messages of two lengths around a buffer of the smaller size; semaphores up to 1, so that both limits are met; one interruption, one death, one removal |
| `chains` | Does a call of the guest make the kernel do what was planned, once, and return? Does every `shmat()` return? Do mounts show what Linux would show? | twelve kinds of calls on every kind of kernel, two signals, which is one more than the tracer can hold back. Two guests that want the helper at once. Three starting tables, three calls: enough to cover a cover, move the root and undo it |
| `jobs` | Does a command run once, does its client get its result, is everybody answered? | two clients: one with a time limit or refused and one that ends, or one that never ends and one that stops the session; one fault (a client is signalled, stopped or killed, a request not written) and the death of the guest at any step |
| `um` | Is a session served by one daemon, and a daemon that lost it evicted? Does a run end and tell the truth? | two starts, a stop and a crash, which is enough for one to lock an unlinked file, though not for two to serve then; a run with two pieces of output, of which one is over the limit, two signals, a deadline, a dead supervisor |
| `guest` | Does what is kept of ids, links, descriptors, sockets, modes, the heap and a run's files stay true? | three ids and a tracer run by root or by another; three names, two tracees and one suffix; two threads, two descriptors, two directories and slots; a table of one faked socket; two files and three calls; a heap of three pages and five calls; two runs with overlapping bind targets |

Runs that end in a violation each show a place where the code does something else than
a comment of its own says; "findings" in `PROJECT.json` quotes the line.

| Run | What it shows |
|---|---|
| `threads_stuck` | a handler spins on the lock of the code it interrupted |
| `ptrace_waitpid` | `PTRACE_TRACEME` takes over the parent's wait for another child, which then never returns |
| `msg_stale` | the identifier of a removed queue is accepted for its successor |
| `shm_swap` | two guests that start a `shmat()` together get each other's descriptor |

The configuration of `guest` declares the names and the tracees of its parts symmetric.
It checks no liveness, and its one action property, `NoRegain`, speaks of ids only, which
have no symmetric values. `Spent` in `MCGuest` stops following behaviours of
LinkToSymlink in which both files have already met an excepted case: the property says
nothing of them any more.

Deadlock is not checked in `threads` (a handler really can spin for ever), in `jobs` and `um`
(a session may be at rest, a run ends), in `guest` (calls are bounded) and in the runs of
IPC (all guests may really sleep, each in `msgrcv()` on an empty queue). `event`,
`links` and `chains` check it, for the components that must not stop: EventLoop and
PtraceEmulation end in an explicit final step, a guest of SyscallStages always has a next
step, and the other parts of these three runs have a disjunct that lets them rest.

### Cases the code leaves open

Some properties hold only outside a case the code does not handle. The case is recorded
by a variable that properties read and guards do not, so that everything around it is
checked, and is listed under "hazards":

* EventLoop `lostFork`, `earlyDeath`: the parent is killed before its FORK event is
  handled, or the child is; a SIGQUIT's sweep takes reports away, among them those two.
  `NoEscape`: a child that was born a moment ago and has nothing to report escapes the
  sweep at the end.
* PipeShadow `missed`: SIGALRM between `setitimer()` and `waitpid()`, or while the loop
  waits for the listener of the notification thread (`event.c:262`), wakes nobody until
  the next event. `lost`: no slot was left, or the reader ended without a `close()`.
* PtraceEmulation `crashed`: when a ptracer is killed, the event it was about to be told
  of is handled a second time, or its ptracee stays stopped with no ptracer.
* IpcMsg `left` and a killed receiver: `sysvipc_msgsnd()` wakes one receiver for each
  message and no other (`sysvipc_msg.c:167`). `wokenFor` says who was woken for which; if
  he comes and leaves the message, because another one is before it or his buffer has the
  wrong size, or is killed, a second guest that would take it sleeps on. A receiver that
  was woken before its queue is removed meets `assert(q->valid)` (`:200`), where the model
  stops.
* IpcSem `passed`: `sysvipc_semop()` looks for waiters in one pass, so it does not come
  back to one that a later waiter's operations made able to go on, and SETVAL does not
  look at all.
* IpcShm: only the end of a chain wakes those who wait for the helper, so a guest killed
  in its chain leaves them asleep; a `shmat()` interrupted while it waits for the helper
  leaves its mapping in the list. A mapping that `mmap()` refused, but for -EPERM, is
  listed with the errno for an address; `SegmentsSound` says of such a one what it says of
  the others, not that there is memory behind it. The properties are checked for processes with one
  thread, since a mapping list is shared by the threads of a process.
* SyscallStages `crowded`: a second signal in one chain overwrites the first
  (`event.c:890`). `undone`: the registers that a refused void sets back, with no exit stop
  after it, are what the guest is answered with. PTRACE_TRACEME is not called on kernels
  that are both `strict` and `quiet`, where its answer, made at the exit stage, would come
  with the next call.
* Mounts `thin`: `copy_binding()` does not copy what a binding covers. The old root's
  mounts stay visible on top after a `pivot_root()`, and the property leaves them out.
* DirFds `untold` (a number closed without a stop the thread sees) and `old` (an entry
  made before a mount by a thread that shares the table; only the mounting thread's
  entries are cleared).
* Netlink `loose`: `close_range()`, exec and other threads close a descriptor the table
  keeps; `dup2()` and `dup3()` put another file at its number, and `dup()` and F_DUPFD a
  socket at a number that is not entered (`exit.c:553`); the ninth socket is not entered;
  `ack` has room for one request, and is for answers read at the number it was sent by.
* FakeId: `setuid(-1)`, `setuid()` to the effective id or the host's, `setreuid(e, s)`,
  the saved and file system ids of an exec, and `AT_EUID` of a set-id program differ
  from the kernel's rules (`Fields` and the operators next to it). Under a tracer that is
  run by root, `setuid(0)` and `setgid(0)` are granted to whoever gave 0 up (`HostRoot`).
* HostModes `wronged`: a rename leaves the file open; overlapping calls of two tracees;
  `fchmodat2()`.
* Heap `raced`: two threads in `brk()` at once.
* LinkToSymlink `misled`: the count is lowered at the entry of calls that then fail
  (`link2symlink.c:1589`); two tracees unlink one name; suffixes are used up; `rename()` of
  one name of a file to another does nothing to hard links, and drops a name here.
* UmJobs `misses`: a kill published before the guest has the pid of the command.
  `reused`: a failed queue write sets the id back. `Held`: a claimed command that neither
  ends nor has a limit, or has no limit and its guest died, and a client that is stopped
  while the daemon reads its request or writes to it, keep everybody waiting.
* UmSession `astray`: a daemon opened the lock, another that was leaving unlinked it, and
  the first locks what it opened. A third start then makes a new directory and lock, and
  both serve; TLC finds it with three starts, which are too many for a run that explores
  all their interleavings, and the theorem is about any number.
* UmSetup `lost`: a full table of created paths forgets one; a channel directory that
  cannot be made leaves the session's directory.
* `LoopReturns` and `NotifAnswered`: except when a handler spins as in `threads_stuck`.

Further disagreements between the code and its comments that were met and have no run:
the path of `syscall.c:198` saves the original registers after voiding the call (comment
at :276), and accelerated calls leave translated argument registers (only the stack
pointer is repaired, :342); BUSY is never sent though `um_session.c:1090` says so; an id
is used again after a failed write (:1497) against "The id is not reused either" (:1258);
a losing start writes its pid into a live session (:981), whose watchdog then leaves,
against "a live one is never touched" (:894); `enter.c:2318` says that descriptors of
faked sockets are forgotten when they are closed, which `close_range()` and `dup2()` do not
do; the comment of `event.c:525` has shadows released in time without events of tracees,
which the wait loop of `event.c:262` does not do; that the lock is "released by the kernel
when the daemon dies" (`um_session.c:188`) is not so while its supervisor lives, which has
the same open file; a dead supervisor is looked for with `kill(pid, 0)` (`um_session.c:1450`,
`:1780`), which finds a zombie; a signal
that arrives while the supervisor installs its handlers is forgotten;
"any blocked writer implies full" (`pipe_shadow.c:136`) is not true of partly filled
buffers, where the age limit takes over.

### Bounds

`MaxSignals`, `MaxQuit`, `MaxSig`, `MaxNotif`, `MaxFaults`, `MaxCrash` (events from outside),
`left` of each script, `MaxCalls`, `MaxModeCalls`, `MaxBrk` and `MaxNet` (calls), `MaxIntr`,
`MaxDeath`, `MaxFail` (interruptions, kills, failing calls), `MaxSend`, `MaxRmid`,
`MaxSerial`, `MaxFiles`, `MaxLinks` (messages, removals, segments, files, interfaces),
`MaxQueue`, `MaxShm`, `MaxAddr`, `MaxPages`, `MaxOut` (slots, pages, pieces of output). They stop the
environment; when they are used up the tracer still reacts to what is under way.
Constants named as in the code or commented with its name (`MAX_KILL_BATCH`, `MaxBatch`,
`MaxVal`, `MaxNsems`, `MaxSets`, `MaxSize`, `MaxSuffix`, `MaxCount`, `MaxFds`, `MaxCreated`,
`OutLimit`, `Slots`) are limits of the code scaled down.

## Fairness

* EventLoop: weak fairness of the loop, which is the only thing its thread does, and of
  the delivery of an attach SIGSTOP, which the kernel owes. No guest is obliged to act.
* PipeShadow: weak fairness of the loop, of time and of the timer, and of the kernel
  letting a writer go on once nothing holds it. No guest is obliged to write or read.
* TracerThreads: weak fairness of what a thread does once it has an event, strong
  fairness of taking a lock: `pthread_mutex_lock()` and the spin on an atomic flag give
  a thread that finds the lock free again and again a turn. A handler on top of a lock
  holder makes both liveness properties false (`threads_stuck`), so they admit that
  outcome, `HandlerSpins`, and nothing else.
* IpcShm: weak fairness, for each guest, of what the kernel and the loop owe it, and of
  the helper process. Signals, timeouts and deaths may never come. `ShmatReturns` is
  checked for two guests; with three, `sysvipc_shm_wake_pending_shmat()` may prefer the
  same one for ever, since it takes the first of the list.
* SyscallStages: a guest in a call gets on (the kernel goes on with a guest that was
  restarted, and the loop handles every stop). The guest makes calls when it likes.
* UmJobs: weak fairness of the daemon's and of the guest's loop; strong fairness of what
  depends on a time limit or on another's step that comes and goes between polls
  (`JobTimeout`, `JobGivenUp`, `Ends`, `Terminate`): both loops poll for ever. A command
  without a limit that does not end is not obliged to, and a stopped client is not obliged
  to go on: while the daemon is blocked on it none of its steps is enabled.
* UmSession: weak fairness of each daemon and each start command. Crashes, stops and the
  supervisor's end may never come. Clients are not part of it: that one of them may keep
  the daemon from its loop is in UmJobs.
* UmRun: weak fairness of the supervisor, of its time limits, of the watchdog, and of the
  kernel delivering SIGKILL and reaping orphans. The guest's command need not end.
* The other modules assume none: what they are asked is safety.

## Proofs

The theorems hold for every value of the constants that the named assumptions of the
modules admit; each says no more than that the constants have their types, unless it is
explained below. The argument is the same everywhere: an inductive invariant, a lemma for
each action, and the property as a consequence. Hardly any property is
inductive as it stands; what had to be added is said for each:

* `EventLoopProofs`, the loop: `EveryGuestReleased` and its two halves, `NothingEscapes`,
  `RegistryStaysTrue`. `NothingEscapes` also has the hypothesis that all processes fit one
  kill batch (`MAX_KILL_BATCH`, 512 in the code), since `kill_all_tracees()` forgets those
  beyond it. That a child runs only when configured depends on which of its two reports
  is outstanding, so `IInv` ties together, for each process, the kernel's state, the
  list, `sigstop` and the FORK event that names it.
* `EventLoopProofs`, the pipes: `EveryWriteReaches`, for any number of guests and pipes and
  any size of the table. `HeldOpen` says of a pipe that was written to and not read that
  it has a shadow, or a reader with an end that no closing in progress concerns, or was
  given up (`lost`). `PipeShadowAssumption` says that each pipe has a guest that may hold
  its read end.
* `TracerThreadsProofs`: `LocksExclude` and `ExitKillsAll` for any number of tracees,
  signals and notifications. The strengthening says that who is in a section holds its
  lock, and that `evt` is a tracee wherever it is used as one.
* `PtraceEmulationProofs`: `LinksStaySound`, that ptracers point to listed guests, that
  their counts are those of their ptracees and that zombies are freed, for any number of
  processes that fit a batch (`BatchFits`; `MAX_BATCH_TRACEES` and `MAX_FREE_BATCH`, 256 in
  the code). Handlers call one another, so the proof follows the worlds they pass on:
  one lemma per operator says what it keeps (`Sound`) and which links it touches. Three
  parts are needed beside the property: who is not listed has ended, in the kernel too
  (`Ended`), nobody traces itself (`NotItself`), and a zombie is no longer listed
  (`ZombiesFreed`).
* `PtraceEmulationProofs`: `WaitsStaySound`, under the same hypothesis, that no ptracer is
  left waiting for an event that is there, that who waits is stopped, and, while nobody
  was killed, that stages keep in step and who is stopped can be restarted. The handlers
  break this in between: the process whose event is handled, and the waiter that is
  woken, are for a while neither waiting nor running. `Steady(w, H)` says what a world has
  to be while the processes `H` are in the hands of the loop; a handler takes one in hand
  (`Take`), leads from steady world to steady world and lets it go (`Release`), and
  between two steps `H` is empty. Its parts: who does not run is stopped or was killed
  (`Halted`), so is who waits (`WaiterHeld`), a waiter was told of every event of those it
  waits for (`HeardBy`), and while nobody was killed each process is in the stage that its
  status says (`Phased`). The exceptions of `HeardBy` (`Excused`) are a ptracee that was just
  killed, whose end will be told, and one that waits itself with the mark of an earlier
  event, which it was continued without a wait for.
* `IpcMsgProofs`: `WaitersAgreeHolds`, `MessagesDelivered`, `ReceiversAreServed`, for any
  number of guests, queues and messages. The first needs the shape of the configurations
  and that a call of one guest does to the others at most what `sysvipc_wake_tracee()`
  does (`SendTouches`, `RemoveTouches`, `CommonKeeps`). The others need `GuestsOK` (in which
  place of a wait the kernel and the tracer may have a guest), `QueuesOK` (a message that
  is in a queue is there once and was neither taken nor dropped), `Expected` (a message
  somebody sleeps for has its receiver on the way) and `QueueThere`.
* `IpcShmProofs`: `SegmentsStaySound`, for any number of processes, segments and mappings.
  For every guest the invariant says where it may be in its call (`Placed`), that the
  mapping it asked for is in the list of its process until the call is over (`Asked`), and
  that no other is half mapped unless an interrupted wait left it (`Owned`). What the
  helper was asked for or sent is a segment's (`Descriptors`), a removed segment is one
  somebody has (`Removed`), and while nobody was killed whoever waits has somebody before
  it in the chain (`Handed`): each step of a chain leaves the others alone (`Left`), and
  its end wakes the first that waits (`Roused`). The hypothesis `SingleThreaded` is needed:
  a mapping that is not done has address 0 and is in the list of the whole process, so
  `shmdt(0)` or the start of an `execve()` in another thread takes it from the chain
  (TLC shows both with two threads). The run has one thread per process for the same
  reason.
* `UmProofs`, sessions: `OneServerAlways`, for any number of starts, stops and crashes. That
  two daemons do not serve at once does not follow from the lock alone, since each may
  may have locked a file of its own; `SessionInv` says that until one is `astray` a daemon
  past the lock holds the very file the directory names (`HoldsIt`), that a new file is
  nobody's (`Fresh`), what `flock()` gives (`Exclusive`), and that a daemon locks what it
  has opened (`Turns`).
* `UmProofs`, runs: `RunsAreSound`, for any output and any number of signals. A status is
  explained by why the child is dead and what ended the loop (`CausesKnown`) and made of
  things that no longer change (`ResultStays`), and a group that the last look found gone
  stays so (`GoneForGood`), which depends on when the group pipe ends (`MarkerTold`).
* `UmProofs`, setups: `SetupsAreSound`, for any number of runs, any root and any bind targets.
  What a run has of its own follows from how far it is (`HaveKnown`). That it undoes all it
  made in the root needs the order: nothing is where there is no directory
  (`ParentsThere`), and what a run made is recorded, each path before those in it
  (`OwnRecorded`), so undoing from the end meets an occupied directory only if another
  run, or something that itself had to stay, is in it. `SetupAssumption`: the root's paths
  come with all their parents, and a command line has at most three IPv6 values.
* `UmJobsProofs`: `CommandsOnceAndRight`, for any number of clients and faults. A client is
  in one place on its way through the backlog, the queue, the guest and its answer
  (`OnePlace`), one command at a time belongs to the guest's loop (`OneCommand`), and while
  no id was used again the files of a job speak of one client (`JobsDir`, `DirsTrue`,
  `GuestsDir`), which the removal of them all keeps (`SweptKeeps`). `UmJobsAssumption` keeps clients apart from the values a status can have.
* `GuestProofs`, ids: `NothingRegained` and `IdsAsInKernel`, for every set of ids and
  whoever runs the tracer. One lemma per call: it does no harm (`Harmless`), or is the
  one that a host id of 0 grants (`ByRoot`).
* `GuestProofs`, heap: `HeapStaysTrue`, for any size and any number of threads. As long as
  no two threads were in `brk()` at once (`raced`), at most one has a call under way and
  the call it was given fits the heap as it is now (`OneBrk`).
* `GuestProofs`, sockets: `SocketsAnswered`, for any threads, descriptors and answers. In
  three layers: a thread's tables name the sockets open at their numbers (`TableInv`,
  which is why two threads never share a faked one unawares); the answers in a socket's
  queue belong to requests of threads that know it (`AcksOwn`, `AcksKept`), sent by the
  number they are read at unless that is loose; what is left of
  an answer still ends as the whole did (`RepliesInv`).
* `GuestProofs`, modes: `ModesAreKept`, for any tracees, names and files. While the nodes
  of a tracee speak of a name, no other tracee has to do with it, and they hold the mode
  the guest gave it last, or the one a `chmod()` under way will give (`InHand`); a file
  nobody has to do with has its mode on the host (`TrueOf`). Each of the excepted cases
  (`wronged`) is a step from a state in which this holds to one in which it does not.
* `GuestProofs`, links: `LinksStayTrue`, for any names, tracees and limits. A count is
  lowered when a call enters and the name goes later, so the count of a file's data is that
  of its names less that of the calls under way that were counted (`InData`). A file with
  a name of its own has no other name and no such call (`InName`), and a file that is
  nowhere has at most the names that such calls remove (`Nowhere`), so no name is left
  without its data. This holds of every file that met none of the excepted cases
  (`misled`), each of which names the files it concerns.
* `GuestProofs`, descriptors: `NamesStayTrue`, for any threads, descriptors and directories
  and any size of the two rings. Which slot an entry is in does not matter, only what is
  said by the entries there are: each is true of its descriptor as it is now
  (`TrueEntries`, `TrueNames`), so an entry found for a descriptor is. Put into a ring, an
  entry replaces all others of its descriptor (`PutSlots`), and the oldest if there is
  none, so what was true of the rest stays true. A child inherits in a loop that reads the
  ring while it writes to it, a recursive function: that the loop ends with a ring of true
  entries is shown for its first step that would not (`Least`, `FoldKeeps`), and that the
  function is there at all for the first value it would not have (`FoldExists`).
  `DirAssumption` says that a ring has a slot.

Only model-checked:

* liveness and everything that needs ENABLED;
* the refinement of GuestCalls by SyscallStages, and `ReturnsClean` with it;
* in IpcSem the operations of one `semop()` and the pass over its waiters (`ValuesRight`,
  `PostersServed`), recursive functions whose results would have to be characterised one
  by one;
* Mounts, which inserts into lists with RECURSIVE operators and folds (`MountsSound`,
  `MountsMove`).

## Not modelled

* Program execution (`execve/*.c`, `loader/`): ELF parsing, the load script and the loader
  are data layout and machine code between two stops of one tracee. What an exec does
  to the state of others is in EventLoop, IpcShm, Heap, FakeId and Netlink.
* The rest of path translation: canonicalisation, `/proc`, glue directories. Each is a
  walk by one tracee over a file system that is given; a test reaches it.
* System calls that rewrite an argument or a result and keep nothing (most of
  `enter.c`, `exit.c`), and the extensions that do only that.
* Temporary files, the lists of the extension mechanism, options and messages, register
  and memory access, building of the seccomp filter, data copied out by `IPC_STAT` and
  the like, owners shown by stat(), file formats of the user-mode backend, the stat shim
  and the test programs.
* Allocation failures of the tracer itself and the reuse of pids, everywhere.
