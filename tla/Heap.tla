------------------------------------ MODULE Heap ------------------------------------
(* brk() of the guest (heap.c): the program break of the tracee belongs to the loader,  *)
(* so the tracer keeps a heap of its own, a mapping that mremap() makes longer and       *)
(* shorter. The size the tracer knows is read when a call enters and written when it     *)
(* leaves; the threads of a process share it. Sizes are in pages above the base.         *)
EXTENDS Naturals, FiniteSets

CONSTANTS Threads, MaxPages,
          MaxBrk   \* bound: calls of the guest

ASSUME HeapAssumption == MaxPages \in Nat

VARIABLES
  heap,     \* tracee->heap: has it a base, its size, is the emulation off
  len,      \* the length of the mapping
  other,    \* pages above the base that mmap() gave to something else
  brk_call, \* thread -> the call the tracer put in the place of brk()
  brks,
  raced,    \* ghost: a brk() entered while another thread's was under way
  robbed    \* ghost: a brk() unmapped a page that is not the heap's

heapvars == <<heap, len, other, brk_call, brks, raced, robbed>>

NoBrk == [op |-> "none", old |-> 0, new |-> 0, result |-> "none"]

HeapInit ==
  /\ heap = [based |-> FALSE, size |-> 0, disabled |-> FALSE] /\ len = 0 /\ other = {}
  /\ brk_call = [t \in Threads |-> NoBrk] /\ brks = 0 /\ raced = FALSE /\ robbed = FALSE

Enters(t, op, old, new) ==
  brk_call' = [brk_call EXCEPT ![t] = [op |-> op, old |-> old, new |-> new, result |-> "none"]]

(* A call that asks gives an address below the base, as brk(0) does.                      *)
translate_brk_enter(t) ==
  \E asks \in BOOLEAN, new \in 0..MaxPages :
    /\ brk_call[t].op = "none" /\ brks < MaxBrk /\ ~heap.disabled
    /\ \/ ~heap.based /\ asks /\ Enters(t, "mmap", 0, 0)
       \/ ~heap.based /\ ~asks /\ Enters(t, "brk", 0, new)
       \/ heap.based /\ asks /\ Enters(t, "void", 0, 0)
       \/ heap.based /\ ~asks /\ Enters(t, "mremap", heap.size, new)
    /\ raced' = (raced \/ \E u \in Threads \ {t} : brk_call[u].op # "none")
    /\ brks' = brks + 1 /\ UNCHANGED <<heap, len, other, robbed>>

Returns(t, r) == brk_call' = [brk_call EXCEPT ![t].result = r]

(* mremap() without MREMAP_MAYMOVE: a shorter mapping is an munmap() of what is beyond    *)
(* it; a longer one needs the old length to be the mapping's, and room.                  *)
Mremap(t, old, new) ==
  \/ /\ new <= old /\ Returns(t, "ok")
     /\ len' = IF new = old \/ len < new THEN len ELSE new
     /\ other' = (other \ ((new + 1)..old)) \cup (IF new < old THEN (old + 1)..len ELSE {})
     /\ robbed' = (robbed \/ other \cap ((new + 1)..old) # {})
     /\ UNCHANGED heap
  \/ /\ new > old /\ old = len /\ other \cap ((old + 1)..new) = {}
     /\ Returns(t, "ok") /\ len' = new /\ UNCHANGED <<heap, other, robbed>>
  \/ /\ new > old /\ ~(old = len /\ other \cap ((old + 1)..new) = {})
     /\ Returns(t, "error") /\ UNCHANGED <<heap, len, other, robbed>>

BrkInKernel(t) ==
  /\ brk_call[t].op # "none" /\ brk_call[t].result = "none"
  /\ \/ brk_call[t].op = "mremap" /\ Mremap(t, brk_call[t].old, brk_call[t].new)
     \/ brk_call[t].op = "void" /\ Returns(t, "ok") /\ UNCHANGED <<heap, len, other, robbed>>
     \/ /\ brk_call[t].op \in {"mmap", "brk"}
        /\ \E r \in {"ok", "error"} : Returns(t, r)
        /\ UNCHANGED <<heap, len, other, robbed>>
  /\ UNCHANGED <<brks, raced>>

translate_brk_exit_Trusts(t) ==
  LET c == brk_call[t] IN
  /\ c.result # "none" /\ brk_call' = [brk_call EXCEPT ![t] = NoBrk]
  /\ heap' = CASE c.op = "mmap" /\ c.result = "ok" -> [heap EXCEPT !.based = TRUE, !.size = 0]
               [] c.op = "mremap" -> [heap EXCEPT !.size = c.new]
               [] c.op = "brk" /\ c.result = "ok" -> [heap EXCEPT !.disabled = TRUE]
               [] OTHER -> heap
  /\ UNCHANGED <<len, other, brks, raced, robbed>>

(* The size is the one the call asked for, if the kernel granted it; once another thread   *)
(* has found the kernel's brk() at work, nothing is noted any more.                       *)
translate_brk_exit(t) ==
  LET c == brk_call[t] IN
  /\ c.result # "none" /\ brk_call' = [brk_call EXCEPT ![t] = NoBrk]
  /\ heap' = IF heap.disabled THEN heap ELSE
             CASE c.op = "mmap" /\ c.result = "ok" -> [heap EXCEPT !.based = TRUE, !.size = 0]
               [] c.op = "mremap" /\ c.result = "ok" -> [heap EXCEPT !.size = c.new]
               [] c.op = "brk" /\ c.result = "ok" -> [heap EXCEPT !.disabled = TRUE]
               [] OTHER -> heap
  /\ UNCHANGED <<len, other, brks, raced, robbed>>

(* mmap() of another thread, or of this one between two calls.                            *)
Mmap ==
  /\ heap.based /\ brks < MaxBrk /\ brks' = brks + 1
  /\ \E p \in (len + 1)..MaxPages : p \notin other /\ other' = other \cup {p}
  /\ UNCHANGED <<heap, len, brk_call, raced, robbed>>

(* fork(), and the model goes on with the child: a copy of the heap structure             *)
(* and of the memory, and one thread.                                                     *)
inherit_heap(t) ==
  /\ brk_call[t].op = "none" /\ brks < MaxBrk /\ brks' = brks + 1
  /\ raced' = (raced \/ \E u \in Threads : brk_call[u].op # "none")
  /\ brk_call' = [u \in Threads |-> NoBrk]
  /\ UNCHANGED <<heap, len, other, robbed>>

(* A successful execve(): a heap of its own, and an address space without one.            *)
translate_execve_exit(t) ==
  /\ brk_call[t].op = "none" /\ brks < MaxBrk /\ brks' = brks + 1
  /\ heap' = [based |-> FALSE, size |-> 0, disabled |-> FALSE] /\ len' = 0 /\ other' = {}
  /\ brk_call' = [u \in Threads |-> NoBrk] /\ raced' = FALSE /\ robbed' = FALSE

HeapNext ==
  \/ \E t \in Threads : \/ translate_brk_enter(t) \/ BrkInKernel(t) \/ translate_brk_exit(t)
                        \/ inherit_heap(t) \/ translate_execve_exit(t)
  \/ Mmap

HeapSpec == HeapInit /\ [][HeapNext]_heapvars

------------------------------------------------------------------------------------
(* The heap the tracer knows is the one that is mapped, and no brk() takes away memory    *)
(* that is not the heap's, unless two threads of the guest were in brk() at once: the     *)
(* kernel's brk() is atomic, this one reads the size at one stop and writes it at          *)
(* another (heap.c:78-90 and :123-131).                                                   *)
HeapTrue ==
  raced \/ /\ ~robbed
           /\ (\A t \in Threads : brk_call[t].op = "none") => heap.size = len
====================================================================================
