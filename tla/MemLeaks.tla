------------------------------- MODULE MemLeaks -------------------------------
(***************************************************************************)
(* check_mem_leaks/mem_leaks.c: malloc, calloc, realloc and free of a      *)
(* program record the blocks that are not freed, in a table by address.    *)
(*                                                                         *)
(* Each access to the table is under hash->lock and one action; the calls  *)
(* of the C library are actions of their own, so that an address may be    *)
(* given to another thread in between.  backtrace_symbols calls malloc     *)
(* again, which pids[] lets through unrecorded; it is not modelled.        *)
(* Allocations succeed and have a size.                                    *)
(***************************************************************************)
EXTENDS Naturals

CONSTANTS Workers,   \* threads
          Blocks     \* addresses

NoBlock == "no block"

VARIABLES
  mem_check,
  heap,      \* of an address: "free", "plain" (allocated unrecorded), "checked"
  infos,     \* entries of the table with an address
  at,        \* of a thread: what is left of its call, a sequence of steps on addresses
  gaps       \* some block was allocated while the check was off

vars == <<mem_check, heap, infos, at, gaps>>

Idle == [del |-> NoBlock, add |-> NoBlock, free |-> NoBlock]

Init ==
  /\ mem_check = FALSE /\ gaps = FALSE
  /\ heap = [a \in Blocks |-> "free"] /\ infos = [a \in Blocks |-> 0]
  /\ at = [t \in Workers |-> Idle]

Held(a) == \E t \in Workers : a \in {at[t].add, at[t].free}

\* mem_leaks_start, mem_leaks_stop
Command ==
  /\ mem_check' = ~mem_check
  /\ UNCHANGED <<heap, infos, at, gaps>>

\* The table, under its lock
HashAdd(a) == [infos EXCEPT ![a] = @ + 1]
HashDel(a) == [infos EXCEPT ![a] = IF @ > 0 THEN @ - 1 ELSE 0]

\* malloc: the block, ...
Malloc(t, a) ==
  /\ at[t] = Idle /\ heap[a] = "free"
  /\ heap' = [heap EXCEPT ![a] = IF mem_check THEN "checked" ELSE "plain"]
  /\ at' = [at EXCEPT ![t].add = IF mem_check THEN a ELSE NoBlock]
  /\ gaps' = (gaps \/ ~mem_check)
  /\ UNCHANGED <<mem_check, infos>>

Calloc(t, a) == Malloc(t, a)

\* The entry that realloc removes: that of the old address
Deleted(a) == a

\* realloc: the block stays or moves, ...
Realloc(t, a, b) ==
  /\ at[t] = Idle /\ heap[a] # "free" /\ ~Held(a)
  /\ b = a \/ heap[b] = "free"
  /\ heap' = [heap EXCEPT ![a] = "free", ![b] = IF mem_check THEN "checked" ELSE "plain"]
  /\ at' = [at EXCEPT ![t] = [del |-> Deleted(a), add |-> IF mem_check THEN b ELSE NoBlock,
                              free |-> NoBlock]]
  /\ gaps' = (gaps \/ ~mem_check)
  /\ UNCHANGED <<mem_check, infos>>

\* free: the entry first, then the block
Free(t, a) ==
  /\ at[t] = Idle /\ heap[a] # "free" /\ ~Held(a)
  /\ at' = [at EXCEPT ![t] = [del |-> a, add |-> NoBlock, free |-> a]]
  /\ UNCHANGED <<mem_check, heap, infos, gaps>>

\* ... then mem_alloc_info_del, ...
InfoDel(t) ==
  /\ at[t].del # NoBlock
  /\ infos' = HashDel(at[t].del)
  /\ at' = [at EXCEPT ![t].del = NoBlock]
  /\ UNCHANGED <<mem_check, heap, gaps>>

\* ... mem_alloc_info_add, ...
InfoAdd(t) ==
  /\ at[t].del = NoBlock /\ at[t].add # NoBlock
  /\ infos' = HashAdd(at[t].add)
  /\ at' = [at EXCEPT ![t].add = NoBlock]
  /\ UNCHANGED <<mem_check, heap, gaps>>

\* ... and __libc_free
LibcFree(t) ==
  /\ at[t].del = NoBlock /\ at[t].free # NoBlock
  /\ heap' = [heap EXCEPT ![at[t].free] = "free"]
  /\ at' = [at EXCEPT ![t].free = NoBlock]
  /\ UNCHANGED <<mem_check, infos, gaps>>

Next ==
  \/ Command
  \/ \E t \in Workers :
       \/ \E a \in Blocks : Malloc(t, a) \/ Calloc(t, a) \/ Free(t, a) \/ \E b \in Blocks : Realloc(t, a, b)
       \/ InfoDel(t) \/ InfoAdd(t) \/ LibcFree(t)

-----------------------------------------------------------------------------
\* mem_leaks_show: the blocks of all entries
Shown == {a \in Blocks : infos[a] > 0}

\* mem_leaks_show, when no call is on its way, shows no block that is freed or was
\* allocated while the check was off, none twice, and all others, although addresses
\* move from thread to thread between the step of the C library and the table's.
\* Blocks can be missed only if others were allocated while the check was off: a
\* realloc of such a block that moves it may remove the entry of another thread that
\* got the old address meanwhile.
LeaksAreReal ==
  (\A t \in Workers : at[t] = Idle) =>
    \A a \in Blocks :
      /\ infos[a] =< 1
      /\ a \in Shown => heap[a] = "checked"
      /\ heap[a] = "checked" /\ ~gaps => a \in Shown
=============================================================================
