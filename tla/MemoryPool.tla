---------------------------- MODULE MemoryPool ----------------------------
(***************************************************************************)
(* stl_memory_pool of stl_memory_pool.cpp: one free list per block size    *)
(* and a free heap from which the lists are refilled, 20 blocks at a time. *)
(* MemoryPool<T> is allocate and deallocate with sizeof(T).                *)
(*                                                                         *)
(* Memory is counted in words of __ALIGN (8) bytes: a request of n bytes   *)
(* is one of round_up(n) / 8 words, and the blocks of n words are in list  *)
(* n, which freelist_index numbers n - 1.  Requests above __MAX_BYTES go to *)
(* malloc and free and never touch the pool.                               *)
(***************************************************************************)
EXTENDS Integers, Sequences, SequencesExt, FiniteSets, FiniteSetsExt

CONSTANTS
    __FREELISTS,    \* number of lists, and words of the largest block
    NObjs,          \* nobjs: blocks a refill asks for
    Bases,          \* addresses malloc may return
    MaxUsed         \* bound: blocks the program holds at a time

ASSUME PoolAssumption ==
    /\ __FREELISTS \in Nat \ {0} /\ NObjs \in Nat \ {0}
    /\ Bases \subseteq Nat \ {0} /\ MaxUsed \in Nat
    /\ __FREELISTS <= 2 * NObjs

VARIABLES
    free_list,  \* the addresses in each list, first one first
    start_free, \* the free heap is start_free .. end_free - 1
    end_free,
    heap_size,  \* words got from malloc
    used,       \* the blocks the program holds
    chunks,     \* history: what malloc returned
    failed,     \* history: malloc has failed
    exited      \* the process has ended

poolVars == <<free_list, start_free, end_free, heap_size, used, chunks, failed, exited>>

Sizes == 1..__FREELISTS
Block(a, n) == [at |-> a, size |-> n]
WordsOf(b) == b.at..(b.at + b.size - 1)

PoolTypeOK ==
    /\ free_list \in [Sizes -> Seq(Nat)]
    /\ start_free \in Nat /\ end_free \in Nat /\ heap_size \in Nat
    /\ used \subseteq [at : Nat, size : Sizes]
    /\ chunks \subseteq [at : Nat, size : Nat \ {0}]
    /\ failed \in BOOLEAN /\ exited \in BOOLEAN

PoolInit ==
    /\ free_list = [n \in Sizes |-> <<>>]
    /\ start_free = 0 /\ end_free = 0 /\ heap_size = 0
    /\ used = {} /\ chunks = {} /\ failed = FALSE /\ exited = FALSE

leftbytes == end_free - start_free

-----------------------------------------------------------------------------
\* A definition with a suffix after an operation's name is that operation with
\* one plausible mistake; no action uses it.

Pushed(list, n, a) == [list EXCEPT ![n] = <<a>> \o @]

\* The blocks behind the first of nobjs blocks at base, as the loops push them.
Carved_one_more(base, n, nobjs) == [k \in 1..nobjs |-> base + (nobjs + 1 - k) * n]
Carved(base, n, nobjs) == [k \in 1..(nobjs - 1) |-> base + (nobjs - k) * n]

\* A block of the list, if there is one.
TakeFromList(n) ==
    /\ free_list[n] # <<>>
    /\ used' = used \cup {Block(Head(free_list[n]), n)}
    /\ free_list' = [free_list EXCEPT ![n] = Tail(@)]
    /\ UNCHANGED <<start_free, end_free, heap_size, chunks, failed, exited>>

\* build_freelist: cut as many of NObjs blocks as the free heap has.  The process
\* ends at the first write to a block cut from address 0.
CutFromHeap(n) ==
    LET nobjs == IF leftbytes >= NObjs * n THEN NObjs ELSE leftbytes \div n
    IN  /\ free_list[n] = <<>> /\ leftbytes >= n
        /\ used' = used \cup {Block(start_free, n)}
        /\ free_list' = [free_list EXCEPT ![n] = Carved(start_free, n, nobjs) \o @]
        /\ start_free' = start_free + nobjs * n
        /\ exited' = (start_free = 0)
        /\ UNCHANGED <<end_free, heap_size, chunks, failed>>

\* What is left of the free heap goes to the list of its size.
LeftoverKept_never == free_list
LeftoverKept ==
    IF leftbytes > 0 THEN Pushed(free_list, leftbytes, start_free) ELSE free_list

\* 2 * total_size + round_up(heap_size >> 4), in words.
bytes2get(n) == 2 * NObjs * n + (((heap_size * 8) \div 16) + 7) \div 8

\* malloc, and the recursive call of build_freelist, which finds room for all.
CutFromMalloc(n) ==
    /\ free_list[n] = <<>> /\ leftbytes < n
    /\ \E a \in Bases :
           LET c == Block(a, bytes2get(n))
           IN  /\ \A d \in chunks : WordsOf(c) \cap WordsOf(d) = {}
               /\ chunks' = chunks \cup {c}
               /\ used' = used \cup {Block(a, n)}
               /\ free_list' = [LeftoverKept EXCEPT ![n] = Carved(a, n, NObjs) \o @]
               /\ start_free' = a + NObjs * n
               /\ end_free' = a + c.size
    /\ heap_size' = heap_size + bytes2get(n)
    /\ UNCHANGED <<failed, exited>>

\* The lists whose blocks are large enough and that have one.
Lenders_any_size(lists, n) == {m \in Sizes : lists[m] # <<>>}
Lenders(lists, n) == {m \in n..__FREELISTS : lists[m] # <<>>}

\* malloc fails: borrow a block from the first list of larger blocks that has
\* one, or exit.  start_free is 0 from then on; end_free keeps its value.
MallocFailed(n) ==
    /\ free_list[n] = <<>> /\ leftbytes < n
    /\ start_free' = 0 /\ failed' = TRUE
    /\ LET lists == LeftoverKept
           lenders == Lenders(lists, n)
       IN  IF lenders = {}
           THEN exited' = TRUE /\ free_list' = lists /\ UNCHANGED used
           ELSE LET m == Min(lenders)
                IN  /\ used' = used \cup {Block(Head(lists[m]), n)}
                    /\ free_list' = [lists EXCEPT ![m] = Tail(@)]
                    /\ UNCHANGED exited
    /\ UNCHANGED <<end_free, heap_size, chunks>>

allocate(n) ==
    /\ ~exited /\ Cardinality(used) < MaxUsed
    /\ TakeFromList(n) \/ CutFromHeap(n) \/ CutFromMalloc(n) \/ MallocFailed(n)

\* A block returns to the list of its size.
deallocate(b) ==
    /\ ~exited /\ b \in used
    /\ used' = used \ {b}
    /\ free_list' = Pushed(free_list, b.size, b.at)
    /\ UNCHANGED <<start_free, end_free, heap_size, chunks, failed, exited>>

PoolNext == (\E n \in Sizes : allocate(n)) \/ (\E b \in used : deallocate(b))

PoolSpec == PoolInit /\ [][PoolNext]_poolVars

-----------------------------------------------------------------------------
FreeBlocks(n) == {Block(free_list[n][k], n) : k \in DOMAIN free_list[n]}
FreeHeap == start_free..(end_free - 1)
Free == UNION {FreeBlocks(n) : n \in Sizes}
Blocks == used \cup Free

\* No two blocks overlap, and none is held and free: nobody writes into memory
\* handed to another, and no link of a free list into memory in use.
Apart ==
    /\ \A b, c \in Blocks : b # c => WordsOf(b) \cap WordsOf(c) = {}
    /\ used \cap Free = {}

\* No free block is in a list twice, and no block reaches into the free heap.
NoOverlap ==
    /\ Apart
    /\ \A b \in Blocks : WordsOf(b) \cap FreeHeap = {}
    /\ \A n \in Sizes : IsInjective(free_list[n])

\* No word is lost: while malloc succeeds, what it returned is held, in a list or
\* in the free heap.
NothingLost == ~failed =>
    UNION {WordsOf(c) : c \in chunks} = (UNION {WordsOf(b) : b \in Blocks}) \cup FreeHeap

\* What stl_memory_pool.h says of build_freelist: when the free heap does not
\* have the memory, it is malloc that gives it.
BlocksFromMalloc ==
    \A b \in used : \E c \in chunks : WordsOf(b) \subseteq WordsOf(c)

\* What holds of the pool, as long as malloc succeeds.
PoolInv == PoolTypeOK /\ (~failed => NoOverlap /\ BlocksFromMalloc)

\* A failing malloc does no harm by itself: the block build_freelist borrows is
\* large enough, nobody else holds it, and it leaves its list.  What goes wrong
\* afterwards, goes wrong because start_free stays 0.
Sound == Apart /\ BlocksFromMalloc
BorrowsSoundly == [][Sound /\ start_free' = 0 => Sound']_poolVars
============================================================================
