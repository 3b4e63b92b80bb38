--------------------------------- MODULE Heap ---------------------------------
(***************************************************************************)
(* The heap of RT-Thread (rt-thread/src/mem.c), in bytes. Each block starts  *)
(* with a header [next, prev, used]; blocks[p] is the header at offset p of  *)
(* heap_ptr. The header of a block that was joined to another is memory like *)
(* any other: it leaves the domain of blocks.                                *)
(*                                                                         *)
(* An action is what a thread does from rt_sem_take(&heap_sem) to            *)
(* rt_sem_release(&heap_sem); the semaphore keeps other threads out.         *)
(* rt_realloc may take it three times.                                       *)
(***************************************************************************)
EXTENDS Integers, FiniteSets, FiniteSetsExt

CONSTANTS
    Users,               \* the threads that use the heap
    mem_size_aligned,    \* bytes of the heap without the first and last header
    Sizes,               \* bytes that threads ask for
    MaxObjects,          \* objects that a thread has at a time
    MayRealloc           \* whether rt_realloc is used

RT_ALIGN_SIZE     == 4
SIZEOF_STRUCT_MEM == 12
MIN_SIZE          == 12
MIN_SIZE_ALIGNED  == 12
Null              == -1

ASSUME HeapSizeAssumption == /\ mem_size_aligned \in Nat
                             /\ mem_size_aligned % RT_ALIGN_SIZE = 0
                             /\ mem_size_aligned >= MIN_SIZE_ALIGNED
ASSUME RequestsAssumption == Sizes \subseteq Nat /\ MaxObjects \in Nat /\ MayRealloc \in BOOLEAN

heap_end == mem_size_aligned + SIZEOF_STRUCT_MEM

VARIABLES
    blocks, lfree, used_mem, max_mem,
    step,       \* of each thread: "run", or where it is in rt_realloc
    call,       \* the call of rt_realloc: [rmem, newsize, size, nmem]
    objects     \* what each thread has: header offset -> bytes asked for

allVars == <<blocks, lfree, used_mem, max_mem, step, call, objects>>
heapVars == <<blocks, lfree, used_mem, max_mem>>

Offsets == {n \in 0 .. heap_end : n % RT_ALIGN_SIZE = 0}
NoCall  == [rmem |-> Null, newsize |-> 0, size |-> 0, nmem |-> Null]

HeapTypeOK ==
    /\ DOMAIN blocks \subseteq Offsets
    /\ \A p \in DOMAIN blocks : blocks[p] \in [next : Offsets, prev : Offsets, used : BOOLEAN]
    /\ lfree \in Offsets
    /\ used_mem \in 0 .. heap_end
    /\ max_mem \in 0 .. heap_end
    /\ step \in [Users -> {"run", "expand", "copy", "release"}]
    /\ \A t \in Users :
          /\ call[t] \in [rmem : Offsets \cup {Null}, newsize : Nat, size : Nat,
                          nmem : Offsets \cup {Null}]
          /\ DOMAIN objects[t] \subseteq Offsets
          /\ \A p \in DOMAIN objects[t] : objects[t][p] \in Nat

(* rt_system_heap_init: one free block and the last header, always in use. *)
HeapInit ==
    /\ blocks = [p \in {0, heap_end} |->
                    IF p = 0 THEN [next |-> heap_end, prev |-> 0, used |-> FALSE]
                             ELSE [next |-> heap_end, prev |-> heap_end, used |-> TRUE]]
    /\ lfree = 0
    /\ used_mem = 0 /\ max_mem = 0
    /\ step = [t \in Users |-> "run"]
    /\ call = [t \in Users |-> NoCall]
    /\ objects = [t \in Users |-> [p \in {} |-> 0]]

-----------------------------------------------------------------------------
(* Blocks *)

RT_ALIGN(n) == ((n + RT_ALIGN_SIZE - 1) \div RT_ALIGN_SIZE) * RT_ALIGN_SIZE

(* The bytes of a block that the user gets. *)
Room(b, p) == b[p].next - (p + SIZEOF_STRUCT_MEM)

Without(f, p) == [q \in DOMAIN f \ {p} |-> f[q]]
With(f, p, v) == [q \in DOMAIN f \cup {p} |-> IF q = p THEN v ELSE f[q]]

(* A free block p2 starts inside p, which ends there. The prev of the last    *)
(* header is not kept.                                                       *)
Split(b, p, p2) ==
    LET end == b[p].next
        cut == [With(b, p2, [next |-> end, prev |-> p, used |-> FALSE]) EXCEPT ![p].next = p2]
    IN  IF end # heap_end THEN [cut EXCEPT ![end].prev = p2] ELSE cut

(* Block q, which follows p, becomes a part of p. *)
Joined(b, p, q) ==
    LET end == b[q].next
    IN  Without([b EXCEPT ![p].next = end, ![end].prev = p], q)

(* plug_holes, forward: join the next block to mem if it is free ...          *)
PlugForward(h, mem) ==
    LET nmem == h.blocks[mem].next
    IN  IF nmem # mem /\ ~h.blocks[nmem].used /\ nmem # heap_end
        THEN [blocks |-> Joined(h.blocks, mem, nmem),
              lfree  |-> IF h.lfree = nmem THEN mem ELSE h.lfree]
        ELSE h

(* Mutant: the block before is not looked at. *)
PlugBackwardNot(h, mem) == h

(* ... and backward: join mem to the block before it if that is free. *)
PlugBackward(h, mem) ==
    LET pmem == h.blocks[mem].prev
    IN  IF pmem # mem /\ ~h.blocks[pmem].used
        THEN [blocks |-> Joined(h.blocks, pmem, mem),
              lfree  |-> IF h.lfree = mem THEN pmem ELSE h.lfree]
        ELSE h

plug_holes(h, mem) == PlugBackward(PlugForward(h, mem), mem)

(* A block was freed or cut off: lfree is the lowest free one, holes close. *)
Freed(b, mem) ==
    plug_holes([blocks |-> b, lfree |-> IF mem < lfree THEN mem ELSE lfree], mem)

-----------------------------------------------------------------------------
(* rt_malloc *)

(* Mutant: the size is rounded down. *)
BlockSizeDown(n) == (n \div RT_ALIGN_SIZE) * RT_ALIGN_SIZE

(* The bytes for a request of n. *)
BlockSize(n) == LET size == RT_ALIGN(n)
                IN  IF size < MIN_SIZE_ALIGNED THEN MIN_SIZE_ALIGNED ELSE size

(* The first block from lfree on that is free and large enough, or Null. *)
Fit(size) ==
    LET fits == {p \in DOMAIN blocks : /\ lfree <= p /\ p < mem_size_aligned - size
                                       /\ ~blocks[p].used /\ Room(blocks, p) >= size}
    IN  IF fits = {} THEN Null ELSE Min(fits)

(* The block p with "size" bytes taken: the rest is a free block if it holds  *)
(* a header and MIN_SIZE_ALIGNED bytes more.                                 *)
Taken(p, size) ==
    LET used == [blocks EXCEPT ![p].used = TRUE]
    IN  IF Room(blocks, p) >= size + SIZEOF_STRUCT_MEM + MIN_SIZE_ALIGNED
        THEN Split(used, p, p + SIZEOF_STRUCT_MEM + size)
        ELSE used

(* Where the loop that moves lfree past used blocks ends. *)
NextFree(b, p) ==
    LET free == {q \in DOMAIN b : q >= p /\ ~b[q].used}
    IN  IF free = {} THEN heap_end ELSE Min(free)

(* The heap gives out block p with "size" bytes. *)
Allocates(p, size) ==
    /\ blocks' = Taken(p, size)
    /\ lfree' = IF p = lfree THEN NextFree(blocks', lfree) ELSE lfree
    /\ used_mem' = used_mem + blocks'[p].next - p
    /\ max_mem' = IF max_mem < used_mem' THEN used_mem' ELSE max_mem

(* What rt_malloc finds for a request of n bytes. *)
Found(n) == IF n = 0 \/ RT_ALIGN(n) > mem_size_aligned THEN Null ELSE Fit(BlockSize(n))

rt_malloc(t, n) ==
    /\ step[t] = "run" /\ Cardinality(DOMAIN objects[t]) < MaxObjects
    /\ IF Found(n) = Null THEN UNCHANGED <<heapVars, objects>>
       ELSE /\ Allocates(Found(n), BlockSize(n))
            /\ objects' = [objects EXCEPT ![t] = With(@, Found(n), n)]
    /\ UNCHANGED <<step, call>>

(* The heap takes back block p. *)
Releases(p) ==
    LET h == Freed([blocks EXCEPT ![p].used = FALSE], p)
    IN  /\ blocks' = h.blocks
        /\ lfree' = h.lfree
        /\ used_mem' = used_mem - (blocks[p].next - p)
        /\ UNCHANGED max_mem

rt_free(t, p) ==
    /\ step[t] = "run" /\ p \in DOMAIN objects[t]
    /\ Releases(p)
    /\ objects' = [objects EXCEPT ![t] = Without(@, p)]
    /\ UNCHANGED <<step, call>>

-----------------------------------------------------------------------------
(* rt_realloc(rmem, n) of an object *)

(* Not more than its block has, and room enough to cut off the rest: the      *)
(* block is split and stays where it is.                                     *)
Shrinks(p, n) == RT_ALIGN(n) + SIZEOF_STRUCT_MEM + MIN_SIZE < Room(blocks, p)

ReallocShrink(t, p, n) ==
    /\ Shrinks(p, n)
    /\ LET p2 == p + SIZEOF_STRUCT_MEM + RT_ALIGN(n)
           h  == Freed(Split(blocks, p, p2), p2)
       IN  blocks' = h.blocks /\ lfree' = h.lfree
    /\ used_mem' = used_mem - (Room(blocks, p) - RT_ALIGN(n))
    /\ objects' = [objects EXCEPT ![t][p] = n]
    /\ UNCHANGED <<max_mem, step, call>>

(* The block has just that size already. *)
ReallocSame(t, p, n) ==
    /\ Room(blocks, p) = RT_ALIGN(n)
    /\ objects' = [objects EXCEPT ![t][p] = n]
    /\ UNCHANGED <<heapVars, step, call>>

(* Mutant: the size that is noted counts the header. *)
ReallocMoveHeader(t, p, n) ==
    /\ Room(blocks, p) # RT_ALIGN(n) /\ ~Shrinks(p, n)
    /\ step' = [step EXCEPT ![t] = "expand"]
    /\ call' = [call EXCEPT ![t] = [rmem |-> p, newsize |-> RT_ALIGN(n),
                                    size |-> blocks[p].next - p, nmem |-> Null]]
    /\ UNCHANGED <<heapVars, objects>>

(* Neither: the size is noted and the semaphore released. *)
ReallocMove(t, p, n) ==
    /\ Room(blocks, p) # RT_ALIGN(n) /\ ~Shrinks(p, n)
    /\ step' = [step EXCEPT ![t] = "expand"]
    /\ call' = [call EXCEPT ![t] = [rmem |-> p, newsize |-> RT_ALIGN(n),
                                    size |-> Room(blocks, p), nmem |-> Null]]
    /\ UNCHANGED <<heapVars, objects>>

(* A size of 0 frees the object; one above the heap's is refused. *)
ReallocZero(t, p) ==
    /\ Releases(p)
    /\ objects' = [objects EXCEPT ![t] = Without(@, p)]
    /\ UNCHANGED <<step, call>>

rt_realloc(t, p, n) ==
    /\ MayRealloc
    /\ step[t] = "run" /\ p \in DOMAIN objects[t]
    /\ RT_ALIGN(n) <= mem_size_aligned
    /\ IF n = 0 THEN ReallocZero(t, p)
       ELSE ReallocShrink(t, p, n) \/ ReallocSame(t, p, n) \/ ReallocMove(t, p, n)

(* rt_malloc(newsize) inside rt_realloc. Without memory the old object stays. *)
ReallocExpand(t) ==
    /\ step[t] = "expand"
    /\ LET n == call[t].newsize
       IN  IF Found(n) = Null
           THEN /\ step' = [step EXCEPT ![t] = "run"]
                /\ call' = [call EXCEPT ![t] = NoCall]
                /\ UNCHANGED <<heapVars, objects>>
           ELSE /\ Allocates(Found(n), BlockSize(n))
                /\ step' = [step EXCEPT ![t] = "copy"]
                /\ call' = [call EXCEPT ![t].nmem = Found(n)]
                /\ objects' = [objects EXCEPT ![t] = With(@, Found(n), n)]

(* rt_memcpy, without the semaphore. *)
ReallocCopy(t) ==
    /\ step[t] = "copy"
    /\ step' = [step EXCEPT ![t] = "release"]
    /\ UNCHANGED <<heapVars, call, objects>>

(* rt_free(rmem) inside rt_realloc. *)
ReallocFree(t) ==
    /\ step[t] = "release"
    /\ Releases(call[t].rmem)
    /\ objects' = [objects EXCEPT ![t] = Without(@, call[t].rmem)]
    /\ step' = [step EXCEPT ![t] = "run"]
    /\ call' = [call EXCEPT ![t] = NoCall]

HeapNext ==
    \E t \in Users :
        \/ \E n \in Sizes : rt_malloc(t, n)
        \/ \E p \in DOMAIN objects[t] : rt_free(t, p)
        \/ \E p \in DOMAIN objects[t], n \in Sizes : rt_realloc(t, p, n)
        \/ ReallocExpand(t) \/ ReallocCopy(t) \/ ReallocFree(t)

HeapSpec == HeapInit /\ [][HeapNext]_allVars

-----------------------------------------------------------------------------
(* Properties *)

Links(p) ==
    LET q == blocks[p].next
    IN  /\ q \in DOMAIN blocks
        /\ p + SIZEOF_STRUCT_MEM < q
        /\ \A r \in DOMAIN blocks : r <= p \/ r >= q
        /\ q # heap_end => blocks[q].prev = p
        /\ ~blocks[p].used => blocks[q].used

(* Each block ends where the next one starts, both know it, and no two free   *)
(* ones touch. lfree is the lowest free block.                               *)
BlocksTile ==
    /\ {0, heap_end} \subseteq DOMAIN blocks
    /\ \A p \in DOMAIN blocks \ {heap_end} : Links(p)
    /\ lfree = NextFree(blocks, 0)

(* used_mem is the number of bytes in used blocks, with their headers. *)
UsedBytes(b) == UNION {p .. b[p].next - 1 : p \in {q \in DOMAIN b \ {heap_end} : b[q].used}}

UsedCounted == used_mem = Cardinality(UsedBytes(blocks))

(* After any sequence of rt_malloc, rt_free and rt_realloc, of several        *)
(* threads, the blocks tile the heap (plug_holes), the search of rt_malloc    *)
(* that starts at lfree misses none that is free, and used_mem is right.      *)
HeapSound == HeapTypeOK /\ BlocksTile /\ UsedCounted

(* What threads have and what is in use is the same, each block belongs to    *)
(* one thread and is as large as it asked. Nothing leaks: a heap of which     *)
(* nobody has a part is in one piece again.                                  *)
ObjectsHaveRoom ==
    /\ {p \in DOMAIN blocks \ {heap_end} : blocks[p].used}
           = UNION {DOMAIN objects[t] : t \in Users}
    /\ \A t, u \in Users : t # u => DOMAIN objects[t] \cap DOMAIN objects[u] = {}
    /\ \A t \in Users : \A p \in DOMAIN objects[t] : Room(blocks, p) >= objects[t][p]
    /\ (\A t \in Users : objects[t] = [p \in {} |-> 0])
           => DOMAIN blocks = {0, heap_end} /\ lfree = 0

(* The size that rt_realloc noted before it released the semaphore is right   *)
(* when it copies: the bytes it copies lie inside the old and the new block,  *)
(* which are two blocks.                                                     *)
CopyStaysInside ==
    \A t \in Users : step[t] = "copy" =>
        LET c == call[t]
            n == IF c.size < c.newsize THEN c.size ELSE c.newsize
        IN  /\ c.rmem # c.nmem
            /\ {c.rmem, c.nmem} \subseteq DOMAIN objects[t]
            /\ n <= Room(blocks, c.rmem) /\ n <= Room(blocks, c.nmem)

(* mem.c:270 on rt_malloc: "NULL if no free memory was found". *)
NullOnlyWhenFull ==
    \A n \in Sizes \ {0} :
        Found(n) = Null =>
            \A p \in DOMAIN blocks : ~blocks[p].used => Room(blocks, p) < BlockSize(n)

(* mem.c:298: "every data block must be at least MIN_SIZE_ALIGNED long". *)
BlocksAreLargeEnough ==
    \A p \in DOMAIN blocks \ {heap_end} : Room(blocks, p) >= MIN_SIZE_ALIGNED
==============================================================================
