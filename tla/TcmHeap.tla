------------------------------ MODULE TcmHeap -------------------------------
(* The heap in tightly coupled memory of component/os/os_dep/tcm_heap.c: one *)
(* list of free chunks, first fit, chunks merged when they are given back.   *)
(* Each function runs in a critical section, so it is one step. An address   *)
(* is the number of a unit of sizeof(MemChunk) bytes, from 1; the list is    *)
(* the sequence of its chunks in the order of their next pointers.           *)
EXTENDS Integers, SequencesExt

CONSTANTS Units,     \* TCM_HEAP_SIZE / sizeof(MemChunk)
          ChunkSize, \* sizeof(MemChunk)
          IntSize,   \* sizeof(int), the header of tcm_heap_malloc
          Sizes      \* sizes that are asked for, in bytes

ASSUME HeapAssumption ==
  /\ {Units, ChunkSize, IntSize} \subseteq Nat \ {0}
  /\ Sizes \subseteq Nat

VARIABLES inited,    \* g_heap_inited
          free,      \* g_tcm_heap.FreeList
          live,      \* history: the blocks that users hold, with their byte sizes
          got        \* what the last allocation returned, 0 for NULL

vars == <<inited, free, live, got>>

Chunks   == [at : 1 .. Units, len : 1 .. Units]
Requests == Sizes \cup {s + IntSize : s \in Sizes}

Init == inited = FALSE /\ free = <<>> /\ live = {} /\ got = 0

-----------------------------------------------------------------------------
(* ROUND_UP2, and at least one unit.                                         *)
UnitsFor(bytes) == IF bytes = 0 THEN 1 ELSE (bytes + ChunkSize - 1) \div ChunkSize

End(chunk) == chunk.at + chunk.len

(* tcm_heap_init, called by whichever function runs first.                   *)
FreeList == IF inited THEN free ELSE <<[at |-> 1, len |-> Units]>>

(* Mutant: the whole chunk is unlinked, however much of it was asked for.    *)
TakeWhole(f, i, n) == RemoveAt(f, i)

(* A chunk of the right size is unlinked; a larger one keeps its front.      *)
Take(f, i, n) == IF f[i].len = n THEN RemoveAt(f, i) ELSE [f EXCEPT ![i].len = @ - n]

(* Mutant: the address after the chunk.                                      *)
GivenPastEnd(chunk, n) == End(chunk)

Given(chunk, n) == End(chunk) - n

AllocMem(bytes) ==
  LET n    == UnitsFor(bytes)
      fits == {i \in DOMAIN FreeList : FreeList[i].len >= n}
      i    == Min(fits)
  IN /\ inited' = TRUE
     /\ \/ /\ fits # {}
           /\ free' = Take(FreeList, i, n)
           /\ got' = Given(FreeList[i], n)
           /\ live' = live \cup {[at |-> got', bytes |-> bytes]}
        \/ /\ fits = {}
           /\ free' = FreeList /\ got' = 0 /\ UNCHANGED live

(* tcm_heap_malloc, tcm_heap_calloc: the size goes into a header.            *)
Malloc(size) == AllocMem(size + IntSize)

(* Where the list is entered: after chunk number .., 0 before the first.     *)
Position(f, at) ==
  IF f = <<>> \/ at < f[1].at THEN 0
  ELSE Min({i \in DOMAIN f : i = Len(f) \/ f[i + 1].at >= at})

(* Mutant: a block is put into the list without a look at its neighbour.     *)
MergePrevNever(f, p, chunk) == <<InsertAt(f, p + 1, chunk), p + 1>>

(* The new list, and where in it the block has gone.                         *)
MergePrev(f, p, chunk) ==
  IF p > 0 /\ End(f[p]) = chunk.at
  THEN <<[f EXCEPT ![p].len = @ + chunk.len], p>>
  ELSE <<InsertAt(f, p + 1, chunk), p + 1>>

(* Mutant: only the previous chunk is merged.                                *)
MergeNextNever(f, j) == f

MergeNext(f, j) ==
  IF j < Len(f) /\ End(f[j]) = f[j + 1].at
  THEN RemoveAt([f EXCEPT ![j].len = @ + f[j + 1].len], j + 1)
  ELSE f

(* tcm_heap_freemem, and tcm_heap_free with the size from the header.        *)
FreeMem(b) ==
  LET chunk == [at |-> b.at, len |-> UnitsFor(b.bytes)]
      put   == MergePrev(FreeList, Position(FreeList, b.at), chunk)
  IN /\ inited' = TRUE
     /\ free' = MergeNext(put[1], put[2])
     /\ live' = live \ {b}
     /\ UNCHANGED got

(* What tcm_heap_freeSpace returns; asking may initialise the heap.          *)
Space(f) == FoldSeq(LAMBDA chunk, sum : chunk.len + sum, 0, f)

FreeSpace == inited' = TRUE /\ free' = FreeList /\ UNCHANGED <<live, got>>

Next == \/ \E size \in Sizes : AllocMem(size) \/ Malloc(size)
        \/ \E b \in live : FreeMem(b)
        \/ FreeSpace

Spec == Init /\ [][Next]_vars

-----------------------------------------------------------------------------
(* Properties.                                                               *)

TypeOK ==
  /\ inited \in BOOLEAN
  /\ free \in Seq(Chunks)
  /\ live \subseteq [at : 1 .. Units, bytes : Requests]
  /\ got \in 0 .. Units

Abstract == INSTANCE Allocator

(* However allocations and frees are mixed, the list stays sorted by address *)
(* with a gap between any two chunks (nothing is left unmerged), and every   *)
(* unit of the heap is either in one free chunk or in one live block.        *)
FreeListExact ==
  inited =>
    /\ \A i \in 1 .. Len(free) - 1 : End(free[i]) < free[i + 1].at
    /\ UNION {Abstract!Within(free[i].at, free[i].len) : i \in DOMAIN free}
         = (1 .. Units) \ Abstract!Taken(live)

(* The test program at the end of tcm_heap.c states it for its own calls:    *)
(* tcm_heap_freeSpace() is the heap's size less what each live block was     *)
(* rounded up to, with no byte lost or gained by any sequence of calls.      *)
SpaceExact ==
  inited => Space(free) + FoldSet(LAMBDA b, sum : UnitsFor(b.bytes) + sum, 0, live) = Units

(* The list implements the promise of module Allocator: blocks never         *)
(* overlap, and NULL means that the free memory, merged or not, has no run   *)
(* of the size that was asked for.                                           *)
AllocatorSpec == Abstract!Spec
=============================================================================
