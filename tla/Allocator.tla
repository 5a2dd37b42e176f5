----------------------------- MODULE Allocator ------------------------------
(* What a heap promises its users: the blocks it has given out never         *)
(* overlap, one that is given back is free for others, and NULL is returned  *)
(* only when no run of free units is long enough.                            *)
EXTENDS Integers, FiniteSetsExt

CONSTANTS Units,      \* the heap's size, in units of sizeof(MemChunk)
          Requests,   \* sizes that are asked for, in bytes
          UnitsFor(_) \* units that a block of so many bytes occupies

VARIABLES live,       \* the blocks that are allocated
          got         \* what the last allocation returned, 0 for NULL

Within(at, n) == at .. at + n - 1
Taken(bs)     == UNION {Within(b.at, UnitsFor(b.bytes)) : b \in bs}
Room(n)       == {at \in 1 .. Units - n + 1 : Within(at, n) \cap Taken(live) = {}}

Init == live = {} /\ got = 0

Alloc(bytes) ==
  \/ \E at \in Room(UnitsFor(bytes)) :
       live' = live \cup {[at |-> at, bytes |-> bytes]} /\ got' = at
  \/ Room(UnitsFor(bytes)) = {} /\ got' = 0 /\ UNCHANGED live

Free(b) == live' = live \ {b} /\ UNCHANGED got

Next == \/ \E bytes \in Requests : Alloc(bytes)
        \/ \E b \in live : Free(b)

Spec == Init /\ [][Next]_<<live, got>>
=============================================================================
