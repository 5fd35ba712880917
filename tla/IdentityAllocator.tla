-------------------------- MODULE IdentityAllocator --------------------------
(***************************************************************************)
(* The kernel's heap: memory/managers/identity.c behind memory/alloc.c.    *)
(*                                                                         *)
(* The allocator keeps one linked list of blocks.  A block is a header of  *)
(* HDR bytes followed by `size' bytes that are handed to a client.  The    *)
(* list is the sequence `heap' in list order; a header's address is data,  *)
(* because headers live inside the memory they describe.                   *)
(*                                                                         *)
(* idalloc_init walks the firmware's memory map; the walk is one step per  *)
(* descriptor here (`scan' is the loop index), and the other calls wait    *)
(* for it to end, as in kernelMain.  Every call runs to completion: the    *)
(* kernel is single-threaded and no interrupt handler allocates.           *)
(*                                                                         *)
(* `live' is the client's view: which pointers it holds, and the size and  *)
(* alignment it asked for.  The client frees and reallocates only pointers *)
(* it holds.                                                               *)
(***************************************************************************)
EXTENDS Integers, Sequences, SequencesExt

CONSTANTS
    MemoryMap,   \* the firmware's descriptors, in the order they are listed
    Sizes,       \* the sizes clients ask for
    Aligns       \* the alignments clients ask for

HDR      == 24                  \* sizeof(BlockHeader): u64, pointer, u8, padded
PAGE     == 4096
MIN_ADDR == 4 * 1024 * 1024

Descriptor == [type: {"Conventional", "Other"}, physAddr: Nat, numPages: Nat]

ASSUME MapAssumption  == MemoryMap \in Seq(Descriptor)
ASSUME SizeAssumption == Sizes \subseteq Nat /\ Aligns \subseteq Nat

VARIABLES scan, heap, useable, live

vars == <<scan, heap, useable, live>>

Block == [addr: Nat, size: Nat, inUse: BOOLEAN]

Pointer(b) == b.addr + HDR            \* what the client sees of a block
End(b)     == b.addr + HDR + b.size   \* the first address after it

-----------------------------------------------------------------------------
(* idalloc_init *)

\* A descriptor is skipped when it is not conventional memory or lies below
\* MIN_ADDR.
Kept(d) ==
    /\ d.type = "Conventional"
    /\ d.physAddr < MIN_ADDR => d.physAddr + d.numPages * PAGE >= MIN_ADDR

\* What is kept of a descriptor that straddles MIN_ADDR starts there.
Base(d) == IF d.physAddr < MIN_ADDR THEN MIN_ADDR ELSE d.physAddr

Bytes(d) ==
    IF d.physAddr < MIN_ADDR
    THEN (d.numPages - (MIN_ADDR - d.physAddr) \div PAGE) * PAGE
    ELSE d.numPages * PAGE

\* The block made of a descriptor: its size counts the whole region, the
\* bytes of the header included.
RegionBlock(d) == [addr |-> Base(d), size |-> Bytes(d), inUse |-> FALSE]

\* What idalloc_init takes for granted of the firmware: the regions it keeps
\* come in address order, and a header's worth of other memory follows each.
SortedMap ==
    \A j, k \in DOMAIN MemoryMap :
        j < k /\ Kept(MemoryMap[j]) /\ Kept(MemoryMap[k]) =>
            End(RegionBlock(MemoryMap[j])) <= Base(MemoryMap[k])

Init ==
    /\ scan = 1
    /\ heap = <<>>
    /\ useable = 0
    /\ live = <<>>

ScanSkip ==
    /\ scan \in 1..Len(MemoryMap)
    /\ ~Kept(MemoryMap[scan])
    /\ scan' = scan + 1
    /\ UNCHANGED <<heap, useable, live>>

ScanAdd ==
    /\ scan \in 1..Len(MemoryMap)
    /\ Kept(MemoryMap[scan])
    /\ scan' = scan + 1
    /\ heap' = Append(heap, RegionBlock(MemoryMap[scan]))
    /\ useable' = useable + Bytes(MemoryMap[scan])
    /\ UNCHANGED live

\* LoadMemoryManager has returned.
Loaded == scan = Len(MemoryMap) + 1

-----------------------------------------------------------------------------
(* Edits of the list *)

\* (A slip the checks must catch: the new header is placed and sized as if it
\* took no room.)
CutForgetsHeader(h, i, n) ==
    InsertAt([h EXCEPT ![i].size = n], i + 1,
             [addr  |-> h[i].addr + n,
              size  |-> h[i].size - n,
              inUse |-> FALSE])

\* (A slip: only the size of the rest forgets the header.)
CutMissizesRest(h, i, n) ==
    InsertAt([h EXCEPT ![i].size = n], i + 1,
             [addr  |-> h[i].addr + HDR + n,
              size  |-> h[i].size - n,
              inUse |-> FALSE])

\* Write a header n bytes into block i: what is behind it becomes a free block.
Cut(h, i, n) ==
    InsertAt([h EXCEPT ![i].size = n], i + 1,
             [addr  |-> h[i].addr + HDR + n,
              size  |-> h[i].size - n - HDR,
              inUse |-> FALSE])

\* (A slip: the test leaves out the header that the cut needs.)
SplitTestsSizeOnly(h, i, n) == IF h[i].size > n THEN Cut(h, i, n) ELSE h

\* Cut block i down to n bytes when a header and at least one byte remain.
Split(h, i, n) == IF h[i].size > n + HDR THEN Cut(h, i, n) ELSE h

\* Block i swallows its successor, header and all.
Merge(h, i) ==
    RemoveAt([h EXCEPT ![i].size = h[i].size + h[i + 1].size + HDR], i + 1)

\* (A slip: the flag is not cleared.)
MarkFreeForgets(h, i) == h

MarkUsed(h, i) == [h EXCEPT ![i].inUse = TRUE]
MarkFree(h, i) == [h EXCEPT ![i].inUse = FALSE]

\* (A slip: a neighbour is merged whether or not it is free.)
HasNeighbour(h, i) == i \in DOMAIN h

HasFree(h, i) == i \in DOMAIN h /\ ~h[i].inUse

\* (A slip: free merges backwards only.)
MergeNextForgets(h, i) == h

\* Merge block i with its successor, if there is one and it is free.
MergeNext(h, i) == IF HasFree(h, i + 1) THEN Merge(h, i) ELSE h

\* Merge block i into its predecessor, if there is one and it is free.
MergePrev(h, i) == IF HasFree(h, i - 1) THEN Merge(h, i - 1) ELSE h

\* Leave a free block of `pad' bytes, header included, before the rest.
Pad(h, i, pad) == Cut(h, i, pad - HDR)

\* (A slip: padding too small for a header is raised to the least that has
\* room for one, not by multiples of the alignment.)
PaddingRaised(b, a) ==
    LET r == Pointer(b) % a IN
    IF r = 0 THEN 0 ELSE IF a - r > HDR THEN a - r ELSE HDR + 1

\* The bytes skipped so that the pointer of block b is a multiple of a: none,
\* or the least that do and hold a header and at least one byte.
Padding(b, a) ==
    IF Pointer(b) % a = 0 THEN 0 ELSE HDR + a - ((Pointer(b) + HDR) % a)

\* The free blocks that can serve n bytes at a multiple of a.
Fits(h, n, a) ==
    {i \in DOMAIN h : ~h[i].inUse /\ h[i].size >= n + Padding(h[i], a)}

First(S, i) == i \in S /\ \A j \in S : i <= j

\* The list after n bytes were taken from block i, the result in block i.
Take(h, i, n) == MarkUsed(Split(h, i, n), i)

\* The list after block i was given back.
Release(h, i) == MergePrev(MergeNext(MarkFree(h, i), i), i)

\* The block a client's pointer belongs to.
BlockOf(h, p) == CHOOSE i \in DOMAIN h : Pointer(h[i]) = p

-----------------------------------------------------------------------------
(* malloc, aalloc, realloc, free *)

Hold(f, p, n, a) ==
    [q \in DOMAIN f \cup {p} |-> IF q = p THEN [size |-> n, align |-> a]
                                          ELSE f[q]]
Drop(f, p) == [q \in DOMAIN f \ {p} |-> f[q]]

Malloc(n) ==
    /\ Loaded
    /\ n > 0
    /\ \E i \in DOMAIN heap :
         /\ First(Fits(heap, n, 1), i)
         /\ heap' = Take(heap, i, n)
         /\ live' = Hold(live, Pointer(heap[i]), n, 1)
    /\ UNCHANGED <<scan, useable>>

\* The block is already aligned.
AallocInPlace(n, a) ==
    /\ Loaded
    /\ n > 0 /\ a >= 2
    /\ \E i \in DOMAIN heap :
         /\ First(Fits(heap, n, a), i)
         /\ Padding(heap[i], a) = 0
         /\ heap' = Take(heap, i, n)
         /\ live' = Hold(live, Pointer(heap[i]), n, a)
    /\ UNCHANGED <<scan, useable>>

\* The block needs padding: the bytes skipped become a free block, merged
\* into the previous one when that is free.
AallocPadded(n, a) ==
    /\ Loaded
    /\ n > 0 /\ a >= 2
    /\ \E i \in DOMAIN heap :
         LET pad == Padding(heap[i], a) IN
         /\ First(Fits(heap, n, a), i)
         /\ pad # 0
         /\ heap' = MergePrev(Take(Pad(heap, i, pad), i + 1, n), i)
         /\ live' = Hold(live, Pointer(heap[i]) + pad, n, a)
    /\ UNCHANGED <<scan, useable>>

\* (A slip: the next block's size is not compared with what is missing.)
CanGrowAnyway(h, i, n) == HasFree(h, i + 1)

\* realloc(ptr, n) when the block already has room: nothing is given back.
ReallocKeep(p, n) ==
    /\ Loaded
    /\ n > 0
    /\ heap[BlockOf(heap, p)].size >= n
    /\ live' = [live EXCEPT ![p].size = n]
    /\ UNCHANGED <<scan, heap, useable>>

\* The next block is free and large enough: the test compares the missing
\* bytes with that block and its header.
CanGrow(h, i, n) ==
    HasFree(h, i + 1) /\ h[i + 1].size + HDR >= n - h[i].size

ReallocGrow(p, n) ==
    LET i == BlockOf(heap, p) IN
    /\ Loaded
    /\ heap[i].size < n
    /\ CanGrow(heap, i, n)
    /\ heap' = Split(Merge(heap, i), i, n)
    /\ live' = [live EXCEPT ![p].size = n]
    /\ UNCHANGED <<scan, useable>>

\* malloc, memcpy, free: the new block comes from malloc, so an alignment
\* asked of aalloc is no longer promised.
ReallocMove(p, n) ==
    LET i == BlockOf(heap, p) IN
    /\ Loaded
    /\ heap[i].size < n
    /\ ~CanGrow(heap, i, n)
    /\ \E j \in DOMAIN heap :
         /\ First(Fits(heap, n, 1), j)
         /\ LET taken == Take(heap, j, n)
            IN  heap' = Release(taken, BlockOf(taken, p))
         /\ live' = Hold(Drop(live, p), Pointer(heap[j]), n, 1)
    /\ UNCHANGED <<scan, useable>>

Free(p) ==
    /\ Loaded
    /\ heap' = Release(heap, BlockOf(heap, p))
    /\ live' = Drop(live, p)
    /\ UNCHANGED <<scan, useable>>

\* A call that finds no block returns NULL and changes nothing.
NoMemory(n, a) ==
    /\ Loaded
    /\ n > 0 /\ a >= 1
    /\ Fits(heap, n, a) = {}
    /\ UNCHANGED vars

\* free(NULL), and malloc(0), aalloc(0, a) or realloc(NULL, 0), which return
\* NULL, do nothing; aalloc(n, 0), aalloc(n, 1) and realloc(NULL, n) are
\* Malloc(n); realloc(p, 0) is Free(p).
Next ==
    \/ ScanSkip
    \/ ScanAdd
    \/ \E n \in Sizes : Malloc(n)
    \/ \E n \in Sizes, a \in Aligns : AallocInPlace(n, a)
    \/ \E n \in Sizes, a \in Aligns : AallocPadded(n, a)
    \/ \E n \in Sizes, a \in Aligns \cup {1} : NoMemory(n, a)
    \/ \E p \in DOMAIN live, n \in Sizes : ReallocKeep(p, n)
    \/ \E p \in DOMAIN live, n \in Sizes : ReallocGrow(p, n)
    \/ \E p \in DOMAIN live, n \in Sizes : ReallocMove(p, n)
    \/ \E p \in DOMAIN live : Free(p)

Spec == Init /\ [][Next]_vars

-----------------------------------------------------------------------------
(* Properties *)

\* The list holds blocks, and a client's record holds what it asked for.
TypeOK ==
    /\ scan \in 1 .. Len(MemoryMap) + 1
    /\ heap \in Seq(Block)
    /\ useable \in Nat
    /\ DOMAIN live \subseteq Nat
    /\ \A p \in DOMAIN live : live[p] \in [size : Nat, align : Nat]

\* No block, header included, overlaps another, and the list is in address
\* order.  Splitting, padding and the merges of free and realloc must each
\* keep the arithmetic on headers exact: one header too few or too many and
\* a later split writes a header inside somebody's buffer.
Ordered(h) == \A i, j \in DOMAIN h : i < j => End(h[i]) <= h[j].addr
HeapOrdered == Ordered(heap)

\* Every pointer a client holds is the start of an in-use block at least as
\* large as the client asked for: no call frees, shrinks or swallows a block
\* that another call handed out.
Backed(h, f) ==
    \A p \in DOMAIN f : \E i \in DOMAIN h :
        h[i].inUse /\ Pointer(h[i]) = p /\ f[p].size <= h[i].size
LiveBacked == Backed(heap, live)

\* Every in-use block belongs to a client: no call of malloc, aalloc, realloc
\* or free strands a block that nobody can give back.
AllOwned(h, f) ==
    \A i \in DOMAIN h : h[i].inUse => Pointer(h[i]) \in DOMAIN f
UsedOwned == AllOwned(heap, live)

\* What the clients rely on: a buffer is apart from every other buffer and
\* from the header in front of it, so a write inside one's own buffer
\* corrupts neither another client's data nor the list.
LiveDisjoint ==
    \A p, q \in DOMAIN live : p < q => p + live[p].size + HDR <= q

\* aalloc's promise, kept for as long as the client holds the pointer.
LiveAligned ==
    \A p \in DOMAIN live : live[p].align # 0 => p % live[p].align = 0

\* The descriptors idalloc_init keeps.
Regions == {MemoryMap[k] : k \in {j \in DOMAIN MemoryMap : Kept(MemoryMap[j])}}

\* When the map has one conventional region, the blocks tile it from its
\* base to its end and no two neighbours are free: free's two merges are all
\* the coalescing there is, so one missed merge would fragment the heap for
\* good, and one byte miscounted would be lost for good.
Coalesced ==
    Loaded =>
      \A d \in Regions :
        /\ heap[1].addr = Base(d)
        /\ End(heap[Len(heap)]) = End(RegionBlock(d))
        /\ \A i \in 1 .. Len(heap) - 1 :
             /\ End(heap[i]) = heap[i + 1].addr
             /\ heap[i].inUse \/ heap[i + 1].inUse

\* idalloc_get_available: the bytes of the free ones of the first k blocks,
\* and of all of them.
FreeUpTo(h) ==
    LET free[k \in 0 .. Len(h)] ==
            IF k = 0 THEN 0
            ELSE IF h[k].inUse THEN free[k - 1] ELSE free[k - 1] + h[k].size
    IN  free
Available == FreeUpTo(heap)[Len(heap)]

\* The kernel reports GetUseableMemory() - GetAvailableMemory() as the memory
\* in use; the difference of two u64 must not wrap.
NeverOverdrawn == Available <= useable

\* Only conventional memory is handed out: each buffer lies inside one of
\* the regions idalloc_init kept.
LiveInConventional ==
    \A p \in DOMAIN live : \E d \in Regions :
        Base(d) <= p - HDR /\ p + live[p].size <= Base(d) + Bytes(d)

-----------------------------------------------------------------------------
(* The heap behind the list is a heap service: the abstract state is the     *)
(* clients' view, and every call is one abstract step or none.               *)
Service == INSTANCE HeapService WITH live <- live, Sizes <- Sizes, Aligns <- Aligns

\* Every call does to the clients' buffers what alloc.h promises: a buffer is
\* new, aligned and clear of the others, realloc's copy source and target are
\* apart, and no other buffer is touched.
ServiceSpec == Service!Spec

=============================================================================
