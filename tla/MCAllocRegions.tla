--------------------------- MODULE MCAllocRegions ---------------------------
(* Two conventional regions with a page of other memory between them.       *)
EXTENDS IdentityAllocator

MCMap == <<
    [type |-> "Conventional", physAddr |-> MIN_ADDR,            numPages |-> 1],
    [type |-> "Other",        physAddr |-> MIN_ADDR + PAGE,     numPages |-> 1],
    [type |-> "Conventional", physAddr |-> MIN_ADDR + 2 * PAGE, numPages |-> 1]>>

\* 4080: a region's first block is larger, but by less than a header.  5000 fits
\* only a block merged across the gap.
MCSizes  == {1500, 3000, 4080, 5000}
\* 1024: the padding of a block of the second region meets a free block
\* before it.
MCAligns == {1024}

ASSUME MapIsSorted == SortedMap
=============================================================================
