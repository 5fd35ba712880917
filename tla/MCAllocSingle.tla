---------------------------- MODULE MCAllocSingle ----------------------------
(* One conventional region: two pages that straddle MIN_ADDR, of which one  *)
(* is kept, between descriptors that are skipped.                           *)
EXTENDS IdentityAllocator

MCMap == <<
    [type |-> "Conventional", physAddr |-> 0,                  numPages |-> 2],
    [type |-> "Other",        physAddr |-> MIN_ADDR - 2 * PAGE, numPages |-> 1],
    [type |-> "Conventional", physAddr |-> MIN_ADDR - PAGE,     numPages |-> 2],
    [type |-> "Other",        physAddr |-> MIN_ADDR + PAGE,     numPages |-> 4]>>

\* 800, 1300: splits and gaps of several lengths.  2036: two blocks and a
\* header fill the region exactly.  4072: a header short of the region, where
\* the split test is at its boundary.
MCSizes  == {800, 1300, 2036, 4072}
\* 16: padding smaller than a header must grow.  1024: it need not.
MCAligns == {16, 1024}

ASSUME MapIsSorted == SortedMap
=============================================================================
