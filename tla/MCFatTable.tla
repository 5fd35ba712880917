----------------------------- MODULE MCFatTable -----------------------------
(* A table of five clusters over two sectors, of which the last lies behind   *)
(* the end of the device; one entry per directory cluster, so that a second  *)
(* file extends the directory.                                               *)
EXTENDS FatTable, TLC

MCRoot     == 2
MCClusters == 2 .. 6
MCBeyond   == {6}

\* No action tells one name from another.
MCSymmetry == Permutations(Names)
=============================================================================
