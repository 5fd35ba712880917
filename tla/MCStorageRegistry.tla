------------------------- MODULE MCStorageRegistry -------------------------
(* Three disks with tables of three entries, and registries too small for   *)
(* them all; as in the kernel, the one of block devices is the smaller.     *)
EXTENDS StorageRegistry
=============================================================================
