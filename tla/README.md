# A verification of Staxus

Staxus is a small x86-64 kernel in C that UEFI starts.  `kernelMain`
(`src/src/kernel_entry.c`) sets up the screen, the descriptor tables and the
interrupts, the heap, the storage driver, the partitions and the file system,
lists the directory tree, and loads and calls a PE executable.  There is one
processor and no scheduler: concurrency comes from the devices, from interrupt
handlers, and from the machine stopping between two writes to a disk.

This directory holds TLA+ modules that model parts of the kernel, the TLC
configurations that check them, and TLAPS proofs.  `PROJECT.json` maps each
definition to the lines it models, lists the runs, and lists the hazards of the
code with the properties that cover them.

## Inventory

| Component (under `src/src/`) | State | Operations | Interacts with |
|---|---|---|---|
| Kernel heap: `memory/managers/identity.c`, `memory/alloc.c` | the list of block headers inside the memory itself, `totalUseable` | `idalloc_init`, `malloc`, `aalloc`, `realloc`, `free`, the two counters | everything that allocates |
| Block devices: `storage/block.c` | array of 256 pointers, count | register, list, read, write | AHCI below, partitions above |
| Partitions: `storage/partition/*.c` | array of 1024 pointers, array of 16 controllers | probe, `register_blocks`, read, write | block devices on both sides |
| AHCI driver: `storage/ahci.c` | registers of each port, command lists and tables | bring a port up, `sendPortCommand` | the controller, the heap |
| FAT32: `file-systems/fat32.c` | on the device: two copies of the table, directories; in memory: mount, iterators, entries of open files | open, read, write, close, exists, remove, rename, make and read directories | block devices, heap, the file layer |
| File layer: `file-systems/file-system.c` | arrays of file systems and mounts, FILEs and their positions | mount, unmount, longest match of a path, `fopen` ... `closedir`; `fwrite`, `rename`, `remove`, `mkdir` and `fprintf` return at once | FAT32 through a table of functions |
| PE loader: `file-formats/pe.c` | hash table of libraries with reference counts, modules | load, resolve imports, relocate, unload | file layer, heap |
| Interrupts: `interrupt/*.c` | IDT, GDT, `handlers[32]`, I/O APIC masks | install, mask, dispatch, exceptions | serial port, mouse, console |
| Serial port: `io/serial.c` | `activePort`, `activeRecv` | set up, receive in an interrupt, transmit | interrupts, `dbg` |
| Console: `video/print.c`, `video/gop.c` | cursor, static buffers, frame buffer | `printf` and relatives, scroll | called from everywhere, also by exception handlers |
| Mouse: `io/mouse.c` | packet being put together, position | interrupt handler, set-up (its call is commented out) | interrupts |
| PCI: `bus/pci.c` | none | `PCIFindDevice`, `PCIReadBAR` | AHCI |
| Strings, formatting, mathematics; fonts; boot loader | none | pure functions, parsing, one pass of firmware calls | |

What is hard here:

* **Arithmetic inside the heap**: headers lie between the buffers, and four
  operations split and merge them.  One header too few or too many is a buffer
  over a header, and shows up much later.
* **Crashes and failed accesses**: one FAT32 call is many writes, to two copies
  of the table and to a directory; each may fail, the machine may stop between
  any two, and the code takes a failed read for the end of a chain.
* **A device that works on its own**: the AHCI driver polls registers that the
  controller changes between any two accesses, and the firmware may have left
  the port running.
* **Two registries filled together**, where one refuses after the other took.
* **Ownership without counting**: mounts, FILEs and cached entries are copies or
  pointers that outlive what they describe.
* **Interrupts** against static buffers and handlers that are being installed.

What makes each part correct, modelled or not: the heap never hands out two
buffers that overlap and forgets no byte; the registries list exactly what
exists; each AHCI call returns the outcome of its own command, and returns; no
two files share a cluster and no cluster is lost; a path resolves to the mount
with the longest matching prefix and no FILE outlives its mount; a library is
loaded once and unloaded with its last reference; an interrupt finds its
handler; every character is drawn on the screen; a mouse packet starts at its
first byte.

## Modules

| Module | What it is |
|---|---|
| `IdentityAllocator` | the heap as the list of its blocks |
| `HeapService` | what `memory/alloc.h` promises, without a list; `IdentityAllocator` implements it |
| `IdentityAllocatorProofs` | the inductive invariant of the heap; the theorems that follow from it and the refinement |
| `FatTable`, `FatTableProofs`, `FatLossProofs` | the FAT32 cluster table, one directory and the open files, write by write; what no call and no fault can do to them; that no cluster leaks unnoticed, and that a file has the clusters its size claims |
| `AhciPort` | one port: the driver, access by access, and the controller |
| `StorageRegistry`, `StorageRegistryProofs` | disks and partitions being registered |
| `PeLoader`, `PeLoaderProofs` | executables and libraries being loaded and unloaded |
| `FatDirectory`, `FatDirectoryProofs` | a FAT32 directory slot by slot, with a reader; what is kept of the slots, and the refinement |
| `DirectoryService` | what a directory promises: names and their files; `FatDirectory` implements it |
| `FileLayer`, `FileLayerProofs` | mounts, paths, FILEs and reading; what a lookup finds and what a read stores |
| `Interrupts` | the way of an interrupt to the serial driver, while that is being set up |
| `DriverProofs` | what is proved of `AhciPort` and of `Interrupts` |
| `MC*` | instances for TLC: memory maps, clusters, slots, limits, directories |

The modules meet as the code does: `PeLoader` and `FileLayer` take the heap for
what `HeapService` says of it, `FatDirectory` takes clusters for slots, whose
order on the device is `FatTable`'s matter, and `FileLayer` takes directories for
the maps that `FatDirectory` implements.

Definitions in parentheses, "(A slip ...)", are mutated forms of the definition
that follows them: plausible mistakes that a property must catch.  Nothing uses
them; `PROJECT.json` "mutants" says which property catches which.

### IdentityAllocator

`heap` is the linked list from `firstBlock` on, in its order: address, size and
`MEM_IN_USE` of each header.  `useable` is `totalUseable`.  `scan` is the
descriptor `idalloc_init` is at.  `live` is what the clients know: each pointer
they hold with the size and alignment they asked for.  Addresses and sizes are
the real ones, in bytes.

Each call is one action, or one for each way it can end: `aalloc` in a block that
happens to be aligned (`AallocInPlace`) or after padding (`AallocPadded`),
`realloc` where the block has room (`ReallocKeep`), where the next block is
swallowed (`ReallocGrow`) or by moving (`ReallocMove`, which contains the
`malloc` and the `free` that the code calls).  First fit is `First(Fits(...))`.
The loop that raises the padding by multiples of the alignment is a closed form
(`Padding`).  Pointers are only given back if they are held: the code trusts its
callers as much.

`SortedMap` is the one assumption: the regions of the memory map that
`idalloc_init` keeps come in address order with at least a header's worth of
other memory between them.  `idalloc_init` neither sorts nor checks.

*Runs.*  `alloc_single` has one conventional region that straddles the 4 MiB
limit, between regions that are skipped, and sizes chosen so that splits happen
at their boundary (a header short of the region; two blocks and a header fill it
exactly).  There `Coalesced` says that the blocks always tile the region with
no two free neighbours.  `alloc_regions` has two regions with a gap, so that
blocks merge across it, and checks the type invariant, order, ownership and that
every step is a step of `HeapService`.  All reachable states are explored: the
region bounds how many blocks there can be.

*Findings.*  `alloc_overrun`: the size of a region's first block includes the
block's own header, so it ends 24 bytes after the region, and a client can be
given those bytes.  `alloc_overdrawn`: merges do not ask whether blocks touch,
and a merge across a gap adds a header to the free bytes that was never counted:
more memory is available than useable, and the difference that `kernelMain`
prints wraps.

### FatTable

`fat` and `bak` are the two copies of the table on the device, `dir` the entries
of one directory, `open` the entries in memory.  A call is the sequence of its
device writes (`call.todo`), performed one per step.  That is exact because
nothing else writes in the meantime and `allocCluster` takes the lowest free
cluster.  Each write carries what the code does when it fails: ignore it, stop,
or (the first copy in `setNextCluster`) stop after the second copy.  Between two
steps the machine may `Crash`, which leaves the device as it is.  Clusters in
`Beyond` are those that `allocCluster` may mark although they lie behind the end
of the device: filling them with zeros fails.

`lost`, `torn` and `short` are ghosts.  They record which clusters an earlier
call is known to have left behind, which names an interrupted truncation or
rename left in doubt, and which entries are known to claim more clusters than
they have.  The properties exclude exactly these, so they also say what can go
wrong on this driver: deleting leaks the first cluster of the file, a truncated
file keeps its old size on the device, and an interrupted rename leaves two
names for one chain.  `torn` loses a name that has no entry left.
`missed` belongs to a call: one of its accesses has failed and it went on, because
the code ignores the failure or takes it for the end of a chain.  What such a
call strands goes to `lost` even if it returns as if nothing had happened: with
two faults a write can lose its own link, and then return its length.

*The end mark.*  Walks that count do not tell the end mark 0x0FFFFFF8 from a
cluster: behind the end of a chain that is too short, or a table entry that could
not be read, they go on with it.  What that does depends on the volume.  Up to
1 GiB, and with fewer than 16 sectors to a cluster, the access fails, and the call
stops or goes on as the code says.  On a larger volume its "table entry", in sector
`fatStart` + 2097151, lies in the data area, where `getNextCluster` reads it
(`fat32.c:107-114`) and `setNextCluster` writes it (`fat32.c:183-202`); and with 16 or
more sectors to a cluster its sector number wraps in 32 bits into the tables
(`fat32.c:95`, `101`).  Both outcomes are in the model.  In the second the call is
*astray* (`Astray`): it may read and write anywhere, so what follows it is not
followed, and every property is of what comes before.  The four actions say where
it can happen: `WriteStrays` (a write starts in a file and walks to its end or to
the first byte written), `DataStrays` (it goes on to the clusters it has added),
`EntryStrays` (the walk to the directory cluster of a slot), and `TornUsed`.

*Names in doubt.*  The code opens, truncates, deletes and renames a name that a
crash or a failure left in `torn` like any other; nothing in it could tell.  The
model follows calls for other names only (`Sound`); one for a torn name is astray
from its start (`TornUsed`).

`SizeCovered` is also the bound on all this: a call goes astray only after a
failure, in a file that is `short`, under a torn name, or in a directory that
lacks the cluster a new entry goes to (the disk is full).  The second case needs
no failure: a file is truncated, closed without a write, opened again and written
to.  Its entry still has the old size, so the write walks behind its one cluster.

*Run.*  `fat_table`: five clusters (one of them behind the end) over two sectors
of the table, one entry per directory cluster, two names, sizes up to three
clusters, one fault.  Two files that grow and a directory that is extended
compete for the clusters, every write of every call is the one that fails or the
last before a crash, and after it the system goes on.  The run has no deadlock
check: a call that is astray is not followed.  Two names are
interchangeable (symmetry): no property of this run is about liveness.

*Limits.*  A name is opened once at a time and neither deleted nor renamed while
it is open (FILEs hold copies that the driver never refreshes); names fit 8.3 in
capitals; heap failures and failed directory reads are left out.  Nothing is
said of a volume after a call went astray on it.

### AhciPort

One step per access to a register.  `started`, `receiving` are the bits of
`PxCMD` that the driver sets, `engine`, `receiver` those the controller answers
with, `ci` is `PxCI`, `error` the task-file bit of `PxIS`.  The firmware hands
the port over running or not, with any commands issued.  The controller's
actions are not code of the kernel (marked external): they are the protocol that
the driver's loops presuppose.  `outcome` is a ghost: how the last command
really ended.

*Fairness.*  The driver polls: when the condition it waits for holds, nothing
keeps it from going on, so its steps are weakly fair.  The controller and the
device are assumed to finish what they have begun (weak fairness of each of
their actions).  Nobody has to call: `Prepare` is not fair.  With this,
`PortComesUp` and `CallsReturn` hold for two slots and two requests; the driver
uses one slot at a time, so the second one is there for the firmware's commands
and for `findCommandSlot` to have a choice.

*Finding.*  `ahci_stuck`: with a controller that keeps the bit of a failed command
in `PxCI` until the engine is stopped, as the AHCI standard has it, the loop
after the command is issued never ends, and "Failed to identify drive" is never
printed.  `ahci_port` assumes the opposite (`ErrorReleases`).

### StorageRegistry

The arrays of `block.c` and `partition.c`, the loop of `kernelMain` over the disks
and the loops of `register_blocks` over the entries of a table, which may hold
anything.  `allocated` is what exists on the heap, so that a pointer to a freed
object can be told.  `gpt.c` and `mbr.c` share one model: the difference is where
the entries come from.

*Run.*  `storage_registry`: three disks of three entries with room for seven
devices and eight partitions, so the first registry fills up in the middle of a
disk.  The scan ends, so there is no deadlock check.

### PeLoader

`LoadPEFile` and `UnloadPEFile` call each other through `LoadPELibrary`,
`ResolvePEImports` and `UnloadPELibrary`.  `stack` holds the calls in progress,
each with the import or the reference it is at; one step is one import resolved
or one reference given back, so that the properties also hold in the middle of a
load that fails several libraries deep.  `answer` is what the call that ended
last returned, until its caller has looked at it.  An image is reduced to what
the loader reads of it: whether the headers are accepted, the imports, the
exports and whether the relocation table is sound.  `faults` is how many
allocations still fail; one always does when all `Ids` are in use.

*Run.*  `pe_loader`: three files in 24 combinations.  The executable imports two
libraries, or one twice; the first may import the second or import the executable
back; the second is missing, sound, without exports or cannot be relocated; a
function may be missing.  The two libraries share a bucket.  Up to two
allocations fail, anywhere, and at most four modules exist: enough for all three
files and one that is loaded twice.
The one fairness assumption is that a call that has begun goes on: the kernel
has one thread.  A cycle of imports is loaded again and again, each time one level
deeper.  Two things can end that: the heap is exhausted, the load fails and the
modules already loaded are given back (`NothingForgotten`); or the kernel's stack
is, 1 MiB of static memory with no guard page (`kernel_entry.c:44`), and what
`ImportOverruns` writes behind it is not defined.  With ordinary images the
stack goes first.  `CallsReturn` says that every call returns but for those.
`MaxDepth` is how many nested loads the stack has room for, three in the run:
as many as there are files, so that only a cycle gets that deep, and one less
than there are modules, so that both ends come about.  The run has no
deadlock check: nothing follows an overrun.

*Left out.*  `NothingForgotten` is about modules.  The buffer with the file's data
is leaked when the headers are refused (`pe.c:316` to `342`) and when there is no
memory for the module (`pe.c:346`) or its image (`pe.c:355`).  What `fread` returns
is not looked at (`pe.c:74`, `312`): a file that could not be read is taken for
what the buffer held before.  Unloading nests too, once per library at most, in
smaller frames: its depth is not bounded.  Ordinals, which are refused
(`pe.c:224`); collisions of hashes.

### FatDirectory and DirectoryService

`slots` are the 32-byte entries of all clusters of one directory, `made` (a ghost)
the spelling each file was made with, `dir` the open Dir.  A name is a sequence
of pieces of 13 characters; a spelling adds whether the name is plain (fits 8.3 as
it is) and the short names that `get83Name` tries, in order.  `Create`, `Delete`
and `Move` are the whole of `createFAT32Entry`, `deleteFAT32Entry` and
`moveFAT32Entry` on the entries: where the run of unused slots is found or a
cluster added, which short name is taken, where the pieces go, what stays behind.
Lookup and listing parse the slots as `parseFAT32Entry` does, with its buffer and
its flag.

The driver loses names in four ways, which `Excused` lists and nothing else may:

1. `Stray`: the pieces of a deleted file stay and name the next entry after them;
   the checksum in them is never compared (`fat32.c:299`, `1028`).  Whoever asks
   for that name gets the entry: deleting "c1c2" a second time deletes the file
   that stands behind its pieces.  (An entry behind stray pieces is excused also
   where it happens to be listed correctly.)
2. `Crossing`: pieces that belong at the end of a cluster are written to the end
   of the next one, over whatever is there (`fat32.c:543`).
3. `Aliased`: a plain name whose short name is taken gets another and no pieces:
   the name asked for is nowhere (`fat32.c:392`).
4. `Reversed`: pieces in the order other systems write are cut by the zero
   behind piece 1 (`fat32.c:232`).

As long as none has happened the directory is a map from names to files, and
`ServiceSpec` says that every call does to the map what `DirectoryService` says;
the refinement maps `files` to `Listing` and `sound` to `Intact`.  While a name
is lost nothing is promised, and the promise is resumed when the last such
entry is gone.  `OthersStay` holds all the time: what a call changes are unused
slots, where the new entry goes, and one slot it gives up (`GivenUp`), the entry
of the file made with the name it was asked for.  Another file's entry is lost in
two ways, which the property names: under a name that is excused, the entry
found there is given up; and pieces that cross a cluster lie on it
(`CrossedBy`).

*Run.*  `fat_directory`: three spellings, one of them plain and the short name
of another, one of two pieces; two files; clusters of three slots, of which a
name takes up to all three, so that runs, growth and crossings come about; two
clusters; a directory that is empty, or has a name another system wrote.

*Assumptions.*  The pieces of a name and its entry fit in one cluster: with
clusters of 512 bytes `writeFAT32Entry` would need two new clusters for a name of
more than 195 characters, and adds one.  `get83Name` does not run out of tries
(it has 999,999, of which the first may be the second once more: "ABCDEF~1" is
both).  A directory that is there at first has entries with different names,
short names and files, each with all its pieces before it, in this driver's
order or the other; between them may lie any pieces that this driver left when
it deleted their entries.  Another system that deletes a long name writes 0xE5
into its pieces as well.  Such a slot is free where an entry is to be put
(`fat32.c:448`), and a fifth and last piece where names are read
(`fat32.c:226`, before the test of line 239): no directory here has one.
`get83Name` first writes a base name of more than 11 characters behind its
buffer of 11 (`fat32.c:400`); the model takes the names it tries as given and
leaves that out.

### FileLayer

`mounted` is the table of mounts in its order, `volumes` the directories and chains
on each device, `files` the FILEs of the clients.  Paths are sequences of
characters, because the code counts characters; the recursion over them, and the
one over directories, is written as functions of the place in the path: `Covers` and `Better` are the
tests of `getMount`, `Find` is `findFAT32Entry`, with the leading slash that is
skipped in one of two copies of the path.  `Fetch` is the loop of
`readFAT32File`; the byte at offset k is the number k.

Behind the end of a chain, and behind a table entry that could not be read, the
walk goes on with the end mark 0x0FFFFFF8 as if it were a cluster.  Reading that
cluster may succeed: its sector number wraps in 32 bits when a cluster has 16 or
more sectors and is then one of the tables (`fat32.c:95`), and on a volume of more
than 1 GiB its "table entry", in sector `fatStart` + 2097151, is read from the data
area and leads on to some cluster (`fat32.c:107-114`).  So a read takes two
arbitrary numbers: `cut`, where the walk may lose the chain, and `good`, after how
many rounds `readCluster` fails, if it does.  What is read behind the last
cluster found is `Other`, a byte that is not the file's.

`PathsResolve` compares `Lookup` with a definition that splits both the path and
the mount points at slashes.  It names what differs: a file on a mount other than
"/" is not found, since its relative path begins with a slash (directories are),
nor is one with a slash behind its name.  `ReadsFit` speaks of reads that start
inside the file: no more than asked for is stored, the bytes of clusters that the
walk finds are the right ones, and the count is all or, only if `readCluster`
failed, 0.  It does not say that a count other than 0 means that all bytes are the
file's, which is false: a truncated file keeps its size on the device (see
`FatTable`), so that opened once more it claims bytes its chain has not, and
reading them returns 0 or bytes from elsewhere, with the full count.  The same
happens behind a failed read of the table.  Behind the end of the file
`entry -> size - offset` wraps and the read goes on until a cluster cannot be read.

*Run.*  `file_layer`: two volumes, one of them full, and a blank device; three
mount points, one below the other, mounted and unmounted in any order; eleven
paths, with names that are prefixes of others; three modes; reads across the
borders of clusters of two bytes, with the walk cut and `readCluster` failing at
every place in turn; one FILE.  Positions are integers of four bits (`Wide`) where the code has 64: enough
for sums that wrap and for the offset -1.

*Assumptions.*  Paths and mount points begin with a slash and have no two in a
row, and no point but "/" ends in one (`PathAssumption`; the code neither checks
nor needs this to be safe, but "longest prefix" means nothing otherwise).  No
position reaches 2^64 while a read inside the file goes on (`NumberAssumption`).

*Guards that the code does not have.*  The table of mounts is not overrun
(`file-system.c:49`), and a mount with an open FILE is not removed
(`file-system.c:64`).  Nothing in the repository calls `UnmountFileSystem`.

### Interrupts

One step per thing the kernel, the processor, the two APICs or the port does:
the steps of `InitializeInterrupts` and `InitializeSerial`, the delivery of a
request, `stub` with the handler, the EOI, `iretq`, and a byte that arrives.
The I/O APIC and the port are not code of the kernel (marked external).  The
lines are edge triggered, since `SetIOAPICRedirection` sets only vector and
mask; the port holds its line up while it has a byte.

`InitializeSerial` lets the port interrupt before its line is unmasked, and
unmasks the line before `activePort` is set.  A byte that arrives in one of the
two windows is not read, its line stays up, and no edge comes any more.  The
port holds one byte, and the next one overwrites it.  `BytesRead` says that these
are the only ways to miss a byte: each one that the port holds is read
(`taken`) or overwritten by the next (`overwritten`), unless one came before
`activePort` was set (`early`), which may have happened in the windows.
`SerialActive` does not help: `activePort` is a 16-bit word, its first value
0xFFFF, and the test against -1 always true.

*Run.*  `interrupts`: three lines; three bytes, so that one can be read, one
overwritten and one be the last.  Fair are the kernel, the delivery of a request
and the handler, because the processor runs; that bytes arrive is not assumed,
and when all have come the system may rest, so there is no deadlock check.

## What is proved

*Heap* (`IdentityAllocatorProofs`), for every memory map with `SortedMap`, all
sizes and alignments: types (`TypeCorrect`), order of the list
(`HeapStaysOrdered`), backing of buffers and ownership of blocks
(`BuffersBacked`, `BlocksOwned`), disjointness (`BuffersDisjoint`), alignment (`BuffersAligned`), and that the list
implements `HeapService` (`Refinement`).  The invariant is `IInv` of
`IdentityAllocatorProofs`: besides the properties it says that during
`idalloc_init` the list ends before every region still to come.  Without that
`HeapOrdered` is not inductive: appending a block needs it.  The argument goes
through the edits of the list (`Cut`, `Merge`, the two flags), each of which is
shown to keep order, backing and ownership; the calls are compositions of these.

When idalloc_init keeps one region (`OneRegion`), also `Coalesced`
(`RegionCoalesced`) and `NeverOverdrawn` (`RegionNotOverdrawn`).  Inside a call
neither holds of the list, so the edits are followed with one block left out:
`Compact(h, i)` says that no two neighbours are free but for block i, and each
edit moves the exception until the last one removes it.  That the blocks lie end
to end (`Tiles`) bounds what is free by the length of the region less a header,
block by block from the first one; there the induction over the list is a least
counterexample.  `NeverOverdrawn` is false with two regions (`alloc_overdrawn`),
and so is `Coalesced`, since a gap is no block.

*Registries* (`StorageRegistryProofs`), for any numbers of disks and entries and
any limits with MAX_BLOCK_DEVICES <= MAX_PARTITIONS: no dangling pointer
(`RegistriesLive`), the limits kept (`RegistriesTyped`) and every partition's
device registered (`PartitionsPaired`).
`NoDangling` is not inductive alone: the clean-up of `register_blocks` frees a
device that the first registry already took if the second refuses.  The invariant
adds that there are never more partitions than devices, so the second never
refuses first.  With the limits the other way round the code would be wrong.

`ReportsTrue` says that what `register_blocks` returns is how many of the disk's
partitions are registered, also when a registry fills up on the way.

*FAT32 table* (`FatTableProofs`), for every number of clusters, every directory,
any number of failed accesses and crashes, and until a call goes astray: types (`TypeCorrect`), chains that
never meet (`ChainsStayApart`), first clusters that belong to one entry
(`HeadsStayOwned`), no step that changes another file's chain (`OthersStay`), and
copies of the table that differ by no more than the write in progress and the
writes that failed (`MirrorsStayClose`).
`ChainsApart` is not inductive, because a call is under way in most states, and
a write of it is only harmless on the table that the writes before it leave, of
which any may have failed or been skipped.  The invariant is in four parts:

1. `Sane`: the device is in order as far as it can be: what is linked is
   allocated and linked to once (`Linked`), first clusters are owned (`Owned`),
   no name occurs twice (`NamesApart`), an open file is at the cluster of its
   entry (`Matching`), and all this leaves out the names in `torn`.
2. `Ready`: every write still to come is safe, on the device as it is, given the
   writes before it.  A mark needs a cluster that is free (`CanMark`), a link
   needs a target that is marked and that nothing leads to (`CanLink`), a
   cluster is freed only when nothing leads there and no entry begins there
   (`CanFree`), an entry is made at a marked cluster and cleared when another
   entry or nobody has the chain (`CanEnter`, `CanClear`); each has the
   condition "or one of the writes before it makes it so".
3. `Ending`: what is owned and matches when the call has done its last write.
4. the types, which include that a call is of a kind the code has.

It holds until a call goes astray: `Inductive` is of the invariant or `Adrift`,
and an astray call stays what it is, since no action takes it up again.

A write is shown to keep `Sane`, and to leave the rest of the call `Ready`, once
for each kind of write and each way it can fail, without regard to the call it
comes from; and each call is shown to be `Ready` when it begins.  Chains are the
part that needs induction (a chain of the new table is that of the old one if no
cluster on it was written): it goes by the least index at which the two differ,
since the library's induction theorems cannot be used.  `MirrorsStayClose`
needs an invariant of its own (`Trailing`): a call writes a cluster to the first
copy and next to the second.

*Clusters that leak* (`FatLossProofs`): `Accounted` (`NothingLeaks`), with the same
generality.  It is not inductive, and the invariant of `FatTableProofs` is not
enough: that a write is safe does not say what it lets go of.  Two conjuncts are
added, both about the writes that are still to come:

1. `LossInv`, whichever of them fail: a write of the table changes only entries
   behind which every cluster is one of K, the lost ones and those the call has
   got; an entry is made or cleared only when what it no longer reaches is in K or
   stays reachable.  To say that, every entry and open file must have nothing
   behind its size but lost clusters (`EntriesHeld`, `OpenHeld`), so that a growing
   file that overwrites the wrong link (it was cut short by a failed read) drops
   nothing new.
2. `FineInv`, if none of them fails: the table and the directory that they make
   (`Outcome`) reach everything in use but what the code loses on purpose
   (`call.left`).  Without it a call that returns could not give up its claim to
   what it got.  A call that missed a part of a chain (`call.missed`) is excepted,
   as it is in `FatTable`.

Both are shown once for a write that lands or fails, whatever call it is of, by
what they say of the rest of the writes; and for each call when it begins, which
is where the order of its writes matters.  The lemmas on chains say what is left
of one when some of its entries are written (`ChainKept`), freed (`RestPruned`) or
extended (`GrowthChain`).

*Files as long as they say* (`FatLossProofs`): `SizeCovered` (`SizesStayCovered`),
for every number of clusters, names and faults.  An entry and its chain are
written at different times, and either write may fail, so the property is not
inductive.  What is added (`LongInv`, checked by TLC with up to two faults before
it was proved) has two parts, about the writes still to come as above:

1. `Long`, whichever of them fail.  An entry whose size counts (`Claims`) heads a
   chain that is at least that long (`Headed`, `Covers`), and every write to come
   leaves those clusters linked (`Spares`).  The same holds of open files, whose
   own copy of the size is what the next write starts from, and no entry
   claims more than its open file (`OpenLong`).  An entry still to be written
   (`ComingLong`) is the last write of an `fwrite` or the second name of a chain that is
   long enough; entries of torn names share no chain with others (`KeptApart`).
2. `Grown`, if all of them land: a file that grows has, after its writes, a
   chain as long as its new size.  So the entry, which is written last, claims
   no more than there is.

`fwrite` does not see that a write of the table failed until it walks the chain
again (`Missing`): by then its entry is written.  Only then is the file marked
(`short`), as truncated files are, and excepted by the property.
The bound on calls that go astray follows where they do (`StraysDrifted`): an
open file, or one a call has just written, is as long as its size by `OpenLong`
and `Grown`, unless it is `short` or something has failed.

*AHCI port* (`DriverProofs`), for any number of slots and requests, whatever
the firmware left running, and whether or not a failed command's slot is
released: types (`TypeCorrect`), `AnswersTrue`, `SlotsReleased`, `ListSafe`.
The invariant follows the driver through three stretches: while the engine is
being stopped only the firmware's commands run; once it is stopped nothing does;
a command of the driver is alone, and the error flag was cleared before it.

*Interrupts* (`DriverProofs`), for every set of lines and bytes and whatever
the firmware left masked: `AnsweredByOwner` (`InterruptsAnswered`).  The invariant follows the request
back: it was noticed on an unmasked line, a line is unmasked only after its
handler is in, and before the lines are set up the port cannot interrupt.

*PE loader* (`PeLoaderProofs`), for every directory, placement in buckets, number
of modules and of failed allocations: types (`TypeCorrect`), `BindingsHold`,
`CountsHold`, `OnceHolds` and `NothingStays`.  Loads and unloads call each other,
so the four are proved of every stack of calls, by one invariant:

* A reference is *kept* until an unload has passed its place in `dllRefs`.  Those
  kept are to libraries of the cache (`BoundOK`), a count is their number
  (`CountOK`), and they lead downwards in some order (`RankOK`).  The last one is
  why nothing is forgotten: libraries in a ring would keep each other alive.
* A module is the client's, or in the cache, or on the stack once (`OwnerOK`), or
  counted, or about to be returned (`KnownInv`).
* The modules being loaded are below those being unloaded, and each is the next
  import of the one below it (`StackOK`).  The cache has no library of its name:
  a second load of a name, in a ring of imports, ends before the first goes on,
  and only after its own imports.  Were both to succeed, the upper one would have
  found the name in the cache; so the upper one ends in a failure, and
  `LoadedOnce` holds though nothing in the code looks for it.
* What was just loaded is the library that the call below waits for (`AnswerInv`).

`OverrunsAreCycles`: if the stack has room for as many loads as there are files,
only files that import each other overrun it.

*FAT32 directory* (`FatDirectoryProofs`), for every directory, set of names and
files, and size of a cluster: different short names (`ShortsDiffer`), names that
are only lost in the four ways (`NamesKept`), other entries left alone
(`NoOtherHarmed`), a complete listing for every reader (`AllRead`) and the
refinement of `DirectoryService` (`DirectoryServes`).
None of them is inductive.  That a name is listed as it was made depends on
pieces that stand anywhere before its entry, some of files deleted long ago, and
on whether an entry between them has been deleted since.  The invariant `Listed`
of the slots is in four parts:

1. `Typed`: whole clusters of slots.
2. `Apart`: no two entries have a file or a short name in common.  A free short
   name is always found, since there are more tries than files (a pigeonhole
   argument).
3. `Spelt`: an entry's pieces stand before it, or some have been overwritten by
   another entry's, which their checksum shows, or are in the other order, which
   the piece before the entry shows.
4. `TwinsHidden`: two entries may be made with one name when the first one's name
   was lost, since it is not found.  If both are good otherwise, a piece that is
   stray for one of them is there and stays.  This is what makes the refinement
   true when the last lost name is found again.

`Changed` says what all three calls do to the slots, with the entry they make if
they make one; that it keeps `Listed` is shown once, and that `writeFAT32Entry`
does no more than that, once.  From `Listed` follows `NamesListed`: an entry that
is not excused is parsed to its name, whatever `lfnBuf` contains from before.
`AllRead` adds an invariant of the reader (`Reader`): files that stay and stand in
clusters behind it were returned once; those of its cluster were returned or
are in its buffer, not both; the others were not returned.

*File layer* (`FileLayerProofs`), for every set of paths, directories, sizes and
widths that the assumptions allow: types and the mounts (`MountsAndFilesHold`),
what `Lookup` finds (`PathsResolveHolds`) and what a read stores
(`ReadsFitHolds`).

* `ReadsFit`: `Fetch` is followed round by round; each round stores the bytes from
  the position it has reached, and that position is a border of clusters from
  the second round on.  So the cluster of a byte (`ClusterOf`) is that of its round,
  and the byte is right if the walk found that cluster.  Inside the file nothing
  wraps.
* `PathsResolve` compares two recursions: the code's, which looks for the next
  slash in what is left of the path (`Find`), and the reference, which splits the
  path first (`Components`) and then walks the pieces (`Named`).  Each is unfolded
  by one component (`ComponentsStep`, `FoundIs`), and that they agree is shown
  from the end of the path backwards, by the least counterexample.  A
  path cut at a slash has the components of its two parts (`ComponentsCat`), so
  that a point covers a path exactly when its components begin the path's
  (`PointIs`), and the longest covering point is the nearest mount.
* The invariant is that mounts are at different points, on formatted devices,
  and files on mounted ones.

*Only model-checked*: `CallsReturn`, `PortComesUp` and `BytesRead`, which say what
eventually happens.  Every safety invariant and action property of the passing
runs, and both refinements, are proved.
Out of the proof system's reach here are liveness under fairness and ENABLED, and
induction over data (what a chain or a fold computes).

## What is not modelled

* The boot loader and fonts: one pass of firmware calls, parsing of one file.
* Strings, formatting, mathematics: pure functions, floating point among them.
* The console: pixels and two coordinates.  A text with several newlines is
  scrolled by one line only (`print.c:201`); exception handlers print through the
  buffers of the `printf` they interrupt, but never return to it.
* The mouse: its initialization is commented out (`kernel_entry.c:122`).  The
  keyboard and serial transmission: port I/O without state.
* PCI: a scan without state, which does not end if no device matches, since `bus`
  is a byte (`pci.c:26`).
* The contents of GDT and IDT; exceptions, which stop the machine.
* The contents of partition tables and the bounds of partition reads, where
  sector + count may wrap (`partition.c:43`).
* `makeFAT32Dir` and `writeFAT32File` from the file layer: `mkdir` and `fwrite`
  return at once (`FatTable` has the clusters and entries of a write).

## Plan

1. Done: heap with proofs and refinement; FAT32 table; AHCI port; registries;
   PE loader; directories with their refinement; file layer; interrupts.
2. Done: the proofs above.
3. Left: what eventually happens stays with TLC, and what is listed above as not
   modelled.
