------------------------------ MODULE FileLayer ------------------------------
(***************************************************************************)
(* The files as the kernel sees them (file-systems/file-system.c): the     *)
(* file systems, the mounts, the choice of the mount for a path, and the   *)
(* FILEs, down to the lookup, creation and reading of FAT32 files          *)
(* (file-systems/fat32.c).  FatTable and FatDirectory show how the entries *)
(* and chains used here are kept on the device.                            *)
(*                                                                         *)
(* A path is the sequence of its characters, since it is by counting them  *)
(* that components are found.  The byte at offset k of a file is the       *)
(* number k.  fwrite, fprintf, rename, remove and mkdir return at once.    *)
(***************************************************************************)
EXTENDS Integers, Sequences, FiniteSets, SequencesExt

CONSTANTS
    Devices,
    InitVolumes,      \* device -> its volume, or Unformatted
    Unformatted,
    Clusters,         \* of a volume
    Points, Paths,    \* the mount points and the paths in use
    Modes,            \* of fopen: sets of letters
    Handles,          \* variables of type FILE * of the clients
    Reads,            \* the numbers of bytes asked for
    Offsets,          \* given to fseek
    bytesPerCluster,
    Wide,             \* 2^64
    MAX_FILE_SYSTEMS,
    MaxMounts         \* bound; the code has none (file-system.c:49)

VARIABLES
    fileSystems,      \* the drivers registered
    mounted,          \* the mounts, in the order of the table
    volumes,          \* device -> [entries: cluster -> entries in it,
                      \*            chain: head -> clusters of its chain]
    files             \* handle -> its FILE, or NULL

vars == <<fileSystems, mounted, volumes, files>>

Slash == "/"
NULL  == [null |-> TRUE]
Root  == 1            \* the root cluster of every volume

Entry(name, isDir, cluster, size) ==
    [name |-> name, isDir |-> isDir, cluster |-> cluster, size |-> size]

\* Sizes have 32 bits and buffers fit in memory: no read asks for bytes at 2^64.
Sizes == {z \in Nat : \A n \in Reads : z + n < Wide}

FileEntry == [name : Seq(STRING), isDir : BOOLEAN, cluster : Clusters, size : Sizes]

IsVolume(v) ==
    /\ DOMAIN v = {"entries", "chain"}
    /\ v.entries \in [Clusters -> Seq(FileEntry)]

ASSUME NumberAssumption ==
    /\ Reads \subseteq Nat /\ Offsets \subseteq Int /\ 0 \in Sizes
    /\ bytesPerCluster \in Nat \ {0} /\ Wide \in Nat \ {0}
ASSUME VolumeAssumption ==
    /\ Clusters \subseteq Nat /\ Root \in Clusters
    /\ DOMAIN InitVolumes = Devices
    /\ \A d \in Devices : InitVolumes[d] = Unformatted \/ IsVolume(InitVolumes[d])
\* Paths are absolute, and no two slashes follow each other.
ASSUME PathAssumption ==
    /\ \A p \in Points \cup Paths :
          /\ p \in Seq(STRING) /\ p # <<>> /\ p[1] = Slash
          /\ \A k \in 1 .. Len(p) - 1 : p[k] = Slash => p[k + 1] # Slash
    /\ \A p \in Points : p = <<Slash>> \/ Last(p) # Slash

From(path, k) == SubSeq(path, k, Len(path))

-----------------------------------------------------------------------------
(* Which mount a path is on *)

Covers(point, path) ==
    /\ IsPrefix(point, path)
    /\ \/ Len(path) = Len(point) \/ path[Len(point) + 1] = Slash
       \/ point = <<Slash>>

(* (A slip: the last mount that covers the path is taken, not the longest.) *)
BetterAlways(i, best) == TRUE

Better(i, best) == best = 0 \/ Len(mounted[i].point) > Len(mounted[best].point)

\* The index of the mount that getMount finds, or 0.
MountOf(path) ==
    LET best[i \in 0 .. Len(mounted)] ==
            IF i = 0 THEN 0
            ELSE IF Covers(mounted[i].point, path) /\ Better(i, best[i - 1]) THEN i
            ELSE best[i - 1]
    IN  best[Len(mounted)]

RelPath(path) == From(path, Len(mounted[MountOf(path)].point) + 1)

-----------------------------------------------------------------------------
(* The walk along a path *)

ComponentLength(path) ==
    CHOOSE n \in 0..Len(path) : /\ n = Len(path) \/ path[n + 1] = Slash
                                /\ \A k \in 1..n : path[k] # Slash

(* (A slip: the walk goes on through a file as if it were a directory.) *)
EntersAny(e) == TRUE

Enters(e) == e.isDir

Hits(entries, name)  == {i \in DOMAIN entries : entries[i].name = name}
First(entries, name) ==
    entries[CHOOSE i \in Hits(entries, name) : \A j \in Hits(entries, name) : i <= j]

\* findFAT32Entry, from the k-th character of the path on and in directory d.  A
\* leading slash is skipped in the copy of the path only, so the length found in
\* the copy is one short in the path (fat32.c:748, 769).
Find(v, path, dir) ==
    LET found[k \in 1 .. Len(path) + 1] ==
            [d \in Clusters |->
                LET rest == From(path, k)
                    name == IF rest # <<>> /\ rest[1] = Slash THEN Tail(rest) ELSE rest
                    len  == ComponentLength(name)
                    here == SubSeq(name, 1, len)
                    e    == First(v.entries[d], here)
                IN  IF name = <<>> THEN Entry(<<>>, TRUE, d, 0)
                    ELSE IF Hits(v.entries[d], here) = {} THEN NULL
                    ELSE IF len = Len(rest) THEN e
                    ELSE IF Enters(e) THEN found[k + len + 1][e.cluster] ELSE NULL]
    IN  found[1][dir]

\* What a path names: exists asks whether there is an entry, opendir whether it
\* is a directory, fopen whether it is a file.
Lookup(path) ==
    LET i == MountOf(path) IN
    IF i = 0 THEN NULL
    ELSE Find(volumes[mounted[i].device], From(path, Len(mounted[i].point) + 1), Root)

LastSlash(path) ==
    CHOOSE n \in 0..Len(path) : /\ n = 0 \/ path[n] = Slash
                                /\ \A k \in (n + 1)..Len(path) : path[k] # Slash

basepath(path) == From(path, LastSlash(path) + 1)
dirname(path)  == IF LastSlash(path) <= 1 THEN <<>> ELSE SubSeq(path, 1, LastSlash(path) - 1)

-----------------------------------------------------------------------------
(* Reading *)

(* (A slip: the offset in the first cluster is used in the next ones too.) *)
NextOffsetKept(off) == off

NextOffset(off) == 0

\* A byte of a cluster that is not the file's.
Other == Wide

\* The loop of readFAT32File, round by round, from an offset in a cluster of a
\* chain of which n clusters are found.  After `good' rounds readCluster fails.
\* Behind the last cluster found is the end mark, and a read of it may succeed:
\* with 16 or more sectors to a cluster its sector number wraps, and beyond
\* 1 GiB it has an entry, which leads on to some cluster (fat32.c:95, 107).
Fetch(n, good, cluster, offset, length) ==
    LET round[k \in 0 .. length] ==
            IF k = 0 THEN [stored |-> <<>>, off |-> offset, left |-> length, ok |-> TRUE]
            ELSE LET r      == round[k - 1]
                     c      == cluster + k - 1
                     room   == bytesPerCluster - r.off
                     toRead == IF r.left > room THEN room ELSE r.left
                 IN  IF r.left = 0 \/ ~r.ok THEN r
                     ELSE IF k > good THEN [r EXCEPT !.ok = FALSE]
                     ELSE [stored |-> r.stored \o [j \in 1 .. toRead |->
                                          IF c < n THEN c * bytesPerCluster + r.off + j - 1
                                                   ELSE Other],
                           off |-> NextOffset(r.off), left |-> r.left - toRead, ok |-> TRUE]
    IN  round[length]

\* How many clusters of its chain the walk finds: a read of the table that
\* fails, at the cluster `cut', gives the end mark (getNextCluster).
FoundOf(f, cut) ==
    LET n == volumes[f.device].chain[f.cluster] IN IF cut < n THEN cut ELSE n

\* Where a walk may be cut, and how many rounds may go well: the last of each
\* is no failure.
Cuts  == 1 .. Cardinality(Clusters)
Goods == 0 .. Wide

\* What fread of `count` bytes stores, and what it returns.
Fread(f, count, cut, good) ==
    LET length == IF (f.ptr + count) % Wide > f.size THEN (f.size - f.ptr) % Wide ELSE count
        r == Fetch(FoundOf(f, cut), good, f.ptr \div bytesPerCluster,
                   f.ptr % bytesPerCluster, length)
    IN  [stored |-> r.stored, read |-> IF r.ok THEN Len(r.stored) ELSE 0]

-----------------------------------------------------------------------------
Init ==
    /\ fileSystems = <<>> /\ mounted = <<>>
    /\ volumes = InitVolumes
    /\ files = [h \in Handles |-> NULL]

RegisterFileSystem(fs) ==
    /\ Len(fileSystems) < MAX_FILE_SYSTEMS
    /\ fileSystems' = Append(fileSystems, fs)

RegisterFAT32FileSystem ==
    /\ RegisterFileSystem("FAT32")
    /\ UNCHANGED <<mounted, volumes, files>>

\* probeFAT32FileSystem: the first sector can be read and is one of FAT32.
Probe(device) == volumes[device] # Unformatted

\* mountFAT32FileSystem: what a mount keeps.  Where the clusters of the volume
\* are is the same for all mounts of its device.
Mount(device, point) == [point |-> point, device |-> device]

\* The first file system that recognises the device gets it; a mount point is
\* given once.
MountFileSystem(device, point) ==
    /\ Len(mounted) < MaxMounts
    /\ \A i \in DOMAIN mounted : mounted[i].point # point
    /\ fileSystems # <<>> /\ Probe(device)
    /\ mounted' = Append(mounted, Mount(device, point))
    /\ UNCHANGED <<fileSystems, volumes, files>>

\* The last mount takes the place of the one removed.  No FILE of the mount may
\* be in use: the code does not look.
UnmountFileSystem(point) ==
    \E i \in DOMAIN mounted :
        /\ mounted[i].point = point
        /\ \A h \in Handles : files[h] # NULL => files[h].point # point
        /\ mounted' = Front([mounted EXCEPT ![i] = Last(mounted)])
        /\ UNCHANGED <<fileSystems, volumes, files>>

\* fopen: the flags that a mode stands for.
Flags(mode) ==
    UNION {CASE letter = "r" -> {"READ"}
             [] letter = "w" -> {"WRITE", "CREATE", "TRUNC"}
             [] letter = "a" -> {"WRITE", "CREATE", "APPEND"}
             [] letter = "+" -> {"READ", "WRITE"}
             [] OTHER -> {} : letter \in mode}

Opened(h, path, mode, e) ==
    files' = [files EXCEPT ![h] =
        [point |-> mounted[MountOf(path)].point, device |-> mounted[MountOf(path)].device,
         cluster |-> e.cluster, size |-> e.size,
         ptr |-> IF "APPEND" \in Flags(mode) THEN e.size ELSE 0,
         reads |-> "READ" \in Flags(mode)]]

\* openFAT32File of an entry there is.  The chain is truncated, the entry on
\* the device keeps its size.
OpenExisting(h, path, mode) ==
    LET e == Lookup(path) IN
    /\ files[h] = NULL
    /\ e # NULL /\ ~e.isDir
    /\ Opened(h, path, mode, IF "TRUNC" \in Flags(mode) THEN [e EXCEPT !.size = 0] ELSE e)
    /\ volumes' = IF "TRUNC" \in Flags(mode)
                  THEN [volumes EXCEPT ![mounted[MountOf(path)].device].chain[e.cluster] = 1]
                  ELSE volumes
    /\ UNCHANGED <<fileSystems, mounted>>

\* createFAT32Entry where there is none.  The parent may be a file: the entry
\* is then written into its data.  An entry without a name is not seen again.
OpenNew(h, path, mode) ==
    /\ files[h] = NULL
    /\ "CREATE" \in Flags(mode)
    /\ MountOf(path) # 0 /\ Lookup(path) = NULL
    /\ LET d == mounted[MountOf(path)].device
           rel == RelPath(path)
           parent == Find(volumes[d], dirname(rel), Root)
           unused == Clusters \ DOMAIN volumes[d].chain
           c == CHOOSE k \in unused : \A j \in unused : k <= j
           e == Entry(basepath(rel), FALSE, c, 0)
       IN  /\ parent # NULL /\ unused # {}
           /\ volumes' = [volumes EXCEPT ![d] =
                  [entries |-> [k \in Clusters |->
                        IF k = parent.cluster /\ e.name # <<>> THEN Append(@.entries[k], e)
                        ELSE @.entries[k]],
                   chain |-> [k \in DOMAIN @.chain \cup {c} |-> IF k = c THEN 1 ELSE @.chain[k]]]]
           /\ Opened(h, path, mode, e)
    /\ UNCHANGED <<fileSystems, mounted>>

\* fread; it moves on by what was read.
ReadFile(h, count, cut, good) ==
    /\ files[h] # NULL /\ files[h].reads
    /\ files' = [files EXCEPT ![h].ptr = (@ + Fread(files[h], count, cut, good).read) % Wide]
    /\ UNCHANGED <<fileSystems, mounted, volumes>>

fseek(h, offset, origin) ==
    /\ files[h] # NULL
    /\ LET base == CASE origin = "CUR" -> files[h].ptr
                     [] origin = "SET" -> 0
                     [] origin = "END" -> files[h].size
       IN  files' = [files EXCEPT ![h].ptr = (base + offset) % Wide]
    /\ UNCHANGED <<fileSystems, mounted, volumes>>

fclose(h) ==
    /\ files[h] # NULL
    /\ files' = [files EXCEPT ![h] = NULL]
    /\ UNCHANGED <<fileSystems, mounted, volumes>>

Next ==
    \/ RegisterFAT32FileSystem
    \/ \E d \in Devices, p \in Points : MountFileSystem(d, p)
    \/ \E p \in Points : UnmountFileSystem(p)
    \/ \E h \in Handles :
        \/ \E p \in Paths, m \in Modes : OpenExisting(h, p, m) \/ OpenNew(h, p, m)
        \/ \E n \in Reads, cut \in Cuts, good \in Goods : ReadFile(h, n, cut, good)
        \/ \E n \in Offsets, origin \in {"CUR", "SET", "END"} : fseek(h, n, origin)
        \/ fclose(h)

Spec == Init /\ [][Next]_vars

-----------------------------------------------------------------------------
(* Properties *)

\* The components of a path: what stands between its slashes.
Components(path) ==
    LET from[k \in 1 .. Len(path) + 1] ==
            IF k = Len(path) + 1 THEN <<>>
            ELSE IF path[k] = Slash THEN from[k + 1]
            ELSE LET n == ComponentLength(From(path, k))
                 IN  <<SubSeq(path, k, k + n - 1)>> \o from[k + n]
    IN  from[1]

\* What the components cs name, one after the other from entry e on.
Named(v, cs, e) ==
    LET named[i \in 0 .. Len(cs)] ==
            IF i = 0 THEN e
            ELSE LET d == named[i - 1] IN
                 IF d = NULL \/ ~d.isDir \/ Hits(v.entries[d.cluster], cs[i]) = {} THEN NULL
                 ELSE First(v.entries[d.cluster], cs[i])
    IN  named[Len(cs)]

\* The mounts whose point is the path or above it, and the lowest of them.
Above(path)   == {i \in DOMAIN mounted : IsPrefix(Components(mounted[i].point), Components(path))}
Nearest(path) ==
    CHOOSE i \in Above(path) :
        \A j \in Above(path) :
            Len(Components(mounted[j].point)) <= Len(Components(mounted[i].point))

Wanted(path) ==
    IF Above(path) = {} THEN NULL
    ELSE LET m == mounted[Nearest(path)] IN
         Named(volumes[m.device],
               From(Components(path), Len(Components(m.point)) + 1),
               Entry(<<>>, TRUE, Root, 0))

Same(e, f) == IF e = NULL \/ f = NULL THEN e = f
              ELSE e.isDir = f.isDir /\ e.cluster = f.cluster

\* A path names what its components lead to from the nearest mount above it,
\* in whatever order mounts came and went (getMount, findFAT32Entry).  Files
\* are found on a mount at "/" only: elsewhere the relative path begins with
\* a slash.  A slash behind the name of a file finds nothing.
PathsResolve ==
    \A path \in Paths :
        \/ Same(Lookup(path), Wanted(path))
        \/ /\ Lookup(path) = NULL /\ ~Wanted(path).isDir
           /\ mounted[Nearest(path)].point # <<Slash>> \/ Last(path) = Slash

\* A read that starts inside the file stores no more than asked for and none
\* from behind the end of the file, and of the clusters of its chain that the
\* walk finds it stores the bytes that follow, in order.  It returns how many
\* it stored, or 0 if a cluster could not be read (readFAT32File).  Bytes from
\* elsewhere stand where the chain is shorter than the size the entry still
\* has, or behind a failed read of the table, and they are counted as well.
ReadsFit ==
    \A h \in Handles : files[h] # NULL =>
        LET f == files[h] IN
        f.ptr <= f.size =>
            \A n \in Reads, cut \in Cuts, good \in Goods :
                LET r == Fread(f, n, cut, good)
                    most == IF n < f.size - f.ptr THEN n ELSE f.size - f.ptr
                IN  /\ Len(r.stored) <= most
                    /\ \A k \in DOMAIN r.stored :
                          (f.ptr + k - 1) \div bytesPerCluster < FoundOf(f, cut) =>
                              r.stored[k] = f.ptr + k - 1
                    /\ r.read = most \/ (r.read = 0 /\ good < most)
=============================================================================
