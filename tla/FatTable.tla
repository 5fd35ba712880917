------------------------------- MODULE FatTable -------------------------------
(***************************************************************************)
(* The FAT32 driver (file-systems/fat32.c): the two copies of the cluster  *)
(* table, the entries of one directory, and the files that are open.       *)
(*                                                                         *)
(* The kernel runs one call at a time, but a call is many device writes,   *)
(* and between two of them the machine may stop; each of them may also     *)
(* fail.  Allocation takes the lowest free cluster, so the writes of a     *)
(* call are known when it starts: a call is the sequence `todo' of its     *)
(* writes, performed one per step, each saying what the code does when it  *)
(* fails.  MaxFaults bounds the failed writes and reads and the crashes.   *)
(*                                                                         *)
(* Sizes are in clusters.  Names are those that fit 8.3 in capitals: one   *)
(* slot per entry.  A name is opened once at a time and neither deleted    *)
(* nor renamed while it is open: FILEs hold copies of their entry that the *)
(* driver never brings up to date.  Not modelled: the contents of files,   *)
(* subdirectories, failures of the kernel's heap, failed directory reads.  *)
(*                                                                         *)
(* lost, torn and short record what earlier calls left behind on the       *)
(* device.                                                                 *)
(*                                                                         *)
(* The end mark is not told from a cluster by walks that count: behind a   *)
(* chain that is too short, or a failed read of the table, they go on with *)
(* 0x0FFFFFF8.  Either that access fails, or it succeeds somewhere else on *)
(* the device: on a volume of more than 1 GiB its table entry is in sector *)
(* fatStart + 2097151, and with 16 or more sectors to a cluster its sector *)
(* number wraps into the tables.  The first is modelled, and after the     *)
(* second the call is astray: it, and all that follows it, may do anything *)
(* to the device, and nothing more is said or followed.  A call for a torn *)
(* name is astray from its start.                                          *)
(***************************************************************************)
EXTENDS Integers, Sequences, FiniteSets, SequencesExt

CONSTANTS
    Root,             \* the directory's first cluster
    Clusters,         \* the clusters the table has entries for
    Beyond,           \* those that lie behind the end of the device
    PerSector,        \* table entries per sector
    SlotsPerCluster,  \* directory entries per cluster
    Names,
    MaxSize,          \* search bound: the size of a file
    MaxFaults         \* search bound

ENDOFCHAIN == 268435448   \* 0x0FFFFFF8
Free       == 0

ASSUME ClusterAssumption ==
    /\ Clusters \subseteq 2 .. ENDOFCHAIN - 1 /\ IsFiniteSet(Clusters)
    /\ Root \in Clusters \ Beyond /\ Beyond \subseteq Clusters
ASSUME NameAssumption == "none" \notin Names
ASSUME BoundAssumption ==
    {PerSector, SlotsPerCluster, MaxSize} \subseteq Nat \ {0} /\ MaxFaults \in Nat

VARIABLES
    fat, bak,   \* the table's first and second copy on the device
    dir,        \* the directory on the device: slot -> entry
    open,       \* the open files: name -> the entry in memory
    call,       \* the call in progress
    faults,
    lost,       \* clusters a call left allocated for no file
    torn,       \* names whose chain a truncation or rename was cut short on
    short       \* names whose entry may claim more clusters than it has

vars == <<fat, bak, dir, open, call, faults, lost, torn, short>>

Values  == {Free, ENDOFCHAIN} \cup Clusters
Entry   == [name : Names, cluster : Clusters, size : 0 .. MaxSize]
NoEntry == [name |-> "none", cluster |-> Root, size |-> 0]

\* doubt: the names whose chain is in doubt until the call ends well.
\* got: the clusters it allocates or frees, left: those of them that belong to
\* no file even when it ends well.  missed: a write or read failed and the
\* call went on, so that it may end well and leave clusters behind all the same.
Idle == [op |-> "idle", name |-> "none", slot |-> 0, cluster |-> 0, size |-> 0,
         doubt |-> {}, got |-> {}, left |-> {}, todo |-> <<>>, failed |-> FALSE,
         missed |-> FALSE]

-----------------------------------------------------------------------------
(* Reading the table and the directory *)

\* The clusters that following f from c visits: the next entry of a cluster
\* that is not one is the end (reading it fails, or it is the reserved entry;
\* that of the end mark may be another: see Overruns).
Chain(f, c) ==
    LET at[k \in 0 .. Cardinality(Clusters)] ==
            IF k = 0 THEN c
            ELSE IF at[k - 1] \in Clusters THEN f[at[k - 1]] ELSE ENDOFCHAIN
        ends == {k \in DOMAIN at : at[k] \notin Clusters}
        n    == IF ends = {} THEN Cardinality(Clusters)
                ELSE CHOOSE k \in ends : \A j \in ends : k <= j
    IN  [k \in 1 .. n |-> at[k - 1]]

\* getNextCluster takes a failed read for the end of the chain.
Seen(c) ==
    {SubSeq(Chain(fat, c), 1, n) :
        n \in IF faults < MaxFaults THEN 1 .. Len(Chain(fat, c))
              ELSE {Len(Chain(fat, c))}}

ReadFaults(c, seen) == IF seen = Chain(fat, c) THEN 0 ELSE 1

\* (A slip the checks must catch: the walk stops one cluster early.)
LastOfEarly(seen, existing) == seen[IF existing <= 2 THEN 1 ELSE existing - 1]

\* The last of `existing' clusters, as a walk that saw `seen' finds it; where it
\* finds some other cluster behind the end the call is astray (WriteStrays).
LastOf(seen, existing) ==
    IF existing <= Len(seen) THEN seen[existing] ELSE ENDOFCHAIN

\* A set of clusters from the lowest to the highest.
Ascending(F) ==
    [i \in 1 .. Cardinality(F) |->
        CHOOSE c \in F : Cardinality({d \in F : d < c}) = i - 1]

\* (A slip: the end mark passes for a free entry.)
FreeOrEnd == Ascending({c \in Clusters : fat[c] \in {Free, ENDOFCHAIN}})

FreeClusters == Ascending({c \in Clusters : fat[c] = Free})

SlotCount == SlotsPerCluster * Len(Chain(fat, Root))
FreeSlots == (0 .. SlotCount - 1) \ DOMAIN dir

SlotOf(n)  == CHOOSE s \in DOMAIN dir : dir[s].name = n
Exists(n)  == \E s \in DOMAIN dir : dir[s].name = n

-----------------------------------------------------------------------------
(* The writes of a call, in order.  A write that fails stops the call, is    *)
(* ignored, or (the first copy in setNextCluster) stops it after the next.   *)

DeviceWrite(on, at, value, onFail) ==
    [on |-> on, at |-> at, value |-> value, onFail |-> onFail]

\* No cluster is left: the call stops.
Full == <<DeviceWrite("nowhere", 0, Free, "stop")>>

\* (A slip: only the first copy is written.)
SetNextOneCopy(c, v, onFail) ==
    IF c \notin Clusters THEN <<>> ELSE <<DeviceWrite("fat", c, v, onFail)>>

\* setNextCluster, whose caller goes on or not when it fails; of the end mark
\* it fails at its read, or else the call is astray (WriteStrays).
SetNext(c, v, onFail) ==
    IF c \notin Clusters THEN <<>>
    ELSE <<DeviceWrite("fat", c, v, IF onFail = "stop" THEN "finish" ELSE "ignore"),
           DeviceWrite("bak", c, v, onFail)>>

\* allocCluster: both copies are marked, then the cluster is filled with zeros.
Alloc(c) ==
    <<DeviceWrite("fat", c, ENDOFCHAIN, "stop"),
      DeviceWrite("bak", c, ENDOFCHAIN, "stop"),
      DeviceWrite("zero", c, Free, "stop")>>

\* (A slip: the new cluster is linked in before it is marked.)
ExtendLinksFirst(free, last, n) ==
    IF n > Len(free) THEN Full
    ELSE FlattenSeq([i \in 1 .. n |->
             SetNext(IF i = 1 THEN last ELSE free[i - 1], free[i], "ignore")
             \o Alloc(free[i])])

\* extendFAT32File, by n clusters after `last'; what setNextCluster answers
\* is looked at only for the final one.
Extend(free, last, n) ==
    LET link(i) == SetNext(IF i = 1 THEN last ELSE free[i - 1], free[i], "ignore")
    IN  IF n = 0 THEN <<>>
        ELSE FlattenSeq([i \in 1 .. n |->
                 IF i <= Len(free) THEN Alloc(free[i]) \o link(i) ELSE Full])
             \o (IF n <= Len(free) THEN SetNext(free[n], ENDOFCHAIN, "stop")
                 ELSE <<>>)

\* (A slip: the last cluster is not freed.)
ResetSkipsLast(chain) ==
    FlattenSeq([i \in 1 .. Len(chain) - 1 |-> SetNext(chain[i], Free, "stop")])
    \o SetNext(chain[1], ENDOFCHAIN, "stop")

\* resetFAT32ClusterChain: every cluster is freed, and then the first one is
\* marked again.
Reset(chain) ==
    FlattenSeq([i \in 1 .. Len(chain) |-> SetNext(chain[i], Free, "stop")])
    \o SetNext(chain[1], ENDOFCHAIN, "stop")

\* writeFAT32Entry of a new entry: into the first free slot, or else into a
\* cluster that the directory is extended by.
NewSlot == IF FreeSlots = {} THEN SlotCount
           ELSE CHOOSE s \in FreeSlots : \A t \in FreeSlots : s <= t

WriteNew(free, e) ==
    (IF FreeSlots = {} THEN Extend(free, Last(Chain(fat, Root)), 1) ELSE <<>>)
    \o <<DeviceWrite("dir", NewSlot, e, "stop")>>

\* (A slip: the entry is written before its cluster is marked.)
CreateEntryFirst(n) ==
    IF FreeClusters = <<>> THEN Full
    ELSE WriteNew(Tail(FreeClusters),
                  [name |-> n, cluster |-> FreeClusters[1], size |-> 0])
         \o Alloc(FreeClusters[1])

\* createFAT32Entry of a name that does not exist, with no cluster yet.
Create(n) ==
    IF FreeClusters = <<>> THEN Full
    ELSE Alloc(FreeClusters[1])
         \o SetNext(FreeClusters[1], ENDOFCHAIN, "ignore")
         \o WriteNew(Tail(FreeClusters),
                     [name |-> n, cluster |-> FreeClusters[1], size |-> 0])

\* The clusters a sequence of writes allocates.
Allocated(todo) ==
    {todo[k].at : k \in {j \in DOMAIN todo : todo[j].on = "zero"}}

-----------------------------------------------------------------------------
(* The calls *)

Init ==
    /\ fat = [c \in Clusters |-> IF c = Root THEN ENDOFCHAIN ELSE Free]
    /\ bak = fat
    /\ dir = <<>>
    /\ open = <<>>
    /\ call = Idle
    /\ faults = 0
    /\ lost = {} /\ torn = {} /\ short = {}

\* (A name that has no entry is no longer torn.)
Start(c) ==
    /\ call = Idle
    /\ call' = c
    /\ torn' = {n \in torn : Exists(n)} \cup c.doubt
    /\ UNCHANGED <<fat, bak, dir, open, lost>>

\* A file whose name is not torn.  The code does not ask: it serves calls for a
\* torn name like any other (TornUsed).
Sound(n) == Exists(n) /\ n \notin torn

Opened(f, n, s, c, size) ==
    [m \in DOMAIN f \cup {n} |->
        IF m = n THEN [slot |-> s, cluster |-> c, size |-> size] ELSE f[m]]

\* openFAT32File of an existing file.
OpenExisting(n) ==
    LET e == dir[SlotOf(n)] IN
    /\ call = Idle
    /\ Sound(n) /\ n \notin DOMAIN open
    /\ open' = Opened(open, n, SlotOf(n), e.cluster, e.size)
    /\ UNCHANGED <<fat, bak, dir, call, faults, lost, torn, short>>

\* The same with FILE_OPEN_TRUNC: the chain is reset, the entry on the device
\* keeps its size.
OpenTruncated(n) ==
    LET c == dir[SlotOf(n)].cluster IN
    /\ Sound(n) /\ n \notin DOMAIN open
    /\ \E seen \in Seen(c) :
         /\ faults' = faults + ReadFaults(c, seen)
         /\ Start([Idle EXCEPT !.op = "open", !.name = n, !.slot = SlotOf(n),
                               !.cluster = c, !.doubt = {n},
                               !.got = ToSet(Tail(Chain(fat, c))),
                               !.left = ToSet(Chain(fat, c)) \ ToSet(seen),
                               !.todo = Reset(seen)])
    /\ short' = short \cup {n}

\* openFAT32File with FILE_OPEN_CREATE of a name that does not exist, with or
\* without FILE_OPEN_TRUNC.
OpenNew(n, trunc) ==
    LET todo == Create(n)
        c    == IF FreeClusters = <<>> THEN Root ELSE FreeClusters[1]
    IN
    /\ ~Exists(n)
    /\ Start([Idle EXCEPT !.op = "open", !.name = n, !.slot = NewSlot,
                          !.cluster = c, !.got = Allocated(todo),
                          !.doubt = IF trunc THEN {n} ELSE {},
                          !.todo = IF trunc /\ todo # Full
                                   THEN todo \o Reset(<<c>>) ELSE todo])
    /\ short' = short \ {n}
    /\ UNCHANGED faults

\* fwrite that makes the file `size' clusters long: the chain is extended from
\* where a file of the size known in memory ends (writing inside the file
\* changes neither table nor entry).  What writeFAT32Entry answers is not
\* looked at.
Write(n, size) ==
    LET h        == open[n]
        existing == IF h.size = 0 THEN 1 ELSE h.size
        needed   == IF size > existing THEN size - existing ELSE 0
        e        == [name |-> n, cluster |-> h.cluster, size |-> size]
    IN
    /\ size > h.size
    /\ \E seen \in Seen(h.cluster) :
         LET todo == Extend(FreeClusters, LastOf(seen, existing), needed) IN
         /\ faults' = faults + ReadFaults(h.cluster, seen)
         /\ Start([Idle EXCEPT !.op = "write", !.name = n, !.slot = h.slot,
                               !.cluster = h.cluster, !.size = size,
                               !.got = Allocated(todo),
                               !.missed = seen # Chain(fat, h.cluster),
                               !.todo = todo
                                   \o <<DeviceWrite("dir", h.slot, e, "ignore")>>])
    /\ UNCHANGED short

\* deleteFAT32Entry: the entry is marked, then the chain is reset.
Delete(n) ==
    LET c == dir[SlotOf(n)].cluster IN
    /\ Sound(n) /\ n \notin DOMAIN open
    /\ \E seen \in Seen(c) :
         /\ faults' = faults + ReadFaults(c, seen)
         /\ Start([Idle EXCEPT !.op = "delete", !.name = n,
                               !.got = ToSet(Chain(fat, c)),
                               !.left = {c} \cup (ToSet(Chain(fat, c)) \ ToSet(seen)),
                               !.todo = <<DeviceWrite("dir", SlotOf(n), NoEntry, "stop")>>
                                        \o Reset(seen)])
    /\ UNCHANGED short

\* moveFAT32Entry: a second entry for the chain, then the first is marked.
Move(n, m) ==
    LET new == WriteNew(FreeClusters, [dir[SlotOf(n)] EXCEPT !.name = m]) IN
    /\ Sound(n) /\ n \notin DOMAIN open /\ ~Exists(m)
    /\ Start([Idle EXCEPT !.op = "move", !.name = m, !.doubt = {n, m},
                          !.got = Allocated(new),
                          !.todo = new
                              \o <<DeviceWrite("dir", SlotOf(n), NoEntry, "stop")>>])
    /\ short' = IF n \in short THEN short \cup {m} ELSE short \ {m}
    /\ UNCHANGED faults

\* closeFAT32File: nothing is written.
Close(n) ==
    /\ call = Idle
    /\ open' = [m \in DOMAIN open \ {n} |-> open[m]]
    /\ UNCHANGED <<fat, bak, dir, call, faults, lost, torn, short>>

-----------------------------------------------------------------------------
(* Calls that go astray *)

Astray == call.op = "astray"

GoAstray(n, s) ==
    /\ call' = [Idle EXCEPT !.op = "astray", !.name = n, !.slot = s]
    /\ UNCHANGED <<fat, bak, dir, open, lost, torn, short>>

\* A walk to the k-th cluster of the chain from c goes behind its end: it is
\* shorter, or a read fails on the way.
Overruns(c, k) ==
    \/ Len(Chain(fat, c)) < k /\ UNCHANGED faults
    \/ k > 1 /\ faults < MaxFaults /\ faults' = faults + 1

\* fwrite inside the file, or from its end on: extendFAT32File and
\* writeFAT32File walk to a cluster of it, and link or write what they find.
WriteStrays(n) ==
    /\ call = Idle
    /\ Overruns(open[n].cluster, open[n].size)
    /\ GoAstray(n, open[n].slot)

\* writeFAT32File, in the clusters that the file has been extended by.
DataStrays ==
    /\ call.op = "write" /\ ~call.failed /\ call.todo = <<>>
    /\ Overruns(call.cluster, call.size)
    /\ GoAstray(call.name, call.slot)

\* writeFAT32Entry, which walks to the cluster of the entry's slot.
EntryStrays ==
    /\ call.todo # <<>>
    /\ LET w == Head(call.todo) IN
       /\ w.on = "dir"
       /\ Overruns(Root, w.at \div SlotsPerCluster + 1)
       /\ GoAstray(call.name, w.at)

\* What a client makes of a torn name: it opens, deletes or renames it.
TornUsed(n) ==
    /\ call = Idle
    /\ Exists(n) /\ n \in torn /\ n \notin DOMAIN open
    /\ GoAstray(n, 0)
    /\ UNCHANGED faults

-----------------------------------------------------------------------------
(* The steps of a call *)

\* The second copy gets the sector that was read from, or meant for, the first.
Mirrored(c, v) ==
    [d \in Clusters |->
        IF d \div PerSector # c \div PerSector THEN bak[d]
        ELSE IF d = c THEN v ELSE fat[d]]

\* (A slip: a deleted entry stays.)
WithEntryKept(s, e) ==
    [t \in DOMAIN dir \cup {s} |-> IF t = s THEN e ELSE dir[t]]

\* The directory with e in slot s.
WithEntry(s, e) ==
    IF e = NoEntry THEN [t \in DOMAIN dir \ {s} |-> dir[t]]
    ELSE [t \in DOMAIN dir \cup {s} |-> IF t = s THEN e ELSE dir[t]]

\* Writes that fail whatever the device does.
Refused(w) ==
    \/ w.on = "nowhere"
    \/ w.on = "zero" /\ w.at \in Beyond
    \/ w.on = "dir" /\ w.at >= SlotCount

WriteLands ==
    /\ call.todo # <<>>
    /\ LET w == Head(call.todo) IN
       /\ ~Refused(w)
       /\ fat' = IF w.on = "fat" THEN [fat EXCEPT ![w.at] = w.value] ELSE fat
       /\ bak' = IF w.on = "bak" THEN Mirrored(w.at, w.value) ELSE bak
       /\ dir' = IF w.on = "dir" THEN WithEntry(w.at, w.value) ELSE dir
    /\ call' = [call EXCEPT !.todo = Tail(@)]
    /\ UNCHANGED <<open, faults, lost, torn, short>>

\* What is left of a call when its next write has failed.
AfterFailure(todo) ==
    CASE Head(todo).onFail = "ignore" -> Tail(todo)
      [] Head(todo).onFail = "finish" -> <<todo[2]>>
      [] Head(todo).onFail = "stop"   -> <<>>

WriteFails ==
    /\ call.todo # <<>>
    /\ IF Refused(Head(call.todo)) THEN UNCHANGED faults
       ELSE faults < MaxFaults /\ faults' = faults + 1
    /\ call' = [call EXCEPT !.todo   = AfterFailure(@),
                            !.failed = @ \/ Head(call.todo).onFail # "ignore",
                            !.missed = @ \/ Head(call.todo).on # "bak"]
    /\ UNCHANGED <<fat, bak, dir, open, lost, torn, short>>

\* setNextCluster cannot read the sector: it writes neither copy.
ReadFails ==
    /\ faults < MaxFaults
    /\ call.todo # <<>>
    /\ LET w == Head(call.todo) IN
       /\ w.on = "fat" /\ w.onFail # "stop"
       /\ call' = [call EXCEPT
             !.todo   = IF w.onFail = "ignore" THEN Tail(Tail(@)) ELSE <<>>,
             !.failed = @ \/ w.onFail # "ignore",
             !.missed = TRUE]
    /\ faults' = faults + 1
    /\ UNCHANGED <<fat, bak, dir, open, lost, torn, short>>

\* A write that was not stopped goes on to the file's clusters.  When the chain
\* has fewer than the size says it fails there, or is astray (DataStrays).
Missing ==
    call.op = "write" /\ ~call.failed /\ Len(Chain(fat, call.cluster)) < call.size

\* The clusters that stay allocated for no file when the call ends: in the
\* middle, or as it should.
Stranded    == {c \in lost \cup call.got : fat[c] # Free}
StrandedYet == {c \in lost \cup call.left : fat[c] # Free}

\* The call did not end well: nothing is in doubt if its entry never came to be.
StillTorn == IF Exists(call.name) THEN torn ELSE torn \ call.doubt

Return ==
    LET n      == call.name
        failed == call.failed \/ Missing
        landed == call.slot \in DOMAIN dir /\ dir[call.slot].name = n
                  /\ dir[call.slot].size = call.size
    IN
    /\ call # Idle /\ call.todo = <<>> /\ ~Astray
    /\ call' = Idle
    /\ open' = IF call.op \in {"open", "write"} /\ ~call.failed
               THEN Opened(open, n, call.slot, call.cluster, call.size)
               ELSE open
    /\ lost' = IF failed \/ call.missed
               THEN Stranded ELSE StrandedYet
    /\ torn' = IF failed THEN StillTorn ELSE torn \ call.doubt
    /\ short' = IF call.op # "write" \/ call.failed THEN short
                ELSE IF Missing /\ faults > 0 THEN short \cup {n}
                ELSE IF landed /\ ~Missing THEN short \ {n} ELSE short
    /\ UNCHANGED <<fat, bak, dir, faults>>

\* The machine stops; it comes up again with what is on the device.
Crash ==
    /\ faults < MaxFaults /\ ~Astray
    /\ faults' = faults + 1
    /\ lost' = Stranded
    /\ short' = IF Missing /\ faults > 0 THEN short \cup {call.name} ELSE short
    /\ torn' = StillTorn
    /\ call' = Idle
    /\ open' = <<>>
    /\ UNCHANGED <<fat, bak, dir>>

Next ==
    \/ \E n \in Names : OpenExisting(n) \/ OpenTruncated(n) \/ Delete(n)
    \/ \E n \in Names, trunc \in BOOLEAN : OpenNew(n, trunc)
    \/ \E n \in DOMAIN open, size \in 1 .. MaxSize : Write(n, size)
    \/ \E n, m \in Names : Move(n, m)
    \/ \E n \in DOMAIN open : Close(n)
    \/ WriteLands
    \/ WriteFails
    \/ ReadFails
    \/ Return
    \/ Crash
    \/ \E n \in DOMAIN open : WriteStrays(n)
    \/ DataStrays
    \/ EntryStrays
    \/ \E n \in Names : TornUsed(n)

Spec == Init /\ [][Next]_vars

-----------------------------------------------------------------------------
(* Properties, of what comes before a call goes astray *)

\* The table holds cluster numbers or marks, and the directory and the open
\* files hold entries: what a call writes is never a mark where a file's first
\* cluster is expected.
TypeOK ==
    ~Astray =>
        /\ fat \in [Clusters -> Values] /\ bak \in [Clusters -> Values]
        /\ DOMAIN dir \subseteq Nat
        /\ \A s \in DOMAIN dir : dir[s] \in Entry
        /\ DOMAIN open \subseteq Names
        /\ \A n \in DOMAIN open : open[n].cluster \in Clusters /\ open[n].size \in 0 .. MaxSize
        /\ faults \in 0 .. MaxFaults
        /\ lost \subseteq Clusters /\ torn \subseteq Names /\ short \subseteq Names

\* Whatever write or read fails and wherever the machine stops, no cluster is
\* linked to from two places, none leads into free space, and none leads to
\* the root: allocCluster marks a cluster before extendFAT32File links it, and
\* resetFAT32ClusterChain frees a chain from its head.
ChainsApart ==
    ~Astray =>
        \A c \in Clusters :
            fat[c] \in Clusters =>
                /\ fat[fat[c]] # Free
                /\ fat[c] # Root
                /\ \A d \in Clusters \ {c} : fat[d] # fat[c]

\* An entry's first cluster is allocated, belongs to no other entry and is
\* inside no other chain: so no two files share a cluster.  Only a truncation
\* or rename that was cut short (torn) can break that.
HeadsOwned ==
    ~Astray =>
        \A s \in DOMAIN dir :
            dir[s].name \notin torn =>
                /\ fat[dir[s].cluster] # Free
                /\ dir[s].cluster # Root
                /\ \A c \in Clusters : fat[c] # dir[s].cluster
                /\ \A t \in DOMAIN dir \ {s} :
                     dir[t].name \notin torn => dir[t].cluster # dir[s].cluster

\* A file has the clusters that its size claims, so writeFAT32File never walks
\* off its chain: except a truncated file until it is written to (its entry
\* keeps the old size), and one whose link was lost to a failed write.  So a
\* call goes astray only after a failure, in such a file or in a torn one, or
\* in a directory that lacks the cluster its new entry goes to.
SizeCovered ==
    IF Astray
    THEN \/ faults > 0
         \/ call.name \in short \cup torn
         \/ call.slot \div SlotsPerCluster >= Len(Chain(fat, Root))
    ELSE \A s \in DOMAIN dir :
            \/ dir[s].name \in short
            \/ call.op = "write" /\ call.todo = <<>> /\ call.name = dir[s].name
            \/ dir[s].size <= Len(Chain(fat, dir[s].cluster))

\* Clusters that some file, or the directory, can reach.
Reachable ==
    UNION {ToSet(Chain(fat, c)) : c \in {Root} \cup {dir[s].cluster : s \in DOMAIN dir}}

\* No cluster leaks but in the ways the code is known to leak: the first
\* cluster of a deleted file, and those of calls that failed or were cut
\* short.  In particular a call in progress holds no others.
Accounted ==
    ~Astray =>
        \A c \in Clusters :
            fat[c] # Free => c \in Reachable \cup lost \cup call.got

\* The copies of the table never drift apart by more than the write in
\* progress and the writes that failed: every later write of a sector brings
\* its second copy up to date.
MirrorsClose ==
    ~Astray => Cardinality({c \in Clusters : fat[c] # bak[c]}) <= faults + 1

\* A call changes no chain but that of the file it is about, unless it goes
\* astray: as long as accesses to the end mark fail, what extendFAT32File and
\* resetFAT32ClusterChain write is never a cluster of another file, even when
\* the walk to it was cut short by a failed read.
OthersUntouched ==
    [][\/ Astray \/ Astray'
       \/ \A s \in DOMAIN dir :
             \/ dir[s].name \in {call.name} \cup torn
             \/ Chain(fat', dir[s].cluster) = Chain(fat, dir[s].cluster)]_vars
=============================================================================
