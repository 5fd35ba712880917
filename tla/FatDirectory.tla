----------------------------- MODULE FatDirectory -----------------------------
(***************************************************************************)
(* One FAT32 directory as the slots that stand in its clusters             *)
(* (file-systems/fat32.c): short entries, the long-name pieces before      *)
(* them, lookup, creation, deletion, renaming, and a reader that walks     *)
(* through it (opendir, readdir, closedir) while it changes.               *)
(*                                                                         *)
(* A name is a sequence of pieces of at most 13 characters and stands for  *)
(* all its spellings up to case; a short name stands for the 11 bytes of   *)
(* an 8.3 name.  A spelling says how a name is asked for: whether it is    *)
(* plain, an 8.3 name without lower case letters, blanks or plus signs,    *)
(* and the short names get83Name tries for it, in order.                   *)
(* A file is the number of its first cluster.  FatTable has the clusters,  *)
(* the order of the writes and their failures; here a call is one step.    *)
(***************************************************************************)
EXTENDS Integers, Sequences, FiniteSets

CONSTANTS
    Texts,           \* pieces of names, and the 11 bytes of short names
    Spellings,       \* the names asked for
    Files,
    InitDirs,        \* what may stand in the directory: [slots, made]
    entriesPerCluster,
    MaxClusters,     \* the directory cannot grow further: the device is full
    Tails,           \* the pieces that are shorter than 13 characters
    End, Garbage     \* in lfnBuf: a zero; what malloc left there

Spelling == [name : Seq(Texts), plain : BOOLEAN, tries : Seq(Texts)]

ASSUME SizeAssumption ==
    entriesPerCluster \in Nat \ {0} /\ MaxClusters \in Nat \ {0} /\ IsFiniteSet(Files)
ASSUME TextAssumption == End \notin Texts
ASSUME SpellingAssumption ==
    \A s \in Spellings :
        /\ s \in Spelling
        /\ Len(s.name) \in 1..20 /\ Len(s.name) < entriesPerCluster
        /\ \A k \in 1..(Len(s.name) - 1) : s.name[k] \notin Tails
\* The first try may occur among the others once more.
Tried(s) == {s.tries[k] : k \in DOMAIN s.tries}
ASSUME TriesAssumption ==
    \A s \in Spellings : Cardinality(Tried(s)) > Cardinality(Files)

VARIABLES
    slots,   \* of all clusters of the directory
    made,    \* ghost: the spelling each file that exists was made with
    dir      \* the open Dir: the cluster in its buffer, the entries of it that
             \* are not returned yet, and (ghost) how often it
             \* returned each file that stood in it throughout

vars == <<slots, made, dir>>

Unused == [kind |-> "unused"]
LongSlot(seq, last, part, sum) ==
    [kind |-> "long", seq |-> seq, last |-> last, part |-> part, sum |-> sum]
ShortSlot(short, file) == [kind |-> "short", short |-> short, file |-> file]
NoDir  == [open |-> FALSE]

Slot ==
    {Unused} \cup
    [kind : {"long"}, seq : 1..20, last : BOOLEAN, part : Texts, sum : Texts] \cup
    [kind : {"short"}, short : Texts, file : Files]

\* getRequiredLFNEntries: the long-name slots of a name.
Required(s) == IF s.plain THEN 0 ELSE Len(s.name)

Shorts(ss) == {i \in DOMAIN ss : ss[i].kind = "short"}

\* The pieces before an entry: in the order of this driver, or of others.
Forwards(ss, i, s) ==
    /\ i > Required(s)
    /\ \A e \in 1..Required(s) : ss[i - Required(s) - 1 + e] =
            LongSlot(e, e = Required(s), s.name[e], ss[i].short)
Backwards(ss, i, s) ==
    /\ i > Required(s)
    /\ \A e \in 1..Required(s) : ss[i - e] =
            LongSlot(e, e = Required(s), s.name[e], ss[i].short)

\* What this system leaves, or another that has made entries and deleted none
\* with pieces: whole clusters, entries with different names, and any pieces
\* that this driver left when it deleted their entry.  (Others write 0xE5 into
\* the pieces too; fat32.c takes such a slot for free at line 448, and for a
\* fifth and last piece at line 226.  No slot here is both.)
ASSUME DirAssumption ==
    \A d \in InitDirs :
        /\ d.slots \in Seq(Slot)
        /\ \E n \in 1..MaxClusters : Len(d.slots) = n * entriesPerCluster
        /\ DOMAIN d.made \subseteq Files /\ d.made \in [DOMAIN d.made -> Spellings]
        /\ \A i \in Shorts(d.slots) :
            /\ d.slots[i].file \in DOMAIN d.made
            /\ \/ Forwards(d.slots, i, d.made[d.slots[i].file])
               \/ Backwards(d.slots, i, d.made[d.slots[i].file])
            /\ \A j \in Shorts(d.slots) \ {i} :
                /\ d.slots[i].short # d.slots[j].short /\ d.slots[i].file # d.slots[j].file
                /\ d.made[d.slots[i].file].name # d.made[d.slots[j].file].name

-----------------------------------------------------------------------------
(* parseFAT32Entry, called on the slots in order *)

Pieces(i) == {j \in 1..(i - 1) : slots[j].kind = "long"}

\* What stands at place k of lfnBuf before slot i is parsed: a piece goes where
\* its number says, with a zero after it, and what was there before stays.
Buffered(i, k) ==
    LET writers == {j \in Pieces(i) : slots[j].seq \in {k, k - 1}}
        last    == CHOOSE j \in writers : \A l \in writers : l <= j
    IN  IF writers = {} THEN Garbage
        ELSE IF slots[last].seq = k THEN slots[last].part ELSE End

\* lfnBuf as a string: up to a zero, or to the first piece that contains one.
LongName(i) ==
    LET n == CHOOSE n \in 0..20 :
                /\ \A k \in 1..n : Buffered(i, k) # End
                /\ \A k \in 1..(n - 1) : Buffered(i, k) \notin Tails
                /\ \/ n = 20 \/ Buffered(i, n + 1) = End
                   \/ n > 0 /\ Buffered(i, n) \in Tails
    IN  [k \in 1..n |-> Buffered(i, k)]

(* (A slip: the flag is left set after the name has been used.) *)
IsLongKept(i) == \E j \in Pieces(i) : slots[j].last

\* *lfn: set by the piece with the bit 0x40, cleared when an entry has used it.
IsLong(i) ==
    \E j \in Pieces(i) : slots[j].last /\ \A k \in (j + 1)..(i - 1) : slots[k].kind # "short"

\* The checksum of the pieces is not compared with the entry's.
EntryName(i) == IF IsLong(i) THEN LongName(i) ELSE <<slots[i].short>>

\* findFAT32Entry for the last component of a path: the first with the name.
Matches(n) == {i \in Shorts(slots) : EntryName(i) = n}
Exists(n)  == Matches(n) # {}
SlotOf(n)  == CHOOSE i \in Matches(n) : \A j \in Matches(n) : i <= j

-----------------------------------------------------------------------------
(* Where a new entry goes, and what is written *)

(* (A slip: the run of unused slots is one too short.) *)
FreeRunsShort(needed) ==
    {i \in DOMAIN slots : /\ i + needed - 1 <= Len(slots)
                          /\ \A j \in i..(i + needed - 2) : slots[j] = Unused}

FreeRuns(needed) ==
    {i \in DOMAIN slots : /\ i + needed - 1 <= Len(slots)
                          /\ \A j \in i..(i + needed - 1) : slots[j] = Unused}

\* findFreeEntries, or the first slot of a cluster to be added.
Start(needed) ==
    IF FreeRuns(needed) = {} THEN Len(slots) + 1
    ELSE CHOOSE i \in FreeRuns(needed) : \A j \in FreeRuns(needed) : i <= j

Grown(needed) ==
    IF FreeRuns(needed) # {} THEN slots
    ELSE slots \o [i \in 1..entriesPerCluster |-> Unused]

\* get83Name: the first of its tries that no slot has.
ShortNames == {slots[i].short : i \in Shorts(slots)}

(* (A slip: the first try is taken.) *)
ShortFirst(s) == Head(s.tries)

ShortFor(s) ==
    LET free == {k \in DOMAIN s.tries : s.tries[k] \notin ShortNames}
    IN  s.tries[CHOOSE k \in free : \A j \in free : k <= j]

Piece(s, short, e) == LongSlot(e + 1, e = Required(s) - 1, s.name[e + 1], short)

\* The cluster of the short entry is written; the pieces go to slots of the
\* same cluster, modulo its size (fat32.c:543).
WriteEntry(s, file) ==
    LET start == Start(Required(s) + 1)
        short == ShortFor(s)
        entry == start + Required(s)
        base  == ((entry - 1) \div entriesPerCluster) * entriesPerCluster
        at(e) == base + ((start - 1 + e) % entriesPerCluster) + 1
        own   == {at(e) : e \in 0..(Required(s) - 1)}
    IN  [i \in DOMAIN Grown(Required(s) + 1) |->
            CASE i = entry -> ShortSlot(short, file)
              [] i \in own \ {entry} ->
                    Piece(s, short, CHOOSE e \in 0..(Required(s) - 1) : at(e) = i)
              [] OTHER -> Grown(Required(s) + 1)[i]]

Room(s) == Len(Grown(Required(s) + 1)) <= MaxClusters * entriesPerCluster

\* The reader is promised the files that stay where they are.
Kept(gone) ==
    dir' = IF dir.open
           THEN [dir EXCEPT !.seen = [f \in {g \in DOMAIN @ \ gone :
                        \E i \in Shorts(slots') : slots'[i].file = g} |-> @[f]]]
           ELSE dir

-----------------------------------------------------------------------------
Init ==
    /\ \E d \in InitDirs : slots = d.slots /\ made = d.made
    /\ dir = NoDir

(* (A slip: whether the name exists is not asked.) *)
VacantAlways(s) == TRUE

Vacant(s) == ~Exists(s.name)

\* createFAT32Entry; an entry that exists is returned as it is.
Create(s, f) ==
    /\ Vacant(s) /\ Room(s)
    /\ f \notin DOMAIN made
    /\ slots' = WriteEntry(s, f)
    /\ made' = [g \in DOMAIN made \cup {f} |-> IF g = f THEN s ELSE made[g]]
    /\ Kept({})

\* deleteFAT32Entry: the short entry only; the pieces stay.
Delete(n) ==
    /\ Exists(n)
    /\ LET f == slots[SlotOf(n)].file IN
       /\ slots' = [slots EXCEPT ![SlotOf(n)] = Unused]
       /\ made' = [g \in DOMAIN made \ {f} |-> made[g]]
       /\ Kept({f})

\* moveFAT32Entry: a second entry, then the slot of the first is given up.
Move(n, s) ==
    /\ Exists(n) /\ Vacant(s) /\ Room(s)
    /\ LET f == slots[SlotOf(n)].file IN
       /\ slots' = [WriteEntry(s, f) EXCEPT ![SlotOf(n)] = Unused]
       /\ made' = [made EXCEPT ![f] = s]
       /\ Kept({f})

\* The files whose entries stand in a cluster, in order.
ClusterAt(c) ==
    LET slotsOf == SubSeq(slots, c * entriesPerCluster + 1, (c + 1) * entriesPerCluster)
    IN  [k \in 1..Cardinality(Shorts(slotsOf)) |->
            slotsOf[CHOOSE i \in Shorts(slotsOf) :
                        Cardinality({j \in Shorts(slotsOf) : j <= i}) = k].file]

\* openFAT32Dir: the first cluster is read.
OpenDir ==
    /\ ~dir.open
    /\ dir' = [open |-> TRUE, cluster |-> 0, rest |-> ClusterAt(0), done |-> FALSE,
               seen |-> [f \in {slots[i].file : i \in Shorts(slots)} |-> 0]]
    /\ UNCHANGED <<slots, made>>

(* (A slip: localIdx stays at the end of the cluster before.) *)
EnteredAtEnd(c) == <<>>

Entered(c) == ClusterAt(c)

\* nextFAT32Entry: the next entry of the buffer, or the first of the next
\* cluster that has one; NULL at the end of the chain.
Returns(c, entries) ==
    dir' = [dir EXCEPT !.cluster = c, !.rest = Tail(entries),
                       !.seen = [f \in DOMAIN @ |-> IF f = Head(entries) THEN 1 + @[f] ELSE @[f]]]

ReadDir ==
    /\ dir.open /\ ~dir.done
    /\ LET after == {c \in (dir.cluster + 1)..(Len(slots) \div entriesPerCluster - 1) :
                        Entered(c) # <<>>}
       IN  \/ dir.rest # <<>> /\ Returns(dir.cluster, dir.rest)
           \/ /\ dir.rest = <<>>
              /\ \E c \in after : (\A d \in after : c <= d) /\ Returns(c, Entered(c))
           \/ dir.rest = <<>> /\ after = {} /\ dir' = [dir EXCEPT !.done = TRUE]
    /\ UNCHANGED <<slots, made>>

CloseDir ==
    /\ dir.open
    /\ dir' = NoDir
    /\ UNCHANGED <<slots, made>>

Next ==
    \/ \E s \in Spellings, f \in Files : Create(s, f)
    \/ \E s \in Spellings : Delete(s.name)
    \/ \E t, s \in Spellings : Move(t.name, s)
    \/ OpenDir \/ ReadDir \/ CloseDir

Spec == Init /\ [][Next]_vars

-----------------------------------------------------------------------------
(* Properties *)

(* The four ways in which this driver loses a name.                        *)
Spelled(i) == made[slots[i].file]

\* A piece of another file stands before the entry, after the last one: the
\* pieces of a deleted file stay, and no piece is checked against the entry.
Stray(i) ==
    \E j \in 1..(i - 1) :
        /\ slots[j].kind = "long"
        /\ \A k \in (j + 1)..(i - 1) : slots[k].kind # "short"
        /\ slots[j].sum # slots[i].short \/ j < i - Required(Spelled(i))

\* The entry is so near the start of a cluster that its pieces went to the end.
Crossing(i) == (i - 1) % entriesPerCluster < Required(Spelled(i))

\* The short name was taken, and there is no long name to tell.
Aliased(i) == Spelled(i).plain /\ <<slots[i].short>> # Spelled(i).name

\* Another system wrote the last piece first: the zero after piece 1 cuts it.
Reversed(i) == i > 1 /\ slots[i - 1].kind = "long" /\ slots[i - 1].seq < Required(Spelled(i))

Excused(i) == Stray(i) \/ Crossing(i) \/ Aliased(i) \/ Reversed(i)

\* Every file is listed under the name it was made with, whatever was made,
\* deleted and renamed before, but for those four (parseFAT32Entry,
\* writeFAT32Entry).
ListedAsMade ==
    \A i \in Shorts(slots) : Excused(i) \/ EntryName(i) = Spelled(i).name

\* No two entries have the same short name (get83Name).
ShortsUnique ==
    \A i, j \in Shorts(slots) : slots[i].short = slots[j].short => i = j

\* The one slot that a call gives up is the entry of the file made with the name
\* it was asked for; or, under a name that is excused, the entry it finds there.
GivenUp(i) ==
    /\ slots'[i] = Unused
    /\ \A j \in DOMAIN slots : slots'[j] = Unused /\ slots[j] # Unused => j = i
    /\ \E s \in Spellings :
        /\ Exists(s.name) /\ SlotOf(s.name) = i
        /\ Spelled(i).name = s.name \/ Excused(i)

\* A piece of a new entry that is too near the start of its cluster.
CrossedBy(i) ==
    \E j \in Shorts(slots') :
        /\ slots'[j] # slots[j] /\ Crossing(j)'
        /\ slots'[i].kind = "long" /\ slots'[i].sum = slots'[j].short
        /\ (i - 1) \div entriesPerCluster = (j - 1) \div entriesPerCluster

\* A new entry is put in slots that were unused, and nothing else changes but
\* the slot of the entry deleted or renamed (writeFAT32Entry, deleteFAT32Entry,
\* moveFAT32Entry).  Another file's entry is lost in two ways only: pieces that
\* crossed a cluster lie on it, or stray pieces gave it the name asked for.
OthersStay ==
    [][\A i \in DOMAIN slots :
            slots'[i] # slots[i] => slots[i] = Unused \/ GivenUp(i) \/ CrossedBy(i)]_vars

\* A reader gets every file that stays where it is, and each once, whatever
\* else happens to the directory meanwhile (nextFAT32Entry).
ReadsAll ==
    dir.open => \A f \in DOMAIN dir.seen : dir.seen[f] <= 1 /\ (dir.done => dir.seen[f] = 1)

\* As long as no name is lost, the directory is a map from names to files.
Listing == {<<EntryName(i), slots[i].file>> : i \in Shorts(slots)}
Intact  == \A i \in Shorts(slots) : ~Excused(i)

Service == INSTANCE DirectoryService WITH
               Names <- {s.name : s \in Spellings}, Files <- Files,
               files <- Listing, sound <- Intact

\* Creating, deleting and renaming do to that map what DirectoryService says
\* (createFAT32Entry, deleteFAT32Entry, moveFAT32Entry).
ServiceSpec == Service!Spec
=============================================================================
