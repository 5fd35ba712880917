------------------------- MODULE FatDirectoryProofs -------------------------
(***************************************************************************)
(* Proofs about FatDirectory: what is kept of the slots of a directory     *)
(* whatever is created, deleted and renamed (Listed), what a reader has    *)
(* got so far (Reader), and that both make the properties of the module    *)
(* and its refinement of DirectoryService true.                            *)
(***************************************************************************)
EXTENDS FatDirectory, SequenceTheorems, FiniteSetTheorems, WellFoundedInduction, TLAPS

-----------------------------------------------------------------------------
(* The invariant, of the slots ss and what mm says the files were made with *)

Own(ss, mm, i)   == mm[ss[i].file]
Cross(ss, mm, i) == (i - 1) % entriesPerCluster < Required(Own(ss, mm, i))

\* A piece that another entry has written.
Foreign(ss, i, j) == ss[j].kind = "long" /\ ss[j].sum # ss[i].short

\* The e-th piece of the entry i, with s for its name.
Right(ss, i, s, e) ==
    ss[i - Required(s) - 1 + e] = LongSlot(e, e = Required(s), s.name[e], ss[i].short)

\* The pieces of an entry are where they should be, or something is to be seen
\* that says they are not.
PiecesOK(ss, i, s) ==
    \/ Required(s) = 0
    \/ /\ i > Required(s)
       /\ \A e \in 1..Required(s) :
            Right(ss, i, s, e) \/ Foreign(ss, i, i - Required(s) - 1 + e)
    \/ /\ i > 1 /\ ss[i - 1].kind = "long"
       /\ ss[i - 1].seq < Required(s) \/ Foreign(ss, i, i - 1)

Typed(ss, mm) ==
    /\ ss \in Seq(Slot)
    /\ \E n \in Nat \ {0} : Len(ss) = n * entriesPerCluster
    /\ DOMAIN mm \subseteq Files /\ mm \in [DOMAIN mm -> Spellings]

\* No two entries have a file or a short name in common.
Apart(ss, mm) ==
    \A i \in Shorts(ss) :
        /\ ss[i].file \in DOMAIN mm
        /\ \A j \in Shorts(ss) :
            ss[i].file = ss[j].file \/ ss[i].short = ss[j].short => i = j

Spelt(ss, mm) ==
    \A i \in Shorts(ss) : Cross(ss, mm, i) \/ PiecesOK(ss, i, Own(ss, mm, i))

\* An entry whose name can only be lost by a stray piece before its own.
Good(ss, mm, i) ==
    /\ i \in Shorts(ss) /\ ~Cross(ss, mm, i)
    /\ Forwards(ss, i, Own(ss, mm, i))
    /\ Own(ss, mm, i).plain => <<ss[i].short>> = Own(ss, mm, i).name

\* The piece p is stray for every entry up to i.
Hides(ss, mm, p, i) ==
    /\ p \in 1..(i - 1) /\ ss[p].kind = "long"
    /\ \A q \in Shorts(ss) :
        p < q /\ q <= i =>
            \/ Cross(ss, mm, q)
            \/ p < q - Required(Own(ss, mm, q))
            \/ ss[p].sum # ss[q].short

\* If two entries were made with one name, a stray piece hides one of them.
TwinsHidden(ss, mm) ==
    \A i, j \in Shorts(ss) :
        i # j /\ Good(ss, mm, i) /\ Good(ss, mm, j)
        /\ Own(ss, mm, i).name = Own(ss, mm, j).name
        => \E p \in DOMAIN ss : Hides(ss, mm, p, i) \/ Hides(ss, mm, p, j)

Listed(ss, mm) == Typed(ss, mm) /\ Apart(ss, mm) /\ Spelt(ss, mm) /\ TwinsHidden(ss, mm)

-----------------------------------------------------------------------------
(* Division by the size of a cluster *)

\* A number is the quotient times n plus the remainder.
LEMMA Divided ==
    ASSUME NEW n \in Nat \ {0}, NEW a \in Nat
    PROVE  a % n \in 0..(n - 1) /\ a \div n \in Nat /\ a = n * (a \div n) + (a % n)
<1>1. a % n \in 0..(n - 1) /\ a = n * (a \div n) + (a % n)
    OBVIOUS
<1>2. a \div n \in Nat
    OBVIOUS
<1> QED BY <1>1, <1>2

\* Quotient and remainder are the only ones.
LEMMA DividedOnce ==
    ASSUME NEW n \in Nat \ {0}, NEW q \in Nat, NEW r \in 0..(n - 1), NEW a, a = n * q + r
    PROVE  a % n = r /\ a \div n = q
<1> DEFINE p == a \div n
           t == a % n
<1>1. a \in Nat
    BY SMT
<1>2. t \in 0..(n - 1) /\ p \in Nat /\ a = n * p + t
    BY <1>1, Divided
<1> HIDE DEF p, t
<1>3. CASE p = q
    BY <1>2, <1>3 DEF p, t
<1>4. ASSUME p < q PROVE FALSE
    <2>1. PICK d \in Nat : q = p + 1 + d
        <3>1. q - p - 1 \in Nat /\ q = p + 1 + (q - p - 1)
            BY <1>2, <1>4
        <3> QED BY <3>1
    <2>2. n * q = n * p + n + n * d /\ n * d \in Nat
        BY <2>1, <1>2
    <2> QED BY <2>2, <1>2
<1>5. ASSUME q < p PROVE FALSE
    <2>1. PICK d \in Nat : p = q + 1 + d
        <3>1. p - q - 1 \in Nat /\ p = q + 1 + (p - q - 1)
            BY <1>2, <1>5
        <3> QED BY <3>1
    <2>2. n * p = n * q + n + n * d /\ n * d \in Nat
        BY <2>1, <1>2
    <2> QED BY <2>2, <1>2
<1> QED BY <1>2, <1>3, <1>4, <1>5

\* Of the numbers up to a, those that are no further from it than its
\* remainder have the same quotient.
LEMMA SameCluster ==
    ASSUME NEW n \in Nat \ {0}, NEW a \in Nat, NEW d \in Nat, d <= a % n
    PROVE  /\ a - d \in Nat /\ (a - d) \div n = a \div n
           /\ (a - d) % n = (a % n) - d
<1>1. a % n \in 0..(n - 1) /\ a \div n \in Nat /\ a = n * (a \div n) + (a % n)
    BY Divided
<1> DEFINE q == a \div n
           r == a % n
<1>2. r - d \in 0..(n - 1) /\ a - d = n * q + (r - d) /\ n * q \in Nat
    BY <1>1
<1>3. q \in Nat
    BY <1>1
<1> HIDE DEF q, r
<1>4. (a - d) % n = r - d /\ (a - d) \div n = q
    BY <1>2, <1>3, DividedOnce
<1>5. a - d \in Nat
    BY <1>2
<1> QED BY <1>4, <1>5 DEF q, r

-----------------------------------------------------------------------------
\* A set of natural numbers has a least one, and a bounded one a greatest.
LEMMA LeastOfNats ==
    ASSUME NEW s, s \subseteq Nat, s # {}
    PROVE  \E i \in s : \A j \in s : i <= j
<1>1. \E i \in s : \A j \in s : ~(<<j, i>> \in OpToRel(<, Nat))
    BY NatLessThanWellFounded, WFMin
<1>2. PICK i \in s : \A j \in s : ~(<<j, i>> \in OpToRel(<, Nat))
    BY <1>1
<1>3. \A j \in s : ~(j < i)
    BY <1>2 DEF OpToRel
<1> QED BY <1>3

\* A CHOOSE of a least number is one.
LEMMA LeastIs ==
    ASSUME NEW s, s \subseteq Nat, s # {}, NEW k, k = CHOOSE i \in s : \A j \in s : i <= j
    PROVE  k \in s /\ \A j \in s : k <= j
BY LeastOfNats

\* A set of natural numbers up to b has a greatest.
LEMMA GreatestOfNats ==
    ASSUME NEW s, NEW n \in Nat, s \subseteq 0..n, s # {}
    PROVE  \E i \in s : \A j \in s : j <= i
<1> DEFINE t == {n - i : i \in s}
<1>0. \A i \in s : n - i \in Nat
    OBVIOUS
<1>1. t \subseteq Nat /\ t # {}
    BY <1>0
<1> HIDE DEF t
<1>2. PICK d \in t : \A c \in t : d <= c
    BY <1>1, LeastOfNats
<1>3. PICK i \in s : d = n - i
    BY <1>2 DEF t
<1>4. \A j \in s : n - j \in t
    BY DEF t
<1>5. \A j \in s : n - i <= n - j
    BY <1>2, <1>3, <1>4
<1> QED BY <1>5

-----------------------------------------------------------------------------
\* The slots, one by one.
LEMMA SlotFacts ==
    ASSUME NEW ss \in Seq(Slot)
    PROVE  /\ DOMAIN ss = 1..Len(ss) /\ Len(ss) \in Nat
           /\ \A i \in DOMAIN ss : ss[i] \in Slot
           /\ \A i \in Shorts(ss) : i \in 1..Len(ss) /\ i \in Nat
<1>1. DOMAIN ss = 1..Len(ss) /\ Len(ss) \in Nat
    OBVIOUS
<1>2. \A i \in DOMAIN ss : ss[i] \in Slot
    BY <1>1, ElementOfSeq
<1>3. \A i \in Shorts(ss) : i \in 1..Len(ss) /\ i \in Nat
    BY <1>1 DEF Shorts
<1> QED BY <1>1, <1>2, <1>3

\* What a slot is, its kind says.
LEMMA SlotKinds ==
    ASSUME NEW x \in Slot
    PROVE  /\ x.kind \in {"unused", "long", "short"}
           /\ x.kind = "unused" <=> x = Unused
           /\ x.kind = "short" => x.short \in Texts /\ x.file \in Files
           /\ x.kind = "long" => x.seq \in 1..20 /\ x.part \in Texts /\ x.sum \in Texts
BY DEF Slot, Unused

\* LongSlot and ShortSlot make slots with the fields they are given.
LEMMA SlotMade ==
    /\ \A t \in Texts, f \in Files :
        /\ ShortSlot(t, f) \in Slot /\ ShortSlot(t, f).kind = "short"
        /\ ShortSlot(t, f).short = t /\ ShortSlot(t, f).file = f
    /\ \A e \in 1..20, l \in BOOLEAN, p \in Texts, t \in Texts :
        /\ LongSlot(e, l, p, t) \in Slot /\ LongSlot(e, l, p, t).kind = "long"
        /\ LongSlot(e, l, p, t).seq = e /\ LongSlot(e, l, p, t).sum = t
        /\ LongSlot(e, l, p, t).part = p /\ LongSlot(e, l, p, t).last = l
    /\ Unused \in Slot /\ Unused.kind = "unused"
BY DEF Slot, ShortSlot, LongSlot, Unused

\* What the assumptions say of one spelling.
LEMMA SpellingFacts ==
    ASSUME NEW s \in Spellings
    PROVE  /\ Required(s) \in 0..20 /\ Required(s) < entriesPerCluster
           /\ Required(s) = 0 <=> s.plain
           /\ Required(s) # 0 => Required(s) = Len(s.name)
           /\ s.name \in Seq(Texts) /\ s.tries \in Seq(Texts) /\ s.plain \in BOOLEAN
           /\ \A k \in 1..Required(s) : s.name[k] \in Texts /\ s.name[k] # End
           /\ \A k \in 1..(Required(s) - 1) : s.name[k] \notin Tails
<1>1. /\ s.name \in Seq(Texts) /\ s.tries \in Seq(Texts) /\ s.plain \in BOOLEAN
      /\ Len(s.name) \in 1..20 /\ Len(s.name) < entriesPerCluster
      /\ \A k \in 1..(Len(s.name) - 1) : s.name[k] \notin Tails
    BY SpellingAssumption DEF Spelling
<1>2. \A k \in 1..Len(s.name) : s.name[k] \in Texts
    BY <1>1, ElementOfSeq
<1>3. entriesPerCluster \in Nat \ {0}
    BY SizeAssumption
<1>4. CASE s.plain
    BY <1>1, <1>2, <1>3, <1>4 DEF Required
<1>5. CASE ~s.plain
    <2>1. Required(s) = Len(s.name)
        BY <1>5 DEF Required
    <2>2. \A k \in 1..Required(s) : s.name[k] \in Texts /\ s.name[k] # End
        BY <2>1, <1>2, TextAssumption
    <2>3. \A k \in 1..(Required(s) - 1) : s.name[k] \notin Tails
        BY <2>1, <1>1
    <2>4. Required(s) \in 0..20 /\ Required(s) # 0
        <3>1. PICK n \in 1..20 : n = Len(s.name)
            BY <1>1
        <3>2. Required(s) = n
            BY <2>1, <3>1
        <3> QED BY <3>2
    <2>5. Required(s) < entriesPerCluster
        <3>1. Len(s.name) < entriesPerCluster
            BY <1>1
        <3> QED BY <2>1, <3>1
    <2> QED BY <2>1, <2>2, <2>3, <2>4, <2>5, <1>1, <1>5
<1> QED BY <1>4, <1>5

-----------------------------------------------------------------------------
(* The name that is read for an entry *)

\* A CHOOSE of a greatest number is one.
LEMMA GreatestIs ==
    ASSUME NEW w, w \subseteq Nat, NEW p \in w, \A l \in w : l <= p
    PROVE  (CHOOSE j \in w : \A l \in w : l <= j) = p
<1> DEFINE c == CHOOSE j \in w : \A l \in w : l <= j
<1>1. c \in w /\ \A l \in w : l <= c
    OBVIOUS
<1> HIDE DEF c
<1>2. c \in Nat /\ p \in Nat /\ c <= p /\ p <= c
    BY <1>1
<1>3. c = p
    BY <1>2
<1> QED BY <1>3 DEF c

\* What stands at place k when the last piece that writes there is known.
LEMMA BufferedIs ==
    ASSUME NEW i \in Nat, NEW k \in Nat, NEW p \in Pieces(i), slots[p].seq \in {k, k - 1},
           \A l \in Pieces(i) : slots[l].seq \in {k, k - 1} => l <= p
    PROVE  Buffered(i, k) = IF slots[p].seq = k THEN slots[p].part ELSE End
<1> DEFINE w == {j \in Pieces(i) : slots[j].seq \in {k, k - 1}}
<1>1. w \subseteq Nat /\ p \in w /\ \A l \in w : l <= p
    BY DEF Pieces
<1>2. (CHOOSE j \in w : \A l \in w : l <= j) = p
    BY <1>1, GreatestIs
<1>3. w # {}
    BY <1>1
<1>4. Buffered(i, k) = IF w = {} THEN Garbage
                       ELSE IF slots[CHOOSE j \in w : \A l \in w : l <= j].seq = k
                            THEN slots[CHOOSE j \in w : \A l \in w : l <= j].part ELSE End
    BY DEF Buffered
<1> HIDE DEF w
<1> QED BY <1>2, <1>3, <1>4

\* lfnBuf ends at place n.
Ended(i, n) ==
    /\ \A k \in 1..n : Buffered(i, k) # End
    /\ \A k \in 1..(n - 1) : Buffered(i, k) \notin Tails
    /\ \/ n = 20 \/ Buffered(i, n + 1) = End
       \/ n > 0 /\ Buffered(i, n) \in Tails

\* Whose pieces stand before it in order has its name.
LEMMA LongNameIs ==
    ASSUME slots \in Seq(Slot), NEW i \in Shorts(slots), NEW s \in Spellings,
           Required(s) # 0, i > Required(s),
           \A e \in 1..Required(s) : Right(slots, i, s, e)
    PROVE  LongName(i) = s.name /\ IsLong(i)
<1> DEFINE R    == Required(s)
           p(e) == i - R - 1 + e
<1>1. /\ R \in 1..20 /\ R = Len(s.name) /\ s.name \in Seq(Texts)
      /\ \A k \in 1..R : s.name[k] # End
      /\ \A k \in 1..(R - 1) : s.name[k] \notin Tails
    BY SpellingFacts
<1>2. i \in Nat /\ i > R /\ Len(slots) \in Nat /\ i <= Len(slots)
    BY SlotFacts
<1>0. R \in 1..20 /\ R \in Nat /\ i \in Nat /\ i > R
    BY <1>1, <1>2
<1>3. \A e \in 1..R : slots[p(e)] = LongSlot(e, e = R, s.name[e], slots[i].short)
    BY DEF Right
<1> HIDE DEF R
<1>4. ASSUME NEW e \in 1..R
      PROVE  p(e) \in Pieces(i) /\ slots[p(e)].seq = e /\ slots[p(e)].part = s.name[e]
             /\ slots[p(e)].last = (e = R)
    <2>1. slots[p(e)] = LongSlot(e, e = R, s.name[e], slots[i].short)
        BY <1>3
    <2>2. p(e) \in 1..(i - 1)
        BY <1>1, <1>2
    <2>3. slots[p(e)].kind = "long" /\ slots[p(e)].seq = e /\ slots[p(e)].part = s.name[e]
          /\ slots[p(e)].last = (e = R)
        BY <2>1 DEF LongSlot
    <2> QED BY <2>2, <2>3 DEF Pieces
<1>5. ASSUME NEW k \in 1..R PROVE Buffered(i, k) = s.name[k]
    <2>1. ASSUME NEW l \in Pieces(i), slots[l].seq \in {k, k - 1} PROVE l <= p(k)
        <3>1. l \in 1..(i - 1)
            BY DEF Pieces
        <3>2. SUFFICES ASSUME l > p(k) PROVE FALSE
            BY <3>1, <1>0
        <3>3. PICK e \in (k + 1)..R : l = p(e)
            <4>1. l - (i - R - 1) \in (k + 1)..R /\ l = p(l - (i - R - 1))
                BY <3>1, <3>2, <1>0
            <4> QED BY <4>1
        <3>4. slots[l].seq = e
            BY <3>3, <1>1, <1>4
        <3> QED BY <3>3, <3>4, <2>1, <1>1
    <2>2. slots[p(k)].seq = k /\ p(k) \in Pieces(i) /\ slots[p(k)].part = s.name[k]
        BY <1>4
    <2> HIDE DEF p
    <2>3. k \in Nat
        BY <1>1
    <2> QED BY <2>1, <2>2, <2>3, <1>2, BufferedIs
<1>6. ASSUME R < 20 PROVE Buffered(i, R + 1) = End
    <2>1. p(R) = i - 1 /\ p(R) \in Pieces(i) /\ slots[p(R)].seq = R
        BY <1>4, <1>0
    <2> HIDE DEF p
    <2>2. \A l \in Pieces(i) : l <= p(R)
        BY <2>1, <1>2 DEF Pieces
    <2>3. R + 1 \in Nat /\ R \in {R + 1, (R + 1) - 1} /\ R # R + 1
        BY <1>1
    <2> QED BY <2>1, <2>2, <2>3, <1>2, BufferedIs
<1>7. Ended(i, R)
    <2>1. \A k \in 1..R : Buffered(i, k) # End
        BY <1>1, <1>5
    <2>2. \A k \in 1..(R - 1) : Buffered(i, k) \notin Tails
        BY <1>1, <1>5
    <2>3. R = 20 \/ Buffered(i, R + 1) = End
        BY <1>0, <1>6
    <2> QED BY <2>1, <2>2, <2>3 DEF Ended
<1>8. ASSUME NEW n \in 0..20, Ended(i, n) PROVE n = R
    <2>1. CASE n < R
        <3>1. n # 20 /\ n + 1 \in 1..R
            BY <2>1, <1>0
        <3>2. Buffered(i, n + 1) # End
            BY <3>1, <1>1, <1>5
        <3>3. n > 0 => Buffered(i, n) \notin Tails
            <4>1. n > 0 => n \in 1..R /\ n \in 1..(R - 1)
                BY <2>1, <1>1
            <4> QED BY <4>1, <1>1, <1>5
        <3> QED BY <3>1, <3>2, <3>3, <1>8 DEF Ended
    <2>2. CASE n > R
        <3>1. R < 20 /\ R + 1 \in 1..n
            BY <2>2, <1>1
        <3> QED BY <3>1, <1>6, <1>8 DEF Ended
    <2> QED BY <2>1, <2>2, <1>1
<1>9. (CHOOSE n \in 0..20 : Ended(i, n)) = R
    <2>1. R \in 0..20
        BY <1>1
    <2> QED BY <2>1, <1>7, <1>8
<1>10. LongName(i) = [k \in 1..R |-> Buffered(i, k)]
    <2>1. LongName(i) = [k \in 1..(CHOOSE n \in 0..20 : Ended(i, n)) |-> Buffered(i, k)]
        BY DEF LongName, Ended
    <2> QED BY <2>1, <1>9
<1>11. LongName(i) = s.name
    <2>1. s.name = [k \in 1..R |-> s.name[k]]
        BY <1>1, LenProperties
    <2>2. [k \in 1..R |-> Buffered(i, k)] = [k \in 1..R |-> s.name[k]]
        BY <1>5
    <2> QED BY <2>1, <2>2, <1>10
<1>12. IsLong(i)
    <2>0. p(R) \in Pieces(i) /\ slots[p(R)].last = (R = R)
        <3>1. R \in 1..R
            BY <1>0
        <3> HIDE DEF p
        <3> QED BY <3>1, <1>4, Zenon
    <2>1. p(R) = i - 1 /\ p(R) \in Pieces(i) /\ slots[p(R)].last
        <3>1. p(R) = i - 1
            BY <1>0
        <3> HIDE DEF p
        <3> QED BY <3>1, <2>0
    <2>2. \A k \in (p(R) + 1)..(i - 1) : slots[k].kind # "short"
        BY <2>1, <1>2
    <2> QED BY <2>1, <2>2 DEF IsLong
<1> QED BY <1>11, <1>12

\* An entry without pieces, that no stray piece stands before, has its short name.
LEMMA ShortNameIs ==
    ASSUME slots \in Seq(Slot), NEW i \in Shorts(slots), Required(Spelled(i)) = 0, ~Stray(i)
    PROVE  EntryName(i) = <<slots[i].short>>
<1>1. i \in Nat
    BY SlotFacts
<1>2. ~IsLong(i)
    <2>1. SUFFICES ASSUME NEW j \in Pieces(i),
                          \A k \in (j + 1)..(i - 1) : slots[k].kind # "short"
                   PROVE  FALSE
        BY DEF IsLong
    <2>2. j \in 1..(i - 1) /\ slots[j].kind = "long"
        BY DEF Pieces
    <2>3. j < i - Required(Spelled(i))
        BY <2>2, <1>1
    <2> QED BY <2>1, <2>2, <2>3 DEF Stray
<1> QED BY <1>2 DEF EntryName

\* The pieces of an entry that nothing is wrong with are all there.
LEMMA PiecesThere ==
    ASSUME slots \in Seq(Slot), NEW i \in Shorts(slots), NEW s \in Spellings, s = Spelled(i),
           PiecesOK(slots, i, s), ~Stray(i), ~Reversed(i), Required(s) # 0
    PROVE  i > Required(s) /\ \A e \in 1..Required(s) : Right(slots, i, s, e)
<1> DEFINE R == Required(s)
<1>1. i \in Nat /\ R \in 1..20
    BY SlotFacts, SpellingFacts
<1>2. ~(i > 1 /\ slots[i - 1].kind = "long" /\ (slots[i - 1].seq < R \/ Foreign(slots, i, i - 1)))
    <2>1. SUFFICES ASSUME i > 1, slots[i - 1].kind = "long", Foreign(slots, i, i - 1) PROVE FALSE
        BY DEF Reversed
    <2>2. i - 1 \in 1..(i - 1) /\ slots[i - 1].sum # slots[i].short
          /\ \A k \in ((i - 1) + 1)..(i - 1) : slots[k].kind # "short"
        BY <2>1, <1>1 DEF Foreign
    <2> QED BY <2>1, <2>2 DEF Stray
<1>3. /\ i > R
      /\ \A e \in 1..R : Right(slots, i, s, e) \/ Foreign(slots, i, i - R - 1 + e)
    BY <1>2 DEF PiecesOK
<1> HIDE DEF R
<1>4. ASSUME NEW e \in 1..R
      PROVE  slots[i - R - 1 + e].kind = "long"
    <2>1. Right(slots, i, s, e) => slots[i - R - 1 + e].kind = "long"
        BY DEF Right, LongSlot, R
    <2>2. Foreign(slots, i, i - R - 1 + e) => slots[i - R - 1 + e].kind = "long"
        BY DEF Foreign
    <2> QED BY <2>1, <2>2, <1>3
<1>5. ASSUME NEW e \in 1..R, Foreign(slots, i, i - R - 1 + e) PROVE FALSE
    <2> DEFINE j == i - R - 1 + e
    <2>1. j \in 1..(i - 1)
        BY <1>1, <1>3
    <2>2. ASSUME NEW k \in (j + 1)..(i - 1) PROVE slots[k].kind # "short"
        <3>1. k - (i - R - 1) \in 1..R /\ k = i - R - 1 + (k - (i - R - 1))
            BY <2>1, <1>1
        <3>2. slots[k].kind = "long"
            BY <3>1, <1>4
        <3> QED BY <3>2
    <2> HIDE DEF j
    <2>3. slots[j].kind = "long" /\ slots[j].sum # slots[i].short
        BY <1>5 DEF Foreign, j
    <2> QED BY <2>1, <2>2, <2>3 DEF Stray
<1> QED BY <1>3, <1>5 DEF R

\* So every entry that is not excused is listed as its file was made.
LEMMA NamesListed ==
    ASSUME Typed(slots, made), Apart(slots, made), Spelt(slots, made), NEW i \in Shorts(slots),
           ~Excused(i)
    PROVE  /\ EntryName(i) = Spelled(i).name /\ Spelled(i) \in Spellings
           /\ Good(slots, made, i)
<1>1. slots \in Seq(Slot) /\ slots[i].file \in DOMAIN made /\ made \in [DOMAIN made -> Spellings]
    BY DEF Typed, Apart
<1>2. Spelled(i) \in Spellings /\ Spelled(i) = Own(slots, made, i)
    BY <1>1 DEF Spelled, Own
<1>3. ~Stray(i) /\ ~Aliased(i) /\ ~Reversed(i) /\ ~Crossing(i)
    BY DEF Excused
<1>4. ~Cross(slots, made, i)
    BY <1>2, <1>3 DEF Cross, Crossing
<1>5. PiecesOK(slots, i, Spelled(i))
    BY <1>2, <1>4 DEF Spelt
<1>6. i \in Nat
    BY <1>1, SlotFacts
<1>6a. i > 0
    BY <1>1, SlotFacts
<1>7. CASE Required(Spelled(i)) = 0
    <2>1. EntryName(i) = <<slots[i].short>>
        BY <1>1, <1>3, <1>7, ShortNameIs
    <2>2. Spelled(i).plain
        BY <1>2, <1>7, SpellingFacts
    <2>3. <<slots[i].short>> = Spelled(i).name
        BY <1>3, <2>2 DEF Aliased
    <2>4. Forwards(slots, i, Spelled(i))
        BY <1>6, <1>6a, <1>7 DEF Forwards
    <2> QED BY <2>1, <2>3, <2>4, <1>2, <1>4 DEF Good
<1>8. CASE Required(Spelled(i)) # 0
    <2>1. i > Required(Spelled(i)) /\ \A e \in 1..Required(Spelled(i)) : Right(slots, i, Spelled(i), e)
        BY <1>1, <1>2, <1>3, <1>5, <1>8, PiecesThere
    <2>2. LongName(i) = Spelled(i).name /\ IsLong(i)
        BY <2>1, <1>1, <1>2, <1>8, LongNameIs
    <2>3. EntryName(i) = Spelled(i).name
        BY <2>2 DEF EntryName
    <2>4. Forwards(slots, i, Spelled(i))
        BY <2>1 DEF Forwards, Right
    <2>5. ~Spelled(i).plain
        BY <1>2, <1>8, SpellingFacts
    <2> QED BY <2>3, <2>4, <2>5, <1>2, <1>4 DEF Good
<1> QED BY <1>7, <1>8

-----------------------------------------------------------------------------
(* What a call does to the slots ss, and that it keeps the invariant; `new` *)
(* has the slot of the entry it makes, if it makes one                      *)

ShortsOf(ss) == {ss[i].short : i \in Shorts(ss)}

\* The entries that were there before are as they were.
Stay(ss, mm, ss2, mm2, new) ==
    \A i \in Shorts(ss2) \ new :
        /\ i \in Shorts(ss) /\ ss2[i] = ss[i]
        /\ ss[i].file \in DOMAIN mm2 /\ mm2[ss[i].file] = mm[ss[i].file]

\* A piece stays, unless one of an entry that crosses a cluster takes its slot.
PiecesStay(ss, ss2, mm2, new) ==
    \A p \in DOMAIN ss : ss[p].kind = "long" =>
        /\ p \in DOMAIN ss2
        /\ \/ ss2[p] = ss[p]
           \/ /\ ss2[p].kind = "long" /\ ss2[p].sum \notin ShortsOf(ss)
              /\ \A e \in new : Cross(ss2, mm2, e)

\* Pieces that were not there before are of no entry that was.
PiecesCome(ss, ss2) ==
    \A p \in DOMAIN ss2 : ss2[p].kind = "long" =>
        \/ p \in DOMAIN ss /\ ss2[p] = ss[p]
        \/ ss2[p].sum \notin ShortsOf(ss)

\* The piece p is stray for the entry j.
StraysAt(ss, mm, p, j) ==
    /\ p \in 1..(j - 1) /\ ss[p].kind = "long"
    /\ \A k \in (p + 1)..(j - 1) : ss[k].kind # "short"
    /\ ss[p].sum # ss[j].short \/ p < j - Required(Own(ss, mm, j))

\* The new entry has a file and a short name of its own and a name that is not
\* listed, and its slots were not those of pieces.
Comes(ss, mm, ss2, mm2, new) ==
    \A e \in new :
        /\ new = {e} /\ e \in Shorts(ss2)
        /\ ss2[e].file \in DOMAIN mm2 /\ ss2[e].short \notin ShortsOf(ss)
        /\ \A i \in Shorts(ss2) : ss2[i].file = ss2[e].file => i = e
        /\ Cross(ss2, mm2, e) \/ PiecesOK(ss2, e, Own(ss2, mm2, e))
        /\ \A p \in DOMAIN ss :
                e - Required(Own(ss2, mm2, e)) <= p /\ p <= e => ss[p].kind # "long"
        /\ \A j \in Shorts(ss) :
                Good(ss, mm, j) /\ Own(ss, mm, j).name = Own(ss2, mm2, e).name
                => \E p \in DOMAIN ss : StraysAt(ss, mm, p, j)

Changed(ss, mm, ss2, mm2, new) ==
    /\ Typed(ss2, mm2)
    /\ Stay(ss, mm, ss2, mm2, new)
    /\ PiecesStay(ss, ss2, mm2, new)
    /\ PiecesCome(ss, ss2)
    /\ Comes(ss, mm, ss2, mm2, new)

\* Files and short names stay different.
LEMMA ChangeKeepsApart ==
    ASSUME NEW ss, NEW mm, NEW ss2, NEW mm2, NEW new,
           Apart(ss, mm), Changed(ss, mm, ss2, mm2, new)
    PROVE  Apart(ss2, mm2)
<1>1. Stay(ss, mm, ss2, mm2, new) /\ Comes(ss, mm, ss2, mm2, new)
    BY DEF Changed
<1> SUFFICES ASSUME NEW i \in Shorts(ss2), NEW j \in Shorts(ss2)
             PROVE  /\ ss2[i].file \in DOMAIN mm2
                    /\ ss2[i].file = ss2[j].file \/ ss2[i].short = ss2[j].short => i = j
    BY DEF Apart
<1>2. ss2[i].file \in DOMAIN mm2
    BY <1>1 DEF Stay, Comes
<1>3. CASE i \notin new /\ j \notin new
    <2>1. i \in Shorts(ss) /\ j \in Shorts(ss) /\ ss2[i] = ss[i] /\ ss2[j] = ss[j]
        BY <1>1, <1>3 DEF Stay
    <2> QED BY <2>1, <1>2 DEF Apart
<1>4. ASSUME NEW e \in new, NEW k \in Shorts(ss2), k # e
      PROVE  ss2[k].file # ss2[e].file /\ ss2[k].short # ss2[e].short
    <2>1. ss2[e].short \notin ShortsOf(ss) /\ ss2[k].file # ss2[e].file /\ k \notin new
        BY <1>1, <1>4 DEF Comes
    <2>2. k \in Shorts(ss) /\ ss2[k] = ss[k]
        BY <2>1, <1>1 DEF Stay
    <2> QED BY <2>1, <2>2 DEF ShortsOf
<1> QED BY <1>2, <1>3, <1>4

\* An entry of before keeps its pieces, or sees that they are another's.
LEMMA PiecesKept ==
    ASSUME NEW ss \in Seq(Slot), NEW ss2 \in Seq(Slot), NEW mm2, NEW new,
           PiecesStay(ss, ss2, mm2, new), NEW s \in Spellings,
           NEW i \in Shorts(ss), ss2[i] = ss[i], PiecesOK(ss, i, s)
    PROVE  PiecesOK(ss2, i, s)
<1>1. i \in 1..Len(ss) /\ DOMAIN ss = 1..Len(ss) /\ Len(ss) \in Nat
    BY SlotFacts
<1>2. ASSUME NEW p \in 1..(i - 1), Foreign(ss, i, p)
      PROVE  Foreign(ss2, i, p)
    <2>1. p \in DOMAIN ss /\ ss[p].kind = "long"
        BY <1>1, <1>2 DEF Foreign
    <2> QED BY <2>1, <1>2 DEF Foreign, PiecesStay, ShortsOf
<1>3. CASE Required(s) = 0
    BY <1>3 DEF PiecesOK
<1> DEFINE R == Required(s)
<1>4. R \in Nat
    BY SpellingFacts
<1>5. CASE /\ i > R
           /\ \A e \in 1..R : Right(ss, i, s, e) \/ Foreign(ss, i, i - R - 1 + e)
    <2> HIDE DEF R
    <2>1. ASSUME NEW e \in 1..R
          PROVE  Right(ss2, i, s, e) \/ Foreign(ss2, i, i - R - 1 + e)
        <3> DEFINE p == i - R - 1 + e
        <3>1. p \in 1..(i - 1) /\ p \in DOMAIN ss
            BY <1>1, <1>4, <1>5
        <3>2. CASE Foreign(ss, i, p)
            BY <3>1, <3>2, <1>2
        <3>3. CASE Right(ss, i, s, e)
            <4>1. ss[p] = LongSlot(e, e = R, s.name[e], ss[i].short)
                BY <3>3 DEF Right, R
            <4> HIDE DEF p
            <4>2. ss[p].kind = "long"
                BY <4>1 DEF LongSlot
            <4>3. CASE ss2[p] = ss[p]
                BY <4>1, <4>3 DEF Right, R, p
            <4>4. CASE ss2[p].kind = "long" /\ ss2[p].sum \notin ShortsOf(ss)
                <5>1. Foreign(ss2, i, p)
                    BY <4>4 DEF Foreign, ShortsOf
                <5> QED BY <5>1 DEF p
            <4> QED BY <4>2, <4>3, <4>4, <3>1 DEF PiecesStay
        <3> QED BY <3>2, <3>3, <1>5
    <2> QED BY <2>1, <1>5 DEF PiecesOK, R
<1>6. CASE /\ i > 1 /\ ss[i - 1].kind = "long"
           /\ ss[i - 1].seq < Required(s) \/ Foreign(ss, i, i - 1)
    <2>1. i - 1 \in 1..(i - 1) /\ i - 1 \in DOMAIN ss
        BY <1>1, <1>6
    <2>2. CASE Foreign(ss, i, i - 1)
        BY <2>1, <2>2, <1>2, <1>6 DEF PiecesOK, Foreign
    <2>3. CASE ss2[i - 1] = ss[i - 1]
        BY <2>2, <2>3, <1>6 DEF PiecesOK
    <2>4. CASE ss2[i - 1].kind = "long" /\ ss2[i - 1].sum \notin ShortsOf(ss)
        BY <2>4, <1>6 DEF PiecesOK, Foreign, ShortsOf
    <2> QED BY <2>1, <2>3, <2>4, <1>6 DEF PiecesStay
<1> QED BY <1>3, <1>5, <1>6 DEF PiecesOK

\* The pieces of every entry, old or new, stay or show that they are another's.
LEMMA ChangeKeepsSpelt ==
    ASSUME NEW ss, NEW mm, NEW ss2, NEW mm2, NEW new,
           Typed(ss, mm), Apart(ss, mm), Spelt(ss, mm), Changed(ss, mm, ss2, mm2, new)
    PROVE  Spelt(ss2, mm2)
<1>1. /\ Stay(ss, mm, ss2, mm2, new) /\ Comes(ss, mm, ss2, mm2, new)
      /\ PiecesStay(ss, ss2, mm2, new)
    BY DEF Changed
<1>2. ss \in Seq(Slot) /\ ss2 \in Seq(Slot) /\ mm \in [DOMAIN mm -> Spellings]
    BY DEF Changed, Typed
<1> SUFFICES ASSUME NEW i \in Shorts(ss2)
             PROVE  Cross(ss2, mm2, i) \/ PiecesOK(ss2, i, Own(ss2, mm2, i))
    BY DEF Spelt
<1>3. CASE i \in new
    BY <1>1, <1>3 DEF Comes
<1>4. CASE i \notin new
    <2>1. i \in Shorts(ss) /\ ss2[i] = ss[i] /\ Own(ss2, mm2, i) = Own(ss, mm, i)
        BY <1>1, <1>4 DEF Stay, Own
    <2>2. Own(ss, mm, i) \in Spellings
        BY <2>1, <1>2 DEF Apart, Own
    <2>3. CASE Cross(ss, mm, i)
        BY <2>1, <2>3 DEF Cross
    <2>4. CASE PiecesOK(ss, i, Own(ss, mm, i))
        BY <2>1, <2>2, <2>4, <1>1, <1>2, PiecesKept
    <2> QED BY <2>1, <2>3, <2>4 DEF Spelt
<1> QED BY <1>3, <1>4

\* An entry of before that is good now was good before.
LEMMA GoodBefore ==
    ASSUME NEW ss, NEW mm, NEW ss2, NEW mm2, NEW new,
           Typed(ss, mm), Changed(ss, mm, ss2, mm2, new),
           NEW i \in Shorts(ss2) \ new, Good(ss2, mm2, i)
    PROVE  /\ Good(ss, mm, i) /\ Own(ss2, mm2, i) = Own(ss, mm, i)
           /\ i \in Shorts(ss) /\ ss2[i] = ss[i]
<1>1. Stay(ss, mm, ss2, mm2, new) /\ PiecesCome(ss, ss2)
      /\ ss \in Seq(Slot) /\ ss2 \in Seq(Slot)
      /\ DOMAIN mm2 \subseteq Files /\ mm2 \in [DOMAIN mm2 -> Spellings]
    BY DEF Changed, Typed
<1>2. i \in Shorts(ss) /\ ss2[i] = ss[i] /\ Own(ss2, mm2, i) = Own(ss, mm, i)
      /\ Own(ss2, mm2, i) \in Spellings
    BY <1>1 DEF Stay, Own
<1> DEFINE s == Own(ss2, mm2, i)
           R == Required(s)
<1>3. R \in Nat /\ i \in 1..Len(ss2) /\ DOMAIN ss2 = 1..Len(ss2) /\ Len(ss2) \in Nat
    BY <1>1, <1>2, SpellingFacts, SlotFacts
<1>4. i > R /\ \A e \in 1..R : ss2[i - R - 1 + e] = LongSlot(e, e = R, s.name[e], ss2[i].short)
    BY DEF Good, Forwards
<1> HIDE DEF R, s
<1>5. ASSUME NEW e \in 1..R
      PROVE  ss[i - R - 1 + e] = LongSlot(e, e = R, s.name[e], ss[i].short)
    <2> DEFINE p == i - R - 1 + e
    <2>1. p \in DOMAIN ss2
        BY <1>3, <1>4
    <2>2. ss2[p] = LongSlot(e, e = R, s.name[e], ss2[i].short)
        BY <1>4
    <2> HIDE DEF p
    <2>3. ss2[p].kind = "long" /\ ss2[p].sum = ss2[i].short
        BY <2>2 DEF LongSlot
    <2>4. ss2[p].sum \in ShortsOf(ss)
        BY <2>3, <1>2 DEF ShortsOf
    <2>5. ss[p] = ss2[p]
        BY <2>1, <2>3, <2>4, <1>1 DEF PiecesCome
    <2> QED BY <2>2, <2>5, <1>2 DEF p
<1>6. Forwards(ss, i, s)
    BY <1>4, <1>5 DEF Forwards, R
<1>7. ~Cross(ss, mm, i)
    BY <1>2 DEF Good, Cross
<1>8. s.plain => <<ss[i].short>> = s.name
    BY <1>2 DEF Good, s
<1> QED BY <1>2, <1>6, <1>7, <1>8 DEF Good, s

\* No new entry makes a piece of before its own.
LEMMA NewSeesStray ==
    ASSUME NEW ss, NEW mm, NEW ss2, NEW mm2, NEW new,
           Typed(ss, mm), Changed(ss, mm, ss2, mm2, new),
           NEW p \in DOMAIN ss, ss[p].kind = "long", NEW q \in new, p < q
    PROVE  p < q - Required(Own(ss2, mm2, q))
<1>1. Comes(ss, mm, ss2, mm2, new) /\ ss \in Seq(Slot) /\ ss2 \in Seq(Slot)
      /\ mm2 \in [DOMAIN mm2 -> Spellings]
    BY DEF Changed, Typed
<1>2. q \in Shorts(ss2) /\ Own(ss2, mm2, q) \in Spellings
    BY <1>1 DEF Comes, Own
<1> DEFINE R == Required(Own(ss2, mm2, q))
<1>3. p \in Nat /\ q \in Nat /\ R \in Nat
    BY <1>1, <1>2, SlotFacts, SpellingFacts
<1>4. ~(q - R <= p /\ p <= q)
    BY <1>1 DEF Comes
<1> HIDE DEF R
<1>5. p < q - R
    BY <1>3, <1>4
<1> QED BY <1>5 DEF R

\* What hid an entry of before still hides it.
LEMMA StillHidden ==
    ASSUME NEW ss, NEW mm, NEW ss2, NEW mm2, NEW new,
           Typed(ss, mm), Changed(ss, mm, ss2, mm2, new),
           NEW p \in DOMAIN ss, NEW i \in Shorts(ss2) \ new, Hides(ss, mm, p, i)
    PROVE  p \in DOMAIN ss2 /\ Hides(ss2, mm2, p, i)
<1>1. Stay(ss, mm, ss2, mm2, new) /\ PiecesStay(ss, ss2, mm2, new)
    BY DEF Changed
<1>2. p \in 1..(i - 1) /\ ss[p].kind = "long"
    BY DEF Hides
<1>3. /\ p \in DOMAIN ss2 /\ ss2[p].kind = "long"
      /\ ss2[p] = ss[p] \/ ss2[p].sum \notin ShortsOf(ss)
    BY <1>1, <1>2 DEF PiecesStay
<1>4. ASSUME NEW q \in Shorts(ss2), p < q, q <= i
      PROVE  \/ Cross(ss2, mm2, q) \/ p < q - Required(Own(ss2, mm2, q))
             \/ ss2[p].sum # ss2[q].short
    <2>1. CASE q \in new
        BY <2>1, <1>2, <1>4, NewSeesStray
    <2>2. CASE q \notin new
        <3>1. q \in Shorts(ss) /\ ss2[q] = ss[q] /\ Own(ss2, mm2, q) = Own(ss, mm, q)
            BY <2>2, <1>1 DEF Stay, Own
        <3>2. Cross(ss2, mm2, q) = Cross(ss, mm, q)
            BY <3>1 DEF Cross
        <3>3. \/ Cross(ss, mm, q) \/ p < q - Required(Own(ss, mm, q))
              \/ ss[p].sum # ss[q].short
            BY <3>1, <1>4 DEF Hides
        <3>4. ss[q].short \in ShortsOf(ss)
            BY <3>1 DEF ShortsOf
        <3> QED BY <3>1, <3>2, <3>3, <3>4, <1>3
    <2> QED BY <2>1, <2>2
<1> QED BY <1>2, <1>3, <1>4 DEF Hides

\* A piece that was stray for an entry hides it from now on.
LEMMA StrayHides ==
    ASSUME NEW ss, NEW mm, NEW ss2, NEW mm2, NEW new,
           Typed(ss, mm), Changed(ss, mm, ss2, mm2, new),
           NEW p \in DOMAIN ss, NEW i \in Shorts(ss2) \ new, StraysAt(ss, mm, p, i)
    PROVE  p \in DOMAIN ss2 /\ Hides(ss2, mm2, p, i)
<1>1. Stay(ss, mm, ss2, mm2, new) /\ PiecesStay(ss, ss2, mm2, new)
      /\ ss2 \in Seq(Slot) /\ ss \in Seq(Slot)
    BY DEF Changed, Typed
<1>2. p \in 1..(i - 1) /\ ss[p].kind = "long"
    BY DEF StraysAt
<1>3. /\ p \in DOMAIN ss2 /\ ss2[p].kind = "long"
      /\ ss2[p] = ss[p] \/ ss2[p].sum \notin ShortsOf(ss)
    BY <1>1, <1>2 DEF PiecesStay
<1>4. ASSUME NEW q \in Shorts(ss2), p < q, q <= i
      PROVE  \/ Cross(ss2, mm2, q) \/ p < q - Required(Own(ss2, mm2, q))
             \/ ss2[p].sum # ss2[q].short
    <2>1. CASE q \in new
        BY <2>1, <1>2, <1>4, NewSeesStray
    <2>2. CASE q \notin new
        <3>1. q \in Shorts(ss) /\ ss2[q] = ss[q] /\ Own(ss2, mm2, q) = Own(ss, mm, q)
            BY <2>2, <1>1 DEF Stay, Own
        <3>2. ss[q].kind = "short" /\ q \in Nat /\ i \in Nat
            BY <3>1, <1>1, SlotFacts DEF Shorts
        <3>3. q = i
            <4>1. q \notin (p + 1)..(i - 1)
                BY <3>2 DEF StraysAt
            <4> QED BY <4>1, <3>2, <1>2, <1>4
        <3>4. ss[i].short \in ShortsOf(ss)
            BY <3>1, <3>3 DEF ShortsOf
        <3> QED BY <3>1, <3>3, <3>4, <1>3 DEF StraysAt
    <2> QED BY <2>1, <2>2
<1> QED BY <1>2, <1>3, <1>4 DEF Hides

\* Of two entries made with one name one stays hidden.
LEMMA ChangeKeepsTwins ==
    ASSUME NEW ss, NEW mm, NEW ss2, NEW mm2, NEW new,
           Typed(ss, mm), TwinsHidden(ss, mm), Changed(ss, mm, ss2, mm2, new)
    PROVE  TwinsHidden(ss2, mm2)
<1> SUFFICES ASSUME NEW i \in Shorts(ss2), NEW j \in Shorts(ss2), i # j,
                    Good(ss2, mm2, i), Good(ss2, mm2, j),
                    Own(ss2, mm2, i).name = Own(ss2, mm2, j).name
             PROVE  \E p \in DOMAIN ss2 : Hides(ss2, mm2, p, i) \/ Hides(ss2, mm2, p, j)
    BY DEF TwinsHidden
<1>1. Comes(ss, mm, ss2, mm2, new)
    BY DEF Changed
<1>2. CASE i \notin new /\ j \notin new
    <2>1. /\ Good(ss, mm, i) /\ Good(ss, mm, j) /\ i \in Shorts(ss) /\ j \in Shorts(ss)
          /\ Own(ss, mm, i).name = Own(ss, mm, j).name
        BY <1>2, GoodBefore
    <2>2. PICK p \in DOMAIN ss : Hides(ss, mm, p, i) \/ Hides(ss, mm, p, j)
        BY <2>1 DEF TwinsHidden
    <2> QED BY <2>2, <1>2, StillHidden
<1>3. ASSUME NEW e \in new, NEW k \in Shorts(ss2), k # e, Good(ss2, mm2, k),
             Own(ss2, mm2, e).name = Own(ss2, mm2, k).name
      PROVE  \E p \in DOMAIN ss2 : Hides(ss2, mm2, p, k)
    <2>1. k \in Shorts(ss2) \ new
        BY <1>1, <1>3 DEF Comes
    <2>2. Good(ss, mm, k) /\ Own(ss, mm, k).name = Own(ss2, mm2, e).name /\ k \in Shorts(ss)
        BY <2>1, <1>3, GoodBefore
    <2>3. PICK p \in DOMAIN ss : StraysAt(ss, mm, p, k)
        BY <2>2, <1>1 DEF Comes
    <2> QED BY <2>1, <2>3, StrayHides
<1> QED BY <1>2, <1>3

\* A call that changes the slots like this keeps all of the invariant.
LEMMA ChangeKeepsListed ==
    ASSUME NEW ss, NEW mm, NEW ss2, NEW mm2, NEW new,
           Listed(ss, mm), Changed(ss, mm, ss2, mm2, new)
    PROVE  Listed(ss2, mm2)
<1>1. Typed(ss, mm) /\ Apart(ss, mm) /\ Spelt(ss, mm) /\ TwinsHidden(ss, mm)
    BY DEF Listed
<1>2. Typed(ss2, mm2)
    BY DEF Changed
<1>3. Apart(ss2, mm2)
    BY <1>1, ChangeKeepsApart
<1>4. Spelt(ss2, mm2)
    BY <1>1, ChangeKeepsSpelt
<1>5. TwinsHidden(ss2, mm2)
    BY <1>1, ChangeKeepsTwins
<1> QED BY <1>2, <1>3, <1>4, <1>5 DEF Listed

-----------------------------------------------------------------------------
(* What writeFAT32Entry writes *)

\* One of the short names that are tried is free: there are more than files.
LEMMA ShortFree ==
    ASSUME Typed(slots, made), Apart(slots, made), NEW s \in Spellings
    PROVE  ShortFor(s) \in Texts /\ ShortFor(s) \notin ShortsOf(slots)
<1> DEFINE free == {k \in DOMAIN s.tries : s.tries[k] \notin ShortNames}
           T == Tried(s)
<1>1. /\ slots \in Seq(Slot) /\ s.tries \in Seq(Texts) /\ DOMAIN s.tries = 1..Len(s.tries)
      /\ Len(s.tries) \in Nat
    BY SpellingFacts DEF Typed
<1>2. free # {}
    <2> SUFFICES ASSUME \A t \in T : \E i \in Shorts(slots) : slots[i].short = t
                 PROVE  FALSE
        BY DEF ShortNames, Tried
    <2> DEFINE at(t) == CHOOSE i \in Shorts(slots) : slots[i].short = t
               g == [t \in T |-> slots[at(t)].file]
    <2>1. \A t \in T : at(t) \in Shorts(slots) /\ slots[at(t)].short = t
        OBVIOUS
    <2> HIDE DEF at, T
    <2>2. \A t \in T : slots[at(t)].file \in Files
        <3>1. \A i \in Shorts(slots) : slots[i].file \in DOMAIN made
            BY DEF Apart
        <3> QED BY <3>1, <2>1 DEF Typed
    <2>3. g \in [T -> Files]
        BY <2>2
    <2>4. ASSUME NEW t \in T, NEW u \in T, g[t] = g[u]
          PROVE  t = u
        <3>1. slots[at(t)].file = slots[at(u)].file
            BY <2>4
        <3>2. at(t) = at(u)
            BY <2>1, <3>1 DEF Apart
        <3> QED BY <2>1, <3>2
    <2> HIDE DEF g
    <2>5. g \in Injection(T, Files)
        BY <2>3, <2>4 DEF Injection, IsInjective
    <2>6. IsFiniteSet(T) /\ Cardinality(T) <= Cardinality(Files)
        BY <2>5, SizeAssumption, FS_Injection
    <2>7. Cardinality(T) \in Nat /\ Cardinality(Files) \in Nat
        BY <2>6, SizeAssumption, FS_CardinalityType
    <2>8. Cardinality(T) > Cardinality(Files)
        BY TriesAssumption DEF T
    <2> QED BY <2>6, <2>7, <2>8
<1>3. free \subseteq Nat
    BY <1>1
<1> DEFINE c == CHOOSE k \in free : \A j \in free : k <= j
<1>4. c \in free
    BY <1>2, <1>3, LeastOfNats
<1>5. s.tries[c] \in Texts
    <2>1. c \in 1..Len(s.tries)
        BY <1>1, <1>4
    <2> HIDE DEF c
    <2> QED BY <2>1, <1>1, ElementOfSeq
<1>6. ShortFor(s) = s.tries[c]
    BY DEF ShortFor
<1>7. s.tries[c] \notin ShortNames
    <2> HIDE DEF c
    <2> QED BY <1>4
<1> QED BY <1>5, <1>6, <1>7 DEF ShortNames, ShortsOf

\* Where there are clusters and no run of unused slots, one cluster is added.
LEMMA GrownFacts ==
    ASSUME Typed(slots, made), NEW needed \in Nat
    PROVE  /\ Grown(needed) \in Seq(Slot) /\ Len(slots) <= Len(Grown(needed))
           /\ \E n \in Nat \ {0} : Len(Grown(needed)) = n * entriesPerCluster
           /\ \A i \in 1..Len(Grown(needed)) :
                Grown(needed)[i] = IF i <= Len(slots) THEN slots[i] ELSE Unused
<1>1. slots \in Seq(Slot) /\ Len(slots) \in Nat /\ entriesPerCluster \in Nat \ {0}
    BY SizeAssumption DEF Typed
<1>2. PICK n \in Nat \ {0} : Len(slots) = n * entriesPerCluster
    BY DEF Typed
<1>3. CASE FreeRuns(needed) # {}
    <2>1. Grown(needed) = slots
        BY <1>3 DEF Grown
    <2> QED BY <2>1, <1>1, <1>2
<1>4. CASE FreeRuns(needed) = {}
    <2> DEFINE u == [i \in 1..entriesPerCluster |-> Unused]
    <2>1. Grown(needed) = slots \o u
        BY <1>4 DEF Grown
    <2>2. u \in Seq(Slot) /\ Len(u) = entriesPerCluster
          /\ \A i \in 1..entriesPerCluster : u[i] = Unused
        <3>1. Unused \in Slot
            BY SlotMade
        <3> QED BY <3>1, <1>1
    <2> HIDE DEF u
    <2>3. /\ slots \o u \in Seq(Slot) /\ Len(slots \o u) = Len(slots) + entriesPerCluster
          /\ \A i \in 1..(Len(slots) + entriesPerCluster) :
                (slots \o u)[i] = IF i <= Len(slots) THEN slots[i] ELSE u[i - Len(slots)]
        BY <1>1, <2>2, ConcatProperties
    <2>4. Len(slots \o u) = (n + 1) * entriesPerCluster
        BY <1>1, <1>2, <2>3
    <2>5. \A i \in 1..(Len(slots) + entriesPerCluster) :
                i > Len(slots) => i - Len(slots) \in 1..entriesPerCluster
        BY <1>1
    <2>6. \A i \in 1..(Len(slots) + entriesPerCluster) :
                (slots \o u)[i] = IF i <= Len(slots) THEN slots[i] ELSE Unused
        BY <1>1, <2>2, <2>3, <2>5
    <2>7. Len(slots) <= Len(slots \o u) /\ n + 1 \in Nat \ {0}
        BY <1>1, <2>3
    <2> QED BY <2>1, <2>3, <2>4, <2>6, <2>7
<1> QED BY <1>3, <1>4

\* The slots for a new entry were unused or are new.
LEMMA StartFacts ==
    ASSUME Typed(slots, made), NEW needed \in Nat \ {0}, needed <= entriesPerCluster
    PROVE  /\ Start(needed) \in Nat \ {0}
           /\ Start(needed) + needed - 1 <= Len(Grown(needed))
           /\ \A i \in Start(needed)..(Start(needed) + needed - 1) :
                i \in DOMAIN slots => slots[i] = Unused
<1>1. slots \in Seq(Slot) /\ Len(slots) \in Nat /\ DOMAIN slots = 1..Len(slots)
      /\ entriesPerCluster \in Nat \ {0}
    BY SizeAssumption DEF Typed
<1>2. CASE FreeRuns(needed) = {}
    <2>1. Start(needed) = Len(slots) + 1
        BY <1>2 DEF Start
    <2>2. Grown(needed) = slots \o [i \in 1..entriesPerCluster |-> Unused]
        BY <1>2 DEF Grown
    <2>3. Len(Grown(needed)) = Len(slots) + entriesPerCluster
        <3>1. [i \in 1..entriesPerCluster |-> Unused] \in Seq(Slot)
              /\ Len([i \in 1..entriesPerCluster |-> Unused]) = entriesPerCluster
            <4>1. Unused \in Slot
                BY SlotMade
            <4> QED BY <4>1, <1>1
        <3> QED BY <3>1, <2>2, <1>1, ConcatProperties
    <2> QED BY <2>1, <2>3, <1>1
<1>3. CASE FreeRuns(needed) # {}
    <2>1. FreeRuns(needed) \subseteq Nat
        BY <1>1 DEF FreeRuns
    <2>2. Start(needed) \in FreeRuns(needed)
        BY <2>1, <1>3, LeastOfNats DEF Start
    <2>3. Grown(needed) = slots
        BY <1>3 DEF Grown
    <2> QED BY <2>2, <2>3, <1>1 DEF FreeRuns
<1> QED BY <1>2, <1>3

\* The slot of a new entry and those of its pieces.
EntryAt(s)    == Start(Required(s) + 1) + Required(s)
PieceAt(s, e) == ((EntryAt(s) - 1) \div entriesPerCluster) * entriesPerCluster
                    + ((Start(Required(s) + 1) - 1 + e) % entriesPerCluster) + 1
Pieced(s)     == {PieceAt(s, e) : e \in 0..(Required(s) - 1)}

\* WriteEntry, slot by slot.
LEMMA WriteIs ==
    ASSUME NEW s, NEW f, NEW i \in DOMAIN Grown(Required(s) + 1)
    PROVE  /\ DOMAIN WriteEntry(s, f) = DOMAIN Grown(Required(s) + 1)
           /\ i = EntryAt(s) => WriteEntry(s, f)[i] = ShortSlot(ShortFor(s), f)
           /\ i # EntryAt(s) /\ i \in Pieced(s) =>
                \E e \in 0..(Required(s) - 1) :
                    PieceAt(s, e) = i /\ WriteEntry(s, f)[i] = Piece(s, ShortFor(s), e)
           /\ i # EntryAt(s) /\ i \notin Pieced(s) =>
                WriteEntry(s, f)[i] = Grown(Required(s) + 1)[i]
<1> DEFINE g == Grown(Required(s) + 1)
           x(j) == CASE j = EntryAt(s) -> ShortSlot(ShortFor(s), f)
                     [] j \in Pieced(s) \ {EntryAt(s)} ->
                            Piece(s, ShortFor(s),
                                  CHOOSE e \in 0..(Required(s) - 1) : PieceAt(s, e) = j)
                     [] OTHER -> g[j]
<1>1. WriteEntry(s, f) = [j \in DOMAIN g |-> x(j)]
    BY DEF WriteEntry, EntryAt, PieceAt, Pieced
<1> HIDE DEF g
<1>2. WriteEntry(s, f)[i] = x(i) /\ DOMAIN WriteEntry(s, f) = DOMAIN g
    BY <1>1 DEF g
<1>3. i = EntryAt(s) => x(i) = ShortSlot(ShortFor(s), f)
    OBVIOUS
<1>4. ASSUME i # EntryAt(s), i \in Pieced(s)
      PROVE  \E e \in 0..(Required(s) - 1) :
                    PieceAt(s, e) = i /\ x(i) = Piece(s, ShortFor(s), e)
    <2> DEFINE c == CHOOSE e \in 0..(Required(s) - 1) : PieceAt(s, e) = i
    <2>1. c \in 0..(Required(s) - 1) /\ PieceAt(s, c) = i
        BY <1>4 DEF Pieced
    <2>2. x(i) = Piece(s, ShortFor(s), c)
        BY <1>4
    <2> HIDE DEF c, x
    <2> QED BY <2>1, <2>2
<1>5. i # EntryAt(s) /\ i \notin Pieced(s) => x(i) = g[i]
    OBVIOUS
<1> HIDE DEF x
<1> QED BY <1>2, <1>3, <1>4, <1>5 DEF g

\* Sizes: where the entry and its pieces go.
LEMMA WhereWritten ==
    ASSUME Typed(slots, made), NEW s \in Spellings
    PROVE  /\ EntryAt(s) \in 1..Len(Grown(Required(s) + 1)) /\ EntryAt(s) > Required(s)
           /\ EntryAt(s) \in Nat
           /\ \A i \in (EntryAt(s) - Required(s))..EntryAt(s) :
                i \in DOMAIN slots => slots[i] = Unused
           /\ (EntryAt(s) - 1) % entriesPerCluster >= Required(s) =>
                \A e \in 0..(Required(s) - 1) : PieceAt(s, e) = EntryAt(s) - Required(s) + e
<1> DEFINE R == Required(s)
           start == Start(R + 1)
           entry == EntryAt(s)
<1>1. R \in Nat /\ R < entriesPerCluster
    BY SpellingFacts
<1>2. entriesPerCluster \in Nat \ {0}
    BY SizeAssumption
<1>3. R + 1 \in Nat \ {0} /\ R + 1 <= entriesPerCluster
    BY <1>1, <1>2
<1> HIDE DEF R
<1>4. /\ start \in Nat \ {0} /\ start + (R + 1) - 1 <= Len(Grown(R + 1))
      /\ \A i \in start..(start + (R + 1) - 1) : i \in DOMAIN slots => slots[i] = Unused
    BY <1>3, StartFacts
<1>5. entry = start + R
    BY DEF EntryAt, R
<1>6. Len(Grown(R + 1)) \in Nat
    <2>1. Grown(R + 1) \in Seq(Slot)
        BY <1>3, GrownFacts
    <2> QED BY <2>1
<1> HIDE DEF start, entry
<1>7. entry \in 1..Len(Grown(R + 1)) /\ entry > R /\ entry \in Nat
    BY <1>1, <1>4, <1>5, <1>6
<1>8. \A i \in (entry - R)..entry : i \in DOMAIN slots => slots[i] = Unused
    <2>1. entry - R = start /\ start + (R + 1) - 1 = entry
        BY <1>1, <1>4, <1>5
    <2> QED BY <2>1, <1>4
<1>9. ASSUME (entry - 1) % entriesPerCluster >= R, NEW e \in 0..(R - 1)
      PROVE  PieceAt(s, e) = entry - R + e
    <2> DEFINE n == entriesPerCluster
               a == entry - 1
               d == R - e
    <2>1. a \in Nat /\ d \in Nat /\ a - d = start - 1 + e
        BY <1>1, <1>4, <1>5
    <2>2. a % n \in 0..(n - 1) /\ a \div n \in Nat /\ a = n * (a \div n) + (a % n)
        BY <2>1, <1>2, Divided
    <2>3. d <= a % n
        BY <1>1, <1>9, <2>2, <1>2
    <2>4. (a - d) % n = (a % n) - d
        <3> HIDE DEF a, d
        <3> QED BY <2>1, <2>3, <1>2, SameCluster
    <2>5. PieceAt(s, e) = (a \div n) * n + ((start - 1 + e) % n) + 1
        BY DEF PieceAt, R, start, entry
    <2> DEFINE q == a \div n
               r == a % n
    <2>6. (a \div n) * n = q * n /\ n * q = q * n /\ q * n \in Nat /\ a = n * q + r /\ r \in Nat
        BY <2>2, <1>2
    <2>7. PieceAt(s, e) = q * n + (r - d) + 1
        BY <2>1, <2>4, <2>5
    <2> HIDE DEF q, r
    <2>8. PieceAt(s, e) = a - d + 1
        BY <2>6, <2>7, <2>1
    <2> QED BY <2>8, <1>1, <1>4, <1>5
<1> QED BY <1>7, <1>8, <1>9 DEF R, entry

\* A good entry that is listed under another name has a stray piece before it.
LEMMA GoodButStray ==
    ASSUME Typed(slots, made), Apart(slots, made), Spelt(slots, made),
           NEW j \in Shorts(slots), Good(slots, made, j), EntryName(j) # Own(slots, made, j).name
    PROVE  \E p \in DOMAIN slots : StraysAt(slots, made, p, j)
<1>1. slots \in Seq(Slot) /\ slots[j].file \in DOMAIN made /\ made \in [DOMAIN made -> Spellings]
    BY DEF Typed, Apart
<1>2. Own(slots, made, j) \in Spellings /\ Spelled(j) = Own(slots, made, j)
    BY <1>1 DEF Own, Spelled
<1> DEFINE s == Own(slots, made, j)
           R == Required(s)
<1>3. R \in Nat /\ j \in 1..Len(slots) /\ DOMAIN slots = 1..Len(slots) /\ Len(slots) \in Nat
    BY <1>1, <1>2, SlotFacts, SpellingFacts
<1>4. Excused(j)
    BY <1>2, NamesListed
<1>5. ~Crossing(j)
    BY <1>2 DEF Good, Cross, Crossing
<1>6. ~Aliased(j)
    BY <1>2 DEF Good, Aliased
<1>7. j > R /\ \A e \in 1..R : slots[j - R - 1 + e] = LongSlot(e, e = R, s.name[e], slots[j].short)
    BY DEF Good, Forwards
<1> HIDE DEF R
<1>8. ~Reversed(j)
    <2>1. SUFFICES ASSUME j > 1, slots[j - 1].kind = "long", slots[j - 1].seq < R PROVE FALSE
        BY <1>2 DEF Reversed, R
    <2>2. CASE R = 0
        <3>1. j - 1 \in DOMAIN slots
            BY <1>3, <2>1
        <3>4. slots[j - 1] \in Slot
            BY <1>1, <3>1, SlotFacts
        <3>5. slots[j - 1].seq \in 1..20
            BY <2>1, <3>4, SlotKinds
        <3> QED BY <3>5, <2>1, <2>2
    <2>3. CASE R # 0
        <3>1. R \in 1..R /\ j - R - 1 + R = j - 1
            BY <1>3, <2>3
        <3>2. slots[j - 1] = LongSlot(R, R = R, s.name[R], slots[j].short)
            BY <3>1, <1>7
        <3>3. slots[j - 1].seq = R
            BY <3>2 DEF LongSlot
        <3> QED BY <3>3, <2>1, <1>3
    <2> QED BY <2>2, <2>3
<1>9. Stray(j)
    BY <1>4, <1>5, <1>6, <1>8 DEF Excused
<1>10. PICK p \in 1..(j - 1) :
            /\ slots[p].kind = "long"
            /\ \A k \in (p + 1)..(j - 1) : slots[k].kind # "short"
            /\ slots[p].sum # slots[j].short \/ p < j - Required(Spelled(j))
    BY <1>9 DEF Stray
<1>11. p \in DOMAIN slots
    BY <1>3
<1> QED BY <1>10, <1>11, <1>2 DEF StraysAt

-----------------------------------------------------------------------------
\* The slots ss2 after an entry for f, spelled s, was written and the slot
\* `gone` was given up.
Rewritten(ss2, s, f, gone) ==
    /\ DOMAIN ss2 = DOMAIN WriteEntry(s, f)
    /\ ss2 = [i \in DOMAIN ss2 |-> IF i = gone THEN Unused ELSE WriteEntry(s, f)[i]]
    /\ gone = 0 \/ gone \in Shorts(slots)

\* What stands in the slot i then.
Placed(ss2, s, gone, i) ==
    \/ i = gone /\ ss2[i] = Unused
    \/ i # gone /\ i \in DOMAIN slots /\ ss2[i] = slots[i]
    \/ i \notin DOMAIN slots /\ ss2[i] = Unused
    \/ /\ i # gone /\ ss2[i].kind = "long" /\ ss2[i].sum = ShortFor(s)
       /\ \/ (EntryAt(s) - 1) % entriesPerCluster < Required(s)
          \/ i \in (EntryAt(s) - Required(s))..(EntryAt(s) - 1)

\* A piece that is written is a slot.
LEMMA PieceMade ==
    ASSUME NEW s \in Spellings, NEW e \in 0..(Required(s) - 1), ShortFor(s) \in Texts
    PROVE  /\ Piece(s, ShortFor(s), e) \in Slot /\ Piece(s, ShortFor(s), e).kind = "long"
           /\ Piece(s, ShortFor(s), e).sum = ShortFor(s)
<1>1. Required(s) \in 0..20 /\ \A k \in 1..Required(s) : s.name[k] \in Texts
    BY SpellingFacts
<1>2. e + 1 \in 1..20 /\ e + 1 \in 1..Required(s)
    BY <1>1
<1>3. s.name[e + 1] \in Texts /\ (e = Required(s) - 1) \in BOOLEAN
    BY <1>1, <1>2
<1> DEFINE q == e + 1
           l == e = Required(s) - 1
<1>4. Piece(s, ShortFor(s), e) = LongSlot(q, l, s.name[q], ShortFor(s))
    BY DEF Piece
<1>5. q \in 1..20 /\ l \in BOOLEAN /\ s.name[q] \in Texts
    BY <1>2, <1>3
<1> HIDE DEF q, l
<1> QED BY <1>4, <1>5, SlotMade

\* What ss2 has at the new entry, at its pieces and everywhere else.
LEMMA RewriteFacts ==
    ASSUME Typed(slots, made), NEW s \in Spellings, NEW f \in Files, ShortFor(s) \in Texts,
           NEW ss2, NEW gone, Rewritten(ss2, s, f, gone)
    PROVE  /\ ss2 \in Seq(Slot) /\ \E n \in Nat \ {0} : Len(ss2) = n * entriesPerCluster
           /\ EntryAt(s) \in DOMAIN ss2 /\ ss2[EntryAt(s)] = ShortSlot(ShortFor(s), f)
           /\ DOMAIN slots \subseteq DOMAIN ss2
           /\ \A i \in DOMAIN ss2 \ {EntryAt(s)} : Placed(ss2, s, gone, i)
           /\ (EntryAt(s) - 1) % entriesPerCluster >= Required(s) =>
                \A e \in 1..Required(s) :
                    ss2[EntryAt(s) - Required(s) - 1 + e] =
                        LongSlot(e, e = Required(s), s.name[e], ShortFor(s))
<1> DEFINE R == Required(s)
           g == Grown(R + 1)
           entry == EntryAt(s)
           w == WriteEntry(s, f)
<1>1. R \in Nat
    BY SpellingFacts
<1>2. slots \in Seq(Slot) /\ DOMAIN slots = 1..Len(slots) /\ Len(slots) \in Nat
    BY DEF Typed
<1>3. /\ g \in Seq(Slot) /\ Len(slots) <= Len(g)
      /\ \E n \in Nat \ {0} : Len(g) = n * entriesPerCluster
      /\ \A i \in 1..Len(g) : g[i] = IF i <= Len(slots) THEN slots[i] ELSE Unused
    <2>1. R + 1 \in Nat
        BY <1>1
    <2> QED BY <2>1, GrownFacts
<1>4. DOMAIN g = 1..Len(g) /\ Len(g) \in Nat
    BY <1>3
<1>5. /\ entry \in 1..Len(g) /\ entry > R /\ entry \in Nat
      /\ \A i \in (entry - R)..entry : i \in DOMAIN slots => slots[i] = Unused
    BY WhereWritten
<1>6. /\ DOMAIN w = DOMAIN g
      /\ \A i \in DOMAIN g :
            /\ i = entry => w[i] = ShortSlot(ShortFor(s), f)
            /\ i # entry /\ i \in Pieced(s) =>
                \E e \in 0..(R - 1) : PieceAt(s, e) = i /\ w[i] = Piece(s, ShortFor(s), e)
            /\ i # entry /\ i \notin Pieced(s) => w[i] = g[i]
    <2>1. entry \in DOMAIN g
        BY <1>4, <1>5
    <2> QED BY <2>1, WriteIs
<1> HIDE DEF g, w, entry, R
<1>7. /\ DOMAIN ss2 = DOMAIN g
      /\ ss2 = [i \in DOMAIN g |-> IF i = gone THEN Unused ELSE w[i]]
      /\ gone = 0 \/ gone \in Shorts(slots)
    BY <1>6 DEF Rewritten, w
<1>7a. ASSUME NEW i \in (entry - R)..entry PROVE i # gone
    <2>1. i \in Nat /\ i # 0
        BY <1>1, <1>5
    <2>2. i \in DOMAIN slots => i \notin Shorts(slots)
        BY <1>5, SlotMade DEF Shorts
    <2> QED BY <2>1, <2>2, <1>7 DEF Shorts
<1>8. \A i \in DOMAIN g : ss2[i] = IF i = gone THEN Unused ELSE w[i]
    BY <1>7
<1>9. ss2[entry] = ShortSlot(ShortFor(s), f) /\ entry \in DOMAIN ss2
    <2>1. entry \in (entry - R)..entry
        BY <1>1, <1>5
    <2>2. entry # gone
        BY <2>1, <1>7a
    <2> QED BY <2>2, <1>4, <1>5, <1>6, <1>7, <1>8
<1>10. ASSUME NEW i \in DOMAIN g \ {entry}
       PROVE  Placed(ss2, s, gone, i) /\ ss2[i] \in Slot
    <2>0. i \in 1..Len(g)
        BY <1>4
    <2>1. CASE i = gone
        BY <2>1, <1>8, SlotMade DEF Placed
    <2>2. CASE i # gone /\ i \in Pieced(s)
        <3>1. PICK e \in 0..(R - 1) : PieceAt(s, e) = i /\ ss2[i] = Piece(s, ShortFor(s), e)
            BY <2>2, <1>6, <1>8
        <3>2. ss2[i] \in Slot /\ ss2[i].kind = "long" /\ ss2[i].sum = ShortFor(s)
            BY <3>1, PieceMade DEF R
        <3>3. (entry - 1) % entriesPerCluster >= R => i \in (entry - R)..(entry - 1)
            <4>1. SUFFICES ASSUME (entry - 1) % entriesPerCluster >= R
                           PROVE  i \in (entry - R)..(entry - 1)
                OBVIOUS
            <4>2. PieceAt(s, e) = entry - R + e
                BY <4>1, WhereWritten DEF R, entry
            <4> QED BY <4>2, <3>1, <1>1, <1>5
        <3>4. (entry - 1) % entriesPerCluster \in Nat
            <4>1. entry - 1 \in Nat
                BY <1>5
            <4> QED BY <4>1, SizeAssumption, Divided
        <3>5. (entry - 1) % entriesPerCluster < R \/ i \in (entry - R)..(entry - 1)
            BY <3>3, <3>4, <1>1
        <3> QED BY <2>2, <3>2, <3>5 DEF Placed, R, entry
    <2>3. CASE i # gone /\ i \notin Pieced(s)
        <3>1. ss2[i] = IF i <= Len(slots) THEN slots[i] ELSE Unused
            BY <2>0, <2>3, <1>3, <1>6, <1>8
        <3>2. CASE i <= Len(slots)
            <4>1. i \in DOMAIN slots /\ ss2[i] = slots[i]
                BY <2>0, <3>1, <3>2, <1>2
            <4>2. slots[i] \in Slot
                BY <4>1, <1>2, SlotFacts
            <4> QED BY <2>3, <4>1, <4>2 DEF Placed
        <3>3. CASE ~(i <= Len(slots))
            <4>1. i \notin DOMAIN slots /\ ss2[i] = Unused
                BY <2>0, <3>1, <3>3, <1>2
            <4> QED BY <4>1, SlotMade DEF Placed
        <3> QED BY <3>2, <3>3
    <2> QED BY <2>1, <2>2, <2>3
<1>11. ss2 \in Seq(Slot) /\ Len(ss2) = Len(g)
    <2>1. \A i \in 1..Len(g) : ss2[i] \in Slot
        <3>1. ss2[entry] \in Slot
            BY <1>9, SlotMade
        <3> QED BY <3>1, <1>4, <1>10
    <2>2. ss2 = [i \in 1..Len(g) |-> ss2[i]]
        BY <1>4, <1>7
    <2>3. ss2 \in [1..Len(g) -> Slot]
        BY <2>1, <2>2
    <2> QED BY <2>3, <1>4
<1>12. DOMAIN slots \subseteq DOMAIN ss2
    BY <1>2, <1>3, <1>4, <1>7
<1>13. ASSUME (entry - 1) % entriesPerCluster >= R, NEW e \in 1..R
       PROVE  ss2[entry - R - 1 + e] = LongSlot(e, e = R, s.name[e], ShortFor(s))
    <2> DEFINE i == entry - R - 1 + e
    <2>1. /\ i \in 1..Len(g) /\ i # entry /\ i \in (entry - R)..entry
          /\ i = entry - R + (e - 1) /\ e - 1 \in 0..(R - 1)
        BY <1>1, <1>4, <1>5
    <2>2. PieceAt(s, e - 1) = i
        <3>1. PieceAt(s, e - 1) = entry - R + (e - 1)
            BY <2>1, <1>13, WhereWritten DEF R, entry
        <3> QED BY <3>1, <2>1
    <2> HIDE DEF i
    <2>3. i # gone /\ i \in DOMAIN g
        BY <2>1, <1>4, <1>7a
    <2>4. i \in Pieced(s)
        BY <2>1, <2>2 DEF Pieced, R
    <2>5. PICK c \in 0..(R - 1) : PieceAt(s, c) = i /\ w[i] = Piece(s, ShortFor(s), c)
        BY <2>1, <2>3, <2>4, <1>6
    <2>6. PieceAt(s, c) = entry - R + c
        BY <1>13, WhereWritten DEF R, entry
    <2>7. c + 1 = e /\ (c = R - 1) = (e = R)
        BY <2>1, <2>5, <2>6, <1>1, <1>5
    <2>8. Piece(s, ShortFor(s), c) = LongSlot(e, e = R, s.name[e], ShortFor(s))
        BY <2>7 DEF Piece, R
    <2> QED BY <2>3, <2>5, <2>8, <1>8 DEF i
<1> QED BY <1>3, <1>7, <1>9, <1>10, <1>11, <1>12, <1>13 DEF R, entry

\* What the files were made with, when f is now spelled s.
Recorded(mm2, s, f) ==
    /\ DOMAIN mm2 = DOMAIN made \cup {f} /\ mm2 \in [DOMAIN mm2 -> Spellings]
    /\ mm2[f] = s
    /\ \A g \in DOMAIN made : g # f => mm2[g] = made[g]

\* Such a write is a change that keeps the invariant.
LEMMA WriteChanges ==
    ASSUME Listed(slots, made), NEW s \in Spellings, NEW f \in Files, Vacant(s),
           NEW ss2, NEW mm2, NEW gone, Rewritten(ss2, s, f, gone), Recorded(mm2, s, f),
           \A i \in Shorts(slots) : slots[i].file = f => i = gone
    PROVE  Changed(slots, made, ss2, mm2, {EntryAt(s)})
<1> DEFINE entry == EntryAt(s)
           short == ShortFor(s)
           R == Required(s)
           n == entriesPerCluster
<1>1. /\ Typed(slots, made) /\ Apart(slots, made) /\ Spelt(slots, made)
      /\ slots \in Seq(Slot) /\ DOMAIN slots = 1..Len(slots) /\ Len(slots) \in Nat
      /\ DOMAIN made \subseteq Files
    BY DEF Listed, Typed
<1>2. short \in Texts /\ short \notin ShortsOf(slots)
    BY <1>1, ShortFree
<1>3. /\ ss2 \in Seq(Slot) /\ \E m \in Nat \ {0} : Len(ss2) = m * n
      /\ entry \in DOMAIN ss2 /\ ss2[entry] = ShortSlot(short, f)
      /\ DOMAIN slots \subseteq DOMAIN ss2
      /\ \A i \in DOMAIN ss2 \ {entry} : Placed(ss2, s, gone, i)
      /\ (entry - 1) % n >= R =>
            \A e \in 1..R : ss2[entry - R - 1 + e] = LongSlot(e, e = R, s.name[e], short)
    BY <1>1, <1>2, RewriteFacts
<1>4. /\ entry > R /\ entry \in Nat
      /\ \A i \in (entry - R)..entry : i \in DOMAIN slots => slots[i] = Unused
    BY <1>1, WhereWritten
<1>5. R \in 0..20 /\ R \in Nat /\ n \in Nat \ {0}
    BY SpellingFacts, SizeAssumption
<1>6. (entry - 1) % n \in Nat
    <2>1. entry - 1 \in Nat
        BY <1>4, <1>5
    <2> QED BY <2>1, <1>5, Divided
<1>7. gone = 0 \/ gone \in Shorts(slots)
    BY DEF Rewritten
<1> HIDE DEF entry, short, R, n
<1>8. entry \in Shorts(ss2) /\ ss2[entry].file = f /\ ss2[entry].short = short
    BY <1>2, <1>3, SlotMade DEF Shorts
<1>9. Own(ss2, mm2, entry) = s
    BY <1>8 DEF Own, Recorded
<1>10. Cross(ss2, mm2, entry) <=> (entry - 1) % n < R
    BY <1>9 DEF Cross, n, R
<1>11. Unused.kind = "unused" /\ \A x \in Slot : x.kind = "unused" => x = Unused
    BY SlotMade, SlotKinds
<1>12. ASSUME NEW i \in Shorts(ss2) \ {entry}
       PROVE  i \in Shorts(slots) /\ ss2[i] = slots[i] /\ i # gone /\ slots[i].file # f
    <2>1. i \in DOMAIN ss2 \ {entry} /\ ss2[i].kind = "short"
        BY DEF Shorts
    <2>2. Placed(ss2, s, gone, i)
        BY <2>1, <1>3
    <2>3. i # gone /\ i \in DOMAIN slots /\ ss2[i] = slots[i]
        BY <2>1, <2>2, <1>11 DEF Placed
    <2>4. i \in Shorts(slots)
        BY <2>1, <2>3 DEF Shorts
    <2> QED BY <2>3, <2>4
<1>13. Typed(ss2, mm2)
    BY <1>1, <1>3 DEF Typed, Recorded, n
<1>14. Stay(slots, made, ss2, mm2, {entry})
    <2> SUFFICES ASSUME NEW i \in Shorts(ss2) \ {entry}
                 PROVE  /\ i \in Shorts(slots) /\ ss2[i] = slots[i]
                        /\ slots[i].file \in DOMAIN mm2
                        /\ mm2[slots[i].file] = made[slots[i].file]
        BY DEF Stay
    <2>1. i \in Shorts(slots) /\ ss2[i] = slots[i] /\ slots[i].file # f
        BY <1>12
    <2>2. slots[i].file \in DOMAIN made
        BY <2>1, <1>1 DEF Apart
    <2> QED BY <2>1, <2>2 DEF Recorded
<1>15. ASSUME NEW p \in DOMAIN slots, slots[p].kind = "long"
       PROVE  /\ p \notin (entry - R)..entry /\ p # gone /\ p # entry
              /\ p \in DOMAIN ss2
              /\ ss2[p] = slots[p] \/ (ss2[p].kind = "long" /\ ss2[p].sum = short /\ (entry - 1) % n < R)
    <2>1. p \notin (entry - R)..entry
        BY <1>4, <1>11, <1>15
    <2>2. p # gone
        <3>1. p # 0
            BY <1>1
        <3>2. p \notin Shorts(slots)
            BY <1>15 DEF Shorts
        <3> QED BY <3>1, <3>2, <1>7
    <2>3. p # entry /\ p \notin (entry - R)..(entry - 1)
        BY <2>1, <1>1, <1>4, <1>5
    <2>4. p \in DOMAIN ss2 \ {entry}
        BY <2>3, <1>3
    <2>5. Placed(ss2, s, gone, p)
        BY <2>4, <1>3
    <2> QED BY <2>1, <2>2, <2>3, <2>4, <2>5 DEF Placed, short, entry, R, n
<1>16. PiecesStay(slots, ss2, mm2, {entry})
    BY <1>2, <1>10, <1>15 DEF PiecesStay
<1>17. PiecesCome(slots, ss2)
    <2> SUFFICES ASSUME NEW p \in DOMAIN ss2, ss2[p].kind = "long"
                 PROVE  (p \in DOMAIN slots /\ ss2[p] = slots[p]) \/ ss2[p].sum \notin ShortsOf(slots)
        BY DEF PiecesCome
    <2>1. p # entry
        BY <1>3, <1>8 DEF Shorts
    <2>2. Placed(ss2, s, gone, p)
        BY <2>1, <1>3
    <2> QED BY <2>2, <1>2, <1>11 DEF Placed, short
<1>18. Cross(ss2, mm2, entry) \/ PiecesOK(ss2, entry, s)
    <2>1. SUFFICES ASSUME ~((entry - 1) % n < R) PROVE PiecesOK(ss2, entry, s)
        BY <1>10
    <2>2. (entry - 1) % n >= R
        BY <2>1, <1>5, <1>6
    <2>3. \A e \in 1..R : Right(ss2, entry, s, e)
        BY <2>2, <1>3, <1>8 DEF Right, R
    <2> QED BY <2>3, <1>4 DEF PiecesOK, R
<1>19. ASSUME NEW p \in DOMAIN slots, entry - R <= p, p <= entry
       PROVE  slots[p].kind # "long"
    <2>1. p \in (entry - R)..entry
        BY <1>1, <1>4, <1>5, <1>19
    <2> QED BY <2>1, <1>15
<1>20. ASSUME NEW j \in Shorts(slots), Good(slots, made, j), Own(slots, made, j).name = s.name
       PROVE  \E p \in DOMAIN slots : StraysAt(slots, made, p, j)
    <2>1. EntryName(j) # s.name
        BY DEF Vacant, Exists, Matches
    <2> QED BY <2>1, <1>1, <1>20, GoodButStray
<1>21. Comes(slots, made, ss2, mm2, {entry})
    <2>1. f \in DOMAIN mm2
        BY DEF Recorded
    <2>2. \A i \in Shorts(ss2) : ss2[i].file = f => i = entry
        BY <1>12
    <2> QED BY <2>1, <2>2, <1>2, <1>8, <1>9, <1>18, <1>19, <1>20 DEF Comes, R
<1> QED BY <1>13, <1>14, <1>16, <1>17, <1>21 DEF Changed, entry

-----------------------------------------------------------------------------
(* The calls that change the directory *)

\* createFAT32Entry changes the slots so.
LEMMA CreateChanges ==
    ASSUME Listed(slots, made), NEW s \in Spellings, NEW f \in Files, Create(s, f)
    PROVE  Changed(slots, made, slots', made', {EntryAt(s)}) /\ Rewritten(slots', s, f, 0)
<1>1. Vacant(s) /\ f \notin DOMAIN made /\ slots' = WriteEntry(s, f)
      /\ made' = [g \in DOMAIN made \cup {f} |-> IF g = f THEN s ELSE made[g]]
    BY DEF Create
<1>2. Typed(slots, made) /\ Apart(slots, made)
    BY DEF Listed
<1>3. 0 \notin DOMAIN slots' /\ DOMAIN slots' = DOMAIN WriteEntry(s, f)
    <2>1. DOMAIN WriteEntry(s, f) = DOMAIN Grown(Required(s) + 1)
        BY DEF WriteEntry
    <2>2. Grown(Required(s) + 1) \in Seq(Slot)
        <3>1. Required(s) + 1 \in Nat
            BY SpellingFacts
        <3> QED BY <3>1, <1>2, GrownFacts
    <2> QED BY <2>1, <2>2, <1>1
<1>4. slots' = [i \in DOMAIN slots' |-> WriteEntry(s, f)[i]]
    <2>1. WriteEntry(s, f) = [i \in DOMAIN WriteEntry(s, f) |-> WriteEntry(s, f)[i]]
        BY DEF WriteEntry
    <2> QED BY <2>1, <1>1
<1>5. Rewritten(slots', s, f, 0)
    BY <1>3, <1>4 DEF Rewritten
<1>6. Recorded(made', s, f)
    <2>1. made \in [DOMAIN made -> Spellings]
        BY <1>2 DEF Typed
    <2> QED BY <2>1, <1>1 DEF Recorded
<1>7. \A i \in Shorts(slots) : slots[i].file = f => i = 0
    BY <1>1, <1>2 DEF Apart
<1> QED BY <1>1, <1>5, <1>6, <1>7, WriteChanges

\* An entry that is found.
LEMMA Found ==
    ASSUME slots \in Seq(Slot), NEW n, Exists(n)
    PROVE  SlotOf(n) \in Shorts(slots) /\ EntryName(SlotOf(n)) = n
<1>1. Matches(n) \subseteq Nat /\ Matches(n) # {}
    <2>1. Matches(n) \subseteq Shorts(slots)
        BY DEF Matches
    <2> QED BY <2>1, SlotFacts DEF Exists
<1>2. SlotOf(n) \in Matches(n)
    BY <1>1, LeastOfNats DEF SlotOf
<1> QED BY <1>2 DEF Matches

\* moveFAT32Entry changes the slots so.
LEMMA MoveChanges ==
    ASSUME Listed(slots, made), NEW n, NEW s \in Spellings, Move(n, s),
           NEW f, f = slots[SlotOf(n)].file
    PROVE  Changed(slots, made, slots', made', {EntryAt(s)}) /\ Rewritten(slots', s, f, SlotOf(n))
           /\ f \in Files /\ f \in DOMAIN made
<1>1. Exists(n) /\ Vacant(s) /\ slots' = [WriteEntry(s, f) EXCEPT ![SlotOf(n)] = Unused]
      /\ made' = [made EXCEPT ![f] = s]
    BY DEF Move
<1>2. Typed(slots, made) /\ Apart(slots, made)
    BY DEF Listed
<1>3. SlotOf(n) \in Shorts(slots)
    BY <1>1, <1>2, Found DEF Typed
<1>4. f \in DOMAIN made /\ f \in Files
    BY <1>2, <1>3 DEF Apart, Typed
<1>5. Rewritten(slots', s, f, SlotOf(n))
    <2> DEFINE w == WriteEntry(s, f)
    <2>1. w = [i \in DOMAIN w |-> w[i]]
        BY DEF WriteEntry
    <2> HIDE DEF w
    <2>2. DOMAIN slots' = DOMAIN w
        BY <1>1 DEF w
    <2>3. slots' = [i \in DOMAIN w |-> IF i = SlotOf(n) THEN Unused ELSE w[i]]
        BY <2>1, <1>1 DEF w
    <2> QED BY <2>2, <2>3, <1>3 DEF Rewritten, w
<1>6. Recorded(made', s, f)
    <2>1. made \in [DOMAIN made -> Spellings]
        BY <1>2 DEF Typed
    <2> QED BY <2>1, <1>1, <1>4 DEF Recorded
<1>7. \A i \in Shorts(slots) : slots[i].file = f => i = SlotOf(n)
    BY <1>2, <1>3 DEF Apart
<1> QED BY <1>1, <1>4, <1>5, <1>6, <1>7, WriteChanges

\* deleteFAT32Entry changes the slots so, with no new entry.
LEMMA DeleteChanges ==
    ASSUME Listed(slots, made), NEW n, Delete(n)
    PROVE  Changed(slots, made, slots', made', {})
<1> DEFINE g == SlotOf(n)
           f == slots[g].file
<1>1. Exists(n) /\ slots' = [slots EXCEPT ![g] = Unused]
      /\ made' = [h \in DOMAIN made \ {f} |-> made[h]]
    BY DEF Delete
<1>2. Typed(slots, made) /\ Apart(slots, made)
    BY DEF Listed
<1>3. g \in Shorts(slots) /\ slots \in Seq(Slot)
    BY <1>1, <1>2, Found DEF Typed
<1> HIDE DEF g
<1>4. g \in 1..Len(slots) /\ DOMAIN slots = 1..Len(slots) /\ Unused \in Slot
      /\ Unused.kind = "unused"
    BY <1>3, SlotMade DEF Shorts
<1>5. /\ slots' \in Seq(Slot) /\ Len(slots') = Len(slots) /\ DOMAIN slots' = DOMAIN slots
      /\ \A i \in DOMAIN slots : slots'[i] = IF i = g THEN Unused ELSE slots[i]
    BY <1>1, <1>3, <1>4, ExceptSeq
<1>6. Typed(slots', made')
    <2>1. made' \in [DOMAIN made' -> Spellings] /\ DOMAIN made' \subseteq Files
        BY <1>1, <1>2 DEF Typed
    <2>2. \E k \in Nat \ {0} : Len(slots') = k * entriesPerCluster
        BY <1>2, <1>5 DEF Typed
    <2> QED BY <2>1, <2>2, <1>5 DEF Typed
<1>7. \A i \in Shorts(slots') : i \in Shorts(slots) /\ i # g /\ slots'[i] = slots[i]
    BY <1>4, <1>5 DEF Shorts
<1>8. Stay(slots, made, slots', made', {})
    <2> SUFFICES ASSUME NEW i \in Shorts(slots')
                 PROVE  /\ i \in Shorts(slots) /\ slots'[i] = slots[i]
                        /\ slots[i].file \in DOMAIN made'
                        /\ made'[slots[i].file] = made[slots[i].file]
        BY DEF Stay
    <2>1. i \in Shorts(slots) /\ i # g /\ slots'[i] = slots[i]
        BY <1>7
    <2>2. slots[i].file \in DOMAIN made /\ slots[i].file # f
        BY <2>1, <1>2, <1>3 DEF Apart
    <2> QED BY <2>1, <2>2, <1>1
<1>9. PiecesStay(slots, slots', made', {})
    BY <1>3, <1>5 DEF PiecesStay, Shorts
<1>10. PiecesCome(slots, slots')
    BY <1>4, <1>5 DEF PiecesCome
<1>11. Comes(slots, made, slots', made', {})
    BY DEF Comes
<1> QED BY <1>6, <1>8, <1>9, <1>10, <1>11 DEF Changed

-----------------------------------------------------------------------------
(* The invariant holds at first and is kept *)

\* Pieces in this driver's order are in their place; in the other order that
\* is to be seen at the piece before the entry.
LEMMA PiecesAtFirst ==
    ASSUME NEW ss, NEW i \in Nat, NEW s \in Spellings, Forwards(ss, i, s) \/ Backwards(ss, i, s)
    PROVE  PiecesOK(ss, i, s)
<1> DEFINE R == Required(s)
<1>1. R \in Nat
    BY SpellingFacts
<1>2. CASE Forwards(ss, i, s)
    BY <1>2 DEF Forwards, PiecesOK, Right
<1>3. CASE Backwards(ss, i, s)
    <2>1. i > R /\ \A e \in 1..R : ss[i - e] = LongSlot(e, e = R, s.name[e], ss[i].short)
        BY <1>3 DEF Backwards
    <2> HIDE DEF R
    <2>2. CASE R = 0
        BY <2>2 DEF PiecesOK, R
    <2>3. CASE R = 1
        <3>1. \A e \in 1..R : ss[i - R - 1 + e] = LongSlot(e, e = R, s.name[e], ss[i].short)
            <4>1. \A e \in 1..R : e = 1 /\ i - R - 1 + e = i - e
                BY <2>3
            <4> QED BY <4>1, <2>1
        <3> QED BY <3>1, <2>1 DEF PiecesOK, Right, R
    <2>4. CASE R > 1
        <3>1. 1 \in 1..R /\ i > 1
            BY <1>1, <2>1, <2>4
        <3>2. ss[i - 1] = LongSlot(1, 1 = R, s.name[1], ss[i].short)
            BY <3>1, <2>1
        <3>3. ss[i - 1].kind = "long" /\ ss[i - 1].seq = 1
            BY <3>2 DEF LongSlot
        <3>4. ss[i - 1].seq < R
            BY <3>3, <2>4
        <3> QED BY <3>1, <3>3, <3>4 DEF PiecesOK, R
    <2> QED BY <1>1, <2>2, <2>3, <2>4
<1> QED BY <1>2, <1>3

\* A directory that InitDirs allows is well formed.
LEMMA ListedAtFirst ==
    ASSUME NEW d \in InitDirs
    PROVE  Listed(d.slots, d.made)
<1> DEFINE ss == d.slots
           mm == d.made
<1>1. /\ ss \in Seq(Slot)
      /\ \E n \in 1..MaxClusters : Len(ss) = n * entriesPerCluster
      /\ DOMAIN mm \subseteq Files /\ mm \in [DOMAIN mm -> Spellings]
      /\ \A i \in Shorts(ss) :
            /\ ss[i].file \in DOMAIN mm
            /\ Forwards(ss, i, mm[ss[i].file]) \/ Backwards(ss, i, mm[ss[i].file])
            /\ \A j \in Shorts(ss) \ {i} :
                /\ ss[i].short # ss[j].short /\ ss[i].file # ss[j].file
                /\ mm[ss[i].file].name # mm[ss[j].file].name
    BY DirAssumption
<1> HIDE DEF ss, mm
<1>2. Typed(ss, mm)
    <2>1. \E n \in Nat \ {0} : Len(ss) = n * entriesPerCluster
        <3>1. PICK n \in 1..MaxClusters : Len(ss) = n * entriesPerCluster
            BY <1>1
        <3>2. n \in Nat \ {0}
            BY SizeAssumption
        <3> QED BY <3>1, <3>2
    <2> QED BY <2>1, <1>1 DEF Typed
<1>3. Apart(ss, mm)
    BY <1>1 DEF Apart
<1>4. Spelt(ss, mm)
    <2> SUFFICES ASSUME NEW i \in Shorts(ss) PROVE PiecesOK(ss, i, Own(ss, mm, i))
        BY DEF Spelt
    <2>1. i \in Nat
        BY <1>1, SlotFacts
    <2>2. mm[ss[i].file] \in Spellings
        BY <1>1
    <2> QED BY <2>1, <2>2, <1>1, PiecesAtFirst DEF Own
<1>5. TwinsHidden(ss, mm)
    BY <1>1 DEF TwinsHidden, Own
<1> QED BY <1>2, <1>3, <1>4, <1>5 DEF Listed, ss, mm

\* Every step keeps the slots well formed.
LEMMA NextKeepsListed ==
    ASSUME Listed(slots, made), [Next]_vars
    PROVE  Listed(slots', made')
<1>1. ASSUME NEW s \in Spellings, NEW f \in Files, Create(s, f)
      PROVE  Listed(slots', made')
    BY <1>1, CreateChanges, ChangeKeepsListed
<1>2. ASSUME NEW s \in Spellings, Delete(s.name)
      PROVE  Listed(slots', made')
    BY <1>2, DeleteChanges, ChangeKeepsListed
<1>3. ASSUME NEW t \in Spellings, NEW s \in Spellings, Move(t.name, s)
      PROVE  Listed(slots', made')
    BY <1>3, MoveChanges, ChangeKeepsListed
<1>4. CASE OpenDir \/ ReadDir \/ CloseDir
    BY <1>4 DEF OpenDir, ReadDir, CloseDir
<1>5. CASE UNCHANGED vars
    BY <1>5 DEF vars
<1> QED BY <1>1, <1>2, <1>3, <1>4, <1>5 DEF Next

\* They are so at first.
LEMMA InitListed == Init => Listed(slots, made)
BY ListedAtFirst DEF Init

\* The slots are well formed, no two entries have a file or a short name in
\* common, the pieces of each entry are before it or show that they are not,
\* and of two entries with one name one is hidden (writeFAT32Entry).
THEOREM AlwaysListed == Spec => []Listed(slots, made)
<1>1. Init => Listed(slots, made)
    BY InitListed
<1>2. Listed(slots, made) /\ [Next]_vars => Listed(slots, made)'
    <2>1. Listed(slots, made)' <=> Listed(slots', made')
        BY DEF Listed, Typed, Apart, Spelt, TwinsHidden, Good, Hides, Cross, PiecesOK, Own,
               Foreign, Right, Forwards, Shorts, Slot, LongSlot, Unused, Required
    <2> QED BY <2>1, NextKeepsListed
<1> QED BY <1>1, <1>2, PTL DEF Spec

\* No two entries ever have the same short name, whatever was made, deleted
\* and renamed before (get83Name).
THEOREM ShortsDiffer == Spec => []ShortsUnique
<1>1. Listed(slots, made) => ShortsUnique
    BY DEF Listed, Apart, ShortsUnique
<1> QED BY <1>1, AlwaysListed, PTL

\* Every file is listed under the name it was made with, unless one of the
\* four causes is to be seen in the slots (parseFAT32Entry).
THEOREM NamesKept == Spec => []ListedAsMade
<1>1. Listed(slots, made) => ListedAsMade
    BY NamesListed DEF Listed, ListedAsMade
<1> QED BY <1>1, AlwaysListed, PTL

-----------------------------------------------------------------------------
\* An entry that begins a new cluster has room for its pieces before it.
LEMMA GrownDoesNotCross ==
    ASSUME Typed(slots, made), NEW s \in Spellings,
           (EntryAt(s) - 1) % entriesPerCluster < Required(s)
    PROVE  EntryAt(s) \in DOMAIN slots
<1> DEFINE R == Required(s)
           n == entriesPerCluster
<1>1. /\ slots \in Seq(Slot) /\ DOMAIN slots = 1..Len(slots) /\ Len(slots) \in Nat
      /\ n \in Nat \ {0}
    BY SizeAssumption DEF Typed
<1>2. R \in Nat /\ R < n
    BY SpellingFacts
<1>3. CASE FreeRuns(R + 1) = {}
    <2>1. EntryAt(s) = Len(slots) + 1 + R
        BY <1>3 DEF EntryAt, Start
    <2>2. PICK m \in Nat \ {0} : Len(slots) = m * n
        BY DEF Typed
    <2> HIDE DEF R, n
    <2>3. EntryAt(s) - 1 = n * m + R /\ R \in 0..(n - 1) /\ m \in Nat
        BY <2>1, <2>2, <1>1, <1>2
    <2>4. (EntryAt(s) - 1) % n = R
        BY <2>3, <1>1, DividedOnce
    <2>5. R < R
        BY <2>4 DEF R, n
    <2> QED BY <2>5, <1>2
<1>4. CASE FreeRuns(R + 1) # {}
    <2>1. Grown(R + 1) = slots
        BY <1>4 DEF Grown
    <2>2. EntryAt(s) \in 1..Len(Grown(R + 1))
        BY WhereWritten
    <2> QED BY <2>1, <2>2, <1>1
<1> QED BY <1>3, <1>4

\* A piece of an entry that is new in ss2 and crosses a cluster.
CrossedIn(ss, ss2, mm2, i) ==
    \E j \in Shorts(ss2) :
        /\ ss2[j] # ss[j] /\ (j - 1) % entriesPerCluster < Required(mm2[ss2[j].file])
        /\ ss2[i].kind = "long" /\ ss2[i].sum = ss2[j].short
        /\ (i - 1) \div entriesPerCluster = (j - 1) \div entriesPerCluster

\* The pieces go to the cluster of their entry.
LEMMA PiecesNear ==
    ASSUME NEW s \in Spellings, NEW e \in 0..(Required(s) - 1), EntryAt(s) \in Nat \ {0},
           Start(Required(s) + 1) \in Nat \ {0}
    PROVE  (PieceAt(s, e) - 1) \div entriesPerCluster = (EntryAt(s) - 1) \div entriesPerCluster
<1> DEFINE n == entriesPerCluster
           q == (EntryAt(s) - 1) \div n
           r == (Start(Required(s) + 1) - 1 + e) % n
<1>1. n \in Nat \ {0} /\ Required(s) \in Nat
    BY SizeAssumption, SpellingFacts
<1>2. EntryAt(s) - 1 \in Nat /\ Start(Required(s) + 1) - 1 + e \in Nat
    BY <1>1
<1>3. q \in Nat
    BY <1>1, <1>2, Divided
<1>4. r \in 0..(n - 1)
    BY <1>1, <1>2, Divided
<1>5. PieceAt(s, e) = q * n + r + 1
    BY DEF PieceAt
<1> HIDE DEF q, r, n
<1>6. PieceAt(s, e) - 1 = n * q + r
    BY <1>1, <1>3, <1>4, <1>5
<1>7. (PieceAt(s, e) - 1) \div n = q
    BY <1>1, <1>3, <1>4, <1>6, DividedOnce
<1> QED BY <1>7 DEF q, n

\* Only unused slots are overwritten, unless the new entry crosses a cluster.
LEMMA WriteUnharmed ==
    ASSUME Listed(slots, made), NEW s \in Spellings, NEW f \in Files, NEW gone,
           NEW ss2, NEW mm2, Rewritten(ss2, s, f, gone), mm2[f] = s,
           NEW i \in DOMAIN slots, ss2[i] # slots[i], slots[i] # Unused
    PROVE  (i = gone /\ ss2[i] = Unused) \/ CrossedIn(slots, ss2, mm2, i)
<1> DEFINE entry == EntryAt(s)
           R == Required(s)
<1>1. /\ Typed(slots, made) /\ Apart(slots, made) /\ slots \in Seq(Slot)
      /\ DOMAIN slots = 1..Len(slots) /\ Len(slots) \in Nat
    BY DEF Listed, Typed
<1>2. ShortFor(s) \in Texts
    BY <1>1, ShortFree
<1>3. /\ entry \in DOMAIN ss2 /\ ss2[entry] = ShortSlot(ShortFor(s), f)
      /\ DOMAIN slots \subseteq DOMAIN ss2
      /\ \A k \in DOMAIN ss2 \ {entry} : Placed(ss2, s, gone, k)
    BY <1>1, <1>2, RewriteFacts
<1>4. entry \in Nat /\ \A k \in (entry - R)..entry : k \in DOMAIN slots => slots[k] = Unused
    BY <1>1, WhereWritten
<1>5. R \in Nat
    BY SpellingFacts
<1>6. i # entry
    <2>1. entry \in (entry - R)..entry
        BY <1>4, <1>5
    <2> QED BY <2>1, <1>4
<1>7. Placed(ss2, s, gone, i)
    BY <1>3, <1>6
<1>8. CASE i = gone
    BY <1>7, <1>8 DEF Placed
<1>9. CASE i # gone
    <2>1. ss2[i].kind = "long" /\ ss2[i].sum = ShortFor(s) /\ (entry - 1) % entriesPerCluster < R
        <3>1. i \notin (entry - R)..(entry - 1)
            BY <1>4, <1>5
        <3> QED BY <1>7, <1>9, <3>1 DEF Placed
    <2>2. slots[entry] = Unused
        <3>1. entry \in DOMAIN slots
            BY <1>1, <2>1, GrownDoesNotCross
        <3>2. entry \in (entry - R)..entry
            BY <1>4, <1>5
        <3> QED BY <3>1, <3>2, <1>4
    <2>3. /\ entry \in Shorts(ss2) /\ ss2[entry].file = f /\ ss2[entry].short = ShortFor(s)
          /\ ss2[entry].kind # Unused.kind
        BY <1>2, <1>3, SlotMade DEF Shorts
    <2>4. ss2[entry] # slots[entry]
        BY <2>2, <2>3
    <2>5. (i - 1) \div entriesPerCluster = (entry - 1) \div entriesPerCluster
        <3>1. i \in DOMAIN Grown(R + 1) /\ Grown(R + 1)[i] = slots[i]
            <4>1. R + 1 \in Nat
                BY <1>5
            <4> HIDE DEF R
            <4>2. /\ Grown(R + 1) \in Seq(Slot) /\ Len(slots) <= Len(Grown(R + 1))
                  /\ \A k \in 1..Len(Grown(R + 1)) :
                        Grown(R + 1)[k] = IF k <= Len(slots) THEN slots[k] ELSE Unused
                BY <1>1, <4>1, GrownFacts
            <4>3. DOMAIN Grown(R + 1) = 1..Len(Grown(R + 1)) /\ Len(Grown(R + 1)) \in Nat
                BY <4>2
            <4> QED BY <1>1, <4>2, <4>3
        <3>2. ss2[i] = WriteEntry(s, f)[i]
            BY <1>3, <1>9 DEF Rewritten
        <3>3. i \in Pieced(s)
            BY <3>1, <3>2, <1>6, WriteIs
        <3>4. PICK e \in 0..(R - 1) : i = PieceAt(s, e)
            BY <3>3 DEF Pieced
        <3>5. entry \in Nat \ {0} /\ Start(R + 1) \in Nat \ {0}
            <4>1. entry > R /\ entry \in Nat
                BY <1>1, WhereWritten
            <4>2. R + 1 \in Nat \ {0} /\ R + 1 <= entriesPerCluster
                BY <1>5, SpellingFacts, SizeAssumption
            <4>3. Start(R + 1) \in Nat \ {0}
                <5> HIDE DEF R
                <5> QED BY <1>1, <4>2, StartFacts
            <4> QED BY <1>5, <4>1, <4>3
        <3> QED BY <3>4, <3>5, PiecesNear
    <2>6. (entry - 1) % entriesPerCluster < Required(mm2[ss2[entry].file])
        BY <2>1, <2>3
    <2> QED BY <2>1, <2>3, <2>4, <2>5, <2>6 DEF CrossedIn
<1> QED BY <1>8, <1>9

\* The slot that a call gives up is that of the name it was asked for, and of
\* the file made with that name or of one whose name is excused.
LEMMA GivenUpAsAsked ==
    ASSUME Listed(slots, made), NEW t \in Spellings, Exists(t.name),
           slots'[SlotOf(t.name)] = Unused,
           \A j \in DOMAIN slots : slots'[j] = Unused /\ slots[j] # Unused => j = SlotOf(t.name)
    PROVE  GivenUp(SlotOf(t.name))
<1>1. slots \in Seq(Slot)
    BY DEF Listed, Typed
<1>2. SlotOf(t.name) \in Shorts(slots) /\ EntryName(SlotOf(t.name)) = t.name
    BY <1>1, Found
<1>3. Spelled(SlotOf(t.name)).name = t.name \/ Excused(SlotOf(t.name))
    BY <1>2, NamesListed DEF Listed
<1> QED BY <1>3 DEF GivenUp

\* Nothing changes but unused slots and the entry of the name asked for, except
\* where the pieces of an entry crossed a cluster (writeFAT32Entry).
THEOREM NoOtherHarmed == Spec => OthersStay
<1> DEFINE Safe(i) == slots[i] = Unused \/ GivenUp(i) \/ CrossedBy(i)
<1>1. ASSUME Listed(slots, made), [Next]_vars, NEW i \in DOMAIN slots, slots'[i] # slots[i]
      PROVE  Safe(i)
    <2>1. ASSUME NEW s \in Spellings, NEW f \in Files, Create(s, f) PROVE Safe(i)
        <3>1. Rewritten(slots', s, f, 0)
            BY <1>1, <2>1, CreateChanges
        <3>2. made'[f] = s
            BY <2>1 DEF Create
        <3>3. i # 0
            BY <1>1 DEF Listed, Typed
        <3>4. slots[i] = Unused \/ CrossedIn(slots, slots', made', i)
            BY <3>1, <3>2, <3>3, <1>1, WriteUnharmed
        <3> QED BY <3>4 DEF CrossedIn, CrossedBy, Crossing, Spelled
    <2>2. ASSUME NEW s \in Spellings, Delete(s.name) PROVE Safe(i)
        <3> DEFINE g == SlotOf(s.name)
        <3>1. Exists(s.name) /\ slots' = [slots EXCEPT ![g] = Unused]
            BY <2>2 DEF Delete
        <3>2. g \in DOMAIN slots
            BY <1>1, <3>1, Found DEF Listed, Typed, Shorts
        <3> HIDE DEF g
        <3>3. slots'[g] = Unused /\ \A j \in DOMAIN slots : j # g => slots'[j] = slots[j]
            BY <3>1, <3>2
        <3>4. i = g /\ \A j \in DOMAIN slots : slots'[j] = Unused /\ slots[j] # Unused => j = g
            BY <1>1, <3>3
        <3> QED BY <1>1, <3>1, <3>3, <3>4, GivenUpAsAsked DEF g
    <2>3. ASSUME NEW t \in Spellings, NEW s \in Spellings, Move(t.name, s) PROVE Safe(i)
        <3> DEFINE g == SlotOf(t.name)
                   f == slots[g].file
        <3>1. Rewritten(slots', s, f, g) /\ f \in Files /\ f \in DOMAIN made
            BY <1>1, <2>3, MoveChanges
        <3>2. made'[f] = s /\ Exists(t.name)
            BY <2>3, <3>1 DEF Move
        <3> HIDE DEF f
        <3>3. \A k \in DOMAIN slots :
                slots'[k] # slots[k] /\ slots[k] # Unused =>
                    (k = g /\ slots'[k] = Unused) \/ CrossedIn(slots, slots', made', k)
            BY <3>1, <3>2, <1>1, WriteUnharmed DEF g
        <3>4. \A k \in DOMAIN slots : CrossedIn(slots, slots', made', k) => slots'[k] # Unused
            BY SlotMade DEF CrossedIn
        <3>5. \A j \in DOMAIN slots : slots'[j] = Unused /\ slots[j] # Unused => j = g
            BY <3>3, <3>4
        <3>6. i = g /\ slots'[i] = Unused => GivenUp(i)
            BY <1>1, <3>2, <3>5, GivenUpAsAsked DEF g
        <3>7. CrossedIn(slots, slots', made', i) => CrossedBy(i)
            BY DEF CrossedIn, CrossedBy, Crossing, Spelled
        <3> QED BY <1>1, <3>3, <3>6, <3>7
    <2>4. CASE OpenDir \/ ReadDir \/ CloseDir \/ UNCHANGED vars
        BY <1>1, <2>4 DEF OpenDir, ReadDir, CloseDir, vars
    <2> QED BY <1>1, <2>1, <2>2, <2>3, <2>4 DEF Next
<1>2. Listed(slots, made) /\ [Next]_vars =>
        \A i \in DOMAIN slots : slots'[i] # slots[i] => Safe(i)
    BY <1>1
<1> QED BY <1>2, AlwaysListed, PTL DEF OthersStay, Spec

-----------------------------------------------------------------------------
(* The entries of a cluster in order *)

\* Each element of a finite set of numbers has a place of its own in it.
LEMMA Ranks ==
    ASSUME NEW S, S \subseteq Nat, IsFiniteSet(S)
    PROVE  /\ \A i \in S : Cardinality({j \in S : j <= i}) \in 1..Cardinality(S)
           /\ \A k \in 1..Cardinality(S) : \E i \in S : Cardinality({j \in S : j <= i}) = k
           /\ \A a, b \in S :
                Cardinality({j \in S : j <= a}) = Cardinality({j \in S : j <= b}) => a = b
<1> DEFINE m == Cardinality(S)
           below(i) == {j \in S : j <= i}
           rank == [i \in S |-> Cardinality(below(i))]
<1>1. m \in Nat
    BY FS_CardinalityType
<1>2. \A i \in S : below(i) \subseteq S /\ i \in below(i)
    OBVIOUS
<1>3. ASSUME NEW i \in S
      PROVE  Cardinality(below(i)) \in 1..m /\ IsFiniteSet(below(i))
    <2> HIDE DEF below
    <2>1. below(i) \in SUBSET S /\ below(i) # {}
        BY <1>2
    <2>2. IsFiniteSet(below(i)) /\ Cardinality(below(i)) <= Cardinality(S)
        BY <2>1, FS_Subset
    <2>3. Cardinality(below(i)) \in Nat
        BY <2>2, FS_CardinalityType
    <2>4. Cardinality(below(i)) # 0
        BY <2>1, <2>2, FS_EmptySet
    <2> QED BY <2>2, <2>3, <2>4, <1>1
<1>4. ASSUME NEW i \in S, NEW j \in S, i < j
      PROVE  Cardinality(below(i)) # Cardinality(below(j))
    <2>0. \A k \in S : k <= i => k <= j
        BY <1>4
    <2>1. below(i) \in SUBSET below(j)
        BY <2>0
    <2>2. j \in below(j) /\ j \notin below(i)
        BY <1>4
    <2>3. IsFiniteSet(below(j))
        BY <1>3
    <2> HIDE DEF below
    <2>4. Cardinality(below(j)) = Cardinality(below(i)) => below(j) = below(i)
        BY <2>1, <2>3, FS_Subset
    <2> QED BY <2>2, <2>4
<1>11. \A a, b \in S : Cardinality(below(a)) = Cardinality(below(b)) => a = b
    <2> SUFFICES ASSUME NEW a \in S, NEW b \in S, Cardinality(below(a)) = Cardinality(below(b)),
                        a # b
                 PROVE  FALSE
        OBVIOUS
    <2>1. a < b \/ b < a
        OBVIOUS
    <2> HIDE DEF below
    <2> QED BY <2>1, <1>4
<1>5. rank \in Injection(S, 1..m)
    <2>1. rank \in [S -> 1..m]
        <3> HIDE DEF below, m
        <3> QED BY <1>3
    <2>2. \A i, j \in S : rank[i] = rank[j] => i = j
        <3> HIDE DEF below
        <3> QED BY <1>11
    <2> HIDE DEF rank
    <2> QED BY <2>1, <2>2 DEF Injection, IsInjective
<1>6. IsFiniteSet(1..m) /\ Cardinality(1..m) = m
    <2> HIDE DEF m
    <2>1. IsFiniteSet(1..m) /\ Cardinality(1..m) = IF 1 > m THEN 0 ELSE m - 1 + 1
        BY <1>1, FS_Interval
    <2> QED BY <2>1, <1>1
<1>7. rank \in Surjection(S, 1..m)
    <2>1. Cardinality(S) = Cardinality(1..m)
        BY <1>6
    <2> HIDE DEF rank, m
    <2> QED BY <2>1, <1>5, <1>6, FS_Injection
<1>8. \A k \in 1..m : \E i \in S : rank[i] = k
    <2> HIDE DEF rank, m
    <2> QED BY <1>7 DEF Surjection
<1>9. \A i \in S : rank[i] = Cardinality(below(i))
    OBVIOUS
<1> HIDE DEF rank, below, m
<1>10. \A k \in 1..m : \E i \in S : Cardinality(below(i)) = k
    BY <1>8, <1>9
<1> QED BY <1>3, <1>11, <1>10 DEF below, m

ClusterOf(i) == (i - 1) \div entriesPerCluster

\* The files of a sequence.
Among(q, f) == \E k \in DOMAIN q : q[k] = f

\* All the slots of the cluster c stand in the directory.
InDirectory(c) == c \in Nat /\ (c + 1) * entriesPerCluster <= Len(slots)

\* The slots of a cluster.
LEMMA ClusterSlots ==
    ASSUME Typed(slots, made), NEW c, InDirectory(c), NEW part,
           part = SubSeq(slots, c * entriesPerCluster + 1, (c + 1) * entriesPerCluster)
    PROVE  /\ part \in Seq(Slot) /\ Len(part) = entriesPerCluster
           /\ \A i \in 1..entriesPerCluster :
                /\ part[i] = slots[c * entriesPerCluster + i]
                /\ c * entriesPerCluster + i \in DOMAIN slots
                /\ ClusterOf(c * entriesPerCluster + i) = c
           /\ \A j \in DOMAIN slots : ClusterOf(j) = c =>
                \E i \in 1..entriesPerCluster : j = c * entriesPerCluster + i
<1> DEFINE n == entriesPerCluster
           m == c * n
<1>1. /\ slots \in Seq(Slot) /\ DOMAIN slots = 1..Len(slots) /\ Len(slots) \in Nat
      /\ n \in Nat \ {0} /\ c \in Nat
    BY SizeAssumption DEF Typed, InDirectory
<1>2. m \in Nat /\ m = n * c /\ (c + 1) * n = m + n /\ m + n <= Len(slots)
    <2>1. (c + 1) * n <= Len(slots)
        BY DEF InDirectory
    <2>2. m \in Nat /\ m = n * c /\ (c + 1) * n = m + n
        BY <1>1
    <2> QED BY <2>1, <2>2
<1> HIDE DEF m, n
<1>3. part = SubSeq(slots, m + 1, m + n)
    BY <1>2 DEF m, n
<1>4. \A i \in (m + 1)..(m + n) : slots[i] \in Slot
    <2>1. \A i \in (m + 1)..(m + n) : i \in DOMAIN slots
        BY <1>1, <1>2
    <2> QED BY <2>1, <1>1, SlotFacts
<1>5. /\ part \in Seq(Slot) /\ Len(part) = n
      /\ \A i \in 1..n : part[i] = slots[m + i]
    <2>1. m + 1 \in Int /\ m + n \in Int /\ m + 1 <= m + n /\ (m + n) - (m + 1) + 1 = n
        BY <1>1, <1>2
    <2>2. /\ SubSeq(slots, m + 1, m + n) \in Seq(Slot)
          /\ Len(SubSeq(slots, m + 1, m + n)) =
                IF m + 1 <= m + n THEN (m + n) - (m + 1) + 1 ELSE 0
          /\ \A i \in 1..((m + n) - (m + 1) + 1) :
                SubSeq(slots, m + 1, m + n)[i] = slots[(m + 1) + i - 1]
        BY <2>1, <1>4, SubSeqProperties
    <2>3. \A i \in 1..n : (m + 1) + i - 1 = m + i
        BY <1>1, <1>2
    <2>4. \A i \in 1..n : part[i] = slots[m + i]
        BY <2>1, <2>2, <2>3, <1>3
    <2> QED BY <2>1, <2>2, <2>4, <1>3
<1>6. ASSUME NEW i \in 1..n
      PROVE  m + i \in DOMAIN slots /\ ClusterOf(m + i) = c
    <2>1. m + i \in DOMAIN slots
        BY <1>1, <1>2
    <2>2. (m + i) - 1 = n * c + (i - 1) /\ i - 1 \in 0..(n - 1)
        BY <1>1, <1>2
    <2>3. ((m + i) - 1) \div n = c
        BY <2>2, <1>1, DividedOnce
    <2> QED BY <2>1, <2>3 DEF ClusterOf, n
<1>7. ASSUME NEW j \in DOMAIN slots, ClusterOf(j) = c
      PROVE  \E i \in 1..n : j = m + i
    <2>1. j - 1 \in Nat /\ j \in Nat
        BY <1>1
    <2> DEFINE r == (j - 1) % n
    <2>2. r \in 0..(n - 1) /\ j - 1 = n * ((j - 1) \div n) + r
        BY <2>1, <1>1, Divided
    <2>3. (j - 1) \div n = c
        BY <1>7 DEF ClusterOf, n
    <2> HIDE DEF r
    <2>4. j - 1 = m + r
        BY <2>2, <2>3, <1>2
    <2>5. r + 1 \in 1..n /\ j = m + (r + 1)
        <3>1. r \in Nat /\ m \in Nat
            BY <2>2, <1>2, <1>1
        <3>2. r + 1 \in 1..n
            BY <2>2, <1>1
        <3> QED BY <2>1, <2>4, <3>1, <3>2
    <2> QED BY <2>5
<1> QED BY <1>5, <1>6, <1>7 DEF m, n

\* What opendir and readdir get of a cluster: each file in it, once.
LEMMA ClusterFiles ==
    ASSUME Typed(slots, made), Apart(slots, made), NEW c, InDirectory(c)
    PROVE  /\ ClusterAt(c) \in Seq(Files)
           /\ \A k, l \in DOMAIN ClusterAt(c) : ClusterAt(c)[k] = ClusterAt(c)[l] => k = l
           /\ \A k \in DOMAIN ClusterAt(c) : \A i \in Shorts(slots) :
                slots[i].file = ClusterAt(c)[k] => ClusterOf(i) = c
           /\ \A i \in Shorts(slots) : ClusterOf(i) = c => Among(ClusterAt(c), slots[i].file)
<1> DEFINE n == entriesPerCluster
           part == SubSeq(slots, c * n + 1, (c + 1) * n)
           S == Shorts(part)
           m == Cardinality(S)
           rank(i) == Cardinality({j \in S : j <= i})
           at(k) == CHOOSE i \in S : rank(i) = k
<1>1. /\ part \in Seq(Slot) /\ Len(part) = n
      /\ \A i \in 1..n : /\ part[i] = slots[c * n + i] /\ c * n + i \in DOMAIN slots
                         /\ ClusterOf(c * n + i) = c
      /\ \A j \in DOMAIN slots : ClusterOf(j) = c => \E i \in 1..n : j = c * n + i
    BY ClusterSlots
<1>2. ClusterAt(c) = [k \in 1..m |-> part[at(k)].file]
    BY DEF ClusterAt
<1> HIDE DEF part
<1>3. n \in Nat /\ c \in Nat /\ c * n \in Nat
    <2>1. n \in Nat /\ c \in Nat
        BY SizeAssumption DEF InDirectory
    <2> QED BY <2>1
<1>4. S \subseteq 1..n /\ S \subseteq Nat
    BY <1>1, <1>3 DEF Shorts
<1>5. IsFiniteSet(S) /\ m \in Nat
    <2> HIDE DEF S
    <2>1. IsFiniteSet(1..n)
        BY <1>3, FS_Interval
    <2>2. IsFiniteSet(S)
        BY <2>1, <1>4, FS_Subset
    <2> QED BY <2>2, FS_CardinalityType
<1>6. \A i \in S : c * n + i \in Shorts(slots) /\ part[i] = slots[c * n + i]
    BY <1>1, <1>4 DEF Shorts
<1> HIDE DEF n
<1>7. /\ \A i \in S : rank(i) \in 1..m
      /\ \A k \in 1..m : \E i \in S : rank(i) = k
      /\ \A a, b \in S : rank(a) = rank(b) => a = b
    <2> HIDE DEF S
    <2> QED BY <1>4, <1>5, Ranks
<1> HIDE DEF S, m, rank
<1>8. \A k \in 1..m : at(k) \in S /\ rank(at(k)) = k
    BY <1>7
<1>9. \A i \in S : part[i].file \in Files /\ part[i].file \in DOMAIN made
    BY <1>6 DEF Apart, Typed
<1>10. \A i, j \in S : part[i].file = part[j].file => i = j
    <2> SUFFICES ASSUME NEW i \in S, NEW j \in S, part[i].file = part[j].file
                 PROVE  i = j
        OBVIOUS
    <2>1. c * n + i = c * n + j
        BY <1>6 DEF Apart
    <2> QED BY <2>1, <1>3, <1>4
<1> HIDE DEF at
<1>11. /\ DOMAIN ClusterAt(c) = 1..m
       /\ \A k \in 1..m : ClusterAt(c)[k] = part[at(k)].file
    BY <1>2
<1>12. ClusterAt(c) \in Seq(Files)
    <2>1. ClusterAt(c) \in [1..m -> Files]
        BY <1>2, <1>8, <1>9
    <2> QED BY <2>1, <1>5
<1>13. ASSUME NEW k \in 1..m, NEW l \in 1..m, ClusterAt(c)[k] = ClusterAt(c)[l]
       PROVE  k = l
    <2>1. at(k) = at(l)
        BY <1>8, <1>10, <1>11, <1>13
    <2> QED BY <2>1, <1>8
<1>14. ASSUME NEW k \in 1..m, NEW i \in Shorts(slots), slots[i].file = ClusterAt(c)[k]
       PROVE  ClusterOf(i) = c
    <2>1. at(k) \in S /\ slots[i].file = slots[c * n + at(k)].file /\ c * n + at(k) \in Shorts(slots)
        BY <1>6, <1>8, <1>11, <1>14
    <2>2. i = c * n + at(k)
        BY <2>1 DEF Apart
    <2> QED BY <2>1, <2>2, <1>1, <1>4
<1>15. ASSUME NEW i \in Shorts(slots), ClusterOf(i) = c
       PROVE  Among(ClusterAt(c), slots[i].file)
    <2>1. i \in DOMAIN slots
        BY DEF Shorts
    <2>2. PICK j \in 1..n : i = c * n + j
        BY <2>1, <1>1, <1>15 DEF n
    <2>3. j \in S
        <3>1. part[j] = slots[i] /\ DOMAIN part = 1..n
            BY <2>2, <1>1 DEF n
        <3> QED BY <3>1 DEF Shorts, S
    <2>4. rank(j) \in 1..m
        BY <2>3, <1>7
    <2>5. at(rank(j)) = j
        BY <2>3, <2>4, <1>7, <1>8
    <2>6. ClusterAt(c)[rank(j)] = slots[i].file
        BY <2>2, <2>3, <2>4, <2>5, <1>6, <1>11
    <2> QED BY <2>4, <2>6, <1>11 DEF Among
<1> QED BY <1>11, <1>12, <1>13, <1>14, <1>15

-----------------------------------------------------------------------------
(* The reader d of the slots ss *)

\* Files of clusters behind it were returned once, files of its own cluster
\* were returned or are still to come, the others were not returned.
Promised(d, i, f) ==
    /\ ClusterOf(i) < d.cluster => d.seen[f] = 1
    /\ ClusterOf(i) > d.cluster => d.seen[f] = 0 /\ ~d.done
    /\ ClusterOf(i) = d.cluster => d.seen[f] = IF Among(d.rest, f) THEN 0 ELSE 1
    /\ Among(d.rest, f) => ClusterOf(i) = d.cluster

DirIn(S) == [open : {TRUE}, cluster : Nat, rest : Seq(Files), done : BOOLEAN, seen : S]

Opened(d) == d \in DirIn([DOMAIN d.seen -> Nat])

Reading(ss, d) ==
    /\ Opened(d)
    /\ \A f \in DOMAIN d.seen : \E i \in Shorts(ss) : ss[i].file = f
    /\ \A k, l \in DOMAIN d.rest : d.rest[k] = d.rest[l] => k = l
    /\ d.done => d.rest = <<>>
    /\ \A i \in Shorts(ss) : ss[i].file \in DOMAIN d.seen => Promised(d, i, ss[i].file)

Reader(ss, d) == d = NoDir \/ Reading(ss, d)

\* A Dir that is closed is not open.
LEMMA ClosedIsNot == NoDir.open = FALSE
BY DEF NoDir

\* A Dir of which some fields change is one.
LEMMA DirExcept ==
    ASSUME NEW S, NEW d \in DirIn(S), NEW c \in Nat, NEW r \in Seq(Files), NEW T, NEW s \in T
    PROVE  /\ [d EXCEPT !.cluster = c, !.rest = r, !.seen = s] \in DirIn(T)
           /\ [d EXCEPT !.done = TRUE] \in DirIn(S)
           /\ [d EXCEPT !.seen = s] \in DirIn(T)
<1>1. [d EXCEPT !.cluster = c, !.rest = r, !.seen = s] \in DirIn(T)
    BY DEF DirIn
<1>2. [d EXCEPT !.done = TRUE] \in DirIn(S)
    BY DEF DirIn
<1>3. [d EXCEPT !.seen = s] \in DirIn(T)
    BY DEF DirIn
<1> QED BY <1>1, <1>2, <1>3

\* The fields of such a Dir.
LEMMA DirExceptFields ==
    ASSUME NEW S, NEW d \in DirIn(S), NEW c, NEW r, NEW s
    PROVE  /\ [d EXCEPT !.cluster = c, !.rest = r, !.seen = s].cluster = c
           /\ [d EXCEPT !.cluster = c, !.rest = r, !.seen = s].rest = r
           /\ [d EXCEPT !.cluster = c, !.rest = r, !.seen = s].seen = s
           /\ [d EXCEPT !.cluster = c, !.rest = r, !.seen = s].done = d.done
           /\ [d EXCEPT !.done = TRUE].cluster = d.cluster
           /\ [d EXCEPT !.done = TRUE].rest = d.rest
           /\ [d EXCEPT !.done = TRUE].seen = d.seen
           /\ [d EXCEPT !.seen = s].cluster = d.cluster
           /\ [d EXCEPT !.seen = s].rest = d.rest
           /\ [d EXCEPT !.seen = s].done = d.done
           /\ [d EXCEPT !.seen = s].seen = s
<1>1. DOMAIN d = {"open", "cluster", "rest", "done", "seen"}
    BY DEF DirIn
<1> QED BY <1>1

\* The fields of a Dir that was just opened.
LEMMA OpenedFacts ==
    ASSUME NEW d, Opened(d)
    PROVE  /\ d.cluster \in Nat /\ d.rest \in Seq(Files) /\ d.done \in BOOLEAN
           /\ d.seen \in [DOMAIN d.seen -> Nat] /\ d.open = TRUE
BY DEF Opened, DirIn

\* A Dir is open exactly when the promise to a reader stands.
LEMMA OpenReads ==
    ASSUME Reader(slots, dir)
    PROVE  dir.open <=> Reading(slots, dir)
<1>1. CASE dir = NoDir
    <2>1. ~dir.open
        BY <1>1, ClosedIsNot
    <2>2. Opened(dir) => dir.open = TRUE
        BY OpenedFacts
    <2> QED BY <2>1, <2>2 DEF Reading
<1>2. CASE Reading(slots, dir)
    <2>1. dir.open = TRUE
        BY <1>2, OpenedFacts DEF Reading
    <2> QED BY <1>2, <2>1
<1> QED BY <1>1, <1>2 DEF Reader

\* The number of the cluster of a slot.
LEMMA ClusterOfSlot ==
    ASSUME Typed(slots, made), NEW i \in DOMAIN slots
    PROVE  ClusterOf(i) \in Nat /\ InDirectory(ClusterOf(i))
           /\ ClusterOf(i) \in 0..(Len(slots) \div entriesPerCluster - 1)
<1> DEFINE n == entriesPerCluster
           q == (i - 1) \div n
           r == (i - 1) % n
<1>1. /\ slots \in Seq(Slot) /\ DOMAIN slots = 1..Len(slots) /\ Len(slots) \in Nat
      /\ n \in Nat \ {0}
    BY SizeAssumption DEF Typed
<1>2. i - 1 \in Nat /\ i - 1 < Len(slots)
    BY <1>1
<1>3. r \in 0..(n - 1) /\ q \in Nat /\ i - 1 = n * q + r
    BY <1>1, <1>2, Divided
<1>4. PICK k \in Nat \ {0} : Len(slots) = k * n
    BY DEF Typed
<1> HIDE DEF q, r, n
<1>5. n * q < n * k
    <2>1. n * q \in Nat /\ n * k \in Nat /\ k * n = n * k
        BY <1>1, <1>3, <1>4
    <2> QED BY <2>1, <1>2, <1>3, <1>4
<1>6. q < k
    <2>1. SUFFICES ASSUME q >= k PROVE FALSE
        BY <1>3, <1>4
    <2>2. PICK d \in Nat : q = k + d
        <3>1. q - k \in Nat /\ q = k + (q - k)
            BY <2>1, <1>3, <1>4
        <3> QED BY <3>1
    <2>3. n * q = n * k + n * d /\ n * d \in Nat /\ n * k \in Nat
        BY <2>2, <1>1, <1>4
    <2> QED BY <2>3, <1>5
<1>7. (q + 1) * n <= k * n
    <2>1. PICK d \in Nat : k = (q + 1) + d
        <3>1. k - (q + 1) \in Nat /\ k = (q + 1) + (k - (q + 1))
            BY <1>3, <1>4, <1>6
        <3> QED BY <3>1
    <2>2. k * n = (q + 1) * n + d * n /\ d * n \in Nat /\ (q + 1) * n \in Nat
        BY <2>1, <1>1, <1>3
    <2> QED BY <2>2
<1>8. Len(slots) \div n = k
    <2>1. Len(slots) = n * k + 0 /\ 0 \in 0..(n - 1)
        BY <1>1, <1>4
    <2> QED BY <2>1, <1>1, <1>4, DividedOnce
<1>9. ClusterOf(i) = q
    BY DEF ClusterOf, q, n
<1>10. InDirectory(q)
    BY <1>3, <1>4, <1>7 DEF InDirectory, n
<1>11. q \in 0..(Len(slots) \div n - 1)
    BY <1>3, <1>4, <1>6, <1>8
<1> QED BY <1>3, <1>9, <1>10, <1>11 DEF n

\* The other way round.
LEMMA ClusterBefore ==
    ASSUME Typed(slots, made), NEW c \in Nat, c <= Len(slots) \div entriesPerCluster - 1
    PROVE  InDirectory(c)
<1> DEFINE n == entriesPerCluster
<1>1. Len(slots) \in Nat /\ n \in Nat \ {0}
    BY SizeAssumption DEF Typed
<1>2. PICK k \in Nat \ {0} : Len(slots) = k * n
    BY DEF Typed
<1> HIDE DEF n
<1>3. Len(slots) \div n = k
    <2>1. Len(slots) = n * k + 0 /\ 0 \in 0..(n - 1)
        BY <1>1, <1>2
    <2> QED BY <2>1, <1>1, <1>2, DividedOnce
<1>4. c + 1 <= k
    BY <1>2, <1>3 DEF n
<1>5. PICK d \in Nat : k = (c + 1) + d
    <2>1. k - (c + 1) \in Nat /\ k = (c + 1) + (k - (c + 1))
        BY <1>2, <1>4
    <2> QED BY <2>1
<1>6. k * n = (c + 1) * n + d * n /\ d * n \in Nat /\ (c + 1) * n \in Nat
    BY <1>5, <1>1
<1>7. (c + 1) * n <= Len(slots)
    BY <1>2, <1>6
<1> QED BY <1>7 DEF InDirectory, n

\* The first cluster of a directory there is.
LEMMA ClusterFirst == ASSUME Typed(slots, made) PROVE InDirectory(0)
<1>1. PICK k \in Nat \ {0} : Len(slots) = k * entriesPerCluster
    BY DEF Typed
<1>2. Len(slots) \div entriesPerCluster = k
    <2>1. Len(slots) = entriesPerCluster * k + 0 /\ 0 \in 0..(entriesPerCluster - 1)
          /\ entriesPerCluster \in Nat \ {0}
        BY <1>1, SizeAssumption
    <2> QED BY <2>1, DividedOnce
<1>3. 0 <= Len(slots) \div entriesPerCluster - 1
    BY <1>2
<1> QED BY <1>3, ClusterBefore

-----------------------------------------------------------------------------
\* A call that changes the directory lets the promise stand for the files that
\* stay where they are.
LEMMA KeptPromise ==
    ASSUME Reader(slots, dir), NEW new, NEW gone, Stay(slots, made, slots', made', new),
           Kept(gone),
           \A e \in new : slots'[e].file \notin {f \in DOMAIN dir.seen : dir.open} \ gone
    PROVE  Reader(slots', dir')
<1>1. CASE dir = NoDir
    BY <1>1, ClosedIsNot DEF Kept, Reader
<1>2. CASE Reading(slots, dir)
    <2> DEFINE keep == {g \in DOMAIN dir.seen \ gone : \E i \in Shorts(slots') : slots'[i].file = g}
               seen2 == [f \in keep |-> dir.seen[f]]
    <2>1. Opened(dir) /\ dir.open = TRUE
        BY <1>2, OpenedFacts DEF Reading
    <2>2. dir' = [dir EXCEPT !.seen = seen2]
        BY <2>1 DEF Kept
    <2>3. DOMAIN seen2 = keep /\ \A f \in keep : seen2[f] = dir.seen[f]
        OBVIOUS
    <2>4. seen2 \in [keep -> Nat]
        <3>1. \A f \in keep : dir.seen[f] \in Nat
            BY <2>1, OpenedFacts
        <3> QED BY <3>1
    <2> HIDE DEF seen2
    <2>5. /\ Opened(dir') /\ dir'.seen = seen2 /\ dir'.cluster = dir.cluster
          /\ dir'.rest = dir.rest /\ dir'.done = dir.done
        <3>1. seen2 \in [DOMAIN seen2 -> Nat]
            BY <2>3, <2>4
        <3>2. dir' \in DirIn([DOMAIN seen2 -> Nat])
            BY <2>1, <2>2, <3>1, DirExcept, EmptySeq DEF Opened
        <3>3. /\ dir'.seen = seen2 /\ dir'.cluster = dir.cluster
              /\ dir'.rest = dir.rest /\ dir'.done = dir.done
            BY <2>1, <2>2, DirExceptFields DEF Opened
        <3> QED BY <3>2, <3>3 DEF Opened
    <2>6. \A f \in DOMAIN dir'.seen : \E i \in Shorts(slots') : slots'[i].file = f
        BY <2>3, <2>5
    <2>7. ASSUME NEW i \in Shorts(slots'), slots'[i].file \in DOMAIN dir'.seen
          PROVE  Promised(dir', i, slots'[i].file)
        <3>1. slots'[i].file \in keep
            BY <2>3, <2>5, <2>7
        <3>2. i \notin new
            BY <2>1, <3>1
        <3>3. i \in Shorts(slots) /\ slots'[i] = slots[i]
            BY <3>2 DEF Stay
        <3>4. Promised(dir, i, slots[i].file)
            BY <3>1, <3>3, <1>2 DEF Reading
        <3> QED BY <3>1, <3>3, <3>4, <2>3, <2>5 DEF Promised
    <2> QED BY <2>5, <2>6, <2>7, <1>2 DEF Reader, Reading
<1> QED BY <1>1, <1>2 DEF Reader

\* opendir starts a reader as the invariant wants it.
LEMMA OpenDirReads ==
    ASSUME Typed(slots, made), Apart(slots, made), OpenDir
    PROVE  Reader(slots', dir')
<1> DEFINE seen2 == [f \in {slots[i].file : i \in Shorts(slots)} |-> 0]
<1>1. slots' = slots /\ dir' = [open |-> TRUE, cluster |-> 0, rest |-> ClusterAt(0), done |-> FALSE,
                                 seen |-> seen2]
    BY DEF OpenDir
<1>2. /\ ClusterAt(0) \in Seq(Files)
      /\ \A k, l \in DOMAIN ClusterAt(0) : ClusterAt(0)[k] = ClusterAt(0)[l] => k = l
      /\ \A k \in DOMAIN ClusterAt(0) : \A i \in Shorts(slots) :
            slots[i].file = ClusterAt(0)[k] => ClusterOf(i) = 0
      /\ \A i \in Shorts(slots) : ClusterOf(i) = 0 => Among(ClusterAt(0), slots[i].file)
    BY ClusterFirst, ClusterFiles
<1>3. /\ seen2 \in [DOMAIN seen2 -> Nat] /\ DOMAIN seen2 = {slots[i].file : i \in Shorts(slots)}
      /\ \A i \in Shorts(slots) : seen2[slots[i].file] = 0
    OBVIOUS
<1> HIDE DEF seen2
<1>4. /\ Opened(dir') /\ dir'.cluster = 0 /\ dir'.rest = ClusterAt(0) /\ dir'.done = FALSE
      /\ dir'.seen = seen2
    <2>1. dir' \in DirIn([DOMAIN seen2 -> Nat])
        BY <1>1, <1>2, <1>3 DEF DirIn
    <2>2. /\ dir'.seen = seen2 /\ dir'.cluster = 0
          /\ dir'.rest = ClusterAt(0) /\ dir'.done = FALSE
        BY <1>1
    <2> QED BY <2>1, <2>2 DEF Opened
<1>5. ASSUME NEW i \in Shorts(slots)
      PROVE  Promised(dir', i, slots[i].file)
    <2>1. ClusterOf(i) \in Nat
        <3>1. i \in DOMAIN slots
            BY DEF Shorts
        <3> QED BY <3>1, ClusterOfSlot
    <2>2. Among(ClusterAt(0), slots[i].file) <=> ClusterOf(i) = 0
        BY <1>2 DEF Among
    <2> QED BY <2>1, <2>2, <1>3, <1>4 DEF Promised
<1>6. \A f \in DOMAIN dir'.seen : \E i \in Shorts(slots) : slots[i].file = f
    BY <1>3, <1>4
<1> QED BY <1>1, <1>2, <1>4, <1>5, <1>6 DEF Reader, Reading

\* What is left of a sequence without repetitions.
LEMMA TailOf ==
    ASSUME NEW q \in Seq(Files), q # <<>>, \A k, l \in DOMAIN q : q[k] = q[l] => k = l
    PROVE  /\ Tail(q) \in Seq(Files) /\ Among(q, Head(q))
           /\ \A k, l \in DOMAIN Tail(q) : Tail(q)[k] = Tail(q)[l] => k = l
           /\ \A f : Among(Tail(q), f) <=> Among(q, f) /\ f # Head(q)
<1> DEFINE n == Len(q)
           t == Tail(q)
<1>1. n \in Nat \ {0} /\ DOMAIN q = 1..n
    BY EmptySeq
<1>2. Tail(q) \in Seq(Files) /\ Len(Tail(q)) = n - 1
      /\ \A k \in 1..Len(Tail(q)) : Tail(q)[k] = q[k + 1]
    BY HeadTailProperties
<1>3. Head(q) = q[1]
    BY <1>1
<1> HIDE DEF n, t
<1>4. DOMAIN t = 1..(n - 1) /\ \A k \in 1..(n - 1) : t[k] = q[k + 1] /\ k + 1 \in DOMAIN q
    BY <1>1, <1>2 DEF t, n
<1>5. \A k, l \in DOMAIN t : t[k] = t[l] => k = l
    <2> SUFFICES ASSUME NEW k \in DOMAIN t, NEW l \in DOMAIN t, t[k] = t[l] PROVE k = l
        OBVIOUS
    <2>1. k + 1 = l + 1
        BY <1>4
    <2> QED BY <2>1, <1>1, <1>4
<1>6. ASSUME NEW f, Among(t, f)
      PROVE  Among(q, f) /\ f # q[1]
    <2>1. PICK k \in DOMAIN t : t[k] = f
        BY <1>6 DEF Among
    <2>2. q[k + 1] = f /\ k + 1 \in DOMAIN q /\ k + 1 # 1 /\ 1 \in DOMAIN q
        BY <2>1, <1>1, <1>4
    <2> QED BY <2>2 DEF Among
<1>7. ASSUME NEW f, Among(q, f), f # q[1]
      PROVE  Among(t, f)
    <2>1. PICK k \in DOMAIN q : q[k] = f
        BY <1>7 DEF Among
    <2>2. k - 1 \in DOMAIN t /\ (k - 1) + 1 = k
        BY <2>1, <1>1, <1>4, <1>7
    <2>3. t[k - 1] = f
        BY <2>1, <2>2, <1>4
    <2> QED BY <2>2, <2>3 DEF Among
<1>8. Among(q, q[1])
    BY <1>1 DEF Among
<1> QED BY <1>2, <1>3, <1>5, <1>6, <1>7, <1>8 DEF t

\* What Returns does to the fields of the Dir.
LEMMA ReturnsIs ==
    ASSUME Opened(dir), NEW c \in Nat, NEW q \in Seq(Files), Tail(q) \in Seq(Files), Returns(c, q)
    PROVE  /\ Opened(dir') /\ dir'.cluster = c /\ dir'.rest = Tail(q) /\ dir'.done = dir.done
           /\ DOMAIN dir'.seen = DOMAIN dir.seen
           /\ \A f \in DOMAIN dir.seen :
                dir'.seen[f] = IF f = Head(q) THEN 1 + dir.seen[f] ELSE dir.seen[f]
<1> DEFINE seen2 == [f \in DOMAIN dir.seen |-> IF f = Head(q) THEN 1 + dir.seen[f] ELSE dir.seen[f]]
<1>1. dir' = [dir EXCEPT !.cluster = c, !.rest = Tail(q), !.seen = seen2]
    BY DEF Returns
<1>2. \A f \in DOMAIN dir.seen : dir.seen[f] \in Nat
    BY DEF Opened, DirIn
<1>3. /\ seen2 \in [DOMAIN seen2 -> Nat] /\ DOMAIN seen2 = DOMAIN dir.seen
      /\ \A f \in DOMAIN dir.seen :
            seen2[f] = IF f = Head(q) THEN 1 + dir.seen[f] ELSE dir.seen[f]
    BY <1>2
<1> HIDE DEF seen2
<1>4. /\ Opened(dir') /\ dir'.seen = seen2 /\ dir'.cluster = c
      /\ dir'.rest = Tail(q) /\ dir'.done = dir.done
    <2>1. dir' \in DirIn([DOMAIN seen2 -> Nat])
        BY <1>1, <1>3, DirExcept DEF Opened
    <2>2. /\ dir'.seen = seen2 /\ dir'.cluster = c
          /\ dir'.rest = Tail(q) /\ dir'.done = dir.done
        BY <1>1, DirExceptFields DEF Opened
    <2> QED BY <2>1, <2>2 DEF Opened
<1> QED BY <1>3, <1>4

\* readdir within the cluster of the buffer.
LEMMA ReadSame ==
    ASSUME Reading(slots, dir), dir.rest # <<>>, ~dir.done, Returns(dir.cluster, dir.rest)
    PROVE  Reading(slots, dir')
<1>1. Opened(dir) /\ dir.cluster \in Nat /\ dir.rest \in Seq(Files)
      /\ \A k, l \in DOMAIN dir.rest : dir.rest[k] = dir.rest[l] => k = l
    BY DEF Reading, Opened, DirIn
<1> DEFINE h == Head(dir.rest)
<1>2. /\ Tail(dir.rest) \in Seq(Files) /\ Among(dir.rest, h)
      /\ \A k, l \in DOMAIN Tail(dir.rest) : Tail(dir.rest)[k] = Tail(dir.rest)[l] => k = l
      /\ \A f : Among(Tail(dir.rest), f) <=> Among(dir.rest, f) /\ f # h
    BY <1>1, TailOf
<1>3. /\ Opened(dir') /\ dir'.cluster = dir.cluster /\ dir'.rest = Tail(dir.rest)
      /\ dir'.done = dir.done /\ DOMAIN dir'.seen = DOMAIN dir.seen
      /\ \A f \in DOMAIN dir.seen : dir'.seen[f] = IF f = h THEN 1 + dir.seen[f] ELSE dir.seen[f]
    BY <1>1, <1>2, ReturnsIs
<1> HIDE DEF h
<1>4. ASSUME NEW i \in Shorts(slots), slots[i].file \in DOMAIN dir'.seen
      PROVE  Promised(dir', i, slots[i].file)
    <2> DEFINE f == slots[i].file
    <2>1. f \in DOMAIN dir.seen /\ Promised(dir, i, f)
        BY <1>3, <1>4 DEF Reading
    <2> HIDE DEF f
    <2>2. CASE f = h
        <3>1. ClusterOf(i) = dir.cluster /\ dir.seen[f] = 0
            BY <2>1, <2>2, <1>2 DEF Promised
        <3>2. dir'.seen[f] = 1 /\ ~Among(dir'.rest, f) /\ ClusterOf(i) = dir'.cluster
            BY <2>1, <2>2, <3>1, <1>2, <1>3
        <3>3. ~(ClusterOf(i) < dir'.cluster) /\ ~(ClusterOf(i) > dir'.cluster)
            BY <3>1, <1>1, <1>3
        <3> QED BY <3>2, <3>3 DEF Promised, f
    <2>3. CASE f # h
        <3>1. /\ dir'.seen[f] = dir.seen[f] /\ (Among(dir'.rest, f) <=> Among(dir.rest, f))
            BY <2>1, <2>3, <1>2, <1>3
        <3> QED BY <2>1, <3>1, <1>3 DEF Promised, f
    <2> QED BY <2>2, <2>3
<1> QED BY <1>2, <1>3, <1>4 DEF Reading

\* readdir that goes on to the cluster c, the next one that has an entry.
LEMMA ReadNext ==
    ASSUME Typed(slots, made), Apart(slots, made), Reading(slots, dir), dir.rest = <<>>,
           ~dir.done, NEW c \in Nat, c > dir.cluster, InDirectory(c), ClusterAt(c) # <<>>,
           \A d \in Nat : dir.cluster < d /\ d < c /\ InDirectory(d) => ClusterAt(d) = <<>>,
           Returns(c, ClusterAt(c))
    PROVE  Reading(slots, dir')
<1> DEFINE q == ClusterAt(c)
           h == Head(q)
<1>1. Opened(dir) /\ dir.cluster \in Nat
    BY DEF Reading, Opened, DirIn
<1>2. /\ q \in Seq(Files)
      /\ \A k, l \in DOMAIN q : q[k] = q[l] => k = l
      /\ \A k \in DOMAIN q : \A i \in Shorts(slots) : slots[i].file = q[k] => ClusterOf(i) = c
      /\ \A i \in Shorts(slots) : ClusterOf(i) = c => Among(q, slots[i].file)
    BY ClusterFiles
<1>3. q # <<>> /\ Returns(c, q)
    OBVIOUS
<1> HIDE DEF q
<1>4. /\ Tail(q) \in Seq(Files) /\ Among(q, h)
      /\ \A k, l \in DOMAIN Tail(q) : Tail(q)[k] = Tail(q)[l] => k = l
      /\ \A f : Among(Tail(q), f) <=> Among(q, f) /\ f # h
    BY <1>2, <1>3, TailOf
<1>5. /\ Opened(dir') /\ dir'.cluster = c /\ dir'.rest = Tail(q)
      /\ dir'.done = dir.done /\ DOMAIN dir'.seen = DOMAIN dir.seen
      /\ \A f \in DOMAIN dir.seen : dir'.seen[f] = IF f = h THEN 1 + dir.seen[f] ELSE dir.seen[f]
    BY <1>1, <1>2, <1>3, <1>4, ReturnsIs
<1> HIDE DEF h
<1>6. ASSUME NEW i \in Shorts(slots)
      PROVE  /\ ClusterOf(i) \in Nat
             /\ ~(dir.cluster < ClusterOf(i) /\ ClusterOf(i) < c)
             /\ Among(q, slots[i].file) <=> ClusterOf(i) = c
    <2>1. i \in DOMAIN slots
        BY DEF Shorts
    <2>2. ClusterOf(i) \in Nat /\ InDirectory(ClusterOf(i))
        BY <2>1, ClusterOfSlot
    <2>3. Among(ClusterAt(ClusterOf(i)), slots[i].file)
        BY <2>2, ClusterFiles
    <2>4. ClusterAt(ClusterOf(i)) # <<>>
        BY <2>3 DEF Among
    <2>5. Among(q, slots[i].file) <=> ClusterOf(i) = c
        BY <1>2 DEF Among
    <2> QED BY <2>2, <2>4, <2>5
<1>7. ASSUME NEW i \in Shorts(slots), slots[i].file \in DOMAIN dir'.seen
      PROVE  Promised(dir', i, slots[i].file)
    <2> DEFINE f == slots[i].file
    <2>1. f \in DOMAIN dir.seen /\ Promised(dir, i, f)
        BY <1>5, <1>7 DEF Reading
    <2>2. ~Among(dir.rest, f)
        BY DEF Among
    <2>3. /\ ClusterOf(i) \in Nat /\ ~(dir.cluster < ClusterOf(i) /\ ClusterOf(i) < c)
          /\ Among(q, f) <=> ClusterOf(i) = c
        BY <1>6
    <2>4. dir.seen[f] \in Nat
        BY <2>1, <1>1 DEF Opened, DirIn
    <2> HIDE DEF f
    <2>5. CASE ClusterOf(i) < c
        <3>1. ClusterOf(i) <= dir.cluster
            BY <2>3, <2>5, <1>1
        <3>2. dir.seen[f] = 1
            BY <2>1, <2>2, <2>3, <3>1, <1>1 DEF Promised
        <3>3. f # h /\ ~Among(dir'.rest, f)
            BY <2>3, <2>5, <1>4, <1>5
        <3>4. dir'.seen[f] = 1
            BY <2>1, <3>2, <3>3, <1>5
        <3>5. ~(ClusterOf(i) > c) /\ ClusterOf(i) # c
            BY <2>3, <2>5
        <3> QED BY <3>3, <3>4, <3>5, <1>5 DEF Promised, f
    <2>6. CASE ClusterOf(i) >= c
        <3>1. ClusterOf(i) > dir.cluster
            BY <2>3, <2>6, <1>1
        <3>2. dir.seen[f] = 0
            BY <2>1, <3>1 DEF Promised
        <3>3. CASE ClusterOf(i) = c
            <4>1. Among(dir'.rest, f) <=> f # h
                BY <2>3, <3>3, <1>4, <1>5
            <4>2. dir'.seen[f] = IF Among(dir'.rest, f) THEN 0 ELSE 1
                BY <2>1, <3>2, <4>1, <1>5
            <4>3. ~(ClusterOf(i) > c) /\ ~(ClusterOf(i) < c)
                BY <3>3
            <4> QED BY <3>3, <4>2, <4>3, <1>5 DEF Promised, f
        <3>4. CASE ClusterOf(i) # c
            <4>1. f # h /\ ~Among(dir'.rest, f)
                BY <2>3, <3>4, <1>4, <1>5
            <4>2. dir'.seen[f] = 0 /\ ~dir'.done
                BY <2>1, <3>2, <4>1, <1>5
            <4>3. ~(ClusterOf(i) < c)
                BY <2>3, <2>6
            <4> QED BY <3>4, <4>1, <4>2, <4>3, <1>5 DEF Promised, f
        <3> QED BY <3>3, <3>4
    <2> QED BY <2>3, <2>5, <2>6
<1> QED BY <1>4, <1>5, <1>7 DEF Reading

\* readdir at the end of the chain.
LEMMA ReadEnd ==
    ASSUME Typed(slots, made), Apart(slots, made), Reading(slots, dir), dir.rest = <<>>,
           \A i \in Shorts(slots) : ~(dir.cluster < ClusterOf(i)),
           dir' = [dir EXCEPT !.done = TRUE]
    PROVE  Reading(slots, dir')
<1>1. Opened(dir) /\ dir.cluster \in Nat
    BY DEF Reading, Opened, DirIn
<1>2. /\ Opened(dir') /\ dir'.cluster = dir.cluster /\ dir'.rest = dir.rest
      /\ dir'.seen = dir.seen
    <2>1. dir' \in DirIn([DOMAIN dir.seen -> Nat])
        BY <1>1, DirExcept, EmptySeq DEF Opened
    <2>2. /\ dir'.seen = dir.seen /\ dir'.cluster = dir.cluster
          /\ dir'.rest = dir.rest
        BY <1>1, DirExceptFields DEF Opened
    <2> QED BY <2>1, <2>2 DEF Opened
<1>3. ASSUME NEW i \in Shorts(slots), slots[i].file \in DOMAIN dir'.seen
      PROVE  Promised(dir', i, slots[i].file)
    <2>1. Promised(dir, i, slots[i].file)
        BY <1>2, <1>3 DEF Reading
    <2>2. i \in DOMAIN slots
        BY DEF Shorts
    <2>3. ~(ClusterOf(i) > dir.cluster)
        BY <2>2, <1>1, ClusterOfSlot
    <2> QED BY <2>1, <2>3, <1>2 DEF Promised
<1> QED BY <1>2, <1>3 DEF Reading

\* readdir keeps the reader's invariant, in each of its three cases.
LEMMA ReadDirReads ==
    ASSUME Typed(slots, made), Apart(slots, made), Reader(slots, dir), ReadDir
    PROVE  Reader(slots', dir')
<1> DEFINE last  == Len(slots) \div entriesPerCluster - 1
           after == {c \in (dir.cluster + 1)..last : ClusterAt(c) # <<>>}
<1>1. /\ Reading(slots, dir) /\ ~dir.done /\ slots' = slots
      /\ \/ dir.rest # <<>> /\ Returns(dir.cluster, dir.rest)
         \/ /\ dir.rest = <<>>
            /\ \E c \in after : (\A d \in after : c <= d) /\ Returns(c, ClusterAt(c))
         \/ dir.rest = <<>> /\ after = {} /\ dir' = [dir EXCEPT !.done = TRUE]
    BY OpenReads DEF ReadDir, Entered
<1>2. dir.cluster \in Nat
    BY <1>1 DEF Reading, Opened, DirIn
<1>3. last \in Int
    <2>1. Len(slots) \in Nat /\ entriesPerCluster \in Nat \ {0}
        BY SizeAssumption DEF Typed
    <2>2. Len(slots) \div entriesPerCluster \in Nat
        BY <2>1, Divided
    <2> QED BY <2>2
<1>4. ASSUME NEW i \in Shorts(slots), dir.cluster < ClusterOf(i)
      PROVE  ClusterOf(i) \in after
    <2>1. i \in DOMAIN slots
        BY DEF Shorts
    <2>2. ClusterOf(i) \in Nat /\ InDirectory(ClusterOf(i)) /\ ClusterOf(i) \in 0..last
        BY <2>1, ClusterOfSlot
    <2>3. Among(ClusterAt(ClusterOf(i)), slots[i].file)
        BY <2>2, ClusterFiles
    <2>4. ClusterAt(ClusterOf(i)) # <<>>
        BY <2>3 DEF Among
    <2>5. ClusterOf(i) \in (dir.cluster + 1)..last
        <3> HIDE DEF last
        <3> QED BY <2>2, <1>2, <1>3, <1>4
    <2> QED BY <2>4, <2>5
<1>5. CASE dir.rest # <<>> /\ Returns(dir.cluster, dir.rest)
    BY <1>1, <1>5, ReadSame DEF Reader
<1>6. CASE /\ dir.rest = <<>>
           /\ \E c \in after : (\A d \in after : c <= d) /\ Returns(c, ClusterAt(c))
    <2>1. PICK c \in after : (\A d \in after : c <= d) /\ Returns(c, ClusterAt(c))
        BY <1>6
    <2>2. c \in Nat /\ c > dir.cluster /\ c <= last /\ ClusterAt(c) # <<>>
        <3> HIDE DEF last
        <3> QED BY <1>2, <1>3
    <2>3. InDirectory(c)
        BY <2>2, ClusterBefore
    <2>4. ASSUME NEW d \in Nat, dir.cluster < d, d < c, InDirectory(d)
          PROVE  ClusterAt(d) = <<>>
        <3> HIDE DEF last
        <3>1. d \in (dir.cluster + 1)..last
            BY <2>2, <2>4, <1>2, <1>3
        <3>2. d \notin after
            BY <2>1, <2>2, <2>4
        <3> QED BY <3>1, <3>2
    <2>5. Reading(slots, dir')
        <3> HIDE DEF after, last
        <3> QED BY <2>1, <2>2, <2>3, <2>4, <1>1, <1>6, ReadNext
    <2> QED BY <2>5, <1>1 DEF Reader
<1>7. CASE dir.rest = <<>> /\ after = {} /\ dir' = [dir EXCEPT !.done = TRUE]
    <2>1. \A i \in Shorts(slots) : ~(dir.cluster < ClusterOf(i))
        BY <1>4, <1>7
    <2> QED BY <2>1, <1>1, <1>7, ReadEnd DEF Reader
<1> QED BY <1>1, <1>5, <1>6, <1>7

\* Every step keeps the reader's invariant.
LEMMA NextKeepsReader ==
    ASSUME Listed(slots, made), Reader(slots, dir), [Next]_vars
    PROVE  Reader(slots', dir')
<1>1. Typed(slots, made) /\ Apart(slots, made)
    BY DEF Listed
<1>2. ASSUME dir.open, NEW f \in DOMAIN dir.seen
      PROVE  f \in DOMAIN made
    <2>1. PICK i \in Shorts(slots) : slots[i].file = f
        BY <1>2, OpenReads DEF Reading
    <2> QED BY <2>1, <1>1 DEF Apart
<1>3. ASSUME NEW s \in Spellings, NEW f \in Files, Create(s, f)
      PROVE  Reader(slots', dir')
    <2>1. Kept({}) /\ f \notin DOMAIN made
        BY <1>3 DEF Create
    <2>2. Changed(slots, made, slots', made', {EntryAt(s)}) /\ Rewritten(slots', s, f, 0)
        BY <1>3, CreateChanges
    <2>3. slots'[EntryAt(s)].file = f
        <3>1. ShortFor(s) \in Texts
            BY <1>1, ShortFree
        <3>2. slots'[EntryAt(s)] = ShortSlot(ShortFor(s), f)
            BY <2>2, <3>1, <1>1, RewriteFacts
        <3> QED BY <3>1, <3>2, SlotMade
    <2>4. \A e \in {EntryAt(s)} : slots'[e].file \notin {g \in DOMAIN dir.seen : dir.open} \ {}
        BY <2>1, <2>3, <1>2
    <2> QED BY <2>1, <2>2, <2>4, KeptPromise DEF Changed
<1>4. ASSUME NEW s \in Spellings, Delete(s.name)
      PROVE  Reader(slots', dir')
    <2> DEFINE f == slots[SlotOf(s.name)].file
    <2>1. Kept({f})
        BY <1>4 DEF Delete
    <2>2. Changed(slots, made, slots', made', {})
        BY <1>4, DeleteChanges
    <2>3. Stay(slots, made, slots', made', {})
        BY <2>2 DEF Changed
    <2> HIDE DEF f
    <2> QED BY <2>1, <2>3, KeptPromise
<1>5. ASSUME NEW t \in Spellings, NEW s \in Spellings, Move(t.name, s)
      PROVE  Reader(slots', dir')
    <2> DEFINE f == slots[SlotOf(t.name)].file
    <2>1. Kept({f})
        BY <1>5 DEF Move
    <2>2. /\ Changed(slots, made, slots', made', {EntryAt(s)})
          /\ Rewritten(slots', s, f, SlotOf(t.name)) /\ f \in Files
        BY <1>5, MoveChanges
    <2> HIDE DEF f
    <2>3. slots'[EntryAt(s)].file = f
        <3>1. ShortFor(s) \in Texts
            BY <1>1, ShortFree
        <3>2. slots'[EntryAt(s)] = ShortSlot(ShortFor(s), f)
            BY <2>2, <3>1, <1>1, RewriteFacts
        <3> QED BY <2>2, <3>1, <3>2, SlotMade
    <2>4. \A e \in {EntryAt(s)} : slots'[e].file \notin {g \in DOMAIN dir.seen : dir.open} \ {f}
        BY <2>3
    <2>5. Stay(slots, made, slots', made', {EntryAt(s)})
        BY <2>2 DEF Changed
    <2> QED BY <2>1, <2>4, <2>5, KeptPromise
<1>6. CASE OpenDir
    BY <1>1, <1>6, OpenDirReads
<1>7. CASE ReadDir
    BY <1>1, <1>7, ReadDirReads
<1>8. CASE CloseDir
    BY <1>8 DEF CloseDir, Reader
<1>9. CASE UNCHANGED vars
    BY <1>9 DEF vars
<1> QED BY <1>3, <1>4, <1>5, <1>6, <1>7, <1>8, <1>9 DEF Next

\* The inductive invariant.
IInv == Listed(slots, made) /\ Reader(slots, dir)

\* The slots are well formed and the reader got, or will get, what was promised it
\* (writeFAT32Entry, nextFAT32Entry).
THEOREM AlwaysIInv == Spec => []IInv
<1>1. Init => IInv
    BY InitListed DEF Init, IInv, Reader
<1>2. IInv /\ [Next]_vars => IInv'
    <2>1. IInv' <=> Listed(slots', made') /\ Reader(slots', dir')
        BY DEF IInv, Listed, Typed, Apart, Spelt, TwinsHidden, Good, Hides, Cross, PiecesOK, Own,
               Foreign, Right, Forwards, Shorts, Slot, LongSlot, Unused, Required,
               Reader, Reading, Opened, DirIn, Promised, Among, ClusterOf, NoDir
    <2> QED BY <2>1, NextKeepsListed, NextKeepsReader DEF IInv
<1> QED BY <1>1, <1>2, PTL DEF Spec

\* A reader gets every file that stays where it is, and each once, whatever is
\* made, deleted and renamed meanwhile (nextFAT32Entry).
THEOREM AllRead == Spec => []ReadsAll
<1>1. IInv => ReadsAll
    <2> SUFFICES ASSUME IInv, dir.open, NEW f \in DOMAIN dir.seen
                 PROVE  dir.seen[f] <= 1 /\ (dir.done => dir.seen[f] = 1)
        BY DEF ReadsAll
    <2>1. Reading(slots, dir) /\ Typed(slots, made)
        BY OpenReads DEF IInv, Listed
    <2>2. PICK i \in Shorts(slots) : slots[i].file = f
        BY <2>1 DEF Reading
    <2>3. Promised(dir, i, f) /\ dir.cluster \in Nat
        BY <2>1, <2>2 DEF Reading, Opened, DirIn
    <2>4. ClusterOf(i) \in Nat
        <3>1. i \in DOMAIN slots
            BY DEF Shorts
        <3> QED BY <3>1, <2>1, ClusterOfSlot
    <2>5. dir.done => ~Among(dir.rest, f)
        BY <2>1 DEF Reading, Among
    <2>6. ClusterOf(i) < dir.cluster \/ ClusterOf(i) = dir.cluster \/ ClusterOf(i) > dir.cluster
        BY <2>3, <2>4
    <2> QED BY <2>3, <2>5, <2>6 DEF Promised
<1> QED BY <1>1, AlwaysIInv, PTL

-----------------------------------------------------------------------------
(* While no name is lost the directory is a map from names to files *)

\* Entries and the names their files were made with.
NameList(ss, mm) == {<<Own(ss, mm, i).name, ss[i].file>> : i \in Shorts(ss)}

Told ==
    Intact =>
        /\ Listing = NameList(slots, made)
        /\ \A i, j \in Shorts(slots) :
                Own(slots, made, i).name = Own(slots, made, j).name => i = j
        /\ \A i \in Shorts(slots) : ~Cross(slots, made, i)

\* A piece that hides an entry is stray for the first entry after it.
LEMMA HidingIsSeen ==
    ASSUME Typed(slots, made), NEW p, NEW i \in Shorts(slots), Hides(slots, made, p, i)
    PROVE  \E q \in Shorts(slots) : Excused(q)
<1>1. slots \in Seq(Slot) /\ p \in 1..(i - 1) /\ slots[p].kind = "long" /\ i \in Nat
    BY SlotFacts DEF Typed, Hides
<1> DEFINE after == {q \in Shorts(slots) : p < q}
<1>2. after \subseteq Nat /\ i \in after
    <2>1. \A q \in Shorts(slots) : q \in Nat
        BY <1>1, SlotFacts
    <2>2. p < i
        BY <1>1
    <2> QED BY <2>1, <2>2
<1>3. PICK q \in after : \A k \in after : q <= k
    BY <1>2, LeastOfNats
<1>4. q \in Shorts(slots) /\ p < q /\ q <= i /\ q \in Nat /\ q \in DOMAIN slots
    BY <1>2, <1>3 DEF Shorts
<1>5. \A k \in (p + 1)..(q - 1) : slots[k].kind # "short"
    <2> SUFFICES ASSUME NEW k \in (p + 1)..(q - 1), slots[k].kind = "short" PROVE FALSE
        OBVIOUS
    <2>1. k \in 1..Len(slots) /\ p < k /\ k < q
        <3>1. q \in 1..Len(slots) /\ Len(slots) \in Nat
            BY <1>1, <1>4, SlotFacts
        <3> QED BY <3>1, <1>1
    <2>2. k \in after
        BY <2>1, <1>1 DEF Shorts
    <2>3. q <= k
        BY <2>2, <1>3
    <2> QED BY <2>1, <2>3, <1>4
<1>6. \/ Cross(slots, made, q) \/ p < q - Required(Own(slots, made, q))
      \/ slots[p].sum # slots[q].short
    BY <1>4 DEF Hides
<1>7. Cross(slots, made, q) => Crossing(q)
    BY DEF Cross, Crossing, Own, Spelled
<1>8. p \in 1..(q - 1)
    BY <1>1, <1>4
<1>9. Own(slots, made, q) = Spelled(q)
    BY DEF Own, Spelled
<1>10. Excused(q)
    BY <1>1, <1>5, <1>6, <1>7, <1>8, <1>9 DEF Excused, Stray
<1> QED BY <1>4, <1>10

\* If nothing is excused, different files were made with different names.
LEMMA ListedTold == Listed(slots, made) => Told
<1> SUFFICES ASSUME Listed(slots, made), Intact
             PROVE  /\ Listing = NameList(slots, made)
                    /\ \A i, j \in Shorts(slots) :
                            Own(slots, made, i).name = Own(slots, made, j).name => i = j
                    /\ \A i \in Shorts(slots) : ~Cross(slots, made, i)
    BY DEF Told
<1>1. Typed(slots, made) /\ Apart(slots, made) /\ Spelt(slots, made) /\ TwinsHidden(slots, made)
    BY DEF Listed
<1>2. \A i \in Shorts(slots) : ~Excused(i)
    BY DEF Intact
<1>3. \A i \in Shorts(slots) :
        EntryName(i) = Own(slots, made, i).name /\ Good(slots, made, i)
    <2>1. \A i \in Shorts(slots) : Own(slots, made, i) = Spelled(i)
        BY DEF Own, Spelled
    <2> QED BY <2>1, <1>1, <1>2, NamesListed
<1>4. Listing = NameList(slots, made)
    BY <1>3 DEF Listing, NameList
<1>5. ASSUME NEW i \in Shorts(slots), NEW j \in Shorts(slots),
             Own(slots, made, i).name = Own(slots, made, j).name
      PROVE  i = j
    <2>1. SUFFICES ASSUME i # j PROVE FALSE
        OBVIOUS
    <2>2. PICK p \in DOMAIN slots : Hides(slots, made, p, i) \/ Hides(slots, made, p, j)
        BY <2>1, <1>1, <1>3, <1>5 DEF TwinsHidden
    <2> QED BY <2>2, <1>1, <1>2, HidingIsSeen
<1>6. \A i \in Shorts(slots) : ~Cross(slots, made, i)
    BY <1>3 DEF Good
<1> QED BY <1>4, <1>5, <1>6

\* The entries after one was written whose pieces are all before it.
LEMMA WrittenEntries ==
    ASSUME Listed(slots, made), NEW s \in Spellings, NEW f \in Files, NEW gone,
           NEW ss2, NEW mm2, Rewritten(ss2, s, f, gone), mm2[f] = s,
           \A i \in Shorts(ss2) : ~Cross(ss2, mm2, i)
    PROVE  /\ Shorts(ss2) = (Shorts(slots) \ {gone}) \cup {EntryAt(s)}
           /\ EntryAt(s) \notin Shorts(slots) /\ ss2[EntryAt(s)].file = f
           /\ \A i \in Shorts(slots) \ {gone} : ss2[i] = slots[i]
<1> DEFINE entry == EntryAt(s)
<1>1. /\ Typed(slots, made) /\ Apart(slots, made) /\ slots \in Seq(Slot)
      /\ DOMAIN slots = 1..Len(slots) /\ Len(slots) \in Nat
    BY DEF Listed, Typed
<1>2. ShortFor(s) \in Texts
    BY <1>1, ShortFree
<1>3. /\ entry \in DOMAIN ss2 /\ ss2[entry] = ShortSlot(ShortFor(s), f)
      /\ DOMAIN slots \subseteq DOMAIN ss2
      /\ \A i \in DOMAIN ss2 \ {entry} : Placed(ss2, s, gone, i)
    BY <1>1, <1>2, RewriteFacts
<1>4. entry \in Nat /\ \A i \in (entry - Required(s))..entry : i \in DOMAIN slots => slots[i] = Unused
    BY <1>1, WhereWritten
<1>5. Required(s) \in Nat
    BY SpellingFacts
<1>6. \A i \in (entry - Required(s))..entry : i \notin Shorts(slots)
    BY <1>4, SlotMade DEF Shorts
<1>7. entry \in Shorts(ss2) /\ ss2[entry].file = f
    BY <1>2, <1>3, SlotMade DEF Shorts
<1>8. ~((entry - 1) % entriesPerCluster < Required(s))
    BY <1>7 DEF Cross, Own
<1>9. entry \notin Shorts(slots)
    <2>1. entry \in (entry - Required(s))..entry
        BY <1>4, <1>5
    <2> QED BY <2>1, <1>6
<1>10. Unused.kind = "unused"
    BY SlotMade
<1> HIDE DEF entry
<1>11. ASSUME NEW i \in Shorts(slots) \ {gone}
       PROVE  ss2[i] = slots[i] /\ i \in Shorts(ss2)
    <2>1. i \in DOMAIN slots /\ slots[i].kind = "short" /\ i # entry /\ i # gone
        BY <1>9 DEF Shorts
    <2>2. i \in DOMAIN ss2 /\ Placed(ss2, s, gone, i)
        BY <2>1, <1>3
    <2>3. i \notin (entry - Required(s))..(entry - 1)
        BY <1>4, <1>5, <1>6
    <2>4. ss2[i] = slots[i]
        BY <2>1, <2>2, <2>3, <1>8 DEF Placed, entry
    <2> QED BY <2>1, <2>2, <2>4 DEF Shorts
<1>12. ASSUME NEW i \in Shorts(ss2), i # entry
       PROVE  i \in Shorts(slots) \ {gone}
    <2>1. i \in DOMAIN ss2 /\ ss2[i].kind = "short"
        BY DEF Shorts
    <2>2. Placed(ss2, s, gone, i)
        BY <2>1, <1>3, <1>12
    <2> QED BY <2>1, <2>2, <1>10 DEF Placed, Shorts
<1>13. Shorts(ss2) = (Shorts(slots) \ {gone}) \cup {entry}
    BY <1>7, <1>11, <1>12
<1> QED BY <1>7, <1>9, <1>11, <1>13 DEF entry

\* The names and the files that are listed.
LEMMA ListedNames ==
    ASSUME Typed(slots, made), Apart(slots, made)
    PROVE  /\ Service!NamesOf = {EntryName(i) : i \in Shorts(slots)}
           /\ Service!FilesOf = {slots[i].file : i \in Shorts(slots)}
           /\ Service!FilesOf \subseteq DOMAIN made
<1>1. Service!NamesOf = {EntryName(i) : i \in Shorts(slots)}
    <2>1. \A i \in Shorts(slots) : <<EntryName(i), slots[i].file>> \in Listing
        BY DEF Listing
    <2>2. ASSUME NEW e \in Listing
          PROVE  \E i \in Shorts(slots) : e = <<EntryName(i), slots[i].file>>
        BY DEF Listing
    <2>3. \A e \in Listing : e[1] \in {EntryName(i) : i \in Shorts(slots)}
        BY <2>2
    <2>4. ASSUME NEW i \in Shorts(slots)
          PROVE  EntryName(i) \in {e[1] : e \in Listing}
        <3> DEFINE e == <<EntryName(i), slots[i].file>>
        <3>1. e \in Listing /\ e[1] = EntryName(i)
            BY <2>1
        <3> HIDE DEF e
        <3> QED BY <3>1
    <2> QED BY <2>3, <2>4 DEF Service!NamesOf
<1>2. Service!FilesOf = {slots[i].file : i \in Shorts(slots)}
    <2>1. \A i \in Shorts(slots) : <<EntryName(i), slots[i].file>> \in Listing
        BY DEF Listing
    <2>2. ASSUME NEW e \in Listing
          PROVE  \E i \in Shorts(slots) : e = <<EntryName(i), slots[i].file>>
        BY DEF Listing
    <2>3. \A e \in Listing : e[2] \in {slots[i].file : i \in Shorts(slots)}
        BY <2>2
    <2>4. ASSUME NEW i \in Shorts(slots)
          PROVE  slots[i].file \in {e[2] : e \in Listing}
        <3> DEFINE e == <<EntryName(i), slots[i].file>>
        <3>1. e \in Listing /\ e[2] = slots[i].file
            BY <2>1
        <3> HIDE DEF e
        <3> QED BY <3>1
    <2> QED BY <2>3, <2>4 DEF Service!FilesOf
<1>3. \A i \in Shorts(slots) : slots[i].file \in DOMAIN made
    BY DEF Apart
<1> QED BY <1>1, <1>2, <1>3

\* createFAT32Entry creates, as the service promises, if no name is lost by it.
LEMMA CreateServes ==
    ASSUME Listed(slots, made), Told, Told', Intact, Intact',
           NEW s \in Spellings, NEW f \in Files, Create(s, f)
    PROVE  Service!Create(s.name, f)
<1>1. Typed(slots, made) /\ Apart(slots, made)
    BY DEF Listed
<1>2. s.name \notin Service!NamesOf
    <2>1. \A i \in Shorts(slots) : EntryName(i) # s.name
        BY DEF Create, Vacant, Exists, Matches
    <2> QED BY <2>1, <1>1, ListedNames
<1>3. f \notin DOMAIN made /\ made' = [g \in DOMAIN made \cup {f} |-> IF g = f THEN s ELSE made[g]]
    BY DEF Create
<1>4. f \notin Service!FilesOf
    BY <1>1, <1>3, ListedNames
<1>5. Listing' = NameList(slots', made') /\ \A i \in Shorts(slots') : ~Cross(slots', made', i)
    BY DEF Told
<1>6. Listing = NameList(slots, made)
    BY DEF Told
<1>7. Rewritten(slots', s, f, 0)
    BY CreateChanges
<1> DEFINE entry == EntryAt(s)
<1>8. /\ Shorts(slots') = (Shorts(slots) \ {0}) \cup {entry} /\ entry \notin Shorts(slots)
      /\ slots'[entry].file = f
      /\ \A i \in Shorts(slots) \ {0} : slots'[i] = slots[i]
    <2>1. made'[f] = s
        BY <1>3
    <2>2. \A i \in Shorts(slots') : ~Cross(slots', made', i)
        BY <1>5
    <2> QED BY <2>1, <2>2, <1>7, WrittenEntries
<1> HIDE DEF entry
<1>9. 0 \notin Shorts(slots)
    BY <1>1, SlotFacts DEF Typed
<1>10. ASSUME NEW i \in Shorts(slots)
       PROVE  /\ slots'[i].file = slots[i].file
              /\ Own(slots', made', i).name = Own(slots, made, i).name
    <2>1. slots'[i] = slots[i] /\ slots[i].file \in DOMAIN made
        BY <1>1, <1>8, <1>9 DEF Apart
    <2> QED BY <2>1, <1>3 DEF Own
<1>11. Own(slots', made', entry).name = s.name
    BY <1>3, <1>8 DEF Own
<1>12. NameList(slots', made') = NameList(slots, made) \cup {<<s.name, f>>}
    <2>1. Shorts(slots') = Shorts(slots) \cup {entry}
        BY <1>8, <1>9
    <2> QED BY <2>1, <1>8, <1>10, <1>11 DEF NameList
<1> QED BY <1>2, <1>4, <1>5, <1>6, <1>12 DEF Service!Create

\* deleteFAT32Entry deletes.
LEMMA DeleteServes ==
    ASSUME Listed(slots, made), Told, Told', Intact, Intact',
           NEW s \in Spellings, Delete(s.name)
    PROVE  Service!Remove(s.name)
<1> DEFINE n == s.name
           g == SlotOf(n)
           f == slots[g].file
<1>1. Typed(slots, made) /\ Apart(slots, made) /\ slots \in Seq(Slot)
    BY DEF Listed, Typed
<1>2. Exists(n) /\ slots' = [slots EXCEPT ![g] = Unused]
      /\ made' = [h \in DOMAIN made \ {f} |-> made[h]]
    BY DEF Delete
<1>3. g \in Shorts(slots) /\ EntryName(g) = n
    BY <1>1, <1>2, Found
<1> HIDE DEF g, n
<1>4. n \in Service!NamesOf
    BY <1>1, <1>3, ListedNames
<1>5. Listing' = NameList(slots', made')
    BY DEF Told
<1>6. /\ Listing = NameList(slots, made)
      /\ \A i, j \in Shorts(slots) :
            Own(slots, made, i).name = Own(slots, made, j).name => i = j
    BY DEF Told
<1>7. Own(slots, made, g).name = n
    <2>1. EntryName(g) = Own(slots, made, g).name
        <3>1. ~Excused(g)
            BY <1>3 DEF Intact
        <3>2. Spelled(g) = Own(slots, made, g)
            BY DEF Spelled, Own
        <3> QED BY <3>1, <3>2, <1>3, NamesListed DEF Listed
    <2> QED BY <2>1, <1>3
<1>8. Shorts(slots') = Shorts(slots) \ {g} /\ \A i \in Shorts(slots) \ {g} : slots'[i] = slots[i]
    <2>1. Unused.kind = "unused" /\ DOMAIN slots' = DOMAIN slots
        BY <1>2, SlotMade
    <2>2. \A i \in DOMAIN slots : slots'[i] = IF i = g THEN Unused ELSE slots[i]
        BY <1>2
    <2> QED BY <2>1, <2>2 DEF Shorts
<1>9. ASSUME NEW i \in Shorts(slots) \ {g}
      PROVE  /\ slots'[i].file = slots[i].file
             /\ Own(slots', made', i).name = Own(slots, made, i).name
             /\ Own(slots, made, i).name # n
    <2>1. slots'[i] = slots[i] /\ slots[i].file \in DOMAIN made /\ slots[i].file # f
        BY <1>1, <1>3, <1>8 DEF Apart
    <2>2. Own(slots, made, i).name # n
        BY <1>3, <1>6, <1>7
    <2> QED BY <2>1, <2>2, <1>2 DEF Own
<1>10. NameList(slots', made') = {e \in NameList(slots, made) : e[1] # n}
    <2>1. \A i \in Shorts(slots') : i \in Shorts(slots) \ {g}
        BY <1>8
    <2>2. NameList(slots', made') \subseteq {e \in NameList(slots, made) : e[1] # n}
        BY <2>1, <1>9 DEF NameList
    <2>3. ASSUME NEW e \in NameList(slots, made), e[1] # n
          PROVE  e \in NameList(slots', made')
        <3>1. PICK i \in Shorts(slots) : e = <<Own(slots, made, i).name, slots[i].file>>
            BY DEF NameList
        <3>2. i # g
            BY <3>1, <2>3, <1>7
        <3> QED BY <3>1, <3>2, <1>8, <1>9 DEF NameList
    <2> QED BY <2>2, <2>3
<1> QED BY <1>4, <1>5, <1>6, <1>10 DEF Service!Remove, n

\* moveFAT32Entry renames.
LEMMA MoveServes ==
    ASSUME Listed(slots, made), Told, Told', Intact, Intact',
           NEW t \in Spellings, NEW s \in Spellings, Move(t.name, s)
    PROVE  Service!Rename(t.name, s.name)
<1> DEFINE o == t.name
           g == SlotOf(o)
           f == slots[g].file
           entry == EntryAt(s)
<1>1. Typed(slots, made) /\ Apart(slots, made) /\ slots \in Seq(Slot)
    BY DEF Listed, Typed
<1>2. Exists(o) /\ Vacant(s) /\ made' = [made EXCEPT ![f] = s]
    BY DEF Move
<1>3. Rewritten(slots', s, f, g) /\ f \in Files /\ f \in DOMAIN made
    BY MoveChanges
<1>4. g \in Shorts(slots) /\ EntryName(g) = o
    BY <1>1, <1>2, Found
<1>5. Listing' = NameList(slots', made') /\ \A i \in Shorts(slots') : ~Cross(slots', made', i)
    BY DEF Told
<1>6. made'[f] = s
    BY <1>2, <1>3
<1> HIDE DEF g, o
<1>7. /\ Shorts(slots') = (Shorts(slots) \ {g}) \cup {entry} /\ entry \notin Shorts(slots)
      /\ slots'[entry].file = f
      /\ \A i \in Shorts(slots) \ {g} : slots'[i] = slots[i]
    <2> HIDE DEF f
    <2> QED BY <1>3, <1>5, <1>6, WrittenEntries
<1> HIDE DEF entry
<1>8. o \in Service!NamesOf
    BY <1>1, <1>4, ListedNames
<1>9. s.name \notin Service!NamesOf
    <2>1. \A i \in Shorts(slots) : EntryName(i) # s.name
        BY <1>2 DEF Vacant, Exists, Matches
    <2> QED BY <2>1, <1>1, ListedNames
<1>10. /\ Listing = NameList(slots, made)
       /\ \A i, j \in Shorts(slots) :
            Own(slots, made, i).name = Own(slots, made, j).name => i = j
    BY DEF Told
<1>11. Own(slots, made, g).name = o
    <2>1. EntryName(g) = Own(slots, made, g).name
        <3>1. ~Excused(g)
            BY <1>4 DEF Intact
        <3>2. Spelled(g) = Own(slots, made, g)
            BY DEF Spelled, Own
        <3> QED BY <3>1, <3>2, <1>4, NamesListed DEF Listed
    <2> QED BY <2>1, <1>4
<1>12. ASSUME NEW i \in Shorts(slots) \ {g}
       PROVE  /\ slots'[i].file = slots[i].file
              /\ Own(slots', made', i).name = Own(slots, made, i).name
              /\ Own(slots, made, i).name # o
    <2>1. slots'[i] = slots[i] /\ slots[i].file \in DOMAIN made /\ slots[i].file # f
        BY <1>1, <1>4, <1>7 DEF Apart
    <2>2. Own(slots, made, i).name # o
        BY <1>4, <1>10, <1>11
    <2>3. made'[slots[i].file] = made[slots[i].file]
        BY <2>1, <1>2
    <2> QED BY <2>1, <2>2, <2>3 DEF Own
<1>13. Own(slots', made', entry).name = s.name
    BY <1>6, <1>7 DEF Own
<1>14. NameList(slots', made') =
            {IF e[1] = o THEN <<s.name, e[2]>> ELSE e : e \in NameList(slots, made)}
    <2> DEFINE renamed(e) == IF e[1] = o THEN <<s.name, e[2]>> ELSE e
               entryOf(ss, mm, i) == <<Own(ss, mm, i).name, ss[i].file>>
    <2>1. \A i \in Shorts(slots) \ {g} :
            renamed(entryOf(slots, made, i)) = entryOf(slots', made', i)
        BY <1>12
    <2>2. renamed(entryOf(slots, made, g)) = entryOf(slots', made', entry)
        BY <1>7, <1>11, <1>13
    <2> HIDE DEF renamed, entryOf
    <2>3. NameList(slots', made') = {entryOf(slots', made', i) : i \in Shorts(slots')}
          /\ NameList(slots, made) = {entryOf(slots, made, i) : i \in Shorts(slots)}
        BY DEF NameList, entryOf
    <2>4. NameList(slots', made') \subseteq {renamed(e) : e \in NameList(slots, made)}
        BY <2>1, <2>2, <2>3, <1>4, <1>7
    <2>5. {renamed(e) : e \in NameList(slots, made)} \subseteq NameList(slots', made')
        BY <2>1, <2>2, <2>3, <1>4, <1>7
    <2>6. {renamed(e) : e \in NameList(slots, made)} =
            {IF e[1] = o THEN <<s.name, e[2]>> ELSE e : e \in NameList(slots, made)}
        BY DEF renamed
    <2> QED BY <2>4, <2>5, <2>6
<1> QED BY <1>5, <1>8, <1>9, <1>10, <1>14 DEF Service!Rename, o

\* Every step is one of the service or changes nothing there.
LEMMA NextServes ==
    ASSUME Listed(slots, made), Told, Told', [Next]_vars
    PROVE  [Service!Next]_<<Listing, Intact>>
<1> SUFFICES ASSUME Intact, Intact'
             PROVE  Service!Next \/ UNCHANGED <<Listing, Intact>>
    BY DEF Service!Next
<1>1. ASSUME NEW s \in Spellings, NEW f \in Files, Create(s, f)
      PROVE  Service!Next
    <2>1. Service!Create(s.name, f)
        BY <1>1, CreateServes
    <2>2. s.name \in {x.name : x \in Spellings}
        OBVIOUS
    <2> QED BY <2>1, <2>2 DEF Service!Next
<1>2. ASSUME NEW s \in Spellings, Delete(s.name)
      PROVE  Service!Next
    <2>1. Service!Remove(s.name)
        BY <1>2, DeleteServes
    <2>2. s.name \in {x.name : x \in Spellings}
        OBVIOUS
    <2> QED BY <2>1, <2>2 DEF Service!Next
<1>3. ASSUME NEW t \in Spellings, NEW s \in Spellings, Move(t.name, s)
      PROVE  Service!Next
    <2>1. Service!Rename(t.name, s.name)
        BY <1>3, MoveServes
    <2>2. t.name \in {x.name : x \in Spellings} /\ s.name \in {x.name : x \in Spellings}
        OBVIOUS
    <2> QED BY <2>1, <2>2 DEF Service!Next
<1>4. CASE slots' = slots /\ made' = made
    <2>1. Listing' = Listing
        BY <1>4 DEF Listing, Shorts, EntryName, IsLong, LongName, Buffered, Pieces
    <2>2. Intact' = Intact
        OBVIOUS
    <2> QED BY <2>1, <2>2
<1>5. CASE OpenDir \/ ReadDir \/ CloseDir \/ UNCHANGED vars
    BY <1>4, <1>5 DEF OpenDir, ReadDir, CloseDir, vars
<1> QED BY <1>1, <1>2, <1>3, <1>5 DEF Next

\* The first state is one of the service.
LEMMA InitServes == Init => Service!Init
<1> SUFFICES ASSUME Listed(slots, made), Intact
             PROVE  Listing \subseteq {s.name : s \in Spellings} \X Files
    BY InitListed DEF Service!Init, Intact
<1>1. Listing = NameList(slots, made) /\ Typed(slots, made) /\ Apart(slots, made)
    BY ListedTold DEF Told, Listed
<1>2. \A i \in Shorts(slots) : Own(slots, made, i) \in Spellings /\ slots[i].file \in Files
    BY <1>1 DEF Own, Typed, Apart
<1> QED BY <1>1, <1>2 DEF NameList

\* As long as no name is lost, creating, deleting and renaming do to the names
\* and files what DirectoryService promises (createFAT32Entry,
\* deleteFAT32Entry, moveFAT32Entry).
THEOREM DirectoryServes == Spec => ServiceSpec
<1>1. IInv => Listed(slots, made) /\ Told
    BY ListedTold DEF IInv
<1>2. Listed(slots, made) /\ Told /\ Told' /\ [Next]_vars => [Service!Next]_<<Listing, Intact>>
    BY NextServes
<1> QED BY <1>1, <1>2, InitServes, AlwaysIInv, PTL DEF Spec, ServiceSpec, Service!Spec
=============================================================================
