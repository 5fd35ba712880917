----------------------- MODULE IdentityAllocatorProofs -----------------------
(***************************************************************************)
(* The inductive invariant of the allocator and its proof, bottom up: what *)
(* the two edits of a sequence do; what cutting, merging and marking do to *)
(* a list of blocks; what that means for the clients; one lemma per action.*)
(* Then what the invariant gives: the safety properties of the heap, and   *)
(* that it implements the service its header file promises, for every      *)
(* memory map in address order, every set of sizes and of alignments.      *)
(***************************************************************************)
EXTENDS IdentityAllocator, SequenceTheorems, WellFoundedInduction, TLAPS

-----------------------------------------------------------------------------
(* Sequences and arithmetic *)

\* g is s with e put at place i, and s without its place i.
IsInsert(g, s, i, e) ==
  /\ g \in Seq(Block)
  /\ Len(g) = Len(s) + 1
  /\ \A k \in 1 .. Len(s) + 1 :
       g[k] = IF k < i THEN s[k] ELSE IF k = i THEN e ELSE s[k - 1]

IsRemove(g, s, i) ==
  /\ g \in Seq(Block)
  /\ Len(g) = Len(s) - 1
  /\ \A k \in 1 .. Len(s) - 1 : g[k] = IF k < i THEN s[k] ELSE s[k + 1]

\* The community module's InsertAt shifts what follows by one place.
LEMMA InsertAtProps ==
  ASSUME NEW s \in Seq(Block), NEW i \in 1 .. Len(s) + 1, NEW e \in Block
  PROVE  IsInsert(InsertAt(s, i, e), s, i, e)
<1> DEFINE before == SubSeq(s, 1, i - 1)
           after  == SubSeq(s, i, Len(s))
<1>1. /\ before \in Seq(Block) /\ Len(before) = i - 1
      /\ \A k \in 1 .. i - 1 : before[k] = s[k]
  BY SubSeqProperties
<1>2. /\ after \in Seq(Block) /\ Len(after) = Len(s) - i + 1
      /\ \A k \in 1 .. Len(s) - i + 1 : after[k] = s[i + k - 1]
  BY SubSeqProperties
<1> DEFINE front == before \o <<e>>
<1>3. /\ front \in Seq(Block) /\ Len(front) = i
      /\ \A k \in 1 .. i : front[k] = IF k < i THEN s[k] ELSE e
  <2> HIDE DEF before
  <2>1. <<e>> \in Seq(Block) /\ Len(<<e>>) = 1 /\ <<e>>[1] = e
    OBVIOUS
  <2> QED  BY <1>1, <2>1, ConcatProperties
<1>4. InsertAt(s, i, e) = front \o after
  BY DEF InsertAt
<1> HIDE DEF front, after
<1>5. /\ front \o after \in Seq(Block)
      /\ Len(front \o after) = Len(front) + Len(after)
      /\ \A k \in 1 .. Len(front) + Len(after) : (front \o after)[k] =
           IF k <= Len(front) THEN front[k] ELSE after[k - Len(front)]
  BY <1>2, <1>3, ConcatProperties
<1>6. Len(s) \in Nat
  OBVIOUS
<1> QED  BY <1>2, <1>3, <1>4, <1>5, <1>6 DEF IsInsert

\* The community module's RemoveAt closes the gap.
LEMMA RemoveAtProps ==
  ASSUME NEW s \in Seq(Block), NEW i \in 1 .. Len(s)
  PROVE  IsRemove(RemoveAt(s, i), s, i)
<1> DEFINE before == SubSeq(s, 1, i - 1)
           after  == SubSeq(s, i + 1, Len(s))
<1>1. /\ before \in Seq(Block) /\ Len(before) = i - 1
      /\ \A k \in 1 .. i - 1 : before[k] = s[k]
  BY SubSeqProperties
<1>2. /\ after \in Seq(Block) /\ Len(after) = Len(s) - i
      /\ \A k \in 1 .. Len(s) - i : after[k] = s[i + k]
  BY SubSeqProperties
<1>3. RemoveAt(s, i) = before \o after
  BY DEF RemoveAt
<1> HIDE DEF before, after
<1>4. /\ before \o after \in Seq(Block)
      /\ Len(before \o after) = Len(before) + Len(after)
      /\ \A k \in 1 .. Len(before) + Len(after) : (before \o after)[k] =
           IF k <= Len(before) THEN before[k] ELSE after[k - Len(before)]
  BY <1>1, <1>2, ConcatProperties
<1>5. Len(s) \in Nat
  OBVIOUS
<1>6. ASSUME NEW k \in 1 .. Len(s) - 1
      PROVE  (before \o after)[k] = IF k < i THEN s[k] ELSE s[k + 1]
  <2>1. CASE k < i
    BY <1>1, <1>2, <1>4, <1>5, <2>1
  <2>2. CASE k >= i
    <3> DEFINE j == k - (i - 1)
    <3>1. j \in 1 .. Len(s) - i /\ i + j = k + 1
      BY <1>5, <2>2
    <3>2. (before \o after)[k] = after[j]
      BY <1>1, <1>2, <1>4, <1>5, <2>2
    <3> HIDE DEF j
    <3>3. after[j] = s[i + j] /\ ~(k < i)
      BY <1>2, <1>5, <2>2, <3>1
    <3> QED  BY <3>1, <3>2, <3>3
  <2>3. k < i \/ k >= i
    BY <1>5
  <2> QED  BY <2>1, <2>2, <2>3
<1>7. Len(before) + Len(after) = Len(s) - 1
  BY <1>1, <1>2, <1>5
<1> QED  BY <1>3, <1>4, <1>6, <1>7 DEF IsRemove

\* A kept descriptor gives a block of natural address and size: the pages
\* below MIN_ADDR that idalloc_init subtracts are no more than there are.
LEMMA BytesNat ==
  ASSUME NEW d \in Descriptor, Kept(d)
  PROVE  Bytes(d) \in Nat /\ Base(d) \in Nat
<1>1. d.numPages \in Nat /\ d.physAddr \in Nat
  BY DEF Descriptor
<1> QED BY <1>1 DEF Kept, Bytes, Base, MIN_ADDR, PAGE

\* A multiple leaves no remainder.
LEMMA MultipleMod ==
  ASSUME NEW a \in Nat \ {0}, NEW k \in Nat
  PROVE  ((a * k) % a) = 0
OBVIOUS

\* The padding aalloc computes is none or more than a header, and makes the
\* pointer a multiple of the alignment.
LEMMA PaddingProps ==
  ASSUME NEW b \in Block, NEW a \in Nat \ {0}
  PROVE  LET p == Padding(b, a) IN
         /\ p = 0 \/ p \in HDR + 1 .. HDR + a
         /\ ((Pointer(b) + p) % a) = 0
<1> DEFINE m == Pointer(b)
           x == m + HDR
           w == HDR + a - (x % a)
<1>1. m \in Nat /\ x \in Nat
  BY DEF Block, Pointer, HDR
<1> HIDE DEF m
<1>2. (x % a) \in 0 .. a - 1 /\ x = a * (x \div a) + (x % a) /\ (x \div a) \in Nat
  BY <1>1
<1>3. w \in HDR + 1 .. HDR + a
  BY <1>2 DEF HDR
<1>4. m + w = a * ((x \div a) + 1)
  <2> DEFINE q == x \div a
             r == x % a
  <2>1. q \in Nat /\ r \in Nat /\ x = a * q + r /\ m + w = x + a - r
    BY <1>1, <1>2 DEF HDR
  <2> HIDE DEF q, r, x, w
  <2>2. a * (q + 1) = a * q + a /\ a * q \in Nat /\ x \in Nat
    BY <1>1, <2>1
  <2>3. m + w = a * (q + 1)
    BY <2>1, <2>2
  <2> QED  BY <2>3 DEF q
<1>5. ((m + w) % a) = 0
  BY <1>2, <1>4, MultipleMod
<1>6. Padding(b, a) = IF (m % a) = 0 THEN 0 ELSE w
  BY DEF Padding, m
<1> HIDE DEF w
<1>7. m + 0 = m
  BY <1>1
<1> QED BY <1>3, <1>5, <1>6, <1>7 DEF m

-----------------------------------------------------------------------------
(* The edits of the list *)

Good(h) == h \in Seq(Block) /\ Ordered(h)

\* The in-use blocks of a list, and those in other places than i.
Used(h)      == {b \in Block : b.inUse /\ \E k \in DOMAIN h : h[k] = b}
Others(h, i) == {b \in Block : b.inUse /\ \E k \in DOMAIN h : k # i /\ h[k] = b}

\* The in-use blocks are those in other places than i and, if in use, block i.
LEMMA UsedIsOthers ==
  ASSUME NEW h, Good(h), NEW i \in DOMAIN h
  PROVE  /\ Used(h) = Others(h, i) \cup (IF h[i].inUse THEN {h[i]} ELSE {})
         /\ \A b \in Others(h, i) : b.addr # h[i].addr
<1>1. \A k \in DOMAIN h : h[k] \in Block
  BY DEF Good
<1>2. \A k \in DOMAIN h : k # i => h[k].addr # h[i].addr
  <2> SUFFICES ASSUME NEW k \in DOMAIN h, k # i, h[k].addr = h[i].addr
               PROVE  FALSE
    OBVIOUS
  <2>1. k < i \/ i < k
    BY DEF Good
  <2> QED  BY <1>1, <2>1 DEF Good, Ordered, Block, End, HDR
<1> QED  BY <1>1, <1>2 DEF Used, Others

\* A free block adds nothing to the in-use blocks.
LEMMA UsedFree ==
  ASSUME NEW h, Good(h), NEW i \in DOMAIN h, ~h[i].inUse
  PROVE  Used(h) = Others(h, i)
<1>1. Used(h) = Others(h, i) \cup {}
  BY UsedIsOthers
<1> QED  BY <1>1

\* What a block of a list of blocks is made of.
LEMMA BlockFields ==
  ASSUME NEW h \in Seq(Block), NEW i \in DOMAIN h
  PROVE  /\ Len(h) \in Nat /\ i \in Nat /\ 1 <= i /\ i <= Len(h)
         /\ h[i] \in Block
         /\ h[i].addr \in Nat /\ h[i].size \in Nat
<1>1. h[i] \in Block /\ i \in 1 .. Len(h) /\ Len(h) \in Nat
  OBVIOUS
<1> QED  BY <1>1 DEF Block

\* A header with natural address and size is a block.
LEMMA BlockRecord ==
  ASSUME NEW x \in Nat, NEW y \in Nat, NEW u \in BOOLEAN
  PROVE  [addr |-> x, size |-> y, inUse |-> u] \in Block
BY DEF Block

\* Changing the size or the flag of a block leaves its other fields.
LEMMA BlockUpdate ==
  ASSUME NEW c \in Block
  PROVE  /\ \A n \in Nat : LET b == [c EXCEPT !.size = n] IN
              /\ b \in Block
              /\ b.addr = c.addr /\ b.size = n /\ b.inUse = c.inUse
         /\ \A u \in BOOLEAN : LET b == [c EXCEPT !.inUse = u] IN
              /\ b \in Block
              /\ b.addr = c.addr /\ b.size = c.size /\ b.inUse = u
BY DEF Block

\* Changing the size of block i changes no other block.
LEMMA Resized ==
  ASSUME NEW h \in Seq(Block), NEW i \in DOMAIN h, NEW n \in Nat
  PROVE  LET g == [h EXCEPT ![i].size = n] IN
         /\ g \in Seq(Block) /\ Len(g) = Len(h)
         /\ g[i].addr = h[i].addr /\ g[i].size = n /\ g[i].inUse = h[i].inUse
         /\ \A k \in DOMAIN h : k # i => g[k] = h[k]
<1> DEFINE b == [h[i] EXCEPT !.size = n]
<1>1. /\ b \in Block
      /\ b.addr = h[i].addr /\ b.size = n /\ b.inUse = h[i].inUse
  BY BlockFields, BlockUpdate
<1>2. [h EXCEPT ![i].size = n] = [h EXCEPT ![i] = b]
  OBVIOUS
<1> HIDE DEF b
<1> QED  BY <1>1, <1>2, ExceptSeq

\* What cutting block i at n bytes puts in each place of the list.
LEMMA CutAt ==
  ASSUME NEW h \in Seq(Block), NEW i \in DOMAIN h, NEW n \in Nat,
         n + HDR <= h[i].size
  PROVE  LET g == Cut(h, i, n) IN
         /\ g \in Seq(Block) /\ Len(g) = Len(h) + 1
         /\ \A k \in 1 .. i - 1 : g[k] = h[k]
         /\ g[i].addr = h[i].addr /\ g[i].size = n /\ g[i].inUse = h[i].inUse
         /\ g[i + 1].addr = h[i].addr + HDR + n
         /\ g[i + 1].size = h[i].size - n - HDR
         /\ g[i + 1].inUse = FALSE
         /\ \A k \in i + 2 .. Len(h) + 1 : g[k] = h[k - 1]
<1> DEFINE cut  == [h EXCEPT ![i].size = n]
           rest == [addr  |-> h[i].addr + HDR + n,
                    size  |-> h[i].size - n - HDR,
                    inUse |-> FALSE]
           g    == InsertAt(cut, i + 1, rest)
<1>1. /\ Len(h) \in Nat /\ i \in Nat /\ 1 <= i /\ i <= Len(h)
      /\ h[i].addr \in Nat /\ h[i].size \in Nat
  BY BlockFields
<1>2. /\ cut \in Seq(Block) /\ Len(cut) = Len(h)
      /\ cut[i].addr = h[i].addr /\ cut[i].size = n /\ cut[i].inUse = h[i].inUse
      /\ \A k \in DOMAIN h : k # i => cut[k] = h[k]
  BY Resized
<1>3. rest \in Block
  <2>1. h[i].addr + HDR + n \in Nat /\ h[i].size - n - HDR \in Nat
    BY <1>1 DEF HDR
  <2> QED  BY <2>1, BlockRecord
<1>4. i + 1 \in 1 .. Len(cut) + 1
  BY <1>1, <1>2
<1>5. Cut(h, i, n) = g
  BY DEF Cut
<1>6. /\ rest.addr = h[i].addr + HDR + n
      /\ rest.size = h[i].size - n - HDR
      /\ rest.inUse = FALSE
  OBVIOUS
<1> HIDE DEF cut, rest
<1>7. /\ g \in Seq(Block) /\ Len(g) = Len(h) + 1
      /\ \A k \in 1 .. Len(h) + 1 :
           g[k] = IF k < i + 1 THEN cut[k]
                  ELSE IF k = i + 1 THEN rest ELSE cut[k - 1]
  <2>1. cut \in Seq(Block) /\ Len(cut) = Len(h)
    BY <1>2
  <2>2. IsInsert(g, cut, i + 1, rest)
    BY <2>1, <1>3, <1>4, InsertAtProps
  <2> QED  BY <2>1, <2>2 DEF IsInsert
<1> HIDE DEF g
<1>8. g[i] = cut[i] /\ g[i + 1] = rest
  BY <1>1, <1>7
<1>9. \A k \in 1 .. i - 1 : g[k] = h[k]
  BY <1>1, <1>2, <1>7
<1>10. ASSUME NEW k \in i + 2 .. Len(h) + 1
       PROVE  g[k] = h[k - 1]
  <2>1. k - 1 \in DOMAIN h /\ k - 1 # i /\ k \in 1 .. Len(h) + 1 /\ k > i + 1
    BY <1>1
  <2>2. g[k] = cut[k - 1]
    BY <1>1, <1>7, <2>1
  <2> QED  BY <1>2, <2>1, <2>2
<1> QED  BY <1>2, <1>5, <1>6, <1>7, <1>8, <1>9, <1>10

\* g is h with block i cut at n bytes.
IsCut(g, h, i, n) ==
  /\ Good(g)
  /\ i \in DOMAIN g /\ i + 1 \in DOMAIN g
  /\ g[i].addr = h[i].addr /\ g[i].size = n /\ g[i].inUse = h[i].inUse
  /\ g[i + 1].addr = h[i].addr + HDR + n
  /\ g[i + 1].size = h[i].size - n - HDR
  /\ g[i + 1].inUse = FALSE
  /\ \A k \in 1 .. i - 1 : g[k] = h[k]
  /\ Others(g, i) = Others(h, i)

\* Cutting a block that has room for a header keeps the list in order and
\* every other in-use block as it was.
LEMMA CutGood ==
  ASSUME NEW h, Good(h), NEW i \in DOMAIN h, NEW n \in Nat,
         n + HDR <= h[i].size
  PROVE  IsCut(Cut(h, i, n), h, i, n)
<1> DEFINE g == Cut(h, i, n)
<1>1. h \in Seq(Block) /\ Ordered(h)
  BY DEF Good
<1>2. /\ g \in Seq(Block) /\ Len(g) = Len(h) + 1
      /\ \A k \in 1 .. i - 1 : g[k] = h[k]
      /\ g[i].addr = h[i].addr /\ g[i].size = n /\ g[i].inUse = h[i].inUse
      /\ g[i + 1].addr = h[i].addr + HDR + n
      /\ g[i + 1].size = h[i].size - n - HDR
      /\ g[i + 1].inUse = FALSE
      /\ \A k \in i + 2 .. Len(h) + 1 : g[k] = h[k - 1]
  BY <1>1, CutAt
<1> HIDE DEF g
<1>3. /\ Len(h) \in Nat /\ i \in Nat /\ 1 <= i /\ i <= Len(h)
      /\ h[i].addr \in Nat /\ h[i].size \in Nat
      /\ DOMAIN h = 1 .. Len(h) /\ DOMAIN g = 1 .. Len(h) + 1
  BY <1>1, <1>2, BlockFields
<1>14. /\ Len(h) \in Nat /\ i \in Nat /\ 1 <= i /\ i <= Len(h)
       /\ DOMAIN h = 1 .. Len(h) /\ DOMAIN g = 1 .. Len(h) + 1
  BY <1>3
<1>12. ASSUME NEW k \in DOMAIN g, k < i
       PROVE  k \in DOMAIN h /\ g[k] = h[k]
  <2>1. k \in 1 .. i - 1 /\ k \in DOMAIN h
    BY <1>12, <1>14
  <2> QED  BY <1>2, <2>1
<1>13. ASSUME NEW k \in DOMAIN g, k > i + 1
       PROVE  k - 1 \in DOMAIN h /\ g[k] = h[k - 1] /\ i < k - 1 /\ k \in Int
  <2>1. k \in i + 2 .. Len(h) + 1 /\ k - 1 \in DOMAIN h /\ i < k - 1 /\ k \in Int
    BY <1>13, <1>14
  <2> QED  BY <1>2, <2>1
<1>15. ASSUME NEW l \in DOMAIN h, l > i
       PROVE  l + 1 \in DOMAIN g /\ g[l + 1] = h[l] /\ l + 1 # i
  <2>1. l + 1 \in i + 2 .. Len(h) + 1 /\ l + 1 \in DOMAIN g /\ (l + 1) - 1 = l /\ l + 1 # i
    BY <1>14, <1>15
  <2>2. g[l + 1] = h[(l + 1) - 1]
    BY <1>2, <2>1
  <2> QED  BY <2>1, <2>2
<1>16. ASSUME NEW l \in DOMAIN h, l < i
       PROVE  l \in DOMAIN g /\ g[l] = h[l]
  <2>1. l \in 1 .. i - 1 /\ l \in DOMAIN g
    BY <1>14, <1>16
  <2> QED  BY <1>2, <2>1
<1>4. \A k \in DOMAIN h : h[k].addr \in Nat /\ h[k].size \in Nat
  BY <1>1, BlockFields
<1>10. /\ End(g[i]) = g[i + 1].addr
      /\ End(g[i + 1]) = End(h[i])
      /\ End(g[i]) <= End(h[i])
      /\ h[i].addr <= g[i + 1].addr
      /\ g[i + 1].addr \in Nat
  <2> DEFINE x == h[i].addr
             y == h[i].size
  <2>1. x \in Nat /\ y \in Nat /\ n + HDR <= y
    BY <1>3
  <2>2. /\ End(g[i]) = x + HDR + n /\ g[i + 1].addr = x + HDR + n
        /\ End(g[i + 1]) = (x + HDR + n) + HDR + (y - n - HDR)
        /\ End(h[i]) = x + HDR + y
    BY <1>2 DEF End
  <2> HIDE DEF x, y
  <2>3. /\ (x + HDR + n) + HDR + (y - n - HDR) = x + HDR + y
        /\ x + HDR + n <= x + HDR + y /\ x <= x + HDR + n
        /\ x + HDR + n \in Nat
    BY <2>1 DEF HDR
  <2> QED  BY <2>2, <2>3 DEF x
<1>11. \A k \in DOMAIN h : End(h[k]) \in Nat
  BY <1>4 DEF End, HDR
<1>5. ASSUME NEW k \in DOMAIN g, NEW l \in DOMAIN g, k < l
      PROVE  End(g[k]) <= g[l].addr
  <2>1. CASE l < i
    <3>1. k < i
      BY <1>14, <1>5, <2>1
    <3>2. /\ k \in DOMAIN h /\ g[k] = h[k]
          /\ l \in DOMAIN h /\ g[l] = h[l]
      BY <1>12, <2>1, <3>1
    <3> QED  BY <1>1, <1>5, <3>2 DEF Ordered
  <2>2. CASE l = i
    <3>1. k \in DOMAIN h /\ g[k] = h[k]
      BY <1>12, <1>5, <2>2
    <3> QED  BY <1>1, <1>2, <1>5, <2>2, <3>1 DEF Ordered
  <2>3. CASE l = i + 1
    <3>1. CASE k = i
      BY <1>10, <2>3, <3>1
    <3>2. CASE k < i
      <4>1. k \in DOMAIN h /\ g[k] = h[k]
        BY <1>12, <3>2
      <4>2. End(h[k]) <= h[i].addr
        BY <1>1, <3>2, <4>1 DEF Ordered
      <4> QED  BY <1>10, <1>11, <1>3, <2>3, <4>1, <4>2
    <3> QED  BY <1>3, <1>5, <2>3, <3>1, <3>2
  <2>4. CASE l > i + 1
    <3>1. l - 1 \in DOMAIN h /\ g[l] = h[l - 1] /\ i < l - 1 /\ l \in Int
      BY <1>13, <2>4
    <3>2. CASE k < i
      <4>1. k \in DOMAIN h /\ g[k] = h[k]
        BY <1>12, <3>2
      <4>2. k < l - 1
        BY <1>14, <3>1, <3>2
      <4> QED  BY <1>1, <3>1, <4>1, <4>2 DEF Ordered
    <3>3. End(h[i]) <= h[l - 1].addr
      BY <1>1, <3>1 DEF Ordered
    <3>4. CASE k = i
      BY <1>10, <1>11, <1>4, <3>1, <3>3, <3>4
    <3>5. CASE k = i + 1
      BY <1>10, <3>1, <3>3, <3>5
    <3>6. CASE k > i + 1
      <4>0. k - 1 \in DOMAIN h /\ g[k] = h[k - 1] /\ k \in Int
        BY <1>13, <3>6
      <4>1. k - 1 < l - 1
        BY <1>5, <3>1, <4>0
      <4> QED  BY <1>1, <3>1, <4>0, <4>1 DEF Ordered
    <3>7. k < i \/ k = i \/ k = i + 1 \/ k > i + 1
      BY <1>14
    <3> QED  BY <3>2, <3>4, <3>5, <3>6, <3>7
  <2> QED  BY <1>3, <2>1, <2>2, <2>3, <2>4
<1>6. Others(g, i) = Others(h, i)
  <2>1. ASSUME NEW k \in DOMAIN g, k # i, g[k].inUse
        PROVE  \E l \in DOMAIN h : l # i /\ h[l] = g[k]
    <3>1. CASE k < i
      BY <1>12, <2>1, <3>1
    <3>2. CASE k > i + 1
      <4>1. k - 1 \in DOMAIN h /\ i < k - 1 /\ h[k - 1] = g[k]
        BY <1>13, <3>2
      <4>2. k - 1 # i
        BY <1>14, <4>1
      <4> QED  BY <4>1, <4>2
    <3>3. k # i + 1
      BY <1>2, <2>1
    <3>4. k < i \/ k > i + 1
      BY <1>14, <2>1, <3>3
    <3> QED  BY <3>1, <3>2, <3>4
  <2>2. ASSUME NEW l \in DOMAIN h, l # i
        PROVE  \E k \in DOMAIN g : k # i /\ g[k] = h[l]
    <3>1. CASE l < i
      BY <1>16, <2>2, <3>1
    <3>2. CASE l > i
      BY <1>15, <3>2
    <3>3. l < i \/ l > i
      BY <1>14, <2>2
    <3> QED  BY <3>1, <3>2, <3>3
  <2> QED  BY <2>1, <2>2 DEF Others
<1>7. i \in DOMAIN g /\ i + 1 \in DOMAIN g
  BY <1>3
<1>8. Good(g)
  BY <1>2, <1>5 DEF Good, Ordered
<1>9. IsCut(g, h, i, n)
  BY <1>2, <1>6, <1>7, <1>8 DEF IsCut
<1> QED  BY <1>9 DEF g

\* What merging block i with its successor puts in each place of the list.
LEMMA MergeAt ==
  ASSUME NEW h \in Seq(Block), NEW i \in DOMAIN h, i + 1 \in DOMAIN h
  PROVE  LET g == Merge(h, i) IN
         /\ g \in Seq(Block) /\ Len(g) = Len(h) - 1
         /\ \A k \in 1 .. i - 1 : g[k] = h[k]
         /\ g[i].addr = h[i].addr /\ g[i].inUse = h[i].inUse
         /\ g[i].size = h[i].size + h[i + 1].size + HDR
         /\ \A k \in i + 1 .. Len(h) - 1 : g[k] = h[k + 1]
<1> DEFINE n   == h[i].size + h[i + 1].size + HDR
           big == [h EXCEPT ![i].size = n]
           g   == RemoveAt(big, i + 1)
<1>1. /\ Len(h) \in Nat /\ i \in Nat /\ 1 <= i /\ i + 1 <= Len(h)
      /\ DOMAIN h = 1 .. Len(h)
      /\ h[i].size \in Nat /\ h[i + 1].size \in Nat
  BY BlockFields
<1>2. n \in Nat
  BY <1>1 DEF HDR
<1>3. Merge(h, i) = g
  BY DEF Merge
<1> HIDE DEF n
<1>4. /\ big \in Seq(Block) /\ Len(big) = Len(h)
      /\ big[i].addr = h[i].addr /\ big[i].size = n /\ big[i].inUse = h[i].inUse
      /\ \A k \in DOMAIN h : k # i => big[k] = h[k]
  BY <1>2, Resized
<1> HIDE DEF big
<1>5. i + 1 \in 1 .. Len(big)
  BY <1>1, <1>4
<1>6. IsRemove(g, big, i + 1)
  BY <1>4, <1>5, RemoveAtProps
<1> HIDE DEF g
<1>7. /\ g \in Seq(Block) /\ Len(g) = Len(h) - 1
      /\ \A k \in 1 .. Len(h) - 1 :
           g[k] = IF k < i + 1 THEN big[k] ELSE big[k + 1]
  BY <1>4, <1>6 DEF IsRemove
<1>8. g[i] = big[i]
  BY <1>1, <1>7
<1>9. ASSUME NEW k \in 1 .. i - 1
      PROVE  g[k] = h[k]
  <2>1. k \in DOMAIN h /\ k # i /\ k \in 1 .. Len(h) - 1 /\ k < i + 1
    BY <1>1
  <2>2. g[k] = big[k]
    BY <1>7, <2>1
  <2> QED  BY <1>4, <2>1, <2>2
<1>10. ASSUME NEW k \in i + 1 .. Len(h) - 1
       PROVE  g[k] = h[k + 1]
  <2>1. k + 1 \in DOMAIN h /\ k + 1 # i /\ k \in 1 .. Len(h) - 1 /\ k >= i + 1
    BY <1>1
  <2>2. g[k] = big[k + 1]
    BY <1>1, <1>7, <2>1
  <2> QED  BY <1>4, <2>1, <2>2
<1> QED  BY <1>3, <1>4, <1>7, <1>8, <1>9, <1>10 DEF n

\* Merging a free successor keeps the list in order and every other in-use
\* block as it was.
LEMMA MergeGood ==
  ASSUME NEW h, Good(h), NEW i \in DOMAIN h, i + 1 \in DOMAIN h,
         ~h[i + 1].inUse
  PROVE  LET g == Merge(h, i) IN
         /\ Good(g)
         /\ i \in DOMAIN g
         /\ g[i].addr = h[i].addr /\ g[i].inUse = h[i].inUse
         /\ g[i].size = h[i].size + h[i + 1].size + HDR
         /\ Others(g, i) = Others(h, i)
<1> DEFINE g == Merge(h, i)
<1>1. h \in Seq(Block) /\ Ordered(h)
  BY DEF Good
<1>2. /\ g \in Seq(Block) /\ Len(g) = Len(h) - 1
      /\ \A k \in 1 .. i - 1 : g[k] = h[k]
      /\ g[i].addr = h[i].addr /\ g[i].inUse = h[i].inUse
      /\ g[i].size = h[i].size + h[i + 1].size + HDR
      /\ \A k \in i + 1 .. Len(h) - 1 : g[k] = h[k + 1]
  BY <1>1, MergeAt
<1> HIDE DEF g
<1>3. /\ Len(h) \in Nat /\ i \in Nat /\ 1 <= i /\ i + 1 <= Len(h)
      /\ DOMAIN h = 1 .. Len(h) /\ DOMAIN g = 1 .. Len(h) - 1
  BY <1>1, <1>2, BlockFields
<1>4. \A k \in DOMAIN h : /\ h[k].addr \in Nat /\ h[k].size \in Nat
                         /\ End(h[k]) \in Nat
  BY <1>1, BlockFields DEF End, HDR
<1>5. End(g[i]) <= End(h[i + 1]) /\ End(g[i]) \in Nat
  <2> DEFINE x == h[i].addr
             y == h[i].size
             v == h[i + 1].addr
             w == h[i + 1].size
  <2>1. x \in Nat /\ y \in Nat /\ v \in Nat /\ w \in Nat
    BY <1>3, <1>4
  <2>2. x + HDR + y <= v
    <3>1. i < i + 1
      BY <1>3
    <3> QED  BY <1>1, <3>1 DEF Ordered, End
  <2>3. End(g[i]) = x + HDR + (y + w + HDR) /\ End(h[i + 1]) = v + HDR + w
    BY <1>2 DEF End
  <2> HIDE DEF x, y, v, w
  <2>4. x + HDR + (y + w + HDR) <= v + HDR + w /\ x + HDR + (y + w + HDR) \in Nat
    BY <2>1, <2>2 DEF HDR
  <2> QED  BY <2>3, <2>4
<1>6. ASSUME NEW k \in DOMAIN g, NEW l \in DOMAIN g, k < l
      PROVE  End(g[k]) <= g[l].addr
  <2>1. CASE l <= i
    <3>1. k \in 1 .. i - 1 /\ k \in DOMAIN h /\ g[k] = h[k]
      BY <1>2, <1>3, <1>6, <2>1
    <3>2. l \in DOMAIN h /\ g[l].addr = h[l].addr
      <4>1. CASE l = i
        BY <1>2, <1>3, <4>1
      <4>2. CASE l \in 1 .. i - 1
        BY <1>2, <1>3, <4>2
      <4> QED  BY <1>3, <2>1, <4>1, <4>2
    <3> QED  BY <1>1, <1>6, <3>1, <3>2 DEF Ordered
  <2>2. CASE l > i
    <3>1. l + 1 \in DOMAIN h /\ g[l] = h[l + 1] /\ i + 1 < l + 1
      BY <1>2, <1>3, <2>2
    <3>2. CASE k \in 1 .. i - 1
      <4>1. k \in DOMAIN h /\ g[k] = h[k] /\ k < l + 1
        BY <1>2, <1>3, <1>6, <3>2
      <4> QED  BY <1>1, <3>1, <4>1 DEF Ordered
    <3>3. CASE k = i
      <4>1. End(h[i + 1]) <= h[l + 1].addr
        BY <1>1, <3>1 DEF Ordered
      <4> QED  BY <1>3, <1>4, <1>5, <3>1, <3>3, <4>1
    <3>4. CASE k > i
      <4>1. k + 1 \in DOMAIN h /\ g[k] = h[k + 1] /\ k + 1 < l + 1
        BY <1>2, <1>3, <1>6, <3>4
      <4> QED  BY <1>1, <3>1, <4>1 DEF Ordered
    <3> QED  BY <1>3, <3>2, <3>3, <3>4
  <2> QED  BY <1>3, <2>1, <2>2
<1>7. Others(g, i) = Others(h, i)
  <2>1. ASSUME NEW k \in DOMAIN g, k # i
        PROVE  \E l \in DOMAIN h : l # i /\ h[l] = g[k]
    <3>1. CASE k < i
      BY <1>2, <1>3, <3>1
    <3>2. CASE k > i
      <4>1. k + 1 \in DOMAIN h /\ k + 1 # i /\ h[k + 1] = g[k]
        BY <1>2, <1>3, <3>2
      <4> QED  BY <4>1
    <3> QED  BY <1>3, <2>1, <3>1, <3>2
  <2>2. ASSUME NEW l \in DOMAIN h, l # i, h[l].inUse
        PROVE  \E k \in DOMAIN g : k # i /\ g[k] = h[l]
    <3>1. CASE l < i
      BY <1>2, <1>3, <3>1
    <3>2. CASE l > i + 1
      <4>1. l - 1 \in DOMAIN g /\ l - 1 # i /\ l - 1 \in i + 1 .. Len(h) - 1
            /\ (l - 1) + 1 = l
        BY <1>3, <3>2
      <4>2. g[l - 1] = h[l]
        BY <1>2, <4>1
      <4> QED  BY <4>1, <4>2
    <3>3. l # i + 1
      BY <2>2
    <3> QED  BY <1>3, <2>2, <3>1, <3>2, <3>3
  <2> QED  BY <2>1, <2>2 DEF Others
<1>8. i \in DOMAIN g
  BY <1>3
<1> QED  BY <1>2, <1>6, <1>7, <1>8 DEF Good, Ordered, g

\* Setting a block's mark moves nothing.
LEMMA MarkGood ==
  ASSUME NEW h, Good(h), NEW i \in DOMAIN h, NEW u \in BOOLEAN
  PROVE  LET g == [h EXCEPT ![i].inUse = u] IN
         /\ Good(g)
         /\ DOMAIN g = DOMAIN h
         /\ g[i].addr = h[i].addr /\ g[i].size = h[i].size /\ g[i].inUse = u
         /\ \A k \in DOMAIN h : k # i => g[k] = h[k]
         /\ Others(g, i) = Others(h, i)
<1> DEFINE b == [h[i] EXCEPT !.inUse = u]
           g == [h EXCEPT ![i] = b]
<1>1. h \in Seq(Block) /\ Ordered(h)
  BY DEF Good
<1>2. /\ b \in Block
      /\ b.addr = h[i].addr /\ b.size = h[i].size /\ b.inUse = u
  BY <1>1, BlockFields, BlockUpdate
<1>3. [h EXCEPT ![i].inUse = u] = g
  OBVIOUS
<1> HIDE DEF b
<1>4. /\ g \in Seq(Block) /\ DOMAIN g = DOMAIN h /\ g[i] = b
      /\ \A k \in DOMAIN h : k # i => g[k] = h[k]
  BY <1>1, <1>2, ExceptSeq
<1> HIDE DEF g
<1>5. \A k \in DOMAIN h : End(g[k]) = End(h[k]) /\ g[k].addr = h[k].addr
  BY <1>2, <1>4 DEF End
<1>6. Ordered(g)
  BY <1>1, <1>4, <1>5 DEF Ordered
<1>7. Others(g, i) = Others(h, i)
  BY <1>4 DEF Others
<1> QED  BY <1>2, <1>3, <1>4, <1>6, <1>7 DEF Good

\* g is h with block i cut down to n bytes, if it was large enough to cut.
IsSplit(g, h, i, n) ==
  /\ Good(g)
  /\ i \in DOMAIN g
  /\ g[i].addr = h[i].addr /\ g[i].inUse = h[i].inUse
  /\ n <= g[i].size
  /\ \A k \in 1 .. i - 1 : g[k] = h[k]
  /\ Others(g, i) = Others(h, i)

\* malloc's split keeps the list in order, and block i keeps n bytes or more.
LEMMA SplitGood ==
  ASSUME NEW h, Good(h), NEW i \in DOMAIN h, NEW n \in Nat, n <= h[i].size
  PROVE  IsSplit(Split(h, i, n), h, i, n)
<1>1. CASE ~(h[i].size > n + HDR)
  <2>1. Split(h, i, n) = h
    BY <1>1 DEF Split
  <2> QED  BY <2>1 DEF IsSplit
<1>2. CASE h[i].size > n + HDR
  <2>1. h \in Seq(Block) /\ h[i].size \in Nat
    BY BlockFields DEF Good
  <2>2. n + HDR <= h[i].size
    BY <1>2, <2>1 DEF HDR
  <2>3. Split(h, i, n) = Cut(h, i, n)
    BY <1>2 DEF Split
  <2> DEFINE g == Cut(h, i, n)
  <2>4. /\ Good(g) /\ i \in DOMAIN g
        /\ g[i].addr = h[i].addr /\ g[i].size = n /\ g[i].inUse = h[i].inUse
        /\ \A k \in 1 .. i - 1 : g[k] = h[k]
        /\ Others(g, i) = Others(h, i)
    <3>1. IsCut(g, h, i, n)
      BY <2>2, CutGood
    <3> HIDE DEF g
    <3> QED  BY <3>1 DEF IsCut
  <2> HIDE DEF g
  <2>5. n <= g[i].size
    BY <2>4
  <2>6. Split(h, i, n) = g
    BY <2>3 DEF g
  <2>7. IsSplit(g, h, i, n)
    BY <2>4, <2>5 DEF IsSplit
  <2> QED  BY <2>6, <2>7
<1> QED  BY <1>1, <1>2

\* g is h with block i, free in h, handed out for n bytes.
IsTake(g, h, i, n) ==
  /\ Good(g)
  /\ i \in DOMAIN g
  /\ g[i].addr = h[i].addr /\ g[i].inUse = TRUE
  /\ n <= g[i].size
  /\ \A k \in 1 .. i - 1 : g[k] = h[k]
  /\ Others(g, i) = Used(h)
  /\ Used(g) = Used(h) \cup {g[i]}

\* Taking n bytes from a free block adds one in-use block and no other.
LEMMA TakeGood ==
  ASSUME NEW h, Good(h), NEW i \in DOMAIN h, NEW n \in Nat,
         n <= h[i].size, ~h[i].inUse
  PROVE  IsTake(Take(h, i, n), h, i, n)
<1> DEFINE f == Split(h, i, n)
           g == [f EXCEPT ![i].inUse = TRUE]
<1>1. /\ Good(f) /\ i \in DOMAIN f
      /\ f[i].addr = h[i].addr /\ n <= f[i].size
      /\ \A k \in 1 .. i - 1 : f[k] = h[k]
      /\ Others(f, i) = Others(h, i)
  <2>1. IsSplit(f, h, i, n)
    BY SplitGood
  <2> HIDE DEF f
  <2> QED  BY <2>1 DEF IsSplit
<1>2. Take(h, i, n) = g
  BY DEF Take, MarkUsed
<1> HIDE DEF f
<1>3. /\ Good(g) /\ DOMAIN g = DOMAIN f
      /\ g[i].addr = f[i].addr /\ g[i].size = f[i].size /\ g[i].inUse = TRUE
      /\ \A k \in DOMAIN f : k # i => g[k] = f[k]
      /\ Others(g, i) = Others(f, i)
  BY <1>1, MarkGood
<1> HIDE DEF g
<1>4. Used(h) = Others(h, i)
  BY UsedIsOthers
<1>7. \A k \in 1 .. i - 1 : g[k] = h[k]
  <2>1. f \in Seq(Block) /\ i \in 1 .. Len(f)
    BY <1>1 DEF Good
  <2>2. \A k \in 1 .. i - 1 : k \in DOMAIN f /\ k # i
    BY <2>1
  <2> QED  BY <1>1, <1>3, <2>2
<1>5. Used(g) = Others(g, i) \cup {g[i]}
  BY <1>1, <1>3, UsedIsOthers
<1>6. IsTake(g, h, i, n)
  BY <1>1, <1>3, <1>4, <1>5, <1>7 DEF IsTake
<1> QED  BY <1>2, <1>6

\* Merging two free blocks leaves the in-use blocks as they were.
LEMMA MergePrevGood ==
  ASSUME NEW h, Good(h), NEW i \in DOMAIN h, ~h[i].inUse
  PROVE  /\ Good(MergePrev(h, i))
         /\ Used(MergePrev(h, i)) = Used(h)
<1>1. CASE ~HasFree(h, i - 1)
  BY <1>1 DEF MergePrev
<1>2. CASE HasFree(h, i - 1)
  <2> DEFINE j == i - 1
             g == Merge(h, j)
  <2>1. j \in DOMAIN h /\ ~h[j].inUse /\ MergePrev(h, i) = g
    BY <1>2 DEF MergePrev, HasFree
  <2>2. j + 1 = i
    BY DEF Good
  <2> HIDE DEF j
  <2>3. /\ Good(g) /\ j \in DOMAIN g
        /\ g[j].inUse = h[j].inUse /\ Others(g, j) = Others(h, j)
    BY <2>1, <2>2, MergeGood
  <2> HIDE DEF g
  <2>4. ~g[j].inUse
    BY <2>1, <2>3, Zenon
  <2>5. Used(g) = Others(g, j)
    BY <2>3, <2>4, UsedIsOthers
  <2>6. Used(h) = Others(h, j)
    BY <2>1, UsedIsOthers
  <2> QED  BY <2>1, <2>3, <2>5, <2>6
<1> QED  BY <1>1, <1>2

\* Giving a block back removes it from the in-use blocks, and no other.
LEMMA ReleaseGood ==
  ASSUME NEW h, Good(h), NEW i \in DOMAIN h, h[i].inUse
  PROVE  /\ Good(Release(h, i))
         /\ Used(Release(h, i)) = Used(h) \ {h[i]}
<1> DEFINE f == [h EXCEPT ![i].inUse = FALSE]
           g == MergeNext(f, i)
<1>1. /\ Good(f) /\ i \in DOMAIN f /\ ~f[i].inUse
      /\ Others(f, i) = Others(h, i)
  BY MarkGood
<1>2. Release(h, i) = MergePrev(g, i)
  BY DEF Release, MarkFree
<1> HIDE DEF f
<1>3. /\ Good(g) /\ i \in DOMAIN g /\ ~g[i].inUse
      /\ Others(g, i) = Others(f, i)
  <2>1. CASE ~HasFree(f, i + 1)
    BY <1>1, <2>1 DEF MergeNext
  <2>2. CASE HasFree(f, i + 1)
    BY <1>1, <2>2, MergeGood DEF MergeNext, HasFree
  <2> QED  BY <2>1, <2>2
<1> HIDE DEF g
<1>4. Good(MergePrev(g, i)) /\ Used(MergePrev(g, i)) = Used(g)
  BY <1>3, MergePrevGood
<1>5. Used(g) = Others(g, i)
  BY <1>3, UsedIsOthers
<1>6. Used(h) = Others(h, i) \cup {h[i]} /\ h[i] \notin Others(h, i)
  BY UsedIsOthers
<1> QED  BY <1>1, <1>2, <1>3, <1>4, <1>5, <1>6

-----------------------------------------------------------------------------
(* The list and the clients' view *)

\* No two blocks of an ordered list start at the same address.
LEMMA SameAddress ==
  ASSUME NEW h, Good(h), NEW i \in DOMAIN h, NEW k \in DOMAIN h,
         h[i].addr = h[k].addr
  PROVE  i = k
<1>1. h \in Seq(Block)
  BY DEF Good
<1>2. /\ h[i].addr \in Nat /\ h[k].addr \in Nat /\ h[i].size \in Nat
      /\ h[k].size \in Nat /\ i \in Nat /\ k \in Nat
  BY <1>1, BlockFields
<1>3. /\ i < k => End(h[i]) <= h[k].addr
      /\ k < i => End(h[k]) <= h[i].addr
  BY DEF Good, Ordered
<1>4. /\ End(h[i]) > h[i].addr /\ End(h[k]) > h[k].addr
      /\ End(h[i]) \in Nat /\ End(h[k]) \in Nat
  BY <1>2 DEF End, HDR
<1>5. ~(i < k) /\ ~(k < i)
  BY <1>2, <1>3, <1>4
<1> QED  BY <1>2, <1>5

\* No two in-use blocks of an ordered list have the same pointer.
LEMMA UsedBlock ==
  ASSUME NEW h, Good(h)
  PROVE  /\ \A b \in Used(h) : b.addr \in Nat /\ b.size \in Nat
         /\ \A b, c \in Used(h) : Pointer(b) = Pointer(c) => b = c
<1>1. \A b \in Used(h) : b.addr \in Nat /\ b.size \in Nat
  BY DEF Used, Block
<1>2. ASSUME NEW b \in Used(h), NEW c \in Used(h), Pointer(b) = Pointer(c)
      PROVE  b = c
  <2>1. PICK i \in DOMAIN h : h[i] = b
    BY DEF Used
  <2>2. PICK j \in DOMAIN h : h[j] = c
    BY DEF Used
  <2>3. b.addr = c.addr
    BY <1>1, <1>2 DEF Pointer, HDR
  <2>4. i = j
    BY <2>1, <2>2, <2>3, SameAddress
  <2> QED  BY <2>1, <2>2, <2>4
<1> QED  BY <1>1, <1>2

\* The client's view in terms of the in-use blocks.
Matches(h, f) ==
  /\ \A p \in DOMAIN f : \E b \in Used(h) : Pointer(b) = p /\ f[p].size <= b.size
  /\ \A b \in Used(h) : Pointer(b) \in DOMAIN f

\* The inductive form says what LiveBacked and UsedOwned say.
LEMMA MatchesIff ==
  ASSUME NEW h \in Seq(Block), NEW f
  PROVE  Matches(h, f) <=> Backed(h, f) /\ AllOwned(h, f)
<1>1. \A i \in DOMAIN h : h[i] \in Block
  OBVIOUS
<1> QED  BY <1>1 DEF Matches, Backed, AllOwned, Used

\* A pointer that a client holds leads free and realloc to an in-use block of
\* the size the client asked for, or more.
LEMMA BlockOfProps ==
  ASSUME NEW h, Good(h), NEW f, Matches(h, f), NEW p \in DOMAIN f
  PROVE  LET i == BlockOf(h, p) IN
         /\ i \in DOMAIN h /\ Pointer(h[i]) = p
         /\ h[i].inUse /\ h[i] \in Used(h)
         /\ f[p].size <= h[i].size
<1>1. PICK b \in Used(h) : Pointer(b) = p /\ f[p].size <= b.size
  BY DEF Matches
<1>2. PICK k \in DOMAIN h : h[k] = b /\ b.inUse
  BY DEF Used
<1> DEFINE i == BlockOf(h, p)
<1>3. i \in DOMAIN h /\ Pointer(h[i]) = p
  BY <1>1, <1>2 DEF BlockOf
<1> HIDE DEF i
<1>4. h \in Seq(Block)
  BY DEF Good
<1>5. /\ h[i].addr \in Nat /\ h[k].addr \in Nat /\ h[i].size \in Nat
      /\ h[k].size \in Nat /\ i \in Nat /\ k \in Nat
  BY <1>2, <1>3, <1>4, BlockFields
<1>6. h[i].addr = h[k].addr
  BY <1>1, <1>2, <1>3, <1>5 DEF Pointer, HDR
<1>7. i = k
  BY <1>2, <1>3, <1>6, SameAddress
<1> QED  BY <1>1, <1>2, <1>3, <1>7 DEF i

\* A free block's address is nobody's pointer.
LEMMA FreeNotHeld ==
  ASSUME NEW h, Good(h), NEW f, Matches(h, f), NEW i \in DOMAIN h, ~h[i].inUse
  PROVE  Pointer(h[i]) \notin DOMAIN f
<1> SUFFICES ASSUME Pointer(h[i]) \in DOMAIN f PROVE FALSE
  OBVIOUS
<1> DEFINE p == Pointer(h[i])
<1>1. PICK b \in Used(h) : Pointer(b) = p
  BY DEF Matches
<1>2. PICK k \in DOMAIN h : h[k] = b /\ b.inUse
  BY DEF Used
<1>3. h \in Seq(Block)
  BY DEF Good
<1>4. /\ h[i].addr \in Nat /\ h[k].addr \in Nat /\ h[i].size \in Nat
      /\ h[k].size \in Nat /\ i \in Nat /\ k \in Nat
  BY <1>2, <1>3, BlockFields
<1>5. h[i].addr = h[k].addr
  BY <1>1, <1>2, <1>4 DEF Pointer, HDR
<1>6. i = k
  BY <1>2, <1>5, SameAddress
<1> QED  BY <1>2, <1>6

\* A new in-use block, handed to a client, keeps list and clients in step.
LEMMA HoldMatches ==
  ASSUME NEW h, NEW g, NEW f, Matches(h, f), NEW b,
         Used(g) = Used(h) \cup {b}, NEW n, NEW a, n <= b.size
  PROVE  Matches(g, Hold(f, Pointer(b), n, a))
BY DEF Matches, Hold

\* So does giving a client's block back,
LEMMA DropMatches ==
  ASSUME NEW h, Good(h), NEW g, NEW f, Matches(h, f), NEW b \in Used(h),
         Used(g) = Used(h) \ {b}
  PROVE  Matches(g, Drop(f, Pointer(b)))
<1>1. \A c \in Used(h) : Pointer(c) = Pointer(b) => c = b
  BY UsedBlock
<1> QED  BY <1>1 DEF Matches, Drop

\* and resizing one in place.
LEMMA ResizeMatches ==
  ASSUME NEW h, NEW g, NEW f, Matches(h, f), NEW i \in DOMAIN h, Good(h),
         NEW b, Used(g) = Others(h, i) \cup {b}, b.addr = h[i].addr, h[i].inUse,
         NEW n, n <= b.size,
         \A q \in DOMAIN f : f[q] \in [size : Nat, align : Nat]
  PROVE  Matches(g, [f EXCEPT ![Pointer(b)].size = n])
<1> DEFINE p == Pointer(b)
<1>1. Used(h) = Others(h, i) \cup {h[i]} /\ h[i] \notin Others(h, i)
  BY UsedIsOthers
<1>2. Pointer(h[i]) = p
  BY DEF Pointer
<1>3. p \in DOMAIN f
  BY <1>1, <1>2 DEF Matches
<1>4. \A c \in Others(h, i) : Pointer(c) # p
  BY <1>1, <1>2, UsedBlock
<1>5. ASSUME NEW q \in DOMAIN f
      PROVE  \E c \in Used(g) : /\ Pointer(c) = q
                               /\ [f EXCEPT ![p].size = n][q].size <= c.size
  <2>1. CASE q = p
    <3>1. f[p] \in [size : Nat, align : Nat]
      BY <1>3
    <3>2. [f EXCEPT ![p].size = n][p].size = n
      BY <1>3, <3>1
    <3>3. b \in Used(g) /\ Pointer(b) = q
      BY <2>1
    <3> HIDE DEF p
    <3> QED  BY <2>1, <3>2, <3>3
  <2>2. CASE q # p
    <3>1. PICK c \in Used(h) : Pointer(c) = q /\ f[q].size <= c.size
      BY DEF Matches
    <3>2. c \in Used(g)
      BY <1>1, <1>2, <2>2, <3>1
    <3> QED  BY <2>2, <3>1, <3>2
  <2> QED  BY <2>1, <2>2
<1>6. \A c \in Used(g) : Pointer(c) \in DOMAIN f
  BY <1>1, <1>3 DEF Matches
<1> QED  BY <1>5, <1>6 DEF Matches

-----------------------------------------------------------------------------
(* The inductive invariant *)

\* While idalloc_init runs, the blocks made so far end before every region
\* that is still to come.
Ahead ==
  \A i \in DOMAIN heap : \A k \in scan .. Len(MemoryMap) :
    Kept(MemoryMap[k]) => End(heap[i]) <= Base(MemoryMap[k])

IInv ==
  /\ TypeOK
  /\ HeapOrdered
  /\ Matches(heap, live)
  /\ LiveAligned
  /\ Ahead

\* Before idalloc_init has read a descriptor the invariant holds.
LEMMA InitIInv == Init => IInv
<1> SUFFICES ASSUME Init PROVE IInv
  OBVIOUS
<1> USE DEF Init
<1>1. TypeOK
  <2>1. scan \in 1 .. Len(MemoryMap) + 1
    BY MapAssumption
  <2> QED  BY <2>1 DEF TypeOK
<1>2. HeapOrdered /\ LiveAligned /\ Ahead
  BY DEF HeapOrdered, Ordered, LiveAligned, Ahead
<1>3. Matches(heap, live)
  BY DEF Matches, Used
<1> QED  BY <1>1, <1>2, <1>3 DEF IInv

\* Skipping a descriptor keeps the invariant.
LEMMA ScanSkipIInv == IInv /\ ScanSkip => IInv'
<1> SUFFICES ASSUME IInv, ScanSkip PROVE IInv'
  OBVIOUS
<1> USE DEF IInv, ScanSkip
<1>1. Len(MemoryMap) \in Nat
  BY MapAssumption
<1>2. TypeOK'
  BY <1>1 DEF TypeOK
<1>3. HeapOrdered' /\ LiveAligned' /\ Matches(heap, live)'
  BY DEF HeapOrdered, LiveAligned, Matches, Used
<1>4. Ahead'
  BY <1>1 DEF Ahead
<1> QED  BY <1>2, <1>3, <1>4

\* Appending a region's block keeps the list in order, for the map is sorted.
LEMMA ScanAddIInv == SortedMap /\ IInv /\ ScanAdd => IInv'
<1> SUFFICES ASSUME SortedMap, IInv, ScanAdd PROVE IInv'
  OBVIOUS
<1> USE DEF IInv, ScanAdd
<1> DEFINE d == MemoryMap[scan]
           r == RegionBlock(d)
<1>1. Len(MemoryMap) \in Nat /\ scan \in DOMAIN MemoryMap /\ d \in Descriptor
  BY MapAssumption
<1>2. Bytes(d) \in Nat /\ Base(d) \in Nat
  BY <1>1, BytesNat
<1>3. /\ r \in Block /\ r.addr = Base(d) /\ r.inUse = FALSE
  BY <1>2, BlockRecord DEF RegionBlock
<1>4. heap \in Seq(Block)
  BY DEF TypeOK
<1>5. heap' = Append(heap, r)
  OBVIOUS
<1> HIDE DEF r
<1>6. /\ heap' \in Seq(Block)
      /\ Len(heap') = Len(heap) + 1
      /\ \A k \in 1 .. Len(heap) : heap'[k] = heap[k]
      /\ heap'[Len(heap) + 1] = r
  BY <1>3, <1>4, <1>5, AppendProperties
<1>7. TypeOK'
  <2>1. scan' \in 1 .. Len(MemoryMap) + 1
    BY <1>1
  <2>2. useable' \in Nat
    BY <1>2 DEF TypeOK
  <2> QED  BY <1>6, <2>1, <2>2 DEF TypeOK
<1>8. Len(heap) \in Nat /\ DOMAIN heap = 1 .. Len(heap)
      /\ DOMAIN heap' = 1 .. Len(heap) + 1
  BY <1>4, <1>6
<1>9. HeapOrdered'
  <2> SUFFICES ASSUME NEW i \in DOMAIN heap', NEW j \in DOMAIN heap', i < j
               PROVE  End(heap'[i]) <= heap'[j].addr
    BY DEF HeapOrdered, Ordered
  <2>1. i \in DOMAIN heap /\ heap'[i] = heap[i]
    BY <1>6, <1>8
  <2>2. CASE j \in DOMAIN heap
    BY <1>6, <1>8, <2>1, <2>2 DEF HeapOrdered, Ordered
  <2>3. CASE j = Len(heap) + 1
    <3>1. End(heap[i]) <= Base(d)
      <4>1. scan \in scan .. Len(MemoryMap) /\ Kept(MemoryMap[scan])
        BY <1>1
      <4> QED  BY <2>1, <4>1 DEF Ahead
    <3> QED  BY <1>3, <1>6, <2>1, <2>3, <3>1
  <2> QED  BY <1>8, <2>2, <2>3
<1>10. Ahead'
  <2> SUFFICES ASSUME NEW i \in DOMAIN heap',
                      NEW k \in scan' .. Len(MemoryMap), Kept(MemoryMap[k])
               PROVE  End(heap'[i]) <= Base(MemoryMap[k])
    BY DEF Ahead
  <2>1. k \in scan .. Len(MemoryMap) /\ scan < k /\ k \in DOMAIN MemoryMap
    BY <1>1
  <2>2. CASE i \in DOMAIN heap
    BY <1>6, <1>8, <2>1, <2>2 DEF Ahead
  <2>3. CASE i = Len(heap) + 1
    BY <1>1, <1>6, <2>1, <2>3 DEF SortedMap, r
  <2> QED  BY <1>8, <2>2, <2>3
<1>11. Matches(heap, live)'
  <2>1. Used(heap') = Used(heap)
    BY <1>3, <1>6, <1>8 DEF Used
  <2> QED  BY <2>1 DEF Matches
<1>12. LiveAligned'
  BY DEF LiveAligned
<1> QED  BY <1>7, <1>9, <1>10, <1>11, <1>12

-----------------------------------------------------------------------------
(* The calls *)

\* The client's records are typed, and its pointers aligned.
ViewOK(f) ==
  /\ DOMAIN f \subseteq Nat
  /\ \A p \in DOMAIN f : /\ f[p] \in [size : Nat, align : Nat]
                         /\ f[p].align # 0 => (p % f[p].align) = 0

\* A client's view stays well-formed when a buffer is added,
LEMMA HoldView ==
  ASSUME NEW f, ViewOK(f), NEW p \in Nat, NEW n \in Nat, NEW a \in Nat,
         a # 0 => (p % a) = 0
  PROVE  ViewOK(Hold(f, p, n, a))
BY DEF ViewOK, Hold

\* dropped,
LEMMA DropView ==
  ASSUME NEW f, ViewOK(f), NEW p
  PROVE  ViewOK(Drop(f, p))
BY DEF ViewOK, Drop

\* or resized.
LEMMA ResizeView ==
  ASSUME NEW f, ViewOK(f), NEW p \in DOMAIN f, NEW n \in Nat
  PROVE  ViewOK([f EXCEPT ![p].size = n])
<1> DEFINE g == [f EXCEPT ![p].size = n]
<1>1. f[p] \in [size : Nat, align : Nat]
  BY DEF ViewOK
<1>2. g[p] \in [size : Nat, align : Nat] /\ g[p].align = f[p].align
  BY <1>1
<1>3. DOMAIN g = DOMAIN f /\ \A q \in DOMAIN f : q # p => g[q] = f[q]
  OBVIOUS
<1> HIDE DEF g
<1>4. ASSUME NEW q \in DOMAIN g
      PROVE  /\ g[q] \in [size : Nat, align : Nat]
             /\ g[q].align # 0 => (q % g[q].align) = 0
  <2>1. CASE q = p
    BY <1>2, <2>1 DEF ViewOK
  <2>2. CASE q # p
    BY <1>3, <2>2 DEF ViewOK
  <2> QED  BY <2>1, <2>2
<1>5. DOMAIN g \subseteq Nat
  BY <1>3 DEF ViewOK
<1>6. ViewOK(g)
  BY <1>4, <1>5 DEF ViewOK
<1> QED  BY <1>6 DEF g

\* A call that keeps the list good, and the view matching, keeps IInv.
LEMMA CallStep ==
  ASSUME IInv, Loaded, scan' = scan, useable' = useable,
         Good(heap'), Matches(heap', live'), ViewOK(live')
  PROVE  IInv'
<1>1. TypeOK'
  BY DEF IInv, TypeOK, Good, ViewOK
<1>2. HeapOrdered'
  BY DEF HeapOrdered, Good
<1>3. LiveAligned'
  BY DEF LiveAligned, ViewOK
<1>4. Ahead'
  BY MapAssumption DEF Loaded, Ahead
<1>5. Matches(heap, live)'
  BY DEF Matches, Used
<1> QED  BY <1>1, <1>2, <1>3, <1>4, <1>5 DEF IInv

\* The parts of the invariant that the calls work with.
LEMMA IInvFacts ==
  ASSUME IInv
  PROVE  Good(heap) /\ Matches(heap, live) /\ ViewOK(live)
BY DEF IInv, TypeOK, HeapOrdered, Good, LiveAligned, ViewOK

\* What First(Fits(...)) finds.
LEMMA FitProps ==
  ASSUME NEW h, Good(h), NEW i \in DOMAIN h, NEW n \in Nat, NEW a \in Nat \ {0},
         First(Fits(h, n, a), i)
  PROVE  LET pad == Padding(h[i], a) IN
         /\ ~h[i].inUse
         /\ Pointer(h[i]) \in Nat /\ h[i].size \in Nat
         /\ pad = 0 \/ (pad \in Nat /\ HDR < pad)
         /\ n + pad <= h[i].size
         /\ ((Pointer(h[i]) + pad) % a) = 0
<1>1. h \in Seq(Block)
  BY DEF Good
<1>2. h[i] \in Block /\ h[i].addr \in Nat /\ h[i].size \in Nat
  BY <1>1, BlockFields
<1> DEFINE pad == Padding(h[i], a)
<1>3. /\ pad = 0 \/ pad \in HDR + 1 .. HDR + a
      /\ ((Pointer(h[i]) + pad) % a) = 0
  BY <1>2, PaddingProps
<1>4. ~h[i].inUse /\ h[i].size >= n + pad
  BY DEF First, Fits
<1> HIDE DEF pad
<1>5. pad = 0 \/ (pad \in Nat /\ HDR < pad)
  BY <1>3 DEF HDR
<1>6. Pointer(h[i]) \in Nat
  BY <1>2 DEF Pointer, HDR
<1>7. n + pad <= h[i].size
  BY <1>2, <1>4, <1>5
<1> QED  BY <1>2, <1>3, <1>4, <1>5, <1>6, <1>7 DEF pad

\* Taking a free block for a client.
LEMMA TakeStep ==
  ASSUME IInv, Loaded, scan' = scan, useable' = useable,
         NEW i \in DOMAIN heap, ~heap[i].inUse,
         NEW n \in Nat, n <= heap[i].size, NEW a \in Nat,
         a # 0 => (Pointer(heap[i]) % a) = 0,
         heap' = Take(heap, i, n),
         live' = Hold(live, Pointer(heap[i]), n, a)
  PROVE  IInv'
<1> DEFINE g == Take(heap, i, n)
<1>1. Good(heap) /\ Matches(heap, live) /\ ViewOK(live)
  BY IInvFacts
<1>2. /\ Good(g) /\ i \in DOMAIN g
      /\ g[i].addr = heap[i].addr /\ n <= g[i].size
      /\ Used(g) = Used(heap) \cup {g[i]}
  <2>1. IsTake(g, heap, i, n)
    BY <1>1, TakeGood
  <2> HIDE DEF g
  <2> QED  BY <2>1 DEF IsTake
<1> HIDE DEF g
<1>3. Pointer(g[i]) = Pointer(heap[i])
  BY <1>2 DEF Pointer
<1>4. Pointer(heap[i]) \in Nat
  BY <1>1, BlockFields DEF Good, Pointer, HDR
<1>5. Matches(g, live')
  BY <1>1, <1>2, <1>3, HoldMatches
<1>6. ViewOK(live')
  BY <1>1, <1>4, HoldView
<1> QED  BY <1>2, <1>5, <1>6, CallStep DEF g

\* malloc keeps the invariant.
LEMMA MallocIInv ==
  ASSUME IInv, NEW n \in Sizes, Malloc(n)
  PROVE  IInv'
<1>1. PICK i \in DOMAIN heap :
        /\ First(Fits(heap, n, 1), i)
        /\ heap' = Take(heap, i, n)
        /\ live' = Hold(live, Pointer(heap[i]), n, 1)
  BY DEF Malloc
<1>2. n \in Nat /\ Loaded /\ scan' = scan /\ useable' = useable
  BY SizeAssumption DEF Malloc
<1>3. /\ ~heap[i].inUse /\ n <= heap[i].size
      /\ Pointer(heap[i]) \in Nat
  <2>1. Good(heap)
    BY IInvFacts
  <2>2. LET pad == Padding(heap[i], 1) IN
         /\ ~heap[i].inUse
         /\ Pointer(heap[i]) \in Nat /\ heap[i].size \in Nat
         /\ pad = 0 \/ (pad \in Nat /\ HDR < pad)
         /\ n + pad <= heap[i].size
    BY <1>1, <1>2, <2>1, FitProps
  <2> QED  BY <1>2, <2>2
<1>4. (Pointer(heap[i]) % 1) = 0
  BY <1>3
<1> QED  BY <1>1, <1>2, <1>3, <1>4, TakeStep

\* aalloc of an aligned block keeps the invariant.
LEMMA AallocInPlaceIInv ==
  ASSUME IInv, NEW n \in Sizes, NEW a \in Aligns, AallocInPlace(n, a)
  PROVE  IInv'
<1>1. PICK i \in DOMAIN heap :
        /\ First(Fits(heap, n, a), i)
        /\ Padding(heap[i], a) = 0
        /\ heap' = Take(heap, i, n)
        /\ live' = Hold(live, Pointer(heap[i]), n, a)
  BY DEF AallocInPlace
<1>2. /\ n \in Nat /\ a \in Nat \ {0}
      /\ Loaded /\ scan' = scan /\ useable' = useable
  BY SizeAssumption DEF AallocInPlace
<1>3. /\ ~heap[i].inUse /\ n + 0 <= heap[i].size
      /\ Pointer(heap[i]) \in Nat /\ heap[i].size \in Nat
      /\ ((Pointer(heap[i]) + 0) % a) = 0
  <2>1. Good(heap)
    BY IInvFacts
  <2> QED  BY <1>1, <1>2, <2>1, FitProps
<1>4. n <= heap[i].size /\ (Pointer(heap[i]) % a) = 0
  <2>1. n + 0 = n /\ Pointer(heap[i]) + 0 = Pointer(heap[i])
    BY <1>2, <1>3
  <2> QED  BY <1>3, <2>1, Zenon
<1> QED  BY <1>1, <1>2, <1>3, <1>4, TakeStep

\* aalloc keeps the invariant when it pads: the padding becomes a free block
\* of its own, or part of the free block before it.
LEMMA AallocPaddedIInv ==
  ASSUME IInv, NEW n \in Sizes, NEW a \in Aligns, AallocPadded(n, a)
  PROVE  IInv'
<1>1. PICK i \in DOMAIN heap :
        LET pad == Padding(heap[i], a) IN
        /\ First(Fits(heap, n, a), i)
        /\ pad # 0
        /\ heap' = MergePrev(Take(Pad(heap, i, pad), i + 1, n), i)
        /\ live' = Hold(live, Pointer(heap[i]) + pad, n, a)
  BY DEF AallocPadded
<1> DEFINE pad == Padding(heap[i], a)
           c   == Pad(heap, i, pad)
           t   == Take(c, i + 1, n)
           b   == t[i + 1]
<1>2. /\ n \in Nat /\ a \in Nat \ {0}
      /\ Loaded /\ scan' = scan /\ useable' = useable
  BY SizeAssumption DEF AallocPadded
<1>3. Good(heap) /\ Matches(heap, live) /\ ViewOK(live)
  BY IInvFacts
<1>4. /\ ~heap[i].inUse
      /\ Pointer(heap[i]) \in Nat /\ heap[i].size \in Nat
      /\ pad = 0 \/ (pad \in Nat /\ HDR < pad)
      /\ n + pad <= heap[i].size
      /\ ((Pointer(heap[i]) + pad) % a) = 0
  BY <1>1, <1>2, <1>3, FitProps
<1>5. /\ pad # 0 /\ heap' = MergePrev(t, i)
      /\ live' = Hold(live, Pointer(heap[i]) + pad, n, a)
  BY <1>1
<1>6. c = Cut(heap, i, pad - HDR)
  BY DEF Pad
<1> HIDE DEF pad
<1>7. pad - HDR \in Nat /\ (pad - HDR) + HDR = pad /\ pad <= heap[i].size
  BY <1>2, <1>4, <1>5 DEF HDR
<1> HIDE DEF c
<1>8. IsCut(c, heap, i, pad - HDR)
  BY <1>3, <1>6, <1>7, CutGood
<1>9. Used(c) = Used(heap)
  <2>1. Good(c) /\ i \in DOMAIN c /\ Others(c, i) = Others(heap, i)
    BY <1>8 DEF IsCut
  <2>2. c[i].inUse = heap[i].inUse
    BY <1>8 DEF IsCut
  <2>3. ~c[i].inUse
    BY <1>4, <2>2, Zenon
  <2>4. Used(c) = Others(c, i)
    BY <2>1, <2>3, UsedFree
  <2>5. Used(heap) = Others(heap, i)
    BY <1>3, <1>4, UsedFree
  <2> QED  BY <2>1, <2>4, <2>5
<1>10. /\ Good(c) /\ i + 1 \in DOMAIN c /\ ~c[i + 1].inUse
       /\ c[i + 1].addr = heap[i].addr + HDR + (pad - HDR)
       /\ c[i + 1].size = heap[i].size - (pad - HDR) - HDR
  BY <1>8 DEF IsCut
<1>11. n <= c[i + 1].size
  BY <1>2, <1>4, <1>7, <1>10 DEF HDR
<1> HIDE DEF t
<1>12. IsTake(t, c, i + 1, n)
  BY <1>2, <1>10, <1>11, TakeGood DEF t
<1>13. /\ Good(t) /\ b.addr = c[i + 1].addr /\ n <= b.size
       /\ Used(t) = Used(heap) \cup {b}
  BY <1>9, <1>12 DEF IsTake
<1>14. i \in DOMAIN t /\ ~t[i].inUse
  <2>1. i \in Nat /\ 1 <= i /\ t \in Seq(Block) /\ i + 1 \in DOMAIN t
    BY <1>3, <1>12, BlockFields DEF Good, IsTake
  <2>2. i \in DOMAIN t /\ i \in 1 .. (i + 1) - 1
    BY <2>1
  <2>3. t[i] = c[i]
    BY <1>12, <2>2 DEF IsTake
  <2>4. c[i].inUse = heap[i].inUse
    BY <1>8 DEF IsCut
  <2> QED  BY <1>4, <2>2, <2>3, <2>4, Zenon
<1>15. Good(heap') /\ Used(heap') = Used(t)
  BY <1>5, <1>13, <1>14, MergePrevGood
<1>16. Pointer(b) = Pointer(heap[i]) + pad
  <2>1. heap[i].addr \in Nat
    BY <1>3, BlockFields DEF Good
  <2> QED  BY <1>4, <1>7, <1>10, <1>13, <2>1 DEF Pointer, HDR
<1>17. Matches(heap', Hold(live, Pointer(b), n, a))
  BY <1>3, <1>13, <1>15, HoldMatches
<1>18. ViewOK(live')
  BY <1>2, <1>3, <1>4, <1>5, <1>7, HoldView
<1> QED  BY <1>2, <1>5, <1>15, <1>16, <1>17, <1>18, CallStep

\* realloc keeps the invariant when the block already has room,
LEMMA ReallocKeepIInv ==
  ASSUME IInv, NEW p \in DOMAIN live, NEW n \in Sizes, ReallocKeep(p, n)
  PROVE  IInv'
<1> DEFINE i == BlockOf(heap, p)
<1>1. /\ n \in Nat /\ Loaded /\ scan' = scan /\ useable' = useable
      /\ heap' = heap /\ live' = [live EXCEPT ![p].size = n]
      /\ heap[i].size >= n
  BY SizeAssumption DEF ReallocKeep
<1>2. Good(heap) /\ Matches(heap, live) /\ ViewOK(live)
  BY IInvFacts
<1>3. i \in DOMAIN heap /\ Pointer(heap[i]) = p /\ heap[i].inUse
  BY <1>2, BlockOfProps
<1> HIDE DEF i
<1>4. Used(heap) = Others(heap, i) \cup {heap[i]}
  BY <1>2, <1>3, UsedIsOthers
<1>5. n <= heap[i].size
  <2>1. heap[i].size \in Nat
    BY <1>2, <1>3, BlockFields DEF Good
  <2> QED  BY <1>1, <2>1
<1>6. \A q \in DOMAIN live : live[q] \in [size : Nat, align : Nat]
  BY <1>2 DEF ViewOK
<1>7. Matches(heap, [live EXCEPT ![Pointer(heap[i])].size = n])
  BY <1>2, <1>3, <1>4, <1>5, <1>6, ResizeMatches
<1>8. ViewOK(live')
  BY <1>1, <1>2, ResizeView
<1> QED  BY <1>1, <1>2, <1>3, <1>7, <1>8, CallStep

\* free keeps the invariant.
LEMMA FreeIInv ==
  ASSUME IInv, NEW p \in DOMAIN live, Free(p)
  PROVE  IInv'
<1> DEFINE i == BlockOf(heap, p)
<1>1. /\ Loaded /\ scan' = scan /\ useable' = useable
      /\ heap' = Release(heap, i) /\ live' = Drop(live, p)
  BY DEF Free
<1>2. Good(heap) /\ Matches(heap, live) /\ ViewOK(live)
  BY IInvFacts
<1>3. /\ i \in DOMAIN heap /\ Pointer(heap[i]) = p /\ heap[i].inUse
      /\ heap[i] \in Used(heap)
  BY <1>2, BlockOfProps
<1> HIDE DEF i
<1>4. Good(heap') /\ Used(heap') = Used(heap) \ {heap[i]}
  BY <1>1, <1>2, <1>3, ReleaseGood
<1>5. Matches(heap', live')
  BY <1>1, <1>2, <1>3, <1>4, DropMatches
<1>6. ViewOK(live')
  BY <1>1, <1>2, DropView
<1> QED  BY <1>1, <1>4, <1>5, <1>6, CallStep

\* when it grows into the next block,
LEMMA ReallocGrowIInv ==
  ASSUME IInv, NEW p \in DOMAIN live, NEW n \in Sizes, ReallocGrow(p, n)
  PROVE  IInv'
<1> DEFINE i == BlockOf(heap, p)
           m == Merge(heap, i)
           g == Split(m, i, n)
<1>1. /\ n \in Nat /\ Loaded /\ scan' = scan /\ useable' = useable
      /\ CanGrow(heap, i, n)
      /\ heap' = g /\ live' = [live EXCEPT ![p].size = n]
  BY SizeAssumption DEF ReallocGrow
<1>2. Good(heap) /\ Matches(heap, live) /\ ViewOK(live)
  BY IInvFacts
<1>3. /\ i \in DOMAIN heap /\ Pointer(heap[i]) = p /\ heap[i].inUse
  BY <1>2, BlockOfProps
<1> HIDE DEF i
<1>4. /\ i + 1 \in DOMAIN heap /\ ~heap[i + 1].inUse
      /\ heap[i + 1].size + HDR >= n - heap[i].size
  BY <1>1 DEF CanGrow, HasFree
<1>5. /\ Good(m) /\ i \in DOMAIN m
      /\ m[i].addr = heap[i].addr
      /\ m[i].size = heap[i].size + heap[i + 1].size + HDR
      /\ Others(m, i) = Others(heap, i)
  BY <1>2, <1>3, <1>4, MergeGood
<1>6. n <= m[i].size
  <2>1. heap[i].size \in Nat /\ heap[i + 1].size \in Nat
    BY <1>2, <1>3, <1>4, BlockFields DEF Good
  <2> QED  BY <1>1, <1>4, <1>5, <2>1 DEF HDR
<1>7. m[i].inUse
  <2>1. m[i].inUse = heap[i].inUse
    BY <1>2, <1>3, <1>4, MergeGood
  <2> HIDE DEF m
  <2> QED  BY <1>3, <2>1, Zenon
<1> HIDE DEF m
<1>8. IsSplit(g, m, i, n)
  BY <1>1, <1>5, <1>6, SplitGood
<1> HIDE DEF g
<1>9. /\ Good(g) /\ i \in DOMAIN g /\ g[i].addr = heap[i].addr /\ n <= g[i].size
      /\ Others(g, i) = Others(heap, i)
  BY <1>5, <1>8 DEF IsSplit
<1>10. g[i].inUse
  <2>1. g[i].inUse = m[i].inUse
    BY <1>8 DEF IsSplit
  <2> QED  BY <1>7, <2>1, Zenon
<1>11. Used(g) = Others(heap, i) \cup {g[i]}
  BY <1>9, <1>10, UsedIsOthers
<1>12. \A q \in DOMAIN live : live[q] \in [size : Nat, align : Nat]
  BY <1>2 DEF ViewOK
<1>13. Matches(g, [live EXCEPT ![Pointer(g[i])].size = n])
  BY <1>2, <1>3, <1>9, <1>11, <1>12, ResizeMatches
<1>14. Pointer(g[i]) = p
  BY <1>3, <1>9 DEF Pointer
<1>15. ViewOK(live')
  BY <1>1, <1>2, ResizeView
<1> QED  BY <1>1, <1>9, <1>13, <1>14, <1>15, CallStep

\* The clients' view after one buffer came and another went.
LEMMA MoveMatches ==
  ASSUME NEW h, NEW t, Good(t), NEW g, NEW f, Matches(h, f), NEW b, NEW c,
         Used(t) = Used(h) \cup {b}, c \in Used(t), Used(g) = Used(t) \ {c},
         Pointer(c) # Pointer(b), NEW n, NEW a, n <= b.size
  PROVE  Matches(g, Hold(Drop(f, Pointer(c)), Pointer(b), n, a))
<1>1. Matches(t, Hold(f, Pointer(b), n, a))
  BY HoldMatches
<1>2. Matches(g, Drop(Hold(f, Pointer(b), n, a), Pointer(c)))
  BY <1>1, DropMatches
<1>3. Drop(Hold(f, Pointer(b), n, a), Pointer(c))
        = Hold(Drop(f, Pointer(c)), Pointer(b), n, a)
  BY DEF Hold, Drop
<1> QED  BY <1>2, <1>3

\* and when it moves the buffer.
LEMMA ReallocMoveIInv ==
  ASSUME IInv, NEW p \in DOMAIN live, NEW n \in Sizes, ReallocMove(p, n)
  PROVE  IInv'
<1>1. PICK j \in DOMAIN heap :
        /\ First(Fits(heap, n, 1), j)
        /\ heap' = Release(Take(heap, j, n), BlockOf(Take(heap, j, n), p))
        /\ live' = Hold(Drop(live, p), Pointer(heap[j]), n, 1)
  BY DEF ReallocMove
<1> DEFINE t == Take(heap, j, n)
           k == BlockOf(t, p)
           b == t[j]
           c == t[k]
<1>2. /\ n \in Nat /\ Loaded /\ scan' = scan /\ useable' = useable
  BY SizeAssumption DEF ReallocMove
<1>3. Good(heap) /\ Matches(heap, live) /\ ViewOK(live)
  BY IInvFacts
<1>4. ~heap[j].inUse /\ n <= heap[j].size /\ Pointer(heap[j]) \in Nat
  <2>1. LET pad == Padding(heap[j], 1) IN
         /\ ~heap[j].inUse
         /\ Pointer(heap[j]) \in Nat /\ heap[j].size \in Nat
         /\ pad = 0 \/ (pad \in Nat /\ HDR < pad)
         /\ n + pad <= heap[j].size
    BY <1>1, <1>2, <1>3, FitProps
  <2> QED  BY <1>2, <2>1
<1>5. heap' = Release(t, k)
  BY <1>1
<1>6. IsTake(t, heap, j, n)
  BY <1>2, <1>3, <1>4, TakeGood
<1> HIDE DEF t
<1>7. /\ Good(t) /\ j \in DOMAIN t /\ b.addr = heap[j].addr /\ n <= b.size
      /\ Used(t) = Used(heap) \cup {b}
  BY <1>6 DEF IsTake
<1>8. Pointer(b) = Pointer(heap[j])
  BY <1>7 DEF Pointer
<1>9. Pointer(b) \notin DOMAIN live
  BY <1>3, <1>4, <1>8, FreeNotHeld
<1>10. Matches(t, Hold(live, Pointer(b), n, 1)) /\ p \in DOMAIN Hold(live, Pointer(b), n, 1)
  <2>1. Matches(t, Hold(live, Pointer(b), n, 1))
    BY <1>3, <1>7, HoldMatches
  <2> QED  BY <2>1 DEF Hold
<1>11. k \in DOMAIN t /\ Pointer(c) = p /\ c.inUse /\ c \in Used(t)
  BY <1>7, <1>10, BlockOfProps
<1> HIDE DEF k
<1>12. Good(heap') /\ Used(heap') = Used(t) \ {c}
  BY <1>5, <1>7, <1>11, ReleaseGood
<1>13. Pointer(c) # Pointer(b)
  BY <1>9, <1>11
<1> HIDE DEF b, c
<1>14. Matches(heap', Hold(Drop(live, Pointer(c)), Pointer(b), n, 1))
  BY <1>3, <1>7, <1>11, <1>12, <1>13, MoveMatches
<1>15. Matches(heap', live')
  BY <1>1, <1>8, <1>11, <1>14
<1>16. ViewOK(live')
  <2>1. ViewOK(Drop(live, p))
    BY <1>3, DropView
  <2>2. (Pointer(heap[j]) % 1) = 0
    BY <1>4
  <2> QED  BY <1>1, <1>2, <1>4, <2>1, <2>2, HoldView
<1> QED  BY <1>2, <1>12, <1>15, <1>16, CallStep

-----------------------------------------------------------------------------
(* The theorems *)

\* Every step keeps the invariant.
LEMMA NextIInv ==
  ASSUME SortedMap, IInv, [Next]_vars
  PROVE  IInv'
<1>1. CASE ScanSkip
  BY <1>1, ScanSkipIInv
<1>2. CASE ScanAdd
  BY <1>2, ScanAddIInv
<1>3. CASE \E n \in Sizes : Malloc(n)
  BY <1>3, MallocIInv
<1>4. CASE \E n \in Sizes, a \in Aligns : AallocInPlace(n, a)
  BY <1>4, AallocInPlaceIInv
<1>5. CASE \E n \in Sizes, a \in Aligns : AallocPadded(n, a)
  BY <1>5, AallocPaddedIInv
<1>6. CASE \E p \in DOMAIN live, n \in Sizes : ReallocKeep(p, n)
  BY <1>6, ReallocKeepIInv
<1>7. CASE \E p \in DOMAIN live, n \in Sizes : ReallocGrow(p, n)
  BY <1>7, ReallocGrowIInv
<1>8. CASE \E p \in DOMAIN live, n \in Sizes : ReallocMove(p, n)
  BY <1>8, ReallocMoveIInv
<1>9. CASE \E p \in DOMAIN live : Free(p)
  BY <1>9, FreeIInv
<1>10. CASE vars' = vars
  BY <1>10 DEF vars, IInv, TypeOK, HeapOrdered, Matches, Used, LiveAligned, Ahead
<1>11. ASSUME NEW n \in Sizes, NEW a \in Aligns \cup {1}, NoMemory(n, a)
       PROVE  vars' = vars
  BY <1>11 DEF NoMemory
<1> QED  BY <1>1, <1>2, <1>3, <1>4, <1>5, <1>6, <1>7, <1>8, <1>9, <1>10, <1>11
         DEF Next

\* The invariant holds in every state of idalloc_init, malloc, aalloc, realloc
\* and free, whatever the memory map, if it is in address order.
THEOREM SpecIInv == SortedMap => (Spec => []IInv)
<1> SUFFICES ASSUME SortedMap PROVE Spec => []IInv
  OBVIOUS
<1>1. Init => IInv
  BY InitIInv
<1>2. IInv /\ [Next]_vars => IInv'
  BY NextIInv
<1> QED  BY <1>1, <1>2, PTL DEF Spec

-----------------------------------------------------------------------------
(* What the invariant gives *)


\* The inductive invariant gives the properties about the clients' buffers.
LEMMA IInvImplies == IInv => LiveBacked /\ UsedOwned /\ LiveDisjoint
<1> SUFFICES ASSUME IInv PROVE LiveBacked /\ UsedOwned /\ LiveDisjoint
  OBVIOUS
<1>1. Good(heap) /\ Matches(heap, live) /\ ViewOK(live)
  BY IInvFacts
<1>2. heap \in Seq(Block)
  BY <1>1 DEF Good
<1>3. LiveBacked /\ UsedOwned
  BY <1>1, <1>2, MatchesIff DEF LiveBacked, UsedOwned
<1>4. ASSUME NEW p \in DOMAIN live, NEW q \in DOMAIN live, p < q
      PROVE  p + live[p].size + HDR <= q
  <2>1. PICK i \in DOMAIN heap : Pointer(heap[i]) = p /\ live[p].size <= heap[i].size
    BY <1>3 DEF LiveBacked, Backed
  <2>2. PICK j \in DOMAIN heap : Pointer(heap[j]) = q
    BY <1>3 DEF LiveBacked, Backed
  <2> DEFINE x == heap[i].addr
             y == heap[i].size
             z == heap[j].addr
             w == heap[j].size
             s == live[p].size
  <2>3. /\ x \in Nat /\ y \in Nat /\ z \in Nat /\ w \in Nat
        /\ i \in Nat /\ j \in Nat /\ s \in Nat
    BY <1>1, <1>2, BlockFields DEF ViewOK
  <2>4. x + HDR = p /\ z + HDR = q /\ s <= y
    BY <2>1, <2>2 DEF Pointer
  <2>5. /\ i < j => x + HDR + y <= z
        /\ j < i => z + HDR + w <= x
    BY <1>1 DEF Good, Ordered, End
  <2>6. i # j
    <3>1. DOMAIN live \subseteq Nat
      BY <1>1 DEF ViewOK
    <3>2. p # q
      BY <1>4, <3>1
    <3> QED  BY <2>1, <2>2, <3>2
  <2> HIDE DEF x, y, z, w, s
  <2>7. p + s + HDR <= q
    BY <1>4, <2>3, <2>4, <2>5, <2>6 DEF HDR
  <2> QED  BY <2>7 DEF s
<1> QED  BY <1>3, <1>4 DEF LiveDisjoint

\* In every reachable state the model's variables have their types.
THEOREM TypeCorrect == SortedMap => (Spec => []TypeOK)
<1> SUFFICES ASSUME SortedMap PROVE Spec => []TypeOK
  OBVIOUS
<1>1. IInv => TypeOK
  BY DEF IInv
<1> QED  BY <1>1, SpecIInv, PTL

\* Blocks and their headers never overlap: the list the calls of malloc,
\* aalloc, realloc and free edit stays in address order.
THEOREM HeapStaysOrdered == SortedMap => (Spec => []HeapOrdered)
<1> SUFFICES ASSUME SortedMap PROVE Spec => []HeapOrdered
  OBVIOUS
<1>1. IInv => HeapOrdered
  BY DEF IInv
<1> QED  BY <1>1, SpecIInv, PTL

\* Every pointer a client holds is backed by an in-use block of the size it
\* asked for (malloc, aalloc, realloc).
THEOREM BuffersBacked == SortedMap => (Spec => []LiveBacked)
<1> SUFFICES ASSUME SortedMap PROVE Spec => []LiveBacked
  OBVIOUS
<1>1. IInv => LiveBacked
  BY IInvImplies
<1> QED  BY <1>1, SpecIInv, PTL

\* Every in-use block belongs to a client: free and realloc leak none.
THEOREM BlocksOwned == SortedMap => (Spec => []UsedOwned)
<1> SUFFICES ASSUME SortedMap PROVE Spec => []UsedOwned
  OBVIOUS
<1>1. IInv => UsedOwned
  BY IInvImplies
<1> QED  BY <1>1, SpecIInv, PTL

\* No two buffers overlap, and none overlaps the next one's header.
THEOREM BuffersDisjoint == SortedMap => (Spec => []LiveDisjoint)
<1> SUFFICES ASSUME SortedMap PROVE Spec => []LiveDisjoint
  OBVIOUS
<1>1. IInv => LiveDisjoint
  BY IInvImplies
<1> QED  BY <1>1, SpecIInv, PTL

\* A buffer of aalloc is aligned for as long as its client holds it.
THEOREM BuffersAligned == SortedMap => (Spec => []LiveAligned)
<1> SUFFICES ASSUME SortedMap PROVE Spec => []LiveAligned
  OBVIOUS
<1>1. IInv => LiveAligned
  BY DEF IInv
<1> QED  BY <1>1, SpecIInv, PTL

-----------------------------------------------------------------------------
(* Refinement *)

\* Bytes inside a free block are clear of every buffer.
LEMMA FreeSpaceClear ==
  ASSUME NEW h, Good(h), NEW f, Matches(h, f), ViewOK(f),
         NEW i \in DOMAIN h, ~h[i].inUse,
         NEW p \in Nat, NEW n \in Nat, Pointer(h[i]) <= p, p + n <= End(h[i])
  PROVE  Service!Clear(f, p, n) /\ p \notin DOMAIN f
<1> SUFFICES ASSUME NEW q \in DOMAIN f
             PROVE  (p + n <= q \/ q + f[q].size <= p) /\ q # p
  BY DEF Service!Clear
<1>1. PICK b \in Used(h) : Pointer(b) = q /\ f[q].size <= b.size
  BY DEF Matches
<1>2. PICK k \in DOMAIN h : h[k] = b /\ b.inUse
  BY DEF Used
<1> DEFINE x == h[i].addr
           y == h[i].size
           z == h[k].addr
           w == h[k].size
           s == f[q].size
<1>3. /\ x \in Nat /\ y \in Nat /\ z \in Nat /\ w \in Nat
      /\ i \in Nat /\ k \in Nat /\ s \in Nat /\ q \in Nat
  BY <1>2, BlockFields DEF Good, ViewOK
<1>4. i # k
  BY <1>2
<1>5. /\ x + HDR <= p /\ p + n <= x + HDR + y /\ z + HDR = q /\ s <= w
  BY <1>1, <1>2 DEF Pointer, End
<1>6. /\ i < k => x + HDR + y <= z
      /\ k < i => z + HDR + w <= x
  BY DEF Good, Ordered, End
<1> HIDE DEF x, y, z, w, s
<1>7. (p + n <= q \/ q + s <= p) /\ q # p
  BY <1>3, <1>4, <1>5, <1>6 DEF HDR
<1> QED  BY <1>7 DEF s

\* Handing out part of a free block is the service's Alloc.
LEMMA AllocStep ==
  ASSUME IInv, NEW i \in DOMAIN heap, ~heap[i].inUse,
         NEW p \in Nat, NEW n \in Sizes, NEW a \in Aligns \cup {1},
         Pointer(heap[i]) <= p, p + n <= End(heap[i]),
         a # 0 => (p % a) = 0,
         live' = Hold(live, p, n, a)
  PROVE  Service!Next
<1>1. Good(heap) /\ Matches(heap, live) /\ ViewOK(live)
  BY IInvFacts
<1>2. n \in Nat
  BY SizeAssumption
<1>3. Service!Clear(live, p, n) /\ p \notin DOMAIN live
  BY <1>1, <1>2, FreeSpaceClear
<1>4. p \in DOMAIN live' /\ Service!With(live, live', p, n, a)
  BY DEF Hold, Service!With
<1>5. Service!Alloc(n, a)
  BY <1>3, <1>4 DEF Service!Alloc, Service!Multiple
<1> QED  BY <1>5 DEF Service!Next

\* realloc in place is the service's Resize: the grown buffer reaches no other.
LEMMA ResizeStep ==
  ASSUME IInv, IInv', NEW p \in DOMAIN live, NEW n \in Sizes,
         live' = [live EXCEPT ![p].size = n]
  PROVE  Service!Next
<1>1. ViewOK(live) /\ LiveDisjoint' /\ n \in Nat
  <2>1. LiveDisjoint'
    BY IInvImplies, PTL
  <2> QED  BY <2>1, IInvFacts, SizeAssumption
<1>2. live[p] \in [size : Nat, align : Nat] /\ DOMAIN live \subseteq Nat
  BY <1>1 DEF ViewOK
<1>3. /\ DOMAIN live' = DOMAIN live
      /\ live'[p] = [size |-> n, align |-> live[p].align]
      /\ \A q \in DOMAIN live : q # p => live'[q] = live[q]
  BY <1>2
<1>4. Service!With(live, live', p, n, live[p].align)
  BY <1>3 DEF Service!With
<1>5. ASSUME NEW q \in DOMAIN live, q # p
      PROVE  p + n <= q \/ q + live[q].size <= p
  <2>1. live'[p].size = n /\ live'[q].size = live[q].size /\ live[q].size \in Nat
    BY <1>1, <1>3, <1>5 DEF ViewOK
  <2>2. /\ p < q => p + live'[p].size + HDR <= q
        /\ q < p => q + live'[q].size + HDR <= p
    BY <1>1, <1>3 DEF LiveDisjoint
  <2>3. p \in Nat /\ q \in Nat
    BY <1>2
  <2> QED  BY <1>1, <1>5, <2>1, <2>2, <2>3 DEF HDR
<1>6. Service!Clear(Service!Without(live, p), p, n)
  BY <1>5 DEF Service!Clear, Service!Without
<1>7. Service!Resize(p, n)
  BY <1>4, <1>6 DEF Service!Resize
<1> QED  BY <1>7 DEF Service!Next

\* A call that takes block i whole, or its beginning.
LEMMA FitSpace ==
  ASSUME IInv, NEW i \in DOMAIN heap, NEW n \in Nat, NEW a \in Nat \ {0},
         First(Fits(heap, n, a), i)
  PROVE  LET p == Pointer(heap[i]) + Padding(heap[i], a) IN
         /\ ~heap[i].inUse
         /\ p \in Nat /\ Pointer(heap[i]) <= p /\ p + n <= End(heap[i])
         /\ (p % a) = 0
<1> DEFINE pad == Padding(heap[i], a)
           p   == Pointer(heap[i]) + pad
<1>1. Good(heap)
  BY IInvFacts
<1>2. /\ ~heap[i].inUse
      /\ Pointer(heap[i]) \in Nat /\ heap[i].size \in Nat
      /\ pad = 0 \/ (pad \in Nat /\ HDR < pad)
      /\ n + pad <= heap[i].size
      /\ (p % a) = 0
  BY <1>1, FitProps
<1> HIDE DEF pad
<1>3. heap[i].addr \in Nat
  BY <1>1, BlockFields DEF Good
<1>4. p \in Nat /\ Pointer(heap[i]) <= p /\ p + n <= End(heap[i])
  <2>1. pad \in Nat
    <3>1. pad = 0 => pad \in Nat
      OBVIOUS
    <3> QED  BY <1>2, <3>1, Zenon
  <2>2. End(heap[i]) = Pointer(heap[i]) + heap[i].size
    BY <1>3 DEF Pointer, End
  <2> QED  BY <1>2, <2>1, <2>2
<1> QED  BY <1>2, <1>4 DEF pad

\* malloc needs no padding.
LEMMA PaddingOne ==
  ASSUME NEW b \in Block
  PROVE  Padding(b, 1) = 0
<1>1. Pointer(b) \in Nat
  BY DEF Block, Pointer, HDR
<1>2. (Pointer(b) % 1) = 0
  BY <1>1
<1> QED  BY <1>2 DEF Padding

\* Every step of the allocator is a step of the service, or none.
LEMMA NextRefines ==
  ASSUME IInv, IInv', [Next]_vars
  PROVE  [Service!Next]_live
<1>1. ASSUME NEW n \in Sizes, Malloc(n)
      PROVE  Service!Next
  <2>1. PICK i \in DOMAIN heap :
          /\ First(Fits(heap, n, 1), i)
          /\ live' = Hold(live, Pointer(heap[i]), n, 1)
    BY <1>1 DEF Malloc
  <2>2. n \in Nat /\ heap[i] \in Block
    BY SizeAssumption, BlockFields DEF IInv, TypeOK
  <2>3. Padding(heap[i], 1) = 0 /\ Pointer(heap[i]) \in Nat
    BY <2>2, PaddingOne DEF Block, Pointer, HDR
  <2> DEFINE p == Pointer(heap[i]) + Padding(heap[i], 1)
  <2>4. /\ ~heap[i].inUse
        /\ p \in Nat /\ Pointer(heap[i]) <= p /\ p + n <= End(heap[i])
        /\ (p % 1) = 0
    BY <2>1, <2>2, FitSpace
  <2>5. live' = Hold(live, p, n, 1)
    BY <2>1, <2>3
  <2> HIDE DEF p
  <2> QED  BY <2>4, <2>5, AllocStep
<1>2. ASSUME NEW n \in Sizes, NEW a \in Aligns, AallocInPlace(n, a)
      PROVE  Service!Next
  <2>1. PICK i \in DOMAIN heap :
          /\ First(Fits(heap, n, a), i)
          /\ Padding(heap[i], a) = 0
          /\ live' = Hold(live, Pointer(heap[i]), n, a)
    BY <1>2 DEF AallocInPlace
  <2>2. n \in Nat /\ a \in Nat \ {0} /\ heap[i] \in Block
    BY <1>2, SizeAssumption, BlockFields DEF IInv, TypeOK, AallocInPlace
  <2>3. Pointer(heap[i]) \in Nat
    BY <2>2 DEF Block, Pointer, HDR
  <2> DEFINE p == Pointer(heap[i]) + Padding(heap[i], a)
  <2>4. /\ ~heap[i].inUse
        /\ p \in Nat /\ Pointer(heap[i]) <= p /\ p + n <= End(heap[i])
        /\ (p % a) = 0
    BY <2>1, <2>2, FitSpace
  <2>5. live' = Hold(live, p, n, a)
    BY <2>1, <2>3
  <2> HIDE DEF p
  <2> QED  BY <2>4, <2>5, AllocStep
<1>3. ASSUME NEW n \in Sizes, NEW a \in Aligns, AallocPadded(n, a)
      PROVE  Service!Next
  <2>1. PICK i \in DOMAIN heap :
          /\ First(Fits(heap, n, a), i)
          /\ live' = Hold(live, Pointer(heap[i]) + Padding(heap[i], a), n, a)
    BY <1>3 DEF AallocPadded
  <2>2. n \in Nat /\ a \in Nat \ {0}
    BY <1>3, SizeAssumption DEF AallocPadded
  <2> DEFINE p == Pointer(heap[i]) + Padding(heap[i], a)
  <2>3. /\ ~heap[i].inUse
        /\ p \in Nat /\ Pointer(heap[i]) <= p /\ p + n <= End(heap[i])
        /\ (p % a) = 0
    BY <2>1, <2>2, FitSpace
  <2>4. live' = Hold(live, p, n, a)
    BY <2>1
  <2> HIDE DEF p
  <2> QED  BY <2>3, <2>4, AllocStep
<1>4. ASSUME NEW p \in DOMAIN live, NEW n \in Sizes,
             ReallocKeep(p, n) \/ ReallocGrow(p, n)
      PROVE  Service!Next
  <2>1. live' = [live EXCEPT ![p].size = n]
    BY <1>4 DEF ReallocKeep, ReallocGrow
  <2> QED  BY <2>1, ResizeStep
<1>5. ASSUME NEW p \in DOMAIN live, NEW n \in Sizes, ReallocMove(p, n)
      PROVE  Service!Next
  <2>1. PICK j \in DOMAIN heap :
          /\ First(Fits(heap, n, 1), j)
          /\ live' = Hold(Drop(live, p), Pointer(heap[j]), n, 1)
    BY <1>5 DEF ReallocMove
  <2>2. n \in Nat /\ heap[j] \in Block
    BY SizeAssumption, BlockFields DEF IInv, TypeOK
  <2>3. Padding(heap[j], 1) = 0 /\ Pointer(heap[j]) \in Nat
    BY <2>2, PaddingOne DEF Block, Pointer, HDR
  <2> DEFINE q == Pointer(heap[j]) + Padding(heap[j], 1)
  <2>4. /\ ~heap[j].inUse
        /\ q \in Nat /\ Pointer(heap[j]) <= q /\ q + n <= End(heap[j])
    BY <2>1, <2>2, FitSpace
  <2>5. live' = Hold(Drop(live, p), q, n, 1)
    BY <2>1, <2>3
  <2> HIDE DEF q
  <2>6. Good(heap) /\ Matches(heap, live) /\ ViewOK(live)
    BY IInvFacts
  <2>7. Service!Clear(live, q, n) /\ q \notin DOMAIN live
    BY <2>2, <2>4, <2>6, FreeSpaceClear
  <2>8. q \in DOMAIN live' /\ Service!With(Service!Without(live, p), live', q, n, 1)
    BY <2>5 DEF Hold, Drop, Service!With, Service!Without
  <2>9. Service!Move(p, n)
    BY <2>7, <2>8 DEF Service!Move
  <2> QED  BY <2>9 DEF Service!Next
<1>6. ASSUME NEW p \in DOMAIN live, Free(p)
      PROVE  Service!Next
  <2>1. Service!Release(p)
    BY <1>6 DEF Free, Drop, Service!Release, Service!Without
  <2> QED  BY <2>1 DEF Service!Next
<1>7. CASE Next
  <2>1. CASE ScanSkip \/ ScanAdd
    BY <2>1 DEF ScanSkip, ScanAdd
  <2>2. CASE \E n \in Sizes, a \in Aligns \cup {1} : NoMemory(n, a)
    BY <2>2 DEF NoMemory, vars
  <2>3. CASE \E n \in Sizes : Malloc(n)
    BY <1>1, <2>3
  <2>4. CASE \E n \in Sizes, a \in Aligns : AallocInPlace(n, a)
    BY <1>2, <2>4
  <2>5. CASE \E n \in Sizes, a \in Aligns : AallocPadded(n, a)
    BY <1>3, <2>5
  <2>6. CASE \E p \in DOMAIN live, n \in Sizes : ReallocKeep(p, n)
    BY <1>4, <2>6
  <2>7. CASE \E p \in DOMAIN live, n \in Sizes : ReallocGrow(p, n)
    BY <1>4, <2>7
  <2>8. CASE \E p \in DOMAIN live, n \in Sizes : ReallocMove(p, n)
    BY <1>5, <2>8
  <2>9. CASE \E p \in DOMAIN live : Free(p)
    BY <1>6, <2>9
  <2> QED  BY <1>7, <2>1, <2>2, <2>3, <2>4, <2>5, <2>6, <2>7, <2>8, <2>9 DEF Next
<1>8. CASE UNCHANGED vars
  BY <1>8 DEF vars
<1> QED  BY <1>7, <1>8

\* The allocator implements the service of memory/alloc.h: what malloc,
\* aalloc, realloc and free do to the clients' buffers is what their callers
\* were promised.
THEOREM Refinement == SortedMap => (Spec => ServiceSpec)
<1> SUFFICES ASSUME SortedMap PROVE Spec => ServiceSpec
  OBVIOUS
<1>1. Init => Service!Init
  BY DEF Init, Service!Init
<1>2. IInv /\ IInv' /\ [Next]_vars => [Service!Next]_live
  BY NextRefines
<1> QED  BY <1>1, <1>2, SpecIInv, PTL DEF Spec, ServiceSpec, Service!Spec

-----------------------------------------------------------------------------
(* One region: the blocks tile it, and no two neighbours are free *)

\* The blocks of h lie end to end from b to e.
Tiles(h, b, e) ==
  /\ Len(h) > 0 /\ h[1].addr = b /\ End(h[Len(h)]) = e
  /\ \A k \in 1 .. Len(h) - 1 : End(h[k]) = h[k + 1].addr

\* No two neighbours are free, block i left out.
Compact(h, i) ==
  \A k \in 1 .. Len(h) - 1 : k # i /\ k + 1 # i => h[k].inUse \/ h[k + 1].inUse

\* The blocks beside block i, if there are any, are in use.
NextUsed(h, i) == i + 1 \in DOMAIN h => h[i + 1].inUse
PrevUsed(h, i) == i - 1 \in DOMAIN h => h[i - 1].inUse

\* Block i counts again when it is in use, or its neighbours are.
LEMMA CompactAll ==
  ASSUME NEW h \in Seq(Block), NEW i \in DOMAIN h, Compact(h, i),
         h[i].inUse \/ (NextUsed(h, i) /\ PrevUsed(h, i))
  PROVE  Compact(h, 0)
<1>1. Len(h) \in Nat /\ i \in 1 .. Len(h) /\ DOMAIN h = 1 .. Len(h)
  OBVIOUS
<1> SUFFICES ASSUME NEW k \in 1 .. Len(h) - 1 PROVE h[k].inUse \/ h[k + 1].inUse
  BY DEF Compact
<1>2. CASE k # i /\ k + 1 # i
  BY <1>2 DEF Compact
<1>3. CASE k = i
  <2>1. i + 1 \in DOMAIN h
    BY <1>1, <1>3
  <2> QED  BY <1>3, <2>1 DEF NextUsed
<1>4. CASE k + 1 = i
  <2>1. i - 1 \in DOMAIN h /\ i - 1 = k
    BY <1>1, <1>4
  <2> QED  BY <1>4, <2>1 DEF PrevUsed
<1> QED  BY <1>2, <1>3, <1>4

\* Where no two neighbours are free, those of a free block are in use.
LEMMA FreeBetweenUsed ==
  ASSUME NEW h \in Seq(Block), NEW i \in DOMAIN h, Compact(h, 0)
  PROVE  Compact(h, i) /\ (~h[i].inUse => NextUsed(h, i) /\ PrevUsed(h, i))
<1>1. Len(h) \in Nat /\ i \in 1 .. Len(h) /\ DOMAIN h = 1 .. Len(h)
  OBVIOUS
<1>2. \A k \in 1 .. Len(h) - 1 : h[k].inUse \/ h[k + 1].inUse
  <2>1. \A k \in 1 .. Len(h) - 1 : k # 0 /\ k + 1 # 0
    BY <1>1
  <2> QED  BY <2>1 DEF Compact
<1>3. Compact(h, i)
  BY <1>2 DEF Compact
<1>4. ~h[i].inUse => NextUsed(h, i)
  <2> SUFFICES ASSUME ~h[i].inUse, i + 1 \in DOMAIN h PROVE h[i + 1].inUse
    BY DEF NextUsed
  <2>1. i \in 1 .. Len(h) - 1
    BY <1>1
  <2> QED  BY <1>2, <2>1
<1>5. ~h[i].inUse => PrevUsed(h, i)
  <2> SUFFICES ASSUME ~h[i].inUse, i - 1 \in DOMAIN h PROVE h[i - 1].inUse
    BY DEF PrevUsed
  <2>1. i - 1 \in 1 .. Len(h) - 1 /\ (i - 1) + 1 = i
    BY <1>1
  <2> QED  BY <1>2, <2>1
<1> QED  BY <1>3, <1>4, <1>5

\* Setting a mark leaves the tiling.
LEMMA MarkTiles ==
  ASSUME NEW h, Good(h), NEW i \in DOMAIN h, NEW u \in BOOLEAN, Compact(h, i)
  PROVE  LET g == [h EXCEPT ![i].inUse = u] IN
         /\ Compact(g, i)
         /\ NextUsed(h, i) => NextUsed(g, i)
         /\ PrevUsed(h, i) => PrevUsed(g, i)
         /\ \A b, e : Tiles(h, b, e) => Tiles(g, b, e)
<1> DEFINE g == [h EXCEPT ![i].inUse = u]
<1>1. /\ Good(g) /\ DOMAIN g = DOMAIN h
      /\ g[i].addr = h[i].addr /\ g[i].size = h[i].size
      /\ \A k \in DOMAIN h : k # i => g[k] = h[k]
  BY MarkGood
<1> HIDE DEF g
<1>2. /\ h \in Seq(Block) /\ g \in Seq(Block)
      /\ Len(h) \in Nat /\ DOMAIN h = 1 .. Len(h) /\ Len(g) = Len(h) /\ i \in 1 .. Len(h)
  BY <1>1 DEF Good
<1>3. \A k \in DOMAIN h : g[k].addr = h[k].addr /\ End(g[k]) = End(h[k])
  BY <1>1 DEF End
<1>4. \A k \in 1 .. Len(h) - 1 : k \in DOMAIN h /\ k + 1 \in DOMAIN h
  BY <1>2
<1>5. Compact(g, i)
  BY <1>1, <1>2, <1>4 DEF Compact
<1>6. NextUsed(h, i) => NextUsed(g, i)
  <2>1. i + 1 # i
    BY <1>2
  <2> QED  BY <1>1, <2>1 DEF NextUsed
<1>7. PrevUsed(h, i) => PrevUsed(g, i)
  <2>1. i - 1 # i
    BY <1>2
  <2> QED  BY <1>1, <2>1 DEF PrevUsed
<1>8. ASSUME NEW b, NEW e, Tiles(h, b, e) PROVE Tiles(g, b, e)
  <2>1. Len(h) > 0 /\ h[1].addr = b /\ End(h[Len(h)]) = e
        /\ \A k \in 1 .. Len(h) - 1 : End(h[k]) = h[k + 1].addr
    BY <1>8 DEF Tiles
  <2>2. 1 \in DOMAIN h /\ Len(h) \in DOMAIN h
    BY <1>2, <2>1
  <2>3. g[1].addr = b /\ End(g[Len(g)]) = e
    BY <1>2, <1>3, <2>1, <2>2
  <2>4. \A k \in 1 .. Len(g) - 1 : End(g[k]) = g[k + 1].addr
    BY <1>2, <1>3, <1>4, <2>1
  <2> QED  BY <1>2, <2>1, <2>3, <2>4 DEF Tiles
<1> QED  BY <1>5, <1>6, <1>7, <1>8 DEF g

\* Cutting a block whose successor is in use leaves the tiling, and at most
\* block i beside a free one.
LEMMA CutTiles ==
  ASSUME NEW h, Good(h), NEW i \in DOMAIN h, NEW n \in Nat, n + HDR <= h[i].size,
         Compact(h, i), NextUsed(h, i)
  PROVE  LET g == Cut(h, i, n) IN
         /\ Compact(g, i)
         /\ NextUsed(g, i + 1)
         /\ PrevUsed(h, i) => PrevUsed(g, i)
         /\ \A b, e : Tiles(h, b, e) => Tiles(g, b, e)
<1> DEFINE g == Cut(h, i, n)
<1>0. h \in Seq(Block)
  BY DEF Good
<1>1. /\ h \in Seq(Block) /\ Len(h) \in Nat /\ DOMAIN h = 1 .. Len(h) /\ i \in 1 .. Len(h)
      /\ h[i].addr \in Nat /\ h[i].size \in Nat
  BY <1>0, BlockFields
<1>2. /\ g \in Seq(Block) /\ Len(g) = Len(h) + 1
      /\ \A k \in 1 .. i - 1 : g[k] = h[k]
      /\ g[i].addr = h[i].addr /\ g[i].size = n /\ g[i].inUse = h[i].inUse
      /\ g[i + 1].addr = h[i].addr + HDR + n
      /\ g[i + 1].size = h[i].size - n - HDR
      /\ g[i + 1].inUse = FALSE
      /\ \A k \in i + 2 .. Len(h) + 1 : g[k] = h[k - 1]
  BY <1>0, CutAt
<1> HIDE DEF g
<1>3. DOMAIN g = 1 .. Len(h) + 1
  BY <1>1, <1>2
<1>11. Len(h) \in Nat /\ i \in 1 .. Len(h) /\ Len(g) = Len(h) + 1
  BY <1>1, <1>2
<1>10. ASSUME NEW k \in i + 2 .. Len(h)
       PROVE  g[k] = h[k - 1] /\ g[k + 1] = h[k]
  <2>1. k \in i + 2 .. Len(h) + 1 /\ k + 1 \in i + 2 .. Len(h) + 1 /\ (k + 1) - 1 = k
    BY <1>1
  <2> QED  BY <1>2, <2>1
<1>4. End(g[i]) = g[i + 1].addr /\ End(g[i + 1]) = End(h[i])
  <2> DEFINE x == h[i].addr
             y == h[i].size
  <2>1. x \in Nat /\ y \in Nat
    BY <1>1
  <2>2. /\ End(g[i]) = x + HDR + n /\ g[i + 1].addr = x + HDR + n
        /\ End(g[i + 1]) = (x + HDR + n) + HDR + (y - n - HDR) /\ End(h[i]) = x + HDR + y
    BY <1>2 DEF End
  <2> HIDE DEF x, y
  <2>3. (x + HDR + n) + HDR + (y - n - HDR) = x + HDR + y
    BY <2>1 DEF HDR
  <2> QED  BY <2>2, <2>3
<1>5. ASSUME NEW k \in 1 .. Len(g) - 1, k # i, k + 1 # i
      PROVE  g[k].inUse \/ g[k + 1].inUse
  <2>1. CASE k + 1 < i
    <3>1. k \in 1 .. i - 1 /\ k + 1 \in 1 .. i - 1 /\ k \in 1 .. Len(h) - 1
      BY <1>1, <2>1
    <3> QED  BY <1>2, <1>5, <3>1 DEF Compact
  <2>2. CASE k = i + 1
    <3>1. i + 2 \in i + 2 .. Len(h) + 1 /\ k + 1 = i + 2 /\ (i + 2) - 1 = i + 1 /\ i + 1 \in DOMAIN h
      BY <1>1, <1>11, <2>2
    <3>2. g[i + 2] = h[i + 1]
      BY <1>2, <3>1
    <3> QED  BY <2>2, <3>1, <3>2 DEF NextUsed
  <2>3. CASE k > i + 1
    <3>1. /\ k \in i + 2 .. Len(h) /\ (k - 1) + 1 = k
          /\ k - 1 \in 1 .. Len(h) - 1 /\ k - 1 # i /\ (k - 1) + 1 # i
      BY <1>11, <2>3
    <3>2. g[k] = h[k - 1] /\ g[k + 1] = h[(k - 1) + 1]
      BY <1>10, <3>1
    <3> QED  BY <3>1, <3>2 DEF Compact
  <2> QED  BY <1>11, <1>5, <2>1, <2>2, <2>3
<1>6. NextUsed(g, i + 1)
  <2> SUFFICES ASSUME (i + 1) + 1 \in DOMAIN g PROVE g[(i + 1) + 1].inUse
    BY DEF NextUsed
  <2>1. /\ i + 2 \in i + 2 .. Len(h) + 1 /\ (i + 1) + 1 = i + 2 /\ (i + 2) - 1 = i + 1
        /\ i + 1 \in DOMAIN h
    BY <1>1, <1>3
  <2>2. g[i + 2] = h[i + 1]
    BY <1>2, <2>1
  <2> QED  BY <2>1, <2>2 DEF NextUsed
<1>7. PrevUsed(h, i) => PrevUsed(g, i)
  <2> SUFFICES ASSUME PrevUsed(h, i), i - 1 \in DOMAIN g PROVE g[i - 1].inUse
    BY DEF PrevUsed
  <2>1. i - 1 \in 1 .. i - 1 /\ i - 1 \in DOMAIN h
    BY <1>1, <1>3
  <2> QED  BY <1>2, <2>1 DEF PrevUsed
<1>8. ASSUME NEW b, NEW e, Tiles(h, b, e) PROVE Tiles(g, b, e)
  <2>1. h[1].addr = b /\ End(h[Len(h)]) = e
        /\ \A k \in 1 .. Len(h) - 1 : End(h[k]) = h[k + 1].addr
    BY <1>8 DEF Tiles
  <2>2. g[1].addr = b
    <3>1. CASE i = 1
      BY <1>2, <2>1, <3>1
    <3>2. CASE i # 1
      <4>1. 1 \in 1 .. i - 1
        BY <1>1, <3>2
      <4> QED  BY <1>2, <2>1, <4>1
    <3> QED  BY <3>1, <3>2
  <2>3. End(g[Len(h) + 1]) = e
    <3>1. CASE i = Len(h)
      BY <1>4, <2>1, <3>1
    <3>2. CASE i # Len(h)
      <4>1. Len(h) + 1 \in i + 2 .. Len(h) + 1 /\ (Len(h) + 1) - 1 = Len(h)
        BY <1>1, <3>2
      <4>2. g[Len(h) + 1] = h[Len(h)]
        BY <1>2, <4>1
      <4> QED  BY <2>1, <4>2
    <3> QED  BY <3>1, <3>2
  <2>4. ASSUME NEW k \in 1 .. Len(g) - 1 PROVE End(g[k]) = g[k + 1].addr
    <3>1. CASE k + 1 < i
      <4>1. k \in 1 .. i - 1 /\ k + 1 \in 1 .. i - 1 /\ k \in 1 .. Len(h) - 1
        BY <1>1, <3>1
      <4> QED  BY <1>2, <2>1, <4>1
    <3>2. CASE k + 1 = i
      <4>1. k \in 1 .. i - 1 /\ k \in 1 .. Len(h) - 1
        BY <1>1, <3>2
      <4>2. g[k] = h[k] /\ End(h[k]) = h[k + 1].addr
        BY <1>2, <2>1, <4>1
      <4> QED  BY <1>2, <3>2, <4>2
    <3>3. CASE k = i
      BY <1>4, <3>3
    <3>4. CASE k = i + 1
      <4>1. i + 2 \in i + 2 .. Len(h) + 1 /\ k + 1 = i + 2 /\ (i + 2) - 1 = i + 1
            /\ i \in 1 .. Len(h) - 1
        BY <1>11, <3>4
      <4>2. g[i + 2] = h[i + 1] /\ End(h[i]) = h[i + 1].addr
        BY <1>2, <2>1, <4>1
      <4> QED  BY <1>4, <3>4, <4>1, <4>2
    <3>5. CASE k > i + 1
      <4>1. k \in i + 2 .. Len(h) /\ (k - 1) + 1 = k /\ k - 1 \in 1 .. Len(h) - 1
        BY <1>11, <3>5
      <4>2. g[k] = h[k - 1] /\ g[k + 1] = h[(k - 1) + 1]
        BY <1>10, <4>1
      <4> QED  BY <2>1, <4>1, <4>2
    <3> QED  BY <1>11, <3>1, <3>2, <3>3, <3>4, <3>5
  <2>5. Len(g) > 0
    BY <1>1, <1>2
  <2> QED  BY <1>2, <2>2, <2>3, <2>4, <2>5 DEF Tiles
<1>9. Compact(g, i)
  BY <1>5 DEF Compact
<1> QED  BY <1>6, <1>7, <1>8, <1>9 DEF g

\* Merging block i with its successor leaves the tiling, and at most block i
\* beside a free one.
LEMMA MergeTiles ==
  ASSUME NEW h, Good(h), NEW i \in DOMAIN h, i + 1 \in DOMAIN h,
         Compact(h, i) \/ Compact(h, i + 1)
  PROVE  LET g == Merge(h, i) IN
         /\ Compact(g, i)
         /\ NextUsed(h, i + 1) => NextUsed(g, i)
         /\ PrevUsed(h, i) => PrevUsed(g, i)
         /\ \A b, e : Tiles(h, b, e) => Tiles(g, b, e)
<1> DEFINE g == Merge(h, i)
<1>0. h \in Seq(Block)
  BY DEF Good
<1>1. /\ Len(h) \in Nat /\ DOMAIN h = 1 .. Len(h) /\ i \in 1 .. Len(h) - 1
      /\ h[i].addr \in Nat /\ h[i].size \in Nat /\ h[i + 1].addr \in Nat /\ h[i + 1].size \in Nat
  BY <1>0, BlockFields
<1>2. /\ g \in Seq(Block) /\ Len(g) = Len(h) - 1
      /\ \A k \in 1 .. i - 1 : g[k] = h[k]
      /\ g[i].addr = h[i].addr /\ g[i].inUse = h[i].inUse
      /\ g[i].size = h[i].size + h[i + 1].size + HDR
      /\ \A k \in i + 1 .. Len(h) - 1 : g[k] = h[k + 1]
  BY <1>0, MergeAt
<1> HIDE DEF g
<1>3. DOMAIN g = 1 .. Len(h) - 1
  BY <1>1, <1>2
<1>10. /\ Len(h) \in Nat /\ i \in 1 .. Len(h) - 1 /\ Len(g) = Len(h) - 1
  BY <1>1, <1>2
<1>11. ASSUME NEW k \in 1 .. Len(g) - 1, k > i
       PROVE  /\ k \in i + 1 .. Len(h) - 1 /\ k + 1 \in i + 1 .. Len(h) - 1
              /\ k + 1 \in 1 .. Len(h) - 1 /\ k + 1 # i + 1 /\ (k + 1) + 1 # i + 1
              /\ k + 1 # i /\ (k + 1) + 1 # i
  BY <1>10, <1>11
<1>4. End(h[i]) = h[i + 1].addr => End(g[i]) = End(h[i + 1])
  <2> DEFINE x == h[i].addr
             y == h[i].size
             v == h[i + 1].addr
             w == h[i + 1].size
  <2>1. x \in Nat /\ y \in Nat /\ v \in Nat /\ w \in Nat
    BY <1>1
  <2>2. /\ End(h[i]) = x + HDR + y /\ End(h[i + 1]) = v + HDR + w
        /\ End(g[i]) = x + HDR + (y + w + HDR)
    BY <1>2 DEF End
  <2> HIDE DEF x, y, v, w
  <2>3. x + HDR + y = v => x + HDR + (y + w + HDR) = v + HDR + w
    BY <2>1 DEF HDR
  <2> QED  BY <2>2, <2>3 DEF v
<1>5. ASSUME NEW k \in 1 .. Len(g) - 1, k # i, k + 1 # i
      PROVE  g[k].inUse \/ g[k + 1].inUse
  <2>1. CASE k + 1 < i
    <3>1. /\ k \in 1 .. i - 1 /\ k + 1 \in 1 .. i - 1 /\ k \in 1 .. Len(h) - 1
          /\ k # i + 1 /\ k + 1 # i + 1
      BY <1>1, <2>1
    <3> QED  BY <1>2, <1>5, <3>1 DEF Compact
  <2>2. CASE k > i
    <3>1. /\ k \in i + 1 .. Len(h) - 1 /\ k + 1 \in i + 1 .. Len(h) - 1
          /\ k + 1 \in 1 .. Len(h) - 1 /\ k + 1 # i + 1 /\ (k + 1) + 1 # i + 1
          /\ k + 1 # i /\ (k + 1) + 1 # i
      BY <1>11, <2>2
    <3>2. g[k] = h[k + 1] /\ g[k + 1] = h[(k + 1) + 1]
      BY <1>2, <3>1
    <3> QED  BY <1>5, <3>1, <3>2 DEF Compact
  <2> QED  BY <1>10, <1>5, <2>1, <2>2
<1>6. NextUsed(h, i + 1) => NextUsed(g, i)
  <2> SUFFICES ASSUME NextUsed(h, i + 1), i + 1 \in DOMAIN g PROVE g[i + 1].inUse
    BY DEF NextUsed
  <2>1. i + 1 \in i + 1 .. Len(h) - 1 /\ (i + 1) + 1 \in DOMAIN h
    BY <1>1, <1>3
  <2> QED  BY <1>2, <2>1 DEF NextUsed
<1>7. PrevUsed(h, i) => PrevUsed(g, i)
  <2> SUFFICES ASSUME PrevUsed(h, i), i - 1 \in DOMAIN g PROVE g[i - 1].inUse
    BY DEF PrevUsed
  <2>1. i - 1 \in 1 .. i - 1 /\ i - 1 \in DOMAIN h
    BY <1>1, <1>3
  <2> QED  BY <1>2, <2>1 DEF PrevUsed
<1>8. ASSUME NEW b, NEW e, Tiles(h, b, e) PROVE Tiles(g, b, e)
  <2>1. h[1].addr = b /\ End(h[Len(h)]) = e
        /\ \A k \in 1 .. Len(h) - 1 : End(h[k]) = h[k + 1].addr
    BY <1>8 DEF Tiles
  <2>2. g[1].addr = b
    <3>1. CASE i = 1
      BY <1>2, <2>1, <3>1
    <3>2. CASE i # 1
      <4>1. 1 \in 1 .. i - 1
        BY <1>1, <3>2
      <4> QED  BY <1>2, <2>1, <4>1
    <3> QED  BY <3>1, <3>2
  <2>6. End(g[i]) = End(h[i + 1])
    BY <1>1, <1>4, <2>1
  <2>3. End(g[Len(h) - 1]) = e
    <3>1. CASE i = Len(h) - 1
      <4>1. i + 1 = Len(h)
        BY <1>1, <3>1
      <4> QED  BY <2>1, <2>6, <3>1, <4>1
    <3>2. CASE i # Len(h) - 1
      <4>1. Len(h) - 1 \in i + 1 .. Len(h) - 1 /\ (Len(h) - 1) + 1 = Len(h)
        BY <1>1, <3>2
      <4>2. g[Len(h) - 1] = h[Len(h)]
        BY <1>2, <4>1
      <4> QED  BY <2>1, <4>2
    <3> QED  BY <3>1, <3>2
  <2>4. ASSUME NEW k \in 1 .. Len(g) - 1 PROVE End(g[k]) = g[k + 1].addr
    <3>1. CASE k + 1 < i
      <4>1. k \in 1 .. i - 1 /\ k + 1 \in 1 .. i - 1 /\ k \in 1 .. Len(h) - 1
        BY <1>1, <3>1
      <4> QED  BY <1>2, <2>1, <4>1
    <3>2. CASE k + 1 = i
      <4>1. k \in 1 .. i - 1 /\ k \in 1 .. Len(h) - 1
        BY <1>1, <3>2
      <4>2. g[k] = h[k] /\ End(h[k]) = h[k + 1].addr
        BY <1>2, <2>1, <4>1
      <4> QED  BY <1>2, <3>2, <4>2
    <3>3. CASE k = i
      <4>1. i + 1 \in i + 1 .. Len(h) - 1 /\ i + 1 \in 1 .. Len(h) - 1
        BY <1>1, <1>2, <3>3
      <4>2. g[i + 1] = h[(i + 1) + 1] /\ End(h[i + 1]) = h[(i + 1) + 1].addr
        BY <1>2, <2>1, <4>1
      <4> QED  BY <2>6, <3>3, <4>2
    <3>4. CASE k > i
      <4>1. /\ k \in i + 1 .. Len(h) - 1 /\ k + 1 \in i + 1 .. Len(h) - 1
            /\ k + 1 \in 1 .. Len(h) - 1
        BY <1>11, <3>4
      <4>2. g[k] = h[k + 1] /\ g[k + 1] = h[(k + 1) + 1]
        BY <1>2, <4>1
      <4> QED  BY <2>1, <4>1, <4>2
    <3> QED  BY <1>10, <3>1, <3>2, <3>3, <3>4
  <2>5. Len(g) > 0
    BY <1>1, <1>2
  <2> QED  BY <1>2, <2>2, <2>3, <2>4, <2>5 DEF Tiles
<1>9. Compact(g, i)
  BY <1>5 DEF Compact
<1> QED  BY <1>6, <1>7, <1>8, <1>9 DEF g

\* malloc's split does the same as a cut, or nothing.
LEMMA SplitTiles ==
  ASSUME NEW h, Good(h), NEW i \in DOMAIN h, NEW n \in Nat, n <= h[i].size,
         Compact(h, i), NextUsed(h, i)
  PROVE  LET g == Split(h, i, n) IN
         /\ Good(g) /\ i \in DOMAIN g /\ g[i].inUse = h[i].inUse
         /\ Compact(g, i)
         /\ \A b, e : Tiles(h, b, e) => Tiles(g, b, e)
<1> DEFINE g == Split(h, i, n)
<1>1. IsSplit(g, h, i, n)
  BY SplitGood
<1>2. Compact(g, i) /\ \A b, e : Tiles(h, b, e) => Tiles(g, b, e)
  <2>1. CASE ~(h[i].size > n + HDR)
    BY <2>1 DEF Split
  <2>2. CASE h[i].size > n + HDR
    <3>1. h \in Seq(Block) /\ h[i].size \in Nat
      BY BlockFields DEF Good
    <3>2. n + HDR <= h[i].size
      BY <2>2, <3>1 DEF HDR
    <3>3. g = Cut(h, i, n)
      BY <2>2 DEF Split
    <3> HIDE DEF g
    <3> QED  BY <3>2, <3>3, CutTiles
  <2> QED  BY <2>1, <2>2
<1> HIDE DEF g
<1> QED  BY <1>1, <1>2 DEF IsSplit, g

\* Taking n bytes of a free block whose successor is in use.
LEMMA TakeTiles ==
  ASSUME NEW h, Good(h), NEW i \in DOMAIN h, NEW n \in Nat, n <= h[i].size,
         Compact(h, i), NextUsed(h, i)
  PROVE  LET g == Take(h, i, n) IN
         /\ Compact(g, 0)
         /\ \A b, e : Tiles(h, b, e) => Tiles(g, b, e)
<1> DEFINE f == Split(h, i, n)
           g == [f EXCEPT ![i].inUse = TRUE]
<1>1. /\ Good(f) /\ i \in DOMAIN f /\ Compact(f, i)
      /\ \A b, e : Tiles(h, b, e) => Tiles(f, b, e)
  BY SplitTiles
<1>2. Take(h, i, n) = g
  BY DEF Take, MarkUsed
<1> HIDE DEF f
<1>3. Compact(g, i) /\ \A b, e : Tiles(f, b, e) => Tiles(g, b, e)
  BY <1>1, MarkTiles
<1>4. Good(g) /\ i \in DOMAIN g /\ g[i].inUse = TRUE
  BY <1>1, MarkGood
<1> HIDE DEF g
<1>5. Compact(g, 0)
  <2>1. g \in Seq(Block)
    BY <1>4 DEF Good
  <2>2. g[i].inUse
    BY <1>4, Zenon
  <2> QED  BY <1>3, <1>4, <2>1, <2>2, CompactAll
<1> QED  BY <1>1, <1>2, <1>3, <1>5

\* Giving a block back: the merges with both neighbours leave none free.
LEMMA ReleaseTiles ==
  ASSUME NEW h, Good(h), NEW i \in DOMAIN h, Compact(h, 0)
  PROVE  LET g == Release(h, i) IN
         /\ Compact(g, 0)
         /\ \A b, e : Tiles(h, b, e) => Tiles(g, b, e)
<1> DEFINE f == [h EXCEPT ![i].inUse = FALSE]
           m == MergeNext(f, i)
           g == MergePrev(m, i)
<1>1. /\ Good(f) /\ i \in DOMAIN f /\ ~f[i].inUse /\ Compact(f, i)
      /\ \A b, e : Tiles(h, b, e) => Tiles(f, b, e)
  <2>1. Compact(h, i)
    BY FreeBetweenUsed DEF Good
  <2>2. Compact(f, i) /\ \A b, e : Tiles(h, b, e) => Tiles(f, b, e)
    BY <2>1, MarkTiles
  <2> QED  BY <2>2, MarkGood
<1>2. Release(h, i) = g
  BY DEF Release, MarkFree
<1> HIDE DEF f
<1>3. /\ Good(m) /\ i \in DOMAIN m /\ ~m[i].inUse /\ Compact(m, i) /\ NextUsed(m, i)
      /\ \A b, e : Tiles(f, b, e) => Tiles(m, b, e)
  <2>1. CASE ~HasFree(f, i + 1)
    BY <1>1, <2>1 DEF MergeNext, HasFree, NextUsed
  <2>2. CASE HasFree(f, i + 1)
    <3>1. i + 1 \in DOMAIN f /\ ~f[i + 1].inUse /\ m = Merge(f, i)
      BY <2>2 DEF MergeNext, HasFree
    <3> HIDE DEF m
    <3>2. Good(m) /\ i \in DOMAIN m /\ m[i].inUse = f[i].inUse
      BY <1>1, <3>1, MergeGood
    <3>3. NextUsed(f, i + 1)
      <4> SUFFICES ASSUME (i + 1) + 1 \in DOMAIN f PROVE f[(i + 1) + 1].inUse
        BY DEF NextUsed
      <4>1. f \in Seq(Block)
        BY <1>1 DEF Good
      <4>2. i + 1 \in 1 .. Len(f) - 1 /\ i + 1 # i /\ (i + 1) + 1 # i
        BY <1>1, <4>1
      <4> QED  BY <1>1, <3>1, <4>2 DEF Compact
    <3>4. Compact(m, i) /\ NextUsed(m, i) /\ \A b, e : Tiles(f, b, e) => Tiles(m, b, e)
      BY <1>1, <3>1, <3>3, MergeTiles
    <3>5. ~m[i].inUse
      BY <1>1, <3>2, Zenon
    <3> QED  BY <3>2, <3>4, <3>5
  <2> QED  BY <2>1, <2>2
<1> HIDE DEF m
<1>4. m \in Seq(Block)
  BY <1>3 DEF Good
<1>5. Compact(g, 0) /\ \A b, e : Tiles(m, b, e) => Tiles(g, b, e)
  <2>1. CASE ~HasFree(m, i - 1)
    <3>1. g = m /\ PrevUsed(m, i)
      BY <2>1 DEF MergePrev, HasFree, PrevUsed
    <3>2. Compact(m, 0)
      BY <1>3, <1>4, <3>1, CompactAll
    <3> QED  BY <3>1, <3>2
  <2>2. CASE HasFree(m, i - 1)
    <3> DEFINE j == i - 1
    <3>1. j \in DOMAIN m /\ ~m[j].inUse /\ g = Merge(m, j)
      BY <2>2 DEF MergePrev, HasFree
    <3>2. j + 1 = i
      BY <1>3, <1>4
    <3> HIDE DEF j
    <3>3. PrevUsed(m, j)
      <4> SUFFICES ASSUME j - 1 \in DOMAIN m PROVE m[j - 1].inUse
        BY DEF PrevUsed
      <4>1. /\ j - 1 \in 1 .. Len(m) - 1 /\ (j - 1) + 1 = j
            /\ j - 1 # i /\ (j - 1) + 1 # i
        BY <1>4, <3>1, <3>2
      <4> QED  BY <1>3, <3>1, <4>1 DEF Compact
    <3> HIDE DEF g
    <3>4. /\ Compact(g, j) /\ NextUsed(g, j) /\ PrevUsed(g, j)
          /\ \A b, e : Tiles(m, b, e) => Tiles(g, b, e)
      BY <1>3, <3>1, <3>2, <3>3, MergeTiles
    <3>5. Good(g) /\ j \in DOMAIN g
      BY <1>3, <3>1, <3>2, MergeGood
    <3>6. g \in Seq(Block)
      BY <3>5 DEF Good
    <3> QED  BY <3>4, <3>5, <3>6, CompactAll
  <2> QED  BY <2>1, <2>2
<1> QED  BY <1>1, <1>2, <1>3, <1>5

\* Where the block before block i is in use, block i + 1 may be left out instead.
LEMMA CompactNext ==
  ASSUME NEW h \in Seq(Block), NEW i \in DOMAIN h, Compact(h, i), PrevUsed(h, i)
  PROVE  Compact(h, i + 1)
<1>1. Len(h) \in Nat /\ i \in 1 .. Len(h) /\ DOMAIN h = 1 .. Len(h)
  OBVIOUS
<1> SUFFICES ASSUME NEW k \in 1 .. Len(h) - 1, k # i + 1, k + 1 # i + 1
             PROVE  h[k].inUse \/ h[k + 1].inUse
  BY DEF Compact
<1>2. k # i
  BY <1>1
<1>3. CASE k + 1 # i
  BY <1>2, <1>3 DEF Compact
<1>4. CASE k + 1 = i
  <2>1. i - 1 \in DOMAIN h /\ i - 1 = k
    BY <1>1, <1>4
  <2> QED  BY <1>4, <2>1 DEF PrevUsed
<1> QED  BY <1>3, <1>4

\* idalloc_init keeps one region at most.
OneRegion == \A c, d \in Regions : c = d

\* What has been read of the map so far is tiled, or there is nothing.
Tiled ==
  /\ \A k \in 1 .. scan - 1 : Kept(MemoryMap[k]) =>
       /\ Tiles(heap, Base(MemoryMap[k]), End(RegionBlock(MemoryMap[k])))
       /\ useable = Bytes(MemoryMap[k])
  /\ Compact(heap, 0)
  /\ heap # <<>> => \E k \in 1 .. scan - 1 : Kept(MemoryMap[k])
  /\ useable = 0 \/ \E k \in 1 .. scan - 1 : Kept(MemoryMap[k])

\* In such a list Coalesced holds.
LEMMA TiledCoalesced ==
  ASSUME IInv, Tiled
  PROVE  Coalesced
<1> SUFFICES ASSUME Loaded, NEW d \in Regions
             PROVE  /\ heap[1].addr = Base(d)
                    /\ End(heap[Len(heap)]) = End(RegionBlock(d))
                    /\ \A i \in 1 .. Len(heap) - 1 :
                         /\ End(heap[i]) = heap[i + 1].addr
                         /\ heap[i].inUse \/ heap[i + 1].inUse
  BY DEF Coalesced
<1>1. PICK k \in DOMAIN MemoryMap : Kept(MemoryMap[k]) /\ d = MemoryMap[k]
  BY DEF Regions
<1>2. k \in 1 .. scan - 1
  BY MapAssumption DEF Loaded
<1>3. Tiles(heap, Base(d), End(RegionBlock(d)))
  BY <1>1, <1>2 DEF Tiled
<1>4. heap \in Seq(Block) /\ Len(heap) \in Nat
  BY DEF IInv, TypeOK
<1>5. ASSUME NEW i \in 1 .. Len(heap) - 1
      PROVE  heap[i].inUse \/ heap[i + 1].inUse
  <2>1. i # 0 /\ i + 1 # 0
    BY <1>4
  <2> QED  BY <2>1 DEF Tiled, Compact
<1> QED  BY <1>3, <1>5 DEF Tiles

\* idalloc_init puts the one region into an empty list.
LEMMA ScanAddTiled ==
  ASSUME SortedMap, OneRegion, IInv, Tiled, ScanAdd
  PROVE  Tiled'
<1> DEFINE d == MemoryMap[scan]
           r == RegionBlock(d)
<1>1. /\ Len(MemoryMap) \in Nat /\ DOMAIN MemoryMap = 1 .. Len(MemoryMap)
      /\ scan \in DOMAIN MemoryMap /\ d \in Descriptor /\ Kept(d)
      /\ scan' = scan + 1 /\ heap' = Append(heap, r) /\ useable' = useable + Bytes(d)
  BY MapAssumption DEF ScanAdd
<1>2. Bytes(d) \in Nat /\ Base(d) \in Nat
  BY <1>1, BytesNat
<1>3. End(r) > Base(d) /\ r.addr = Base(d) /\ r \in Block
  <2> DEFINE x == Base(d)
             y == Bytes(d)
  <2>1. r = [addr |-> x, size |-> y, inUse |-> FALSE] /\ End(r) = x + HDR + y
    BY DEF RegionBlock, End
  <2>2. x \in Nat /\ y \in Nat
    BY <1>2
  <2> HIDE DEF x, y, r
  <2>3. r \in Block /\ r.addr = x
    BY <2>1, <2>2, BlockRecord
  <2>4. End(r) > x
    BY <2>1, <2>2 DEF HDR
  <2> QED  BY <2>3, <2>4 DEF x
<1>4. ~\E k \in 1 .. scan - 1 : Kept(MemoryMap[k])
  <2> SUFFICES ASSUME NEW k \in 1 .. scan - 1, Kept(MemoryMap[k]) PROVE FALSE
    OBVIOUS
  <2>1. k \in DOMAIN MemoryMap /\ k < scan
    BY <1>1
  <2>2. MemoryMap[k] = d
    BY <1>1, <2>1 DEF OneRegion, Regions
  <2>3. End(RegionBlock(MemoryMap[k])) <= Base(d)
    BY <1>1, <2>1 DEF SortedMap
  <2>4. End(r) <= Base(d)
    BY <2>2, <2>3
  <2>5. End(r) \in Nat
    BY <1>2 DEF RegionBlock, End, HDR
  <2> QED  BY <1>2, <1>3, <2>4, <2>5
<1>5. heap' = <<r>>
  <2>1. heap = <<>>
    BY <1>4 DEF Tiled
  <2> HIDE DEF r
  <2> QED  BY <1>1, <2>1
<1> HIDE DEF r
<1>6. Len(heap') = 1 /\ heap'[1] = r
  BY <1>5
<1>7. Compact(heap', 0) /\ Tiles(heap', Base(d), End(r))
  BY <1>3, <1>6 DEF Compact, Tiles
<1>10. useable' = Bytes(d)
  BY <1>1, <1>2, <1>4 DEF Tiled
<1>8. \A k \in 1 .. scan' - 1 : Kept(MemoryMap[k]) => k = scan
  BY <1>1, <1>4
<1>9. scan \in 1 .. scan' - 1
  BY <1>1
<1> QED  BY <1>1, <1>7, <1>8, <1>9, <1>10 DEF Tiled, r

\* A call that tiles what was tiled.
LEMMA CallTiled ==
  ASSUME Tiled, Loaded, scan' = scan /\ useable' = useable, heap # <<>>, Compact(heap', 0),
         \A b, e : Tiles(heap, b, e) => Tiles(heap', b, e)
  PROVE  Tiled'
BY DEF Tiled

\* What the calls need to know of the list.
LEMMA HeapFacts ==
  ASSUME IInv, Tiled, NEW i \in DOMAIN heap
  PROVE  /\ Good(heap) /\ heap \in Seq(Block) /\ heap # <<>> /\ Compact(heap, 0) /\ Compact(heap, i)
         /\ ~heap[i].inUse => NextUsed(heap, i) /\ PrevUsed(heap, i)
<1>1. Good(heap) /\ heap \in Seq(Block) /\ Compact(heap, 0)
  BY IInvFacts DEF Good, Tiled
<1>2. heap # <<>>
  BY <1>1
<1> QED  BY <1>1, <1>2, FreeBetweenUsed

\* malloc and aalloc without padding.
LEMMA TakeTiled ==
  ASSUME IInv, Tiled, Loaded, scan' = scan /\ useable' = useable, NEW i \in DOMAIN heap, ~heap[i].inUse,
         NEW n \in Nat, n <= heap[i].size, heap' = Take(heap, i, n)
  PROVE  Tiled'
<1>1. Good(heap) /\ heap # <<>> /\ Compact(heap, i) /\ NextUsed(heap, i)
  BY HeapFacts
<1>2. Compact(heap', 0) /\ \A b, e : Tiles(heap, b, e) => Tiles(heap', b, e)
  BY <1>1, TakeTiles
<1> QED  BY <1>1, <1>2, CallTiled

\* malloc.
LEMMA MallocTiled ==
  ASSUME IInv, Tiled, NEW n \in Sizes, Malloc(n)
  PROVE  Tiled'
<1>1. PICK i \in DOMAIN heap : First(Fits(heap, n, 1), i) /\ heap' = Take(heap, i, n)
  BY DEF Malloc
<1>2. n \in Nat /\ Loaded /\ scan' = scan /\ useable' = useable /\ Good(heap)
  BY SizeAssumption, IInvFacts DEF Malloc
<1>3. ~heap[i].inUse /\ n <= heap[i].size
  <2>1. LET pad == Padding(heap[i], 1) IN
         /\ ~heap[i].inUse
         /\ Pointer(heap[i]) \in Nat /\ heap[i].size \in Nat
         /\ pad = 0 \/ (pad \in Nat /\ HDR < pad)
         /\ n + pad <= heap[i].size
    BY <1>1, <1>2, FitProps
  <2> QED  BY <1>2, <2>1
<1> QED  BY <1>1, <1>2, <1>3, TakeTiled

\* aalloc of an aligned block.
LEMMA AallocInPlaceTiled ==
  ASSUME IInv, Tiled, NEW n \in Sizes, NEW a \in Aligns, AallocInPlace(n, a)
  PROVE  Tiled'
<1>1. PICK i \in DOMAIN heap :
        First(Fits(heap, n, a), i) /\ Padding(heap[i], a) = 0 /\ heap' = Take(heap, i, n)
  BY DEF AallocInPlace
<1>2. n \in Nat /\ a \in Nat \ {0} /\ Loaded /\ scan' = scan /\ useable' = useable /\ Good(heap)
  BY SizeAssumption, IInvFacts DEF AallocInPlace
<1>3. ~heap[i].inUse /\ n + 0 <= heap[i].size /\ heap[i].size \in Nat
  BY <1>1, <1>2, FitProps
<1>4. n <= heap[i].size
  BY <1>2, <1>3
<1> QED  BY <1>1, <1>2, <1>3, <1>4, TakeTiled

\* aalloc with padding: what was skipped is a block of its own.
LEMMA AallocPaddedTiled ==
  ASSUME IInv, Tiled, NEW n \in Sizes, NEW a \in Aligns, AallocPadded(n, a)
  PROVE  Tiled'
<1>1. PICK i \in DOMAIN heap :
        LET pad == Padding(heap[i], a) IN
        /\ First(Fits(heap, n, a), i)
        /\ pad # 0
        /\ heap' = MergePrev(Take(Pad(heap, i, pad), i + 1, n), i)
  BY DEF AallocPadded
<1> DEFINE pad == Padding(heap[i], a)
           c   == Pad(heap, i, pad)
           t   == Take(c, i + 1, n)
<1>2. n \in Nat /\ a \in Nat \ {0} /\ Loaded /\ scan' = scan /\ useable' = useable
  BY SizeAssumption DEF AallocPadded
<1>3. Good(heap)
  BY IInvFacts
<1>4. /\ ~heap[i].inUse
      /\ heap[i].size \in Nat
      /\ pad = 0 \/ (pad \in Nat /\ HDR < pad)
      /\ n + pad <= heap[i].size
  BY <1>1, <1>2, <1>3, FitProps
<1>5. pad # 0 /\ heap' = MergePrev(t, i)
  BY <1>1
<1>6. c = Cut(heap, i, pad - HDR)
  BY DEF Pad
<1> HIDE DEF pad, c
<1>7. pad - HDR \in Nat /\ (pad - HDR) + HDR = pad /\ pad <= heap[i].size
  BY <1>2, <1>4, <1>5 DEF HDR
<1>8. heap # <<>> /\ Compact(heap, i) /\ NextUsed(heap, i) /\ PrevUsed(heap, i)
  BY <1>4, HeapFacts
<1>9. /\ Compact(c, i) /\ NextUsed(c, i + 1) /\ PrevUsed(c, i)
      /\ \A b, e : Tiles(heap, b, e) => Tiles(c, b, e)
  BY <1>3, <1>6, <1>7, <1>8, CutTiles
<1>10. IsCut(c, heap, i, pad - HDR)
  BY <1>3, <1>6, <1>7, CutGood
<1>11. /\ Good(c) /\ c \in Seq(Block) /\ i \in DOMAIN c /\ i + 1 \in DOMAIN c
       /\ c[i].inUse = heap[i].inUse /\ c[i + 1].inUse = FALSE
       /\ c[i + 1].size = heap[i].size - (pad - HDR) - HDR
  BY <1>10 DEF IsCut, Good
<1>12. n <= c[i + 1].size
  BY <1>2, <1>4, <1>7, <1>11 DEF HDR
<1>13. Compact(c, i + 1)
  BY <1>9, <1>11, CompactNext
<1> HIDE DEF t
<1>14. Compact(t, 0) /\ \A b, e : Tiles(c, b, e) => Tiles(t, b, e)
  BY <1>2, <1>9, <1>11, <1>12, <1>13, TakeTiles DEF t
<1>15. i \in DOMAIN t /\ ~t[i].inUse /\ t \in Seq(Block)
  <2>0. ~c[i + 1].inUse
    BY <1>11, Zenon
  <2>1. IsTake(t, c, i + 1, n)
    BY <1>2, <1>11, <1>12, <2>0, TakeGood DEF t
  <2>2. t \in Seq(Block) /\ i + 1 \in DOMAIN t
    BY <2>1 DEF IsTake, Good
  <2>3. i \in DOMAIN t /\ i \in 1 .. (i + 1) - 1
    BY <1>3, <2>2 DEF Good
  <2>4. t[i] = c[i]
    BY <2>1, <2>3 DEF IsTake
  <2> QED  BY <1>4, <1>11, <2>2, <2>3, <2>4, Zenon
<1>16. heap' = t
  <2>1. PrevUsed(t, i)
    BY <1>14, <1>15, FreeBetweenUsed
  <2> QED  BY <1>5, <2>1 DEF PrevUsed, MergePrev, HasFree
<1>17. Compact(heap', 0) /\ \A b, e : Tiles(heap, b, e) => Tiles(heap', b, e)
  BY <1>9, <1>14, <1>16
<1> QED  BY <1>2, <1>8, <1>17, CallTiled

\* free.
LEMMA FreeTiled ==
  ASSUME IInv, Tiled, NEW p \in DOMAIN live, Free(p)
  PROVE  Tiled'
<1> DEFINE i == BlockOf(heap, p)
<1>1. Loaded /\ scan' = scan /\ useable' = useable /\ heap' = Release(heap, i)
  BY DEF Free
<1>2. Good(heap) /\ Matches(heap, live)
  BY IInvFacts
<1>3. i \in DOMAIN heap
  BY <1>2, BlockOfProps
<1> HIDE DEF i
<1>4. heap # <<>> /\ Compact(heap, 0)
  BY <1>3, HeapFacts
<1>5. Compact(heap', 0) /\ \A b, e : Tiles(heap, b, e) => Tiles(heap', b, e)
  BY <1>1, <1>2, <1>3, <1>4, ReleaseTiles
<1> QED  BY <1>1, <1>4, <1>5, CallTiled

\* realloc into the next block.
LEMMA ReallocGrowTiled ==
  ASSUME IInv, Tiled, NEW p \in DOMAIN live, NEW n \in Sizes, ReallocGrow(p, n)
  PROVE  Tiled'
<1> DEFINE i == BlockOf(heap, p)
           m == Merge(heap, i)
           g == Split(m, i, n)
<1>1. n \in Nat /\ Loaded /\ scan' = scan /\ useable' = useable /\ CanGrow(heap, i, n) /\ heap' = g
  BY SizeAssumption DEF ReallocGrow
<1>2. Good(heap) /\ Matches(heap, live)
  BY IInvFacts
<1>3. i \in DOMAIN heap /\ heap[i].inUse
  BY <1>2, BlockOfProps
<1> HIDE DEF i
<1>4. /\ i + 1 \in DOMAIN heap /\ ~heap[i + 1].inUse
      /\ heap[i + 1].size + HDR >= n - heap[i].size
  BY <1>1 DEF CanGrow, HasFree
<1>5. /\ Good(m) /\ i \in DOMAIN m /\ m[i].inUse = heap[i].inUse
      /\ m[i].size = heap[i].size + heap[i + 1].size + HDR
  BY <1>2, <1>3, <1>4, MergeGood
<1>6. n <= m[i].size
  <2>1. heap[i].size \in Nat /\ heap[i + 1].size \in Nat
    BY <1>2, <1>3, <1>4, BlockFields DEF Good
  <2> QED  BY <1>1, <1>4, <1>5, <2>1 DEF HDR
<1>7. heap # <<>> /\ Compact(heap, i) /\ NextUsed(heap, i + 1)
  BY <1>3, <1>4, HeapFacts
<1>8. /\ Compact(m, i) /\ NextUsed(m, i)
      /\ \A b, e : Tiles(heap, b, e) => Tiles(m, b, e)
  BY <1>2, <1>3, <1>4, <1>7, MergeTiles
<1> HIDE DEF m
<1>9. /\ Good(g) /\ i \in DOMAIN g /\ g[i].inUse = m[i].inUse /\ Compact(g, i)
      /\ \A b, e : Tiles(m, b, e) => Tiles(g, b, e)
  BY <1>1, <1>5, <1>6, <1>8, SplitTiles
<1> HIDE DEF g
<1>10. Compact(g, 0)
  <2>1. g \in Seq(Block)
    BY <1>9 DEF Good
  <2>2. g[i].inUse
    BY <1>3, <1>5, <1>9, Zenon
  <2> QED  BY <1>9, <2>1, <2>2, CompactAll
<1> QED  BY <1>1, <1>7, <1>8, <1>9, <1>10, CallTiled

\* realloc to another block.
LEMMA ReallocMoveTiled ==
  ASSUME IInv, Tiled, NEW p \in DOMAIN live, NEW n \in Sizes, ReallocMove(p, n)
  PROVE  Tiled'
<1>1. PICK j \in DOMAIN heap :
        /\ First(Fits(heap, n, 1), j)
        /\ heap' = Release(Take(heap, j, n), BlockOf(Take(heap, j, n), p))
  BY DEF ReallocMove
<1> DEFINE t == Take(heap, j, n)
           k == BlockOf(t, p)
<1>2. n \in Nat /\ Loaded /\ scan' = scan /\ useable' = useable
  BY SizeAssumption DEF ReallocMove
<1>3. Good(heap) /\ Matches(heap, live)
  BY IInvFacts
<1>4. ~heap[j].inUse /\ n <= heap[j].size
  <2>1. LET pad == Padding(heap[j], 1) IN
         /\ ~heap[j].inUse
         /\ Pointer(heap[j]) \in Nat /\ heap[j].size \in Nat
         /\ pad = 0 \/ (pad \in Nat /\ HDR < pad)
         /\ n + pad <= heap[j].size
    BY <1>1, <1>2, <1>3, FitProps
  <2> QED  BY <1>2, <2>1
<1>5. heap' = Release(t, k)
  BY <1>1
<1>6. heap # <<>> /\ Compact(heap, j) /\ NextUsed(heap, j)
  BY <1>4, HeapFacts
<1>7. Compact(t, 0) /\ \A b, e : Tiles(heap, b, e) => Tiles(t, b, e)
  BY <1>2, <1>3, <1>4, <1>6, TakeTiles
<1>8. IsTake(t, heap, j, n)
  BY <1>2, <1>3, <1>4, TakeGood
<1> HIDE DEF t
<1>9. Good(t) /\ n <= t[j].size /\ Used(t) = Used(heap) \cup {t[j]}
  BY <1>8 DEF IsTake
<1>10. Matches(t, Hold(live, Pointer(t[j]), n, 1)) /\ p \in DOMAIN Hold(live, Pointer(t[j]), n, 1)
  <2>1. Matches(t, Hold(live, Pointer(t[j]), n, 1))
    BY <1>3, <1>9, HoldMatches
  <2> QED  BY <2>1 DEF Hold
<1>11. k \in DOMAIN t
  BY <1>9, <1>10, BlockOfProps
<1> HIDE DEF k
<1>12. Compact(heap', 0) /\ \A b, e : Tiles(t, b, e) => Tiles(heap', b, e)
  BY <1>5, <1>7, <1>9, <1>11, ReleaseTiles
<1> QED  BY <1>2, <1>6, <1>7, <1>12, CallTiled

\* Every step of the list keeps it tiled.
LEMMA NextTiled ==
  ASSUME SortedMap, OneRegion, IInv, Tiled, [Next]_vars
  PROVE  Tiled'
<1>1. CASE ScanSkip
  <2>1. /\ Len(MemoryMap) \in Nat /\ scan \in 1 .. Len(MemoryMap)
        /\ ~Kept(MemoryMap[scan]) /\ scan' = scan + 1 /\ heap' = heap /\ useable' = useable
    BY <1>1, MapAssumption DEF ScanSkip
  <2>2. \A k \in 1 .. scan' - 1 : Kept(MemoryMap[k]) => k \in 1 .. scan - 1
    BY <2>1
  <2>3. \A k \in 1 .. scan - 1 : k \in 1 .. scan' - 1
    BY <2>1
  <2> QED  BY <2>1, <2>2, <2>3 DEF Tiled
<1>2. CASE ScanAdd
  BY <1>2, ScanAddTiled
<1>3. CASE \E n \in Sizes : Malloc(n)
  BY <1>3, MallocTiled
<1>4. CASE \E n \in Sizes, a \in Aligns : AallocInPlace(n, a)
  BY <1>4, AallocInPlaceTiled
<1>5. CASE \E n \in Sizes, a \in Aligns : AallocPadded(n, a)
  BY <1>5, AallocPaddedTiled
<1>6. ASSUME NEW p \in DOMAIN live, NEW n \in Sizes, ReallocKeep(p, n)
      PROVE  Tiled'
  BY <1>6 DEF ReallocKeep, Tiled
<1>7. CASE \E p \in DOMAIN live, n \in Sizes : ReallocGrow(p, n)
  BY <1>7, ReallocGrowTiled
<1>8. CASE \E p \in DOMAIN live, n \in Sizes : ReallocMove(p, n)
  BY <1>8, ReallocMoveTiled
<1>9. CASE \E p \in DOMAIN live : Free(p)
  BY <1>9, FreeTiled
<1>10. CASE vars' = vars
  BY <1>10 DEF vars, Tiled
<1>11. ASSUME NEW n \in Sizes, NEW a \in Aligns \cup {1}, NoMemory(n, a)
       PROVE  vars' = vars
  BY <1>11 DEF NoMemory
<1> QED  BY <1>1, <1>2, <1>3, <1>4, <1>5, <1>6, <1>7, <1>8, <1>9, <1>10, <1>11
         DEF Next

-----------------------------------------------------------------------------
(* What is available *)

\* A set of natural numbers has a least one.
LEMMA LeastOfNats ==
  ASSUME NEW S, S \subseteq Nat, S # {}
  PROVE  \E i \in S : \A j \in S : i <= j
<1>1. PICK i \in S : \A j \in S : ~(<<j, i>> \in OpToRel(<, Nat))
  BY NatLessThanWellFounded, WFMin
<1>2. \A j \in S : ~(j < i)
  BY <1>1 DEF OpToRel
<1> QED  BY <1>2

\* f counts the free bytes of the first n blocks of h.
Counts(f, h, n) ==
  /\ f \in [0 .. n -> Nat] /\ f[0] = 0
  /\ \A k \in 1 .. n : f[k] = IF h[k].inUse THEN f[k - 1] ELSE f[k - 1] + h[k].size

\* There is such a count,
LEMMA CountExists ==
  ASSUME NEW h \in Seq(Block), NEW m \in 0 .. Len(h)
  PROVE  \E f : Counts(f, h, m)
<1> DEFINE S == {n \in 0 .. Len(h) : ~\E f : Counts(f, h, n)}
<1> SUFFICES ASSUME S # {} PROVE FALSE
  OBVIOUS
<1>1. Len(h) \in Nat /\ S \subseteq Nat
  OBVIOUS
<1>2. PICK n \in S : \A j \in S : n <= j
  BY <1>1, LeastOfNats
<1>3. n # 0
  <2> DEFINE f == [k \in 0 .. 0 |-> 0]
  <2>1. f \in [0 .. 0 -> Nat] /\ f[0] = 0
    OBVIOUS
  <2> HIDE DEF f
  <2>2. Counts(f, h, 0)
    BY <2>1 DEF Counts
  <2> QED  BY <2>2
<1>4. n \in 0 .. Len(h) /\ n - 1 \in 0 .. Len(h) /\ n - 1 \notin S /\ n \in DOMAIN h
  BY <1>1, <1>2, <1>3
<1>5. PICK f : Counts(f, h, n - 1)
  BY <1>4
<1> DEFINE more == IF h[n].inUse THEN f[n - 1] ELSE f[n - 1] + h[n].size
           g    == [k \in 0 .. n |-> IF k = n THEN more ELSE f[k]]
<1>6. h[n].size \in Nat /\ f[n - 1] \in Nat /\ f[0] = 0
  BY <1>1, <1>4, <1>5, BlockFields DEF Counts
<1>7. more \in Nat
  BY <1>6
<1>8. \A k \in 0 .. (n - 1) : f[k] \in Nat
  BY <1>5 DEF Counts
<1>9. /\ n \in Nat /\ \A k \in 0 .. n : k = n \/ k \in 0 .. (n - 1)
      /\ 0 \in 0 .. n /\ n \in 0 .. n
  BY <1>1, <1>3, <1>4
<1>10. g \in [0 .. n -> Nat] /\ g[n] = more /\ \A k \in 0 .. n : k # n => g[k] = f[k]
  <2> HIDE DEF more
  <2> QED  BY <1>7, <1>8, <1>9
<1> HIDE DEF g
<1>11. g[0] = 0
  BY <1>3, <1>6, <1>9, <1>10
<1>12. ASSUME NEW k \in 1 .. n
       PROVE  g[k] = IF h[k].inUse THEN g[k - 1] ELSE g[k - 1] + h[k].size
  <2>1. k - 1 \in 0 .. n /\ k - 1 # n /\ k \in 0 .. n
    BY <1>9
  <2>2. g[k - 1] = f[k - 1]
    BY <1>10, <2>1
  <2>3. CASE k = n
    BY <1>10, <2>2, <2>3
  <2>4. CASE k # n
    <3>1. k \in 1 .. (n - 1)
      BY <1>9, <2>4
    <3> QED  BY <1>5, <1>10, <2>1, <2>2, <2>4, <3>1 DEF Counts
  <2> QED  BY <2>3, <2>4
<1>13. Counts(g, h, n)
  BY <1>10, <1>11, <1>12 DEF Counts
<1> QED  BY <1>2, <1>13

\* and FreeUpTo is one.
LEMMA FreeUpToCounts ==
  ASSUME NEW h \in Seq(Block)
  PROVE  Counts(FreeUpTo(h), h, Len(h))
<1> DEFINE body(g) == [k \in 0 .. Len(h) |->
              IF k = 0 THEN 0
              ELSE IF h[k].inUse THEN g[k - 1] ELSE g[k - 1] + h[k].size]
           u == FreeUpTo(h)
<1>0. Len(h) \in Nat /\ Len(h) \in 0 .. Len(h)
  OBVIOUS
<1>1. PICK f : Counts(f, h, Len(h))
  BY <1>0, CountExists
<1>2. f = body(f)
  <2>1. \A k \in 0 .. Len(h) :
          f[k] = IF k = 0 THEN 0
                 ELSE IF h[k].inUse THEN f[k - 1] ELSE f[k - 1] + h[k].size
    <3> TAKE k \in 0 .. Len(h)
    <3>1. k = 0 \/ k \in 1 .. Len(h)
      BY <1>0
    <3> QED  BY <1>1, <3>1 DEF Counts
  <2> QED  BY <1>1, <2>1 DEF Counts
<1>3. u = body(u)
  BY <1>2, Zenon DEF FreeUpTo
<1> HIDE DEF u
<1>4. /\ u[0] = 0
      /\ \A k \in 1 .. Len(h) : u[k] = IF h[k].inUse THEN u[k - 1] ELSE u[k - 1] + h[k].size
  <2>1. \A k \in 0 .. Len(h) : u[k] = body(u)[k]
    BY <1>3, Zenon
  <2>2. 0 \in 0 .. Len(h) /\ \A k \in 1 .. Len(h) : k \in 0 .. Len(h) /\ k # 0
    BY <1>0
  <2> QED  BY <2>1, <2>2
<1>5. \A k \in 0 .. Len(h) : u[k] \in Nat
  <2> DEFINE S == {k \in 0 .. Len(h) : u[k] \notin Nat}
  <2> SUFFICES ASSUME S # {} PROVE FALSE
    OBVIOUS
  <2>1. S \subseteq Nat
    OBVIOUS
  <2>2. PICK k \in S : \A j \in S : k <= j
    BY <2>1, LeastOfNats
  <2>3. k \in 0 .. Len(h) /\ k # 0
    BY <1>4, <2>2
  <2>4. k \in 1 .. Len(h) /\ k - 1 \in 0 .. Len(h) /\ k - 1 \notin S
    BY <1>0, <2>2, <2>3
  <2>5. u[k - 1] \in Nat /\ h[k].size \in Nat
    BY <2>4, BlockFields
  <2>6. u[k] = u[k - 1] \/ u[k] = u[k - 1] + h[k].size
    BY <1>4, <2>4
  <2>7. u[k] \in Nat
    <3> DEFINE v == u[k - 1]
               w == h[k].size
    <3>1. v \in Nat /\ w \in Nat /\ (u[k] = v \/ u[k] = v + w)
      BY <2>5, <2>6
    <3> HIDE DEF v, w
    <3> QED  BY <3>1
  <2> QED  BY <2>2, <2>7
<1>6. u \in [0 .. Len(h) -> Nat]
  BY <1>3, <1>5
<1> QED  BY <1>4, <1>6 DEF Counts, u

\* Blocks that lie end to end from b to e have fewer free bytes than that, by a
\* header or more.
LEMMA TilesBound ==
  ASSUME NEW h \in Seq(Block), NEW b \in Nat, NEW e \in Nat, Tiles(h, b, e)
  PROVE  FreeUpTo(h)[Len(h)] + HDR <= e - b
<1> DEFINE u == FreeUpTo(h)
           S == {k \in 1 .. Len(h) : ~(u[k] + HDR <= End(h[k]) - b)}
<1>1. /\ Len(h) \in Nat /\ Len(h) > 0 /\ h[1].addr = b /\ End(h[Len(h)]) = e
      /\ \A k \in 1 .. Len(h) - 1 : End(h[k]) = h[k + 1].addr
  BY DEF Tiles
<1>2. /\ u \in [0 .. Len(h) -> Nat] /\ u[0] = 0
      /\ \A k \in 1 .. Len(h) : u[k] = IF h[k].inUse THEN u[k - 1] ELSE u[k - 1] + h[k].size
  BY FreeUpToCounts DEF Counts
<1> HIDE DEF u
<1>3. \A k \in 1 .. Len(h) : h[k].addr \in Nat /\ h[k].size \in Nat
  BY BlockFields
<1>4. S = {}
  <2> SUFFICES ASSUME S # {} PROVE FALSE
    OBVIOUS
  <2>1. S \subseteq Nat
    OBVIOUS
  <2>2. PICK k \in S : \A j \in S : k <= j
    BY <2>1, LeastOfNats
  <2>3. k \in 1 .. Len(h) /\ ~(u[k] + HDR <= End(h[k]) - b)
    BY <2>2
  <2> DEFINE x == h[k].addr
             y == h[k].size
             v == u[k - 1]
  <2>4. x \in Nat /\ y \in Nat /\ v \in Nat /\ u[k] \in Nat /\ u[k] <= v + y
    <3>1. k \in 0 .. Len(h) /\ k - 1 \in 0 .. Len(h)
      BY <1>1, <2>3
    <3>2. v \in Nat /\ u[k] \in Nat
      BY <1>2, <3>1
    <3>3. x \in Nat /\ y \in Nat
      BY <1>3, <2>3
    <3>4. u[k] = v \/ u[k] = v + y
      BY <1>2, <2>3
    <3> QED  BY <3>2, <3>3, <3>4
  <2>5. End(h[k]) = x + HDR + y
    BY DEF End
  <2>6. v <= x - b /\ b <= x
    <3>1. CASE k = 1
      BY <1>1, <1>2, <3>1
    <3>2. CASE k # 1
      <4>1. k - 1 \in 1 .. Len(h) - 1 /\ k - 1 \in 1 .. Len(h) /\ (k - 1) + 1 = k /\ k - 1 \notin S
        BY <1>1, <2>2, <2>3, <3>2
      <4>2. u[k - 1] + HDR <= End(h[k - 1]) - b /\ End(h[k - 1]) = h[k].addr
        BY <1>1, <4>1
      <4>3. v + HDR <= x - b
        BY <4>2
      <4> HIDE DEF x, v
      <4> QED  BY <2>4, <4>3 DEF HDR
    <3> QED  BY <3>1, <3>2
  <2> HIDE DEF x, y, v
  <2>7. u[k] + HDR <= (x + HDR + y) - b
    BY <2>4, <2>6 DEF HDR
  <2> QED  BY <2>3, <2>5, <2>7
<1>5. Len(h) \in 1 .. Len(h)
  BY <1>1
<1> QED  BY <1>1, <1>4, <1>5 DEF u

\* So no more is available than was counted.
LEMMA TiledBacked ==
  ASSUME IInv, Tiled
  PROVE  NeverOverdrawn
<1>1. heap \in Seq(Block) /\ useable \in Nat /\ scan \in 1 .. Len(MemoryMap) + 1
  BY DEF IInv, TypeOK
<1>2. CASE heap = <<>>
  <2>1. Len(heap) = 0
    BY <1>2
  <2>2. FreeUpTo(heap)[0] = 0
    BY <1>1, FreeUpToCounts DEF Counts
  <2> QED  BY <1>1, <2>1, <2>2 DEF NeverOverdrawn, Available
<1>3. CASE heap # <<>>
  <2>1. PICK k \in 1 .. scan - 1 : Kept(MemoryMap[k])
    BY <1>3 DEF Tiled
  <2> DEFINE d == MemoryMap[k]
             x == Base(d)
             y == Bytes(d)
  <2>2. Tiles(heap, x, End(RegionBlock(d))) /\ useable = y
    BY <2>1 DEF Tiled
  <2>3. d \in Descriptor
    <3>1. k \in DOMAIN MemoryMap
      BY <1>1, MapAssumption
    <3> QED  BY <3>1, MapAssumption
  <2>4. x \in Nat /\ y \in Nat
    BY <2>1, <2>3, BytesNat
  <2>5. End(RegionBlock(d)) = x + HDR + y
    BY DEF End, RegionBlock
  <2> HIDE DEF d, x, y
  <2>6. x + HDR + y \in Nat /\ (x + HDR + y) - x = y + HDR
    BY <2>4 DEF HDR
  <2>7. FreeUpTo(heap)[Len(heap)] + HDR <= (x + HDR + y) - x
    BY <1>1, <2>2, <2>4, <2>5, <2>6, TilesBound
  <2>8. FreeUpTo(heap)[Len(heap)] \in Nat
    <3>1. Len(heap) \in 0 .. Len(heap)
      BY <1>1
    <3> QED  BY <1>1, <3>1, FreeUpToCounts DEF Counts
  <2> QED  BY <2>2, <2>4, <2>6, <2>7, <2>8 DEF NeverOverdrawn, Available, HDR
<1> QED  BY <1>2, <1>3

-----------------------------------------------------------------------------
\* With one region, Tiled holds all the time.
LEMMA SpecTiled ==
  ASSUME SortedMap, OneRegion
  PROVE  Spec => [](IInv /\ Tiled)
<1>1. Init => Tiled
  <2> SUFFICES ASSUME Init PROVE Tiled
    OBVIOUS
  <2>1. scan = 1 /\ heap = <<>> /\ useable = 0
    BY DEF Init
  <2>2. 1 .. scan - 1 = {} /\ Len(heap) = 0
    BY <2>1
  <2> QED  BY <2>1, <2>2 DEF Tiled, Compact
<1>2. IInv /\ Tiled /\ [Next]_vars => Tiled'
  BY NextTiled
<1> QED  BY <1>1, <1>2, SpecIInv, PTL DEF Spec

\* With one region the blocks always tile it, and no two neighbours are free:
\* the two merges of free are all the coalescing that is needed, after padding
\* and realloc too, and no byte is ever lost (idalloc_free).
THEOREM RegionCoalesced == SortedMap /\ OneRegion => (Spec => []Coalesced)
<1> SUFFICES ASSUME SortedMap, OneRegion PROVE Spec => []Coalesced
  OBVIOUS
<1>1. IInv /\ Tiled => Coalesced
  BY TiledCoalesced
<1> QED  BY <1>1, SpecTiled, PTL

\* With one region no more is ever available than there was at first: what
\* kernelMain prints as used does not wrap (idalloc_get_available).
THEOREM RegionNotOverdrawn == SortedMap /\ OneRegion => (Spec => []NeverOverdrawn)
<1> SUFFICES ASSUME SortedMap, OneRegion PROVE Spec => []NeverOverdrawn
  OBVIOUS
<1>1. IInv /\ Tiled => NeverOverdrawn
  BY TiledBacked
<1> QED  BY <1>1, SpecTiled, PTL

=============================================================================
