--------------------------- MODULE FileLayerProofs ---------------------------
(***************************************************************************)
(* Reads fit: whatever is read from the clusters of a chain, of any length *)
(* and cut anywhere, is the bytes that follow in the file, in order.       *)
(* Paths resolve: a path names what its components lead to from the        *)
(* nearest mount above it.                                                 *)
(***************************************************************************)
EXTENDS FileLayer, SequenceTheorems, WellFoundedInduction, TLAPS
-----------------------------------------------------------------------------
(* Numbers *)

\* A set of natural numbers has a least one.
LEMMA LeastOfNats ==
    ASSUME NEW s, s \subseteq Nat, s # {}
    PROVE  \E i \in s : \A j \in s : i <= j
<1>1. \E i \in s : \A j \in s : ~(<<j, i>> \in OpToRel(<, Nat))
    BY NatLessThanWellFounded, WFMin
<1>2. PICK i \in s : \A j \in s : ~(<<j, i>> \in OpToRel(<, Nat))
    BY <1>1
<1>3. \A j \in s : ~(j < i)
    BY <1>2 DEF OpToRel
<1> QED BY <1>3

\* A set of numbers up to N that holds 0 and is closed under the successor, as
\* far as N, holds them all.
LEMMA UpTo ==
    ASSUME NEW N \in Nat, NEW s, 0 \in s, \A k \in 0 .. N - 1 : k \in s => k + 1 \in s
    PROVE  \A k \in 0 .. N : k \in s
<1> DEFINE bad == {k \in 0 .. N : k \notin s}
<1> SUFFICES ASSUME bad # {} PROVE FALSE
    OBVIOUS
<1>1. PICK k \in bad : \A j \in bad : k <= j
    <2>1. bad \subseteq Nat
        OBVIOUS
    <2> HIDE DEF bad
    <2> QED BY <2>1, LeastOfNats
<1>2. k # 0 /\ k \in Nat /\ k <= N
    BY <1>1
<1>3. k - 1 \in 0 .. N - 1 /\ k - 1 \notin bad /\ (k - 1) + 1 = k
    BY <1>1, <1>2
<1> QED BY <1>1, <1>3

\* The same downwards.
LEMMA DownFrom ==
    ASSUME NEW N \in Nat, NEW s,
           \A k \in 1 .. N : (\A j \in k + 1 .. N : j \in s) => k \in s
    PROVE  \A k \in 1 .. N : k \in s
<1> DEFINE bad == {m \in 0 .. N : N - m \in 1 .. N /\ N - m \notin s}
<1>1. bad = {}
    <2> SUFFICES ASSUME bad # {} PROVE FALSE
        OBVIOUS
    <2>1. PICK m \in bad : \A j \in bad : m <= j
        <3>1. bad \subseteq Nat
            OBVIOUS
        <3> HIDE DEF bad
        <3> QED BY <3>1, LeastOfNats
    <2>2. N - m \in 1 .. N /\ N - m \notin s /\ m \in Nat
        BY <2>1
    <2>3. ASSUME NEW j \in N - m + 1 .. N PROVE j \in s
        <3>1. N - j \in 0 .. N /\ N - j < m /\ N - (N - j) = j /\ j \in 1 .. N
            BY <2>2
        <3>2. N - j \notin bad
            BY <2>1, <2>2, <3>1
        <3> QED BY <3>1, <3>2
    <2> QED BY <2>2, <2>3
<1>2. ASSUME NEW k \in 1 .. N PROVE k \in s
    <2>1. N - k \in 0 .. N /\ N - (N - k) = k
        OBVIOUS
    <2> QED BY <1>1, <2>1
<1> QED BY <1>2

-----------------------------------------------------------------------------
(* Reading *)

\* One round of the loop, in which cluster c is read or cannot be.
Round(n, fails, c, r) ==
    LET room   == bytesPerCluster - r.off
        toRead == IF r.left > room THEN room ELSE r.left
    IN  IF r.left = 0 \/ ~r.ok THEN r
        ELSE IF fails THEN [r EXCEPT !.ok = FALSE]
        ELSE [stored |-> r.stored \o [j \in 1 .. toRead |->
                             IF c < n THEN c * bytesPerCluster + r.off + j - 1 ELSE Other],
              off |-> NextOffset(r.off), left |-> r.left - toRead, ok |-> TRUE]

AtFirst(offset, length) ==
    [stored |-> <<>>, off |-> offset, left |-> length, ok |-> TRUE]

Rounds(n, good, cluster, offset, length, N, g) ==
    [k \in 0 .. N |-> IF k = 0 THEN AtFirst(offset, length)
                      ELSE Round(n, k > good, cluster + k - 1, g[k - 1])]

LEMMA RoundsExist ==
    ASSUME NEW n, NEW good, NEW cluster, NEW offset, NEW length, NEW N \in Nat
    PROVE  \E g : g = Rounds(n, good, cluster, offset, length, N, g)
<1> DEFINE Is(m, g) == g = Rounds(n, good, cluster, offset, length, m, g)
           s == {m \in Nat : \E g : Is(m, g)}
<1>1. 0 \in s
    <2>1. Is(0, [k \in 0 .. 0 |-> AtFirst(offset, length)])
        BY DEF Rounds
    <2> HIDE DEF Is
    <2> QED BY <2>1
<1>2. ASSUME NEW m \in 0 .. N - 1, m \in s PROVE m + 1 \in s
    <2>1. PICK g : Is(m, g)
        <3> HIDE DEF Is
        <3> QED BY <1>2
    <2> DEFINE last == Round(n, m + 1 > good, cluster + (m + 1) - 1, g[m])
               h == [k \in 0 .. m + 1 |-> IF k = m + 1 THEN last ELSE g[k]]
    <2>2. \A k \in 0 .. m : h[k] = g[k]
        OBVIOUS
    <2>3. \A k \in 0 .. m : g[k] = IF k = 0 THEN AtFirst(offset, length)
                                   ELSE Round(n, k > good, cluster + k - 1, g[k - 1])
        BY <2>1 DEF Rounds
    <2>4. h[m + 1] = last
        OBVIOUS
    <2>0. h = [k \in 0 .. m + 1 |-> h[k]]
        OBVIOUS
    <2> HIDE DEF h
    <2>5. \A k \in 0 .. m + 1 : h[k] = IF k = 0 THEN AtFirst(offset, length)
                                       ELSE Round(n, k > good, cluster + k - 1, h[k - 1])
        <3> TAKE k \in 0 .. m + 1
        <3>1. CASE k = m + 1
            <4>1. k # 0 /\ k - 1 = m /\ m \in 0 .. m
                BY <3>1
            <4> QED BY <3>1, <4>1, <2>2, <2>4
        <3>2. CASE k # m + 1
            <4>1. k \in 0 .. m /\ (k # 0 => k - 1 \in 0 .. m)
                BY <3>2
            <4> QED BY <4>1, <2>2, <2>3
        <3> QED BY <3>1, <3>2
    <2>6. Is(m + 1, h)
        BY <2>0, <2>5 DEF Rounds
    <2> HIDE DEF Is
    <2> QED BY <2>6
<1>3. N \in s
    <2> HIDE DEF s
    <2> QED BY <1>1, <1>2, UpTo
<1> QED BY <1>3

LEMMA FetchShape ==
    ASSUME NEW n, NEW good, NEW cluster, NEW offset, NEW length \in Nat
    PROVE  \E g : /\ g[0] = AtFirst(offset, length)
                  /\ \A k \in 0 .. length - 1 : g[k + 1] = Round(n, k + 1 > good, cluster + k, g[k])
                  /\ Fetch(n, good, cluster, offset, length) = g[length]
<1> DEFINE g == CHOOSE g : g = Rounds(n, good, cluster, offset, length, length, g)
<1>1. g = Rounds(n, good, cluster, offset, length, length, g)
    BY RoundsExist
<1>2. Fetch(n, good, cluster, offset, length) = g[length]
    BY DEF Fetch, Rounds, Round, AtFirst
<1> HIDE DEF g
<1>3. \A k \in 0 .. length : g[k] = IF k = 0 THEN AtFirst(offset, length)
                                    ELSE Round(n, k > good, cluster + k - 1, g[k - 1])
    BY <1>1 DEF Rounds
<1>4. ASSUME NEW k \in 0 .. length - 1
      PROVE  g[k + 1] = Round(n, k + 1 > good, cluster + k, g[k])
    <2>1. k + 1 \in 0 .. length /\ k + 1 # 0 /\ (k + 1) - 1 = k
        OBVIOUS
    <2> QED BY <1>3, <2>1
<1> QED BY <1>2, <1>3, <1>4

\* Number j of what is stored is the j-th byte from p on if its cluster is found.
Fits(p, n, j, value) == (p + j - 1) \div bytesPerCluster < n => value = p + j - 1

\* What holds after k rounds of a read of `length' bytes from p on: what is
\* stored fits, the next round starts behind it, and a round that fails is one
\* of those that may.
RoundOK(p, n, good, cluster, length, k, r) ==
    /\ r \in [stored : Seq(Nat), off : Nat, left : 0 .. length, ok : BOOLEAN]
    /\ Len(r.stored) = length - r.left
    /\ \A j \in 1 .. Len(r.stored) : Fits(p, n, j, r.stored[j])
    /\ r.ok => r.left <= length - k
    /\ ~r.ok => good < length
    /\ r.ok /\ r.left # 0 =>
         /\ r.off \in 0 .. bytesPerCluster - 1
         /\ (cluster + k) * bytesPerCluster + r.off = p + Len(r.stored)

\* The cluster of a byte at an offset in cluster c.
LEMMA ClusterOf ==
    ASSUME NEW b \in Nat \ {0}, NEW c \in Nat, NEW o \in 0 .. b - 1
    PROVE  (c * b + o) \div b = c
<1> DEFINE x == c * b + o
           d == x \div b
<1>1. c * b \in Nat
    OBVIOUS
<1>2. x \in Nat
    BY <1>1
<1> HIDE DEF x
<1>3. d \in Nat /\ d * b <= x /\ x < d * b + b
    BY <1>2
<1> HIDE DEF d
<1>4. CASE d < c
    <2>1. (d + 1) * b <= c * b
        <3>1. d + 1 <= c
            BY <1>3, <1>4
        <3>2. PICK e \in Nat : c = d + 1 + e
            <4>1. c - (d + 1) \in Nat
                BY <1>3, <3>1
            <4> QED BY <4>1, <1>3
        <3>3. c * b = (d + 1) * b + e * b /\ e * b \in Nat /\ (d + 1) * b \in Nat
            BY <3>2, <1>3
        <3> QED BY <3>3
    <2>2. (d + 1) * b = d * b + b /\ d * b \in Nat
        BY <1>3
    <2> QED BY <2>1, <2>2, <1>1, <1>3 DEF x
<1>5. CASE c < d
    <2>1. (c + 1) * b <= d * b
        <3>1. c + 1 <= d
            BY <1>3, <1>5
        <3>2. PICK e \in Nat : d = c + 1 + e
            <4>1. d - (c + 1) \in Nat
                BY <1>3, <3>1
            <4> QED BY <4>1, <1>3
        <3>3. d * b = (c + 1) * b + e * b /\ e * b \in Nat /\ (c + 1) * b \in Nat
            BY <3>2, <1>3
        <3> QED BY <3>3
    <2>2. (c + 1) * b = c * b + b
        OBVIOUS
    <2> QED BY <2>1, <2>2, <1>1, <1>3 DEF x
<1>6. d = c
    BY <1>3, <1>4, <1>5 DEF x
<1> QED BY <1>6 DEF x, d

LEMMA RoundKeeps ==
    ASSUME NEW n, NEW good \in Nat, NEW cluster \in Nat, NEW p \in Nat, NEW length \in Nat,
           NEW k \in 0 .. length - 1, NEW r,
           RoundOK(p, n, good, cluster, length, k, r)
    PROVE  RoundOK(p, n, good, cluster, length, k + 1, Round(n, k + 1 > good, cluster + k, r))
<1> DEFINE b      == bytesPerCluster
           c      == cluster + k
           room   == b - r.off
           toRead == IF r.left > room THEN room ELSE r.left
           new    == [j \in 1 .. toRead |-> IF c < n THEN c * b + r.off + j - 1 ELSE Other]
           q      == Round(n, k + 1 > good, c, r)
<1> SUFFICES RoundOK(p, n, good, cluster, length, k + 1, q)
    OBVIOUS
<1> HIDE DEF q
<1>1. b \in Nat \ {0} /\ c \in Nat
    BY NumberAssumption
<1>2. CASE r.left = 0 \/ ~r.ok
    <2>1. q = r
        BY <1>2 DEF Round, q
    <2>2. r.ok => r.left = 0 /\ r.left <= length - (k + 1)
        BY <1>2
    <2> QED BY <2>1, <2>2, <1>2 DEF RoundOK
<1>3. CASE ~(r.left = 0 \/ ~r.ok) /\ k + 1 > good
    <2>1. q = [r EXCEPT !.ok = FALSE]
        BY <1>3 DEF Round, q
    <2>2. r \in [stored : Seq(Nat), off : Nat, left : 0 .. length, ok : BOOLEAN]
        BY DEF RoundOK
    <2>3. q.ok = FALSE /\ q.left = r.left /\ q.stored = r.stored
          /\ q \in [stored : Seq(Nat), off : Nat, left : 0 .. length, ok : BOOLEAN]
        BY <2>1, <2>2
    <2>4. good < length
        BY <1>3
    <2> QED BY <2>3, <2>4 DEF RoundOK
<1>4. CASE ~(r.left = 0 \/ ~r.ok) /\ ~(k + 1 > good)
    <2>1. q = [stored |-> r.stored \o new, off |-> NextOffset(r.off),
               left |-> r.left - toRead, ok |-> TRUE]
        BY <1>4 DEF Round, q
    <2>2. /\ r.left \in 1 .. length /\ r.left <= length - k
          /\ r.off \in 0 .. b - 1 /\ c * b + r.off = p + Len(r.stored)
          /\ Len(r.stored) = length - r.left /\ r.stored \in Seq(Nat)
          /\ \A j \in 1 .. Len(r.stored) : Fits(p, n, j, r.stored[j])
        BY <1>4 DEF RoundOK
    <2>3. c * b \in Nat /\ (c + 1) * b = c * b + b
        BY <1>1
    <2> DEFINE cb == c * b
    <2>4. cb \in Nat /\ cb + r.off = p + Len(r.stored)
        BY <2>2, <2>3
    <2> DEFINE off == r.off
               left == r.left
               sl == Len(r.stored)
    <2>13. /\ left \in 1 .. length /\ left <= length - k /\ off \in 0 .. b - 1
           /\ cb + off = p + sl /\ sl = length - left /\ cb \in Nat /\ b \in Nat \ {0}
        BY <2>2, <2>4, <1>1
    <2>14. r.off = off /\ r.left = left /\ Len(r.stored) = sl
        OBVIOUS
    <2> HIDE DEF cb, off, left, sl, b
    <2>5. room \in 1 .. b /\ toRead \in 1 .. left /\ toRead <= room
          /\ (left - toRead # 0 => toRead = b - off)
        BY <2>13, <2>14
    <2>6. new = [j \in 1 .. toRead |-> IF c < n THEN cb + off + j - 1 ELSE Other]
        BY <2>14 DEF cb
    <2> HIDE DEF new, toRead
    <2>7. new \in Seq(Nat) /\ Len(new) = toRead
          /\ \A j \in 1 .. toRead : Fits(p, n, sl + j, new[j])
        <3>1. \A j \in 1 .. toRead : /\ cb + off + j - 1 \in Nat
                                     /\ cb + off + j - 1 = p + (sl + j) - 1
            BY <2>13, <2>5
        <3>2. toRead \in Nat /\ Other \in Nat
            BY <2>5, <2>13, NumberAssumption DEF Other
        <3>3. ASSUME NEW j \in 1 .. toRead
              PROVE  (p + (sl + j) - 1) \div b = c
            <4> DEFINE o == off + j - 1
            <4>1. o \in 0 .. b - 1 /\ p + (sl + j) - 1 = cb + o
                <5>1. toRead <= b - off /\ toRead \in Nat
                    BY <2>5, <2>13, <2>14
                <5> QED BY <5>1, <2>13
            <4> HIDE DEF o, c
            <4>2. (c * b + o) \div b = c
                BY <4>1, <1>1, ClusterOf DEF b
            <4> QED BY <4>1, <4>2 DEF cb
        <3> HIDE DEF c
        <3>4. new \in Seq(Nat) /\ Len(new) = toRead
            <4> DEFINE byte(j) == IF c < n THEN cb + off + j - 1 ELSE Other
            <4>1. \A j \in 1 .. toRead : byte(j) \in Nat
                BY <3>1, <3>2
            <4>2. new = [j \in 1 .. toRead |-> byte(j)]
                BY <2>6
            <4> HIDE DEF byte
            <4> QED BY <4>1, <4>2, <3>2
        <3>5. ASSUME NEW j \in 1 .. toRead PROVE Fits(p, n, sl + j, new[j])
            <4>1. c < n => new[j] = p + (sl + j) - 1
                BY <2>6, <3>1
            <4> QED BY <4>1, <3>3 DEF Fits, b
        <3> QED BY <3>4, <3>5
    <2> DEFINE all == r.stored \o new
    <2>8. /\ all \in Seq(Nat) /\ Len(all) = sl + toRead
          /\ \A j \in 1 .. Len(all) :
               all[j] = IF j <= sl THEN r.stored[j] ELSE new[j - sl]
        <3>1. r.stored \in Seq(Nat) /\ new \in Seq(Nat)
            BY <2>2, <2>7
        <3>2. /\ all \in Seq(Nat) /\ Len(all) = Len(r.stored) + Len(new)
              /\ \A j \in 1 .. Len(all) :
                   all[j] = IF j <= Len(r.stored) THEN r.stored[j] ELSE new[j - Len(r.stored)]
            <4> HIDE DEF new
            <4> QED BY <3>1, ConcatProperties
        <3> HIDE DEF all
        <3> QED BY <2>7, <2>14, <3>2
    <2> HIDE DEF all
    <2>15. sl \in Nat /\ toRead \in Nat
        BY <2>5, <2>13
    <2>9. ASSUME NEW j \in 1 .. Len(all) PROVE Fits(p, n, j, all[j])
        <3>1. CASE j <= sl
            <4>1. j \in 1 .. Len(r.stored)
                BY <3>1, <2>14, <2>15
            <4> QED BY <3>1, <4>1, <2>2, <2>8
        <3>2. CASE j > sl
            <4>1. j - sl \in 1 .. toRead
                BY <3>2, <2>8, <2>15
            <4>2. all[j] = new[j - sl] /\ sl + (j - sl) = j
                BY <3>2, <2>8, <2>15
            <4>3. Fits(p, n, sl + (j - sl), new[j - sl])
                BY <4>1, <2>7
            <4> QED BY <4>2, <4>3
        <3> QED BY <3>1, <3>2, <2>15
    <2>10. q.stored = all /\ q.off = 0 /\ q.left = left - toRead /\ q.ok = TRUE
           /\ q = [stored |-> all, off |-> 0, left |-> left - toRead, ok |-> TRUE]
        BY <2>1, <2>14 DEF NextOffset, all
    <2>11. q.left # 0 => (cluster + (k + 1)) * b + q.off = p + Len(all)
        <3> SUFFICES ASSUME q.left # 0 PROVE (cluster + (k + 1)) * b + q.off = p + Len(all)
            OBVIOUS
        <3>1. toRead = b - off
            BY <2>5, <2>10
        <3>2. cluster + (k + 1) = c + 1
            OBVIOUS
        <3>3. (c + 1) * b = cb + b
            BY <2>3 DEF cb, b
        <3>4. cb + b = p + Len(all)
            <4>1. Len(all) = sl + toRead
                BY <2>8
            <4> QED BY <4>1, <3>1, <2>13, <2>15
        <3> HIDE DEF c
        <3> QED BY <3>2, <3>3, <3>4, <2>10, <2>13
    <2>12. q.left \in 0 .. length /\ Len(all) = length - q.left /\ q.left <= length - (k + 1)
        BY <2>13, <2>5, <2>8, <2>10
    <2>16. q \in [stored : Seq(Nat), off : Nat, left : 0 .. length, ok : BOOLEAN]
        BY <2>8, <2>10, <2>12
    <2> QED BY <2>9, <2>10, <2>11, <2>12, <2>13, <2>16 DEF RoundOK, b
<1> QED BY <1>2, <1>3, <1>4

\* What holds at the end of a read of `length' bytes from p on.
ReadOK(p, n, good, length, r) ==
    /\ Len(r.stored) \in 0 .. length /\ DOMAIN r.stored = 1 .. Len(r.stored)
    /\ \A j \in DOMAIN r.stored : Fits(p, n, j, r.stored[j])
    /\ r.ok => Len(r.stored) = length
    /\ ~r.ok => good < length

LEMMA FetchFits ==
    ASSUME NEW n, NEW good \in Nat, NEW p \in Nat, NEW length \in Nat
    PROVE  ReadOK(p, n, good, length,
                  Fetch(n, good, p \div bytesPerCluster, p % bytesPerCluster, length))
<1> DEFINE b == bytesPerCluster
           c == p \div b
           o == p % b
           r == Fetch(n, good, c, o, length)
<1>1. b \in Nat \ {0}
    BY NumberAssumption
<1>2. c \in Nat /\ o \in 0 .. b - 1 /\ c * b + o = p
    BY <1>1
<1> HIDE DEF c, o
<1>3. PICK g : /\ g[0] = AtFirst(o, length)
               /\ \A k \in 0 .. length - 1 : g[k + 1] = Round(n, k + 1 > good, c + k, g[k])
               /\ Fetch(n, good, c, o, length) = g[length]
    BY FetchShape
<1> DEFINE s == {k \in 0 .. length : RoundOK(p, n, good, c, length, k, g[k])}
<1>4. 0 \in s
    <2>1. /\ g[0].ok = TRUE /\ g[0].left = length /\ g[0].stored = <<>> /\ g[0].off = o
          /\ g[0] \in [stored : Seq(Nat), off : Nat, left : 0 .. length, ok : BOOLEAN]
        BY <1>2, <1>3 DEF AtFirst
    <2>2. c + 0 = c
        BY <1>2
    <2> QED BY <1>2, <2>1, <2>2 DEF RoundOK
<1>5. ASSUME NEW k \in 0 .. length - 1, k \in s PROVE k + 1 \in s
    BY <1>2, <1>3, <1>5, RoundKeeps
<1>6. length \in s
    <2> HIDE DEF s
    <2> QED BY <1>4, <1>5, UpTo
<1>7. RoundOK(p, n, good, c, length, length, r)
    BY <1>3, <1>6
<1>8. /\ r.ok \in BOOLEAN /\ r.left \in 0 .. length /\ r.stored \in Seq(Nat)
      /\ Len(r.stored) = length - r.left
      /\ \A j \in 1 .. Len(r.stored) : Fits(p, n, j, r.stored[j])
      /\ r.ok => r.left <= length - length
      /\ ~r.ok => good < length
    BY <1>7 DEF RoundOK
<1>9. DOMAIN r.stored = 1 .. Len(r.stored) /\ Len(r.stored) \in Nat
    BY <1>8, LenProperties
<1>10. Len(r.stored) \in 0 .. length
    BY <1>8, <1>9
<1>11. r.ok => Len(r.stored) = length
    BY <1>8, <1>9
<1> HIDE DEF s, r
<1>12. ReadOK(p, n, good, length, r)
    BY <1>8, <1>9, <1>10, <1>11 DEF ReadOK
<1> QED BY <1>12 DEF r, c, o

\* A read that starts inside the file fits.
LEMMA FreadFits ==
    ASSUME NEW f, f.ptr \in Nat, f.size \in Sizes, f.ptr <= f.size,
           NEW count \in Reads, NEW cut, NEW good \in Nat,
           NEW r, r = Fread(f, count, cut, good),
           NEW most, most = IF count < f.size - f.ptr THEN count ELSE f.size - f.ptr
    PROVE  /\ Len(r.stored) <= most
           /\ \A k \in DOMAIN r.stored : Fits(f.ptr, FoundOf(f, cut), k, r.stored[k])
           /\ r.read = most \/ (r.read = 0 /\ good < most)
<1> DEFINE p == f.ptr
           z == f.size
           length == IF (p + count) % Wide > z THEN (z - p) % Wide ELSE count
           m == FoundOf(f, cut)
           q == Fetch(m, good, p \div bytesPerCluster, p % bytesPerCluster, length)
<1>1. r.stored = q.stored /\ r.read = IF q.ok THEN Len(q.stored) ELSE 0
    BY DEF Fread
<1>2. p \in Nat /\ z \in Nat /\ count \in Nat /\ z + count < Wide /\ p <= z /\ Wide \in Nat
    BY NumberAssumption DEF Sizes
<1>3. most = IF count < z - p THEN count ELSE z - p
    OBVIOUS
<1> HIDE DEF p, z, q, m
<1>4. (p + count) % Wide = p + count /\ (z - p) % Wide = z - p
    BY <1>2
<1>5. length = most /\ length \in Nat
    BY <1>2, <1>3, <1>4
<1> HIDE DEF length
<1>6. /\ Len(q.stored) \in 0 .. length
      /\ \A j \in DOMAIN q.stored : Fits(p, m, j, q.stored[j])
      /\ q.ok => Len(q.stored) = length
      /\ ~q.ok => good < length
    <2>1. p \in Nat /\ length \in Nat
        BY <1>2, <1>5
    <2>2. ReadOK(p, m, good, length, q)
        BY <2>1, FetchFits DEF q
    <2> HIDE DEF q
    <2> QED BY <2>2 DEF ReadOK
<1>7. Len(r.stored) <= most /\ (r.read = most \/ (r.read = 0 /\ good < most))
    BY <1>1, <1>5, <1>6
<1> QED BY <1>1, <1>6, <1>7 DEF p, m

-----------------------------------------------------------------------------
(* Which mount a path is on *)

Best(path, i, b) == IF Covers(mounted[i].point, path) /\ Better(i, b) THEN i ELSE b

Bests(path, N, g) == [i \in 0 .. N |-> IF i = 0 THEN 0 ELSE Best(path, i, g[i - 1])]

LEMMA BestsExist ==
    ASSUME NEW path, NEW N \in Nat
    PROVE  \E g : g = Bests(path, N, g)
<1> DEFINE Is(m, g) == g = Bests(path, m, g)
           s == {m \in Nat : \E g : Is(m, g)}
<1>1. 0 \in s
    <2>1. Is(0, [k \in 0 .. 0 |-> 0])
        BY DEF Bests
    <2> HIDE DEF Is
    <2> QED BY <2>1
<1>2. ASSUME NEW m \in 0 .. N - 1, m \in s PROVE m + 1 \in s
    <2>1. PICK g : Is(m, g)
        <3> HIDE DEF Is
        <3> QED BY <1>2
    <2> DEFINE last == Best(path, m + 1, g[m])
               h == [k \in 0 .. m + 1 |-> IF k = m + 1 THEN last ELSE g[k]]
    <2>2. \A k \in 0 .. m : h[k] = g[k]
        OBVIOUS
    <2>3. \A k \in 0 .. m : g[k] = IF k = 0 THEN 0 ELSE Best(path, k, g[k - 1])
        BY <2>1 DEF Bests
    <2>4. h[m + 1] = last /\ h = [k \in 0 .. m + 1 |-> h[k]]
        OBVIOUS
    <2> HIDE DEF h
    <2>5. \A k \in 0 .. m + 1 : h[k] = IF k = 0 THEN 0 ELSE Best(path, k, h[k - 1])
        <3> TAKE k \in 0 .. m + 1
        <3>1. CASE k = m + 1
            <4>1. k # 0 /\ k - 1 = m /\ m \in 0 .. m
                BY <3>1
            <4> QED BY <3>1, <4>1, <2>2, <2>4
        <3>2. CASE k # m + 1
            <4>1. k \in 0 .. m /\ (k # 0 => k - 1 \in 0 .. m)
                BY <3>2
            <4> QED BY <4>1, <2>2, <2>3
        <3> QED BY <3>1, <3>2
    <2>6. Is(m + 1, h)
        BY <2>4, <2>5 DEF Bests
    <2> HIDE DEF Is
    <2> QED BY <2>6
<1>3. N \in s
    <2> HIDE DEF s
    <2> QED BY <1>1, <1>2, UpTo
<1> QED BY <1>3

\* getMount finds a mount that covers the path, of those the one with the
\* longest point, and none only if there is none.
LEMMA MountOfShape ==
    ASSUME NEW path, NEW S, mounted \in Seq(S),
           \A i \in DOMAIN mounted : Len(mounted[i].point) \in Nat
    PROVE  LET m == MountOf(path) IN
           /\ m \in 0 .. Len(mounted)
           /\ m # 0 => Covers(mounted[m].point, path)
           /\ \A i \in DOMAIN mounted : Covers(mounted[i].point, path) =>
                m # 0 /\ Len(mounted[i].point) <= Len(mounted[m].point)
<1> DEFINE N == Len(mounted)
           g == CHOOSE g : g = Bests(path, N, g)
<1>1. N \in Nat /\ DOMAIN mounted = 1 .. N
    BY LenProperties
<1>2. g = Bests(path, N, g)
    BY <1>1, BestsExist
<1>3. MountOf(path) = g[N]
    BY DEF MountOf, Bests, Best
<1> HIDE DEF g
<1>4. \A i \in 0 .. N : g[i] = IF i = 0 THEN 0 ELSE Best(path, i, g[i - 1])
    BY <1>2 DEF Bests
<1> DEFINE OK(i) ==
        /\ g[i] \in 0 .. i
        /\ g[i] # 0 => Covers(mounted[g[i]].point, path)
        /\ \A j \in 1 .. i : Covers(mounted[j].point, path) =>
             g[i] # 0 /\ Len(mounted[j].point) <= Len(mounted[g[i]].point)
           s == {i \in 0 .. N : OK(i)}
<1>5. 0 \in s
    BY <1>1, <1>4
<1>6. ASSUME NEW i \in 0 .. N - 1, i \in s PROVE i + 1 \in s
    <2> DEFINE b == g[i]
               n == i + 1
               c == g[n]
    <2>1. n \in 1 .. N /\ n # 0 /\ n - 1 = i /\ i \in Nat
        BY <1>1
    <2>2. c = Best(path, n, b)
        BY <1>4, <2>1
    <2>3. OK(i)
        BY <1>6
    <2>4. b \in 0 .. i /\ (b # 0 => Covers(mounted[b].point, path))
          /\ \A j \in 1 .. i : Covers(mounted[j].point, path) =>
               b # 0 /\ Len(mounted[j].point) <= Len(mounted[b].point)
        BY <2>3
    <2>5. \A j \in 1 .. n : j = n \/ j \in 1 .. i
        BY <2>1
    <2>6. Len(mounted[n].point) \in Nat /\ (b # 0 => Len(mounted[b].point) \in Nat)
          /\ \A j \in 1 .. n : Len(mounted[j].point) \in Nat
        BY <1>1, <2>1, <2>4
    <2> HIDE DEF c, b, OK, n
    <2>7. c \in 0 .. n /\ (c # 0 => Covers(mounted[c].point, path))
        BY <2>1, <2>2, <2>4 DEF Best, n
    <2>8. ASSUME NEW j \in 1 .. n, Covers(mounted[j].point, path)
          PROVE  c # 0 /\ Len(mounted[j].point) <= Len(mounted[c].point)
        <3>1. CASE c = n
            <4>1. (Better(n, b) /\ Covers(mounted[n].point, path)) \/ b = n
                BY <2>2, <3>1 DEF Best
            <4>2. b # n
                BY <2>1, <2>4 DEF n
            <4>3. CASE j = n
                BY <4>3, <3>1, <2>6, <2>1
            <4>4. CASE j \in 1 .. i
                <5>1. b # 0 /\ Len(mounted[j].point) <= Len(mounted[b].point)
                    BY <4>4, <2>4, <2>8
                <5>2. Len(mounted[n].point) > Len(mounted[b].point)
                    BY <4>1, <4>2, <5>1 DEF Better
                <5> QED BY <5>1, <5>2, <3>1, <2>6, <2>1
            <4> QED BY <4>3, <4>4, <2>5
        <3>2. CASE c # n
            <4>1. c = b /\ ~(Covers(mounted[n].point, path) /\ Better(n, b))
                BY <2>2, <3>2 DEF Best
            <4>2. CASE j = n
                <5>1. ~Better(n, b)
                    BY <4>1, <4>2, <2>8
                <5> QED BY <5>1, <4>1, <4>2, <2>6 DEF Better
            <4>3. CASE j \in 1 .. i
                BY <4>1, <4>3, <2>4, <2>8
            <4> QED BY <4>2, <4>3, <2>5
        <3> QED BY <3>1, <3>2
    <2>9. OK(n)
        BY <2>7, <2>8 DEF OK, c
    <2> QED BY <2>9, <2>1 DEF n
<1> HIDE DEF OK
<1>7. \A i \in 0 .. N : i \in s
    <2> HIDE DEF s, N
    <2> QED BY <1>1, <1>5, <1>6, UpTo
<1>8. OK(N)
    BY <1>1, <1>7
<1> QED BY <1>1, <1>3, <1>8 DEF OK

-----------------------------------------------------------------------------
(* Paths and their ends *)

LEMMA FromFacts ==
    ASSUME NEW S, NEW s \in Seq(S), NEW k \in 1 .. Len(s) + 1
    PROVE  /\ From(s, k) \in Seq(S) /\ Len(From(s, k)) = Len(s) + 1 - k
           /\ \A i \in 1 .. Len(s) + 1 - k : From(s, k)[i] = s[k + i - 1]
<1>1. Len(s) \in Nat
    BY LenProperties
<1>2. \A i \in k .. Len(s) : i \in 1 .. Len(s)
    BY <1>1
<1>3. \A i \in 1 .. Len(s) : s[i] \in S
    BY ElementOfSeq
<1> DEFINE n == Len(s)
<1>4. /\ SubSeq(s, k, n) \in Seq(S)
      /\ Len(SubSeq(s, k, n)) = IF k <= n THEN n - k + 1 ELSE 0
      /\ \A i \in 1 .. n - k + 1 : SubSeq(s, k, n)[i] = s[k + i - 1]
    <2>1. \A i \in k .. n : s[i] \in S
        BY <1>2, <1>3
    <2>2. k \in Int /\ n \in Int
        BY <1>1
    <2> HIDE DEF n
    <2> QED BY <2>1, <2>2, SubSeqProperties
<1>5. From(s, k) = SubSeq(s, k, n)
    BY DEF From
<1> HIDE DEF n
<1>6. n \in Nat /\ k \in 1 .. n + 1 /\ n = Len(s)
    BY <1>1 DEF n
<1>7. (IF k <= n THEN n - k + 1 ELSE 0) = n + 1 - k /\ n - k + 1 = n + 1 - k
    BY <1>6
<1> QED BY <1>4, <1>5, <1>6, <1>7

\* Two sequences with the same elements.
LEMMA SameSeq ==
    ASSUME NEW S, NEW s \in Seq(S), NEW t \in Seq(S), Len(s) = Len(t),
           \A i \in 1 .. Len(s) : s[i] = t[i]
    PROVE  s = t
BY SeqEqual

LEMMA FromFrom ==
    ASSUME NEW S, NEW s \in Seq(S), NEW k \in 1 .. Len(s) + 1,
           NEW j \in 1 .. Len(s) + 2 - k
    PROVE  From(From(s, k), j) = From(s, k + j - 1)
<1> DEFINE t == From(s, k)
           n == Len(s)
<1>1. n \in Nat
    BY LenProperties
<1>2. t \in Seq(S) /\ Len(t) = n + 1 - k /\ \A i \in 1 .. n + 1 - k : t[i] = s[k + i - 1]
    BY FromFacts
<1>3. k + j - 1 \in 1 .. n + 1 /\ j \in 1 .. Len(t) + 1
    BY <1>1, <1>2
<1> HIDE DEF t
<1> DEFINE u == From(t, j)
           w == From(s, k + j - 1)
<1>4. /\ u \in Seq(S) /\ Len(u) = Len(t) + 1 - j
      /\ \A i \in 1 .. Len(t) + 1 - j : u[i] = t[j + i - 1]
    <2>1. t \in Seq(S) /\ j \in 1 .. Len(t) + 1
        BY <1>2, <1>3
    <2> QED BY ONLY <2>1, FromFacts DEF u
<1>5. /\ w \in Seq(S) /\ Len(w) = n + 1 - (k + j - 1)
      /\ \A i \in 1 .. n + 1 - (k + j - 1) : w[i] = s[(k + j - 1) + i - 1]
    BY <1>3, FromFacts
<1> HIDE DEF u, w, n
<1>6. Len(u) = Len(w)
    BY <1>1, <1>2, <1>4, <1>5
<1>7. ASSUME NEW i \in 1 .. Len(u) PROVE u[i] = w[i]
    <2>1. /\ i \in 1 .. Len(t) + 1 - j /\ j + i - 1 \in 1 .. n + 1 - k
          /\ i \in 1 .. n + 1 - (k + j - 1) /\ k + (j + i - 1) - 1 = (k + j - 1) + i - 1
        BY <1>1, <1>2, <1>4
    <2> QED BY <2>1, <1>2, <1>4, <1>5
<1>8. u = w
    BY <1>4, <1>5, <1>6, <1>7, SameSeq
<1> QED BY <1>8 DEF u, w, t

\* The first component reaches to the first slash.
LEMMA ComponentLengthIs ==
    ASSUME NEW S, NEW s \in Seq(S)
    PROVE  /\ ComponentLength(s) \in 0 .. Len(s)
           /\ ComponentLength(s) = Len(s) \/ s[ComponentLength(s) + 1] = Slash
           /\ \A k \in 1 .. ComponentLength(s) : s[k] # Slash
<1> DEFINE n == Len(s)
           ends == {m \in 0 .. n : m = n \/ s[m + 1] = Slash}
<1>1. n \in Nat
    BY LenProperties
<1>2. ends \subseteq Nat /\ ends # {}
    <2>1. n \in ends
        BY <1>1
    <2> QED BY <2>1, <1>1
<1>3. PICK m \in ends : \A j \in ends : m <= j
    <2> HIDE DEF ends
    <2> QED BY <1>2, LeastOfNats
<1>4. m \in 0 .. n /\ (m = n \/ s[m + 1] = Slash)
    BY <1>3
<1>5. ASSUME NEW k \in 1 .. m PROVE s[k] # Slash
    <2>1. k - 1 \in 0 .. n /\ k - 1 < m /\ (k - 1) + 1 = k
        BY <1>1, <1>4
    <2>2. k - 1 \notin ends
        <3> HIDE DEF ends
        <3>1. k - 1 \in ends => m <= k - 1
            BY <1>3
        <3> QED BY <3>1, <2>1, <1>4, <1>1
    <2> QED BY <2>1, <2>2
<1>6. \E m1 \in 0 .. Len(s) : /\ m1 = Len(s) \/ s[m1 + 1] = Slash
                              /\ \A k \in 1 .. m1 : s[k] # Slash
    BY <1>4, <1>5
<1> QED BY <1>6 DEF ComponentLength

\* And it is the only number of which this holds.
LEMMA ComponentLengthOf ==
    ASSUME NEW S, NEW s \in Seq(S), NEW n \in 0 .. Len(s),
           n = Len(s) \/ s[n + 1] = Slash, \A k \in 1 .. n : s[k] # Slash
    PROVE  ComponentLength(s) = n
<1> DEFINE m == ComponentLength(s)
<1>1. /\ m \in 0 .. Len(s) /\ (m = Len(s) \/ s[m + 1] = Slash)
      /\ \A k \in 1 .. m : s[k] # Slash
    BY ComponentLengthIs
<1>2. Len(s) \in Nat
    BY LenProperties
<1> HIDE DEF m
<1>3. CASE m < n
    <2>1. m + 1 \in 1 .. n /\ m # Len(s)
        BY <1>1, <1>2, <1>3
    <2> QED BY <2>1, <1>1
<1>4. CASE m > n
    <2>1. n + 1 \in 1 .. m /\ n # Len(s)
        BY <1>1, <1>2, <1>4
    <2> QED BY <2>1, <1>1
<1>5. m = n
    BY <1>1, <1>2, <1>3, <1>4
<1> QED BY <1>5 DEF m

-----------------------------------------------------------------------------
(* The walk along a path *)

NameOf(s) == IF s # <<>> /\ s[1] = Slash THEN Tail(s) ELSE s
Width(s)  == ComponentLength(NameOf(s))
Here(s)   == SubSeq(NameOf(s), 1, Width(s))

LEMMA NameOfFacts ==
    ASSUME NEW s \in Seq(STRING)
    PROVE  /\ NameOf(s) \in Seq(STRING) /\ Len(NameOf(s)) \in 0 .. Len(s)
           /\ Width(s) \in 0 .. Len(s) /\ Here(s) \in Seq(STRING)
<1>1. Len(s) \in Nat
    BY LenProperties
<1>2. NameOf(s) \in Seq(STRING) /\ Len(NameOf(s)) \in 0 .. Len(s)
    <2>1. CASE s # <<>> /\ s[1] = Slash
        BY <2>1, HeadTailProperties, <1>1 DEF NameOf
    <2>2. CASE ~(s # <<>> /\ s[1] = Slash)
        BY <2>2, <1>1 DEF NameOf
    <2> QED BY <2>1, <2>2
<1>3. Width(s) \in 0 .. Len(NameOf(s))
    BY <1>2, ComponentLengthIs DEF Width
<1>4. Width(s) \in 0 .. Len(s)
    BY <1>1, <1>2, <1>3
<1>5. \A i \in 1 .. Width(s) : i \in 1 .. Len(NameOf(s))
    BY <1>1, <1>2, <1>3
<1>6. Here(s) \in Seq(STRING)
    <2> DEFINE t == NameOf(s)
               w == Width(s)
    <2>1. t \in Seq(STRING) /\ w \in 0 .. Len(t) /\ Len(t) \in Nat
        BY <1>2, <1>3, LenProperties
    <2>2. Here(s) = SubSeq(t, 1, w)
        BY DEF Here
    <2> HIDE DEF t, w
    <2>3. \A i \in 1 .. w : i \in 1 .. Len(t)
        BY <2>1
    <2>4. \A i \in 1 .. w : t[i] \in STRING
        BY <2>1, <2>3, ElementOfSeq
    <2>5. 1 \in Int /\ w \in Int
        BY <2>1
    <2> QED BY <2>2, <2>4, <2>5, SubSeqProperties
<1> QED BY <1>2, <1>4, <1>6

\* One step of findFAT32Entry, with what the rest of the path finds.
FindAt(v, s, d, sub) ==
    IF NameOf(s) = <<>> THEN Entry(<<>>, TRUE, d, 0)
    ELSE IF Hits(v.entries[d], Here(s)) = {} THEN NULL
    ELSE IF Width(s) = Len(s) THEN First(v.entries[d], Here(s))
    ELSE IF Enters(First(v.entries[d], Here(s)))
         THEN sub[First(v.entries[d], Here(s)).cluster]
    ELSE NULL

\* At the end of the path there is no rest.
LEMMA NoRest ==
    ASSUME NEW v, NEW s \in Seq(STRING), NEW d, NEW x, NEW y, ~(Width(s) + 1 <= Len(s))
    PROVE  FindAt(v, s, d, x) = FindAt(v, s, d, y)
<1>1. Width(s) \in 0 .. Len(s) /\ Len(s) \in Nat
    BY NameOfFacts, LenProperties
<1>2. Width(s) = Len(s)
    BY <1>1
<1> QED BY <1>2 DEF FindAt

Finds(v, path, M, g) ==
    [k \in M .. Len(path) + 1 |->
        [d \in Clusters |->
            FindAt(v, From(path, k), d, g[k + Width(From(path, k)) + 1])]]

LEMMA FindsExist ==
    ASSUME NEW v, NEW path \in Seq(STRING)
    PROVE  \E g : g = Finds(v, path, 1, g)
<1> DEFINE N == Len(path)
           Is(M, g) == g = Finds(v, path, M, g)
           s == {m \in 0 .. N : \E g : Is(N + 1 - m, g)}
<1>1. N \in Nat
    BY LenProperties
<1>2. 0 \in s
    <2> DEFINE g == [k \in N + 1 - 0 .. N + 1 |->
                        [d \in Clusters |-> FindAt(v, From(path, k), d, 0)]]
    <2>1. ASSUME NEW k \in N + 1 - 0 .. N + 1, NEW d \in Clusters
          PROVE  FindAt(v, From(path, k), d, 0)
                   = FindAt(v, From(path, k), d, g[k + Width(From(path, k)) + 1])
        <3>1. k \in 1 .. N + 1 /\ k = N + 1
            BY <1>1
        <3>2. From(path, k) \in Seq(STRING) /\ Len(From(path, k)) = N + 1 - k
            BY <3>1, FromFacts
        <3>3. Width(From(path, k)) \in 0 .. N + 1 - k
            BY <3>2, NameOfFacts
        <3>4. ~(Width(From(path, k)) + 1 <= Len(From(path, k)))
            BY <3>1, <3>2, <3>3, <1>1
        <3> HIDE DEF g
        <3> QED BY <3>2, <3>4, NoRest
    <2>2. Is(N + 1 - 0, g)
        BY <2>1 DEF Finds
    <2> HIDE DEF Is
    <2> QED BY <2>2, <1>1
<1>3. ASSUME NEW m \in 0 .. N - 1, m \in s PROVE m + 1 \in s
    <2> DEFINE M == N + 1 - m
               L == N + 1 - (m + 1)
    <2>1. PICK g : Is(M, g)
        <3> HIDE DEF Is
        <3> QED BY <1>3
    <2>2. M \in 2 .. N + 1 /\ L = M - 1 /\ L \in 1 .. N
        BY <1>1
    <2> HIDE DEF M, L
    <2> DEFINE at(k, d, q) == FindAt(v, From(path, k), d, q[k + Width(From(path, k)) + 1])
               h == [k \in L .. N + 1 |-> IF k = L THEN [d \in Clusters |-> at(L, d, g)] ELSE g[k]]
    <2>3. \A k \in M .. N + 1 : h[k] = g[k]
        BY <2>2, <1>1
    <2>4. \A k \in M .. N + 1 : g[k] = [d \in Clusters |-> at(k, d, g)]
        BY <2>1 DEF Finds
    <2>5. h[L] = [d \in Clusters |-> at(L, d, g)] /\ h = [k \in L .. N + 1 |-> h[k]]
        BY <2>2, <1>1
    <2> HIDE DEF h
    <2>6. ASSUME NEW k \in L .. N + 1, NEW d \in Clusters PROVE at(k, d, g) = at(k, d, h)
        <3> DEFINE r == From(path, k)
                   w == Width(r)
        <3>1. k \in 1 .. N + 1
            BY <2>2, <1>1
        <3>2. r \in Seq(STRING) /\ Len(r) = N + 1 - k
            BY <3>1, FromFacts
        <3>3. w \in 0 .. N + 1 - k
            BY <3>2, NameOfFacts
        <3>4. CASE w + 1 <= Len(r)
            <4>1. k + w + 1 \in M .. N + 1
                <5> HIDE DEF w, r
                <5> QED BY <3>1, <3>2, <3>3, <3>4, <2>2, <1>1
            <4> QED BY <4>1, <2>3
        <3>5. CASE ~(w + 1 <= Len(r))
            BY <3>2, <3>5, NoRest
        <3> QED BY <3>4, <3>5
    <2>7. \A k \in L .. N + 1 : h[k] = [d \in Clusters |-> at(k, d, h)]
        <3> TAKE k \in L .. N + 1
        <3>1. h[k] = [d \in Clusters |-> at(k, d, g)]
            <4>1. k = L \/ k \in M .. N + 1
                BY <2>2, <1>1
            <4> HIDE DEF at
            <4> QED BY <4>1, <2>3, <2>4, <2>5
        <3> HIDE DEF at
        <3> QED BY <3>1, <2>6
    <2>8. Is(L, h)
        BY <2>5, <2>7 DEF Finds
    <2> HIDE DEF Is
    <2> QED BY <2>8, <1>1 DEF L
<1>4. \A m \in 0 .. N : m \in s
    <2> HIDE DEF s, N
    <2> QED BY <1>1, <1>2, <1>3, UpTo
<1>5. N \in s /\ N + 1 - N = 1
    BY <1>1, <1>4
<1> QED BY <1>5

Found(v, path) == CHOOSE g : g = Finds(v, path, 1, g)

LEMMA FoundIs ==
    ASSUME NEW v, NEW path \in Seq(STRING)
    PROVE  /\ \A k \in 1 .. Len(path) + 1, d \in Clusters :
                Found(v, path)[k][d] =
                  FindAt(v, From(path, k), d, Found(v, path)[k + Width(From(path, k)) + 1])
           /\ \A k \in 1 .. Len(path) + 1 :
                Found(v, path)[k] = [d \in Clusters |-> Found(v, path)[k][d]]
           /\ \A d : Find(v, path, d) = Found(v, path)[1][d]
<1> DEFINE g == Found(v, path)
<1>1. g = Finds(v, path, 1, g)
    BY FindsExist DEF Found
<1>2. \A d : Find(v, path, d) = g[1][d]
    BY DEF Find, Found, Finds, FindAt, NameOf, Width, Here
<1> HIDE DEF g
<1>3. \A k \in 1 .. Len(path) + 1 :
        g[k] = [d \in Clusters |-> FindAt(v, From(path, k), d, g[k + Width(From(path, k)) + 1])]
    BY <1>1 DEF Finds
<1> QED BY <1>2, <1>3, ZenonT(60) DEF g

\* The rest of the path is walked as if it were the path.
LEMMA FoundShift ==
    ASSUME NEW v, NEW path \in Seq(STRING), NEW k \in 1 .. Len(path) + 1
    PROVE  Found(v, path)[k] = Found(v, From(path, k))[1]
<1> DEFINE t == From(path, k)
           n == Len(path) + 1 - k
           g == Found(v, path)
           h == Found(v, t)
           s == {j \in 1 .. n + 1 : h[j] = g[k + j - 1]}
<1>1. Len(path) \in Nat /\ n \in Nat
    BY LenProperties
<1>2. t \in Seq(STRING) /\ Len(t) = n
    BY FromFacts
<1>3. ASSUME NEW j \in 1 .. n + 1, \A i \in j + 1 .. n + 1 : i \in s
      PROVE  j \in s
    <2> DEFINE r == From(t, j)
               w == Width(r)
               K == k + j - 1
    <2>1. r = From(path, K) /\ K \in 1 .. Len(path) + 1
        <3>1. j \in 1 .. Len(path) + 2 - k
            BY <1>1
        <3> QED BY <3>1, <1>1, FromFrom
    <2>2. r \in Seq(STRING) /\ Len(r) = n + 1 - j
        BY <1>2, FromFacts
    <2>3. w \in 0 .. n + 1 - j
        BY <2>2, NameOfFacts
    <2>4. \A d \in Clusters : h[j][d] = FindAt(v, r, d, h[j + w + 1])
        BY <1>2, FoundIs
    <2>5. \A d \in Clusters : g[K][d] = FindAt(v, r, d, g[K + w + 1])
        BY <2>1, FoundIs
    <2>6. /\ h[j] = [d \in Clusters |-> h[j][d]]
          /\ g[K] = [d \in Clusters |-> g[K][d]]
        BY <1>2, <2>1, FoundIs, SMTT(30)
    <2> HIDE DEF r, w, t, g, h
    <2>7. ASSUME NEW d \in Clusters PROVE h[j][d] = g[K][d]
        <3>1. CASE w + 1 <= Len(r)
            <4>1. j + w + 1 \in j + 1 .. n + 1 /\ k + (j + w + 1) - 1 = K + w + 1
                BY <3>1, <2>2, <2>3, <1>1
            <4>2. h[j + w + 1] = g[K + w + 1]
                BY <4>1, <1>3
            <4> QED BY <4>2, <2>4, <2>5
        <3>2. CASE ~(w + 1 <= Len(r))
            BY <3>2, <2>2, <2>4, <2>5, NoRest DEF w
        <3> QED BY <3>1, <3>2
    <2>8. h[j] = g[K]
        <3> HIDE DEF K
        <3> QED BY <2>6, <2>7
    <2> QED BY <2>8
<1>4. \A j \in 1 .. n + 1 : j \in s
    <2> HIDE DEF s, n
    <2>1. n + 1 \in Nat
        BY <1>1
    <2> QED BY <1>3, <2>1, DownFrom
<1>5. 1 \in s /\ k + 1 - 1 = k
    BY <1>1, <1>4
<1> QED BY <1>5

LEMMA FirstIs ==
    ASSUME NEW S, NEW entries \in Seq(S), NEW name, Hits(entries, name) # {}
    PROVE  First(entries, name) \in S
<1> DEFINE s == Hits(entries, name)
<1>1. s \subseteq 1 .. Len(entries) /\ s \subseteq Nat
    BY LenProperties DEF Hits
<1>2. PICK i \in s : \A j \in s : i <= j
    <2> HIDE DEF s
    <2>1. s # {}
        BY DEF s
    <2> QED BY <1>1, <2>1, LeastOfNats
<1>3. \E i1 \in Hits(entries, name) : \A j \in Hits(entries, name) : i1 <= j
    BY <1>2
<1> DEFINE m == CHOOSE i1 \in Hits(entries, name) : \A j \in Hits(entries, name) : i1 <= j
<1>4. m \in Hits(entries, name)
    BY <1>3
<1>5. First(entries, name) = entries[m]
    BY DEF First
<1> HIDE DEF m
<1>6. m \in 1 .. Len(entries)
    BY <1>1, <1>4
<1> QED BY <1>5, <1>6, ElementOfSeq

\* findFAT32Entry, one component at a time.
LEMMA FindStep ==
    ASSUME NEW v, IsVolume(v), NEW s \in Seq(STRING), NEW d \in Clusters,
           NEW e, e = First(v.entries[d], Here(s))
    PROVE  /\ NameOf(s) = <<>> => Find(v, s, d) = Entry(<<>>, TRUE, d, 0)
           /\ NameOf(s) # <<>> /\ Hits(v.entries[d], Here(s)) = {} => Find(v, s, d) = NULL
           /\ NameOf(s) # <<>> /\ Hits(v.entries[d], Here(s)) # {} =>
                /\ e \in FileEntry
                /\ Width(s) = Len(s) => Find(v, s, d) = e
                /\ Width(s) # Len(s) /\ ~e.isDir => Find(v, s, d) = NULL
                /\ Width(s) # Len(s) /\ e.isDir =>
                     /\ Width(s) + 2 \in 1 .. Len(s) + 1
                     /\ Find(v, s, d) = Find(v, From(s, Width(s) + 2), e.cluster)
<1> DEFINE w == Width(s)
           g == Found(v, s)
<1>1. Len(s) \in Nat /\ w \in 0 .. Len(s)
    BY LenProperties, NameOfFacts
<1>2. From(s, 1) = s
    <2>1. 1 \in 1 .. Len(s) + 1
        BY <1>1
    <2>2. /\ From(s, 1) \in Seq(STRING) /\ Len(From(s, 1)) = Len(s) + 1 - 1
          /\ \A i \in 1 .. Len(s) + 1 - 1 : From(s, 1)[i] = s[1 + i - 1]
        BY <2>1, FromFacts
    <2>3. Len(s) + 1 - 1 = Len(s) /\ \A i \in 1 .. Len(s) : 1 + i - 1 = i
        BY <1>1
    <2> QED BY <2>2, <2>3, SameSeq
<1>3. Find(v, s, d) = FindAt(v, s, d, g[1 + w + 1])
    <2>1. 1 \in 1 .. Len(s) + 1
        BY <1>1
    <2>2. Find(v, s, d) = g[1][d]
        BY FoundIs
    <2>3. g[1][d] = FindAt(v, From(s, 1), d, g[1 + Width(From(s, 1)) + 1])
        BY <2>1, FoundIs
    <2> HIDE DEF g
    <2> QED BY <2>2, <2>3, <1>2
<1>4. ASSUME Hits(v.entries[d], Here(s)) # {} PROVE e \in FileEntry
    <2>1. v.entries[d] \in Seq(FileEntry)
        BY DEF IsVolume
    <2> QED BY <1>4, <2>1, FirstIs
<1>5. ASSUME w # Len(s), e \in FileEntry
      PROVE  /\ w + 2 \in 1 .. Len(s) + 1
             /\ g[1 + w + 1][e.cluster] = Find(v, From(s, w + 2), e.cluster)
    <2>1. w + 2 \in 1 .. Len(s) + 1 /\ 1 + w + 1 = w + 2
        BY <1>1, <1>5
    <2>2. From(s, w + 2) \in Seq(STRING)
        BY <2>1, FromFacts
    <2>3. g[w + 2] = Found(v, From(s, w + 2))[1]
        BY <2>1, FoundShift
    <2>4. Find(v, From(s, w + 2), e.cluster) = Found(v, From(s, w + 2))[1][e.cluster]
        BY <2>2, FoundIs
    <2> HIDE DEF g, w
    <2> QED BY <2>1, <2>3, <2>4
<1> HIDE DEF g
<1> QED BY <1>3, <1>4, <1>5 DEF FindAt, Enters

\* Strong induction over the length of a path is over the numbers of this set.
LEMMA Upwards ==
    ASSUME NEW s, \A n \in Nat : (\A m \in 0 .. n - 1 : m \in s) => n \in s
    PROVE  \A n \in Nat : n \in s
<1> DEFINE bad == {n \in Nat : n \notin s}
<1> SUFFICES ASSUME bad # {} PROVE FALSE
    OBVIOUS
<1>1. PICK n \in bad : \A j \in bad : n <= j
    <2>1. bad \subseteq Nat
        OBVIOUS
    <2> HIDE DEF bad
    <2> QED BY <2>1, LeastOfNats
<1>2. \A m \in 0 .. n - 1 : m \in s
    BY <1>1
<1> QED BY <1>1, <1>2

LEMMA FindType ==
    ASSUME NEW v, IsVolume(v), NEW path \in Seq(STRING), NEW dir \in Clusters
    PROVE  Find(v, path, dir) \in FileEntry \cup {NULL}
<1> DEFINE T(p, d) == Find(v, p, d) \in FileEntry \cup {NULL}
           s == {n \in Nat : \A p \in Seq(STRING), d \in Clusters : Len(p) = n => T(p, d)}
<1>1. ASSUME NEW n \in Nat, \A m \in 0 .. n - 1 : m \in s PROVE n \in s
    <2> SUFFICES ASSUME NEW p \in Seq(STRING), NEW d \in Clusters, Len(p) = n PROVE T(p, d)
        OBVIOUS
    <2> DEFINE e == First(v.entries[d], Here(p))
               w == Width(p)
    <2>1. CASE NameOf(p) = <<>>
        <3>1. Find(v, p, d) = Entry(<<>>, TRUE, d, 0)
            BY <2>1, FindStep
        <3>2. Entry(<<>>, TRUE, d, 0) \in FileEntry
            <4>1. <<>> \in Seq(STRING) /\ 0 \in Sizes
                BY NumberAssumption
            <4> QED BY <4>1 DEF Entry, FileEntry
        <3> QED BY <3>1, <3>2
    <2>2. CASE NameOf(p) # <<>> /\ Hits(v.entries[d], Here(p)) = {}
        BY <2>2, FindStep
    <2>3. CASE NameOf(p) # <<>> /\ Hits(v.entries[d], Here(p)) # {}
        <3>1. /\ e \in FileEntry
              /\ w = Len(p) => Find(v, p, d) = e
              /\ w # Len(p) /\ ~e.isDir => Find(v, p, d) = NULL
              /\ w # Len(p) /\ e.isDir =>
                     /\ w + 2 \in 1 .. Len(p) + 1
                     /\ Find(v, p, d) = Find(v, From(p, w + 2), e.cluster)
            BY <2>3, FindStep
        <3>2. w \in 0 .. Len(p)
            BY NameOfFacts
        <3> HIDE DEF e, w
        <3>3. CASE w # Len(p) /\ e.isDir
            <4>1. w + 2 \in 1 .. Len(p) + 1
                BY <3>1, <3>3
            <4>2. From(p, w + 2) \in Seq(STRING) /\ Len(From(p, w + 2)) = Len(p) + 1 - (w + 2)
                BY <4>1, FromFacts
            <4>3. Len(From(p, w + 2)) \in 0 .. n - 1
                BY <4>1, <4>2, <3>2
            <4>4. e.cluster \in Clusters
                BY <3>1 DEF FileEntry
            <4>5. T(From(p, w + 2), e.cluster)
                BY <1>1, <4>2, <4>3, <4>4
            <4> QED BY <4>5, <3>1, <3>3
        <3> QED BY <3>1, <3>3
    <2> QED BY <2>1, <2>2, <2>3
<1>2. \A n \in Nat : n \in s
    <2> HIDE DEF s
    <2> QED BY <1>1, Upwards
<1>3. Len(path) \in s
    BY <1>2, LenProperties
<1> QED BY <1>3

-----------------------------------------------------------------------------
(* The invariant *)

MountRec == [point : Points, device : Devices]
FileRec  == [point : Points, device : Devices, cluster : Clusters, size : Sizes,
             ptr : Nat, reads : BOOLEAN]

\* Every mount is of a device with a volume, and no two are at the same point.
MountsInv ==
    /\ mounted \in Seq(MountRec)
    /\ \A i, j \in DOMAIN mounted : mounted[i].point = mounted[j].point => i = j
    /\ \A i \in DOMAIN mounted : IsVolume(volumes[mounted[i].device])

VolumesInv ==
    /\ DOMAIN volumes = Devices
    /\ \A d \in Devices : volumes[d] = Unformatted \/ IsVolume(volumes[d])

FilesInv == files \in [Handles -> FileRec \cup {NULL}]

IInv == MountsInv /\ VolumesInv /\ FilesInv

LEMMA PathSeq ==
    ASSUME NEW p \in Points \cup Paths
    PROVE  p \in Seq(STRING) /\ Len(p) \in Nat \ {0} /\ p[1] = Slash
BY PathAssumption, LenProperties, EmptySeq

LEMMA CoversLen ==
    ASSUME NEW p \in Points, NEW q \in Paths, Covers(p, q)
    PROVE  Len(p) + 1 \in 1 .. Len(q) + 1
<1>1. Len(p) \in Nat /\ Len(q) \in Nat
    BY PathSeq
<1>2. Len(p) <= Len(q)
    BY DEF Covers, IsPrefix
<1> QED BY <1>1, <1>2

LEMMA MountTypes ==
    ASSUME MountsInv
    PROVE  \A i \in DOMAIN mounted : /\ mounted[i] \in MountRec
                                      /\ mounted[i].point \in Points
                                      /\ mounted[i].device \in Devices
<1>1. mounted \in Seq(MountRec) /\ DOMAIN mounted = 1 .. Len(mounted)
    BY LenProperties DEF MountsInv
<1>2. \A i \in DOMAIN mounted : mounted[i] \in MountRec
    BY <1>1, ElementOfSeq
<1> QED BY <1>2 DEF MountRec

\* What getMount finds.
LEMMA MountFound ==
    ASSUME MountsInv, NEW path \in Paths, NEW m, m = MountOf(path), m # 0
    PROVE  /\ m \in DOMAIN mounted /\ mounted[m] \in MountRec
           /\ mounted[m].point \in Points /\ mounted[m].device \in Devices
           /\ Covers(mounted[m].point, path)
           /\ RelPath(path) \in Seq(STRING)
           /\ IsVolume(volumes[mounted[m].device])
<1>1. mounted \in Seq(MountRec) /\ DOMAIN mounted = 1 .. Len(mounted) /\ Len(mounted) \in Nat
    BY LenProperties DEF MountsInv
<1>2. \A i \in DOMAIN mounted : mounted[i] \in MountRec
    BY <1>1, ElementOfSeq
<1>3. \A i \in DOMAIN mounted : Len(mounted[i].point) \in Nat
    BY <1>2, PathSeq DEF MountRec
<1>4. m \in 0 .. Len(mounted) /\ Covers(mounted[m].point, path)
    BY <1>1, <1>3, MountOfShape
<1>5. m \in DOMAIN mounted
    BY <1>1, <1>4
<1>6. mounted[m] \in MountRec /\ mounted[m].point \in Points /\ mounted[m].device \in Devices
    BY <1>2, <1>5 DEF MountRec
<1>7. Len(mounted[m].point) + 1 \in 1 .. Len(path) + 1
    BY <1>4, <1>6, CoversLen
<1>8. RelPath(path) \in Seq(STRING)
    BY <1>7, FromFacts, PathSeq DEF RelPath
<1> QED BY <1>4, <1>5, <1>6, <1>8 DEF MountsInv

LEMMA LookupType ==
    ASSUME MountsInv, NEW path \in Paths, Lookup(path) # NULL
    PROVE  Lookup(path) \in FileEntry /\ MountOf(path) # 0
<1>1. MountOf(path) # 0
    BY DEF Lookup
<1> DEFINE m == MountOf(path)
<1>2. Lookup(path) = Find(volumes[mounted[m].device], RelPath(path), Root)
    BY <1>1 DEF Lookup, RelPath
<1>3. IsVolume(volumes[mounted[m].device]) /\ RelPath(path) \in Seq(STRING)
    BY <1>1, MountFound
<1>4. Root \in Clusters
    BY VolumeAssumption
<1>5. Lookup(path) \in FileEntry \cup {NULL}
    BY <1>2, <1>3, <1>4, FindType
<1> QED BY <1>1, <1>5

LEMMA LastSlashIs ==
    ASSUME NEW S, NEW s \in Seq(S)
    PROVE  LastSlash(s) \in 0 .. Len(s)
<1> DEFINE n == Len(s)
           ends == {m \in 0 .. n : n - m = 0 \/ s[n - m] = Slash}
<1>1. n \in Nat
    BY LenProperties
<1>2. ends \subseteq Nat /\ ends # {}
    <2>1. n \in ends
        BY <1>1
    <2> QED BY <2>1, <1>1
<1>3. PICK m \in ends : \A j \in ends : m <= j
    <2> HIDE DEF ends
    <2> QED BY <1>2, LeastOfNats
<1>4. m \in 0 .. n /\ n - m \in 0 .. n /\ (n - m = 0 \/ s[n - m] = Slash)
    BY <1>1, <1>3
<1>5. ASSUME NEW k \in (n - m) + 1 .. n PROVE s[k] # Slash
    <2>1. n - k \in 0 .. n /\ n - k < m /\ n - (n - k) = k
        BY <1>1, <1>4
    <2>2. n - k \notin ends
        <3> HIDE DEF ends
        <3>1. n - k \in ends => m <= n - k
            BY <1>3
        <3> QED BY <3>1, <2>1, <1>4, <1>1
    <2> QED BY <2>1, <2>2
<1>6. \E q \in 0 .. Len(s) : /\ q = 0 \/ s[q] = Slash
                             /\ \A k \in (q + 1) .. Len(s) : s[k] # Slash
    BY <1>4, <1>5
<1> QED BY <1>6 DEF LastSlash

LEMMA basepathType ==
    ASSUME NEW s \in Seq(STRING)
    PROVE  basepath(s) \in Seq(STRING)
<1>1. LastSlash(s) \in 0 .. Len(s) /\ Len(s) \in Nat
    BY LastSlashIs, LenProperties
<1>2. LastSlash(s) + 1 \in 1 .. Len(s) + 1
    BY <1>1
<1> QED BY <1>2, FromFacts DEF basepath

-----------------------------------------------------------------------------
(* The invariant is kept *)

LEMMA InitIInv ==
    ASSUME Init
    PROVE  IInv
<1>1. MountsInv
    BY DEF Init, MountsInv
<1>2. VolumesInv
    BY VolumeAssumption DEF Init, VolumesInv
<1>3. FilesInv
    BY DEF Init, FilesInv
<1> QED BY <1>1, <1>2, <1>3 DEF IInv

LEMMA MountStep ==
    ASSUME IInv, NEW d \in Devices, NEW p \in Points, MountFileSystem(d, p)
    PROVE  IInv'
<1> USE DEF MountFileSystem
<1> DEFINE n == Len(mounted)
           q == Mount(d, p)
<1>1. mounted \in Seq(MountRec) /\ n \in Nat /\ DOMAIN mounted = 1 .. n
    BY LenProperties DEF IInv, MountsInv
<1>2. q \in MountRec /\ q.point = p /\ q.device = d
    BY DEF Mount, MountRec
<1>3. mounted' = Append(mounted, q)
    OBVIOUS
<1> HIDE DEF q
<1>4. /\ mounted' \in Seq(MountRec) /\ Len(mounted') = n + 1
      /\ \A i \in 1 .. n : mounted'[i] = mounted[i]
      /\ mounted'[n + 1] = q
    BY <1>1, <1>2, <1>3, AppendProperties
<1>5. DOMAIN mounted' = 1 .. n + 1 /\ \A i \in 1 .. n + 1 : i = n + 1 \/ i \in 1 .. n
    BY <1>1, <1>4, LenProperties
<1>6. IsVolume(volumes[d])
    BY DEF IInv, VolumesInv, Probe
<1>7. MountsInv'
    <2>1. ASSUME NEW i \in 1 .. n + 1, NEW j \in 1 .. n + 1,
                 mounted'[i].point = mounted'[j].point
          PROVE  i = j
        <3>1. \A k \in 1 .. n : mounted[k].point # p
            BY <1>1
        <3>2. \A k, l \in 1 .. n : mounted[k].point = mounted[l].point => k = l
            BY <1>1 DEF IInv, MountsInv
        <3> QED BY <2>1, <3>1, <3>2, <1>2, <1>4, <1>5
    <2>2. ASSUME NEW i \in 1 .. n + 1
          PROVE  IsVolume(volumes'[mounted'[i].device])
        <3>1. \A k \in 1 .. n : IsVolume(volumes[mounted[k].device])
            BY <1>1 DEF IInv, MountsInv
        <3> QED BY <3>1, <1>2, <1>4, <1>5, <1>6
    <2> QED BY <2>1, <2>2, <1>4, <1>5 DEF MountsInv
<1>8. VolumesInv' /\ FilesInv'
    BY DEF IInv, VolumesInv, FilesInv
<1> QED BY <1>7, <1>8 DEF IInv

LEMMA UnmountStep ==
    ASSUME IInv, NEW p \in Points, UnmountFileSystem(p)
    PROVE  IInv'
<1>1. PICK i \in DOMAIN mounted :
          /\ mounted' = Front([mounted EXCEPT ![i] = Last(mounted)])
          /\ UNCHANGED <<fileSystems, volumes, files>>
    BY DEF UnmountFileSystem
<1> DEFINE n == Len(mounted)
           q == [mounted EXCEPT ![i] = Last(mounted)]
<1>2. mounted \in Seq(MountRec) /\ n \in Nat /\ DOMAIN mounted = 1 .. n
    BY LenProperties DEF IInv, MountsInv
<1>3. i \in 1 .. n /\ n \in 1 .. n /\ n - 1 \in Nat
    BY <1>2
<1>4. Last(mounted) = mounted[n] /\ \A k \in 1 .. n : mounted[k] \in MountRec
    BY <1>2, ElementOfSeq DEF Last
<1>5. q \in Seq(MountRec) /\ Len(q) = n
      /\ \A k \in 1 .. n : q[k] = IF k = i THEN mounted[n] ELSE mounted[k]
    <2>1. q = [k \in 1 .. n |-> IF k = i THEN mounted[n] ELSE mounted[k]]
        BY <1>2, <1>4
    <2> HIDE DEF q
    <2>2. \A k \in 1 .. n : (IF k = i THEN mounted[n] ELSE mounted[k]) \in MountRec
        BY <1>3, <1>4
    <2> QED BY <2>1, <2>2, <1>2
<1>6. mounted' = SubSeq(q, 1, n - 1)
    BY <1>1, <1>5 DEF Front
<1> HIDE DEF q
<1>7. /\ mounted' \in Seq(MountRec) /\ Len(mounted') = n - 1
      /\ \A k \in 1 .. n - 1 : mounted'[k] = q[k]
    <2> DEFINE l == n - 1
    <2>1. l \in Nat /\ \A k \in 1 .. l : k \in 1 .. n
        BY <1>2, <1>3
    <2>2. \A k \in 1 .. l : q[k] \in MountRec
        BY <1>5, <2>1, ElementOfSeq
    <2>3. mounted' = SubSeq(q, 1, l)
        BY <1>6
    <2> HIDE DEF l
    <2>4. /\ SubSeq(q, 1, l) \in Seq(MountRec)
          /\ Len(SubSeq(q, 1, l)) = IF 1 <= l THEN l - 1 + 1 ELSE 0
          /\ \A k \in 1 .. l - 1 + 1 : SubSeq(q, 1, l)[k] = q[1 + k - 1]
        BY <2>1, <2>2, SubSeqProperties
    <2>5. (IF 1 <= l THEN l - 1 + 1 ELSE 0) = l /\ l - 1 + 1 = l
          /\ \A k \in 1 .. l : 1 + k - 1 = k
        BY <2>1
    <2>6. /\ mounted' \in Seq(MountRec) /\ Len(mounted') = l
          /\ \A k \in 1 .. l : mounted'[k] = q[k]
        BY <2>3, <2>4, <2>5
    <2> QED BY <2>6 DEF l
<1>8. DOMAIN mounted' = 1 .. n - 1 /\ \A k \in 1 .. n - 1 : k \in 1 .. n /\ k # n
    <2>1. DOMAIN mounted' = 1 .. Len(mounted')
        BY <1>7, LenProperties
    <2>2. DOMAIN mounted' = 1 .. n - 1
        BY <2>1, <1>7
    <2> HIDE DEF n
    <2> QED BY <2>2, <1>2
<1>9. MountsInv'
    <2>1. ASSUME NEW k \in 1 .. n - 1, NEW l \in 1 .. n - 1,
                 mounted'[k].point = mounted'[l].point
          PROVE  k = l
        <3>1. \A a, b \in 1 .. n : mounted[a].point = mounted[b].point => a = b
            BY <1>2 DEF IInv, MountsInv
        <3> DEFINE a == IF k = i THEN n ELSE k
                   b == IF l = i THEN n ELSE l
        <3>2. a \in 1 .. n /\ b \in 1 .. n /\ mounted'[k] = mounted[a] /\ mounted'[l] = mounted[b]
            BY <1>3, <1>5, <1>7, <1>8
        <3>3. a = b
            BY <3>1, <3>2, <2>1
        <3> QED BY <3>3, <1>8
    <2>2. ASSUME NEW k \in 1 .. n - 1
          PROVE  IsVolume(volumes'[mounted'[k].device])
        <3>1. \A a \in 1 .. n : IsVolume(volumes[mounted[a].device])
            BY <1>2 DEF IInv, MountsInv
        <3> DEFINE a == IF k = i THEN n ELSE k
        <3>2. a \in 1 .. n /\ mounted'[k] = mounted[a]
            BY <1>3, <1>5, <1>7, <1>8
        <3> QED BY <3>1, <3>2, <1>1
    <2> QED BY <2>1, <2>2, <1>7, <1>8 DEF MountsInv
<1>10. VolumesInv' /\ FilesInv'
    BY <1>1 DEF IInv, VolumesInv, FilesInv
<1> QED BY <1>9, <1>10 DEF IInv

\* A file opened by fopen; the volumes may have changed by then.
LEMMA OpenedKeeps ==
    ASSUME IInv, NEW h \in Handles, NEW path \in Paths, NEW mode, NEW e,
           MountOf(path) # 0, e.cluster \in Clusters, e.size \in Sizes,
           Opened(h, path, mode, e)
    PROVE  FilesInv'
<1> DEFINE m == MountOf(path)
           f == [point |-> mounted[m].point, device |-> mounted[m].device,
                 cluster |-> e.cluster, size |-> e.size,
                 ptr |-> IF "APPEND" \in Flags(mode) THEN e.size ELSE 0,
                 reads |-> "READ" \in Flags(mode)]
<1>1. files' = [files EXCEPT ![h] = f]
    BY DEF Opened
<1>2. mounted[m].point \in Points /\ mounted[m].device \in Devices
    BY MountFound DEF IInv
<1>3. f \in FileRec
    <2>1. e.size \in Nat
        BY DEF Sizes
    <2>2. ("READ" \in Flags(mode)) \in BOOLEAN
          /\ (IF "APPEND" \in Flags(mode) THEN e.size ELSE 0) \in Nat
        BY <2>1
    <2> QED BY <1>2, <2>2 DEF FileRec
<1> HIDE DEF f
<1> QED BY <1>1, <1>3 DEF IInv, FilesInv

LEMMA OpenExistingStep ==
    ASSUME IInv, NEW h \in Handles, NEW path \in Paths, NEW mode, OpenExisting(h, path, mode)
    PROVE  IInv'
<1> DEFINE e == Lookup(path)
           d == mounted[MountOf(path)].device
           trunc == "TRUNC" \in Flags(mode)
<1>1. e \in FileEntry /\ MountOf(path) # 0
    BY LookupType DEF IInv, OpenExisting
<1>2. d \in Devices /\ IsVolume(volumes[d])
    BY <1>1, MountFound DEF IInv
<1>3. e.cluster \in Clusters /\ e.size \in Sizes
      /\ [e EXCEPT !.size = 0].cluster = e.cluster /\ [e EXCEPT !.size = 0].size = 0
    BY <1>1 DEF FileEntry
<1>4. FilesInv'
    <2>1. CASE trunc
        <3>1. Opened(h, path, mode, [e EXCEPT !.size = 0])
            BY <2>1 DEF OpenExisting
        <3>2. 0 \in Sizes
            BY NumberAssumption
        <3> HIDE DEF e
        <3> QED BY <3>1, <3>2, <1>1, <1>3, OpenedKeeps
    <2>2. CASE ~trunc
        <3>1. Opened(h, path, mode, e)
            BY <2>2 DEF OpenExisting
        <3> HIDE DEF e
        <3> QED BY <3>1, <1>1, <1>3, OpenedKeeps
    <2> QED BY <2>1, <2>2
<1>5. /\ DOMAIN volumes' = Devices
      /\ \A x \in Devices : x # d => volumes'[x] = volumes[x]
      /\ DOMAIN volumes'[d] = DOMAIN volumes[d] /\ volumes'[d].entries = volumes[d].entries
    <2>1. DOMAIN volumes = Devices /\ DOMAIN volumes[d] = {"entries", "chain"}
        BY <1>2 DEF IInv, VolumesInv, IsVolume
    <2>2. volumes' = IF trunc THEN [volumes EXCEPT ![d].chain[e.cluster] = 1] ELSE volumes
        BY DEF OpenExisting
    <2> HIDE DEF d, e, trunc
    <2> QED BY <2>1, <2>2, <1>2
<1>6. IsVolume(volumes'[d]) /\ mounted' = mounted
    BY <1>2, <1>5 DEF IsVolume, OpenExisting
<1> HIDE DEF d
<1>7. \A x \in Devices : IsVolume(volumes[x]) => IsVolume(volumes'[x])
    BY <1>5, <1>6
<1>8. VolumesInv'
    BY <1>5, <1>6 DEF IInv, VolumesInv
<1>9. MountsInv'
    <2>1. \A i \in DOMAIN mounted : mounted[i].device \in Devices
        BY MountTypes DEF IInv
    <2> QED BY <2>1, <1>6, <1>7 DEF IInv, MountsInv
<1> QED BY <1>4, <1>8, <1>9 DEF IInv

LEMMA OpenNewStep ==
    ASSUME IInv, NEW h \in Handles, NEW path \in Paths, NEW mode, OpenNew(h, path, mode)
    PROVE  IInv'
<1> DEFINE d == mounted[MountOf(path)].device
           rel == RelPath(path)
           parent == Find(volumes[d], dirname(rel), Root)
           unused == Clusters \ DOMAIN volumes[d].chain
           c == CHOOSE k \in unused : \A j \in unused : k <= j
           e == Entry(basepath(rel), FALSE, c, 0)
           entries == [k \in Clusters |->
                        IF k = parent.cluster /\ e.name # <<>>
                        THEN Append(volumes[d].entries[k], e) ELSE volumes[d].entries[k]]
           v == [entries |-> entries,
                 chain |-> [k \in DOMAIN volumes[d].chain \cup {c} |->
                               IF k = c THEN 1 ELSE volumes[d].chain[k]]]
<1>1. /\ MountOf(path) # 0 /\ unused # {} /\ mounted' = mounted
      /\ volumes' = [volumes EXCEPT ![d] = v]
      /\ Opened(h, path, mode, e)
    <2>1. /\ MountOf(path) # 0 /\ unused # {} /\ mounted' = mounted
          /\ Opened(h, path, mode, e)
        BY ZenonT(60) DEF OpenNew
    <2>2. volumes' = [volumes EXCEPT ![d] =
                  [entries |-> [k \in Clusters |->
                        IF k = parent.cluster /\ e.name # <<>> THEN Append(@.entries[k], e)
                        ELSE @.entries[k]],
                   chain |-> [k \in DOMAIN @.chain \cup {c} |-> IF k = c THEN 1 ELSE @.chain[k]]]]
        BY ZenonT(60) DEF OpenNew
    <2> HIDE DEF d, rel, parent, unused, c, e
    <2> QED BY <2>1, <2>2, SMTT(40)
<1>2. d \in Devices /\ IsVolume(volumes[d]) /\ rel \in Seq(STRING)
    BY <1>1, MountFound DEF IInv
<1>3. c \in Clusters
    <2>1. unused \subseteq Clusters /\ unused \subseteq Nat
        BY VolumeAssumption
    <2> HIDE DEF unused
    <2>2. \E k \in unused : \A j \in unused : k <= j
        BY <1>1, <2>1, LeastOfNats
    <2> QED BY <2>1, <2>2
<1>4. /\ e \in FileEntry /\ e.cluster \in Clusters /\ e.size \in Sizes
    <2>1. basepath(rel) \in Seq(STRING) /\ 0 \in Sizes
        BY <1>2, basepathType, NumberAssumption, SMTT(30)
    <2> HIDE DEF c, rel
    <2> QED BY <2>1, <1>3 DEF Entry, FileEntry
<1>5. FilesInv'
    <2> HIDE DEF e
    <2> QED BY <1>1, <1>4, OpenedKeeps
<1>6. IsVolume(v)
    <2>1. \A k \in Clusters : volumes[d].entries[k] \in Seq(FileEntry)
        BY <1>2 DEF IsVolume
    <2> HIDE DEF e, d, parent
    <2>2. \A k \in Clusters : Append(volumes[d].entries[k], e) \in Seq(FileEntry)
        BY <2>1, <1>4, AppendProperties
    <2>3. entries \in [Clusters -> Seq(FileEntry)]
        BY <2>1, <2>2
    <2> HIDE DEF entries
    <2> QED BY <2>3 DEF IsVolume
<1> HIDE DEF v, d
<1>7. VolumesInv' /\ \A x \in Devices : IsVolume(volumes[x]) => IsVolume(volumes'[x])
    BY <1>1, <1>2, <1>6 DEF IInv, VolumesInv
<1>8. MountsInv'
    <2>1. \A i \in DOMAIN mounted : mounted[i].device \in Devices
        BY MountTypes DEF IInv
    <2> QED BY <2>1, <1>1, <1>7 DEF IInv, MountsInv
<1> QED BY <1>5, <1>7, <1>8 DEF IInv

\* A FILE whose pointer alone changes.
LEMMA PtrKeeps ==
    ASSUME IInv, NEW h \in Handles, files[h] # NULL, NEW q \in Nat,
           files' = [files EXCEPT ![h].ptr = q], UNCHANGED <<mounted, volumes>>
    PROVE  IInv'
<1>1. files[h] \in FileRec
    BY DEF IInv, FilesInv
<1>2. [files[h] EXCEPT !.ptr = q] \in FileRec
    BY <1>1 DEF FileRec
<1>3. files' = [files EXCEPT ![h] = [files[h] EXCEPT !.ptr = q]]
    OBVIOUS
<1>4. FilesInv'
    <2> DEFINE f == [files[h] EXCEPT !.ptr = q]
    <2> HIDE DEF f
    <2> QED BY <1>2, <1>3 DEF IInv, FilesInv, f
<1> QED BY <1>4 DEF IInv, MountsInv, VolumesInv

LEMMA ReadStep ==
    ASSUME IInv, NEW h \in Handles, NEW n \in Reads, NEW cut, NEW good \in Nat,
           ReadFile(h, n, cut, good)
    PROVE  IInv'
<1> DEFINE f == files[h]
           p == f.ptr
           length == IF (p + n) % Wide > f.size THEN (f.size - p) % Wide ELSE n
           r == Fetch(FoundOf(f, cut), good, p \div bytesPerCluster, p % bytesPerCluster, length)
           q == (p + Fread(f, n, cut, good).read) % Wide
<1>1. f # NULL /\ f \in FileRec
    BY DEF IInv, FilesInv, ReadFile
<1>2. p \in Nat /\ f.size \in Nat /\ n \in Nat /\ Wide \in Nat \ {0}
    BY <1>1, NumberAssumption DEF FileRec, Sizes
<1>3. Fread(f, n, cut, good).read = IF r.ok THEN Len(r.stored) ELSE 0
    BY DEF Fread
<1>4. length \in Nat
    BY <1>2
<1> HIDE DEF p, length
<1>5. Len(r.stored) \in Nat
    BY <1>2, <1>4, FetchFits
<1>6. q \in Nat
    <2> DEFINE read == Fread(f, n, cut, good).read
    <2>1. read \in Nat
        <3> HIDE DEF r, f
        <3> QED BY <1>3, <1>5
    <2>2. q = (p + read) % Wide
        OBVIOUS
    <2> HIDE DEF read, p, q
    <2>3. p + read \in Nat
        BY <2>1, <1>2
    <2> QED BY <2>2, <2>3, <1>2
<1> HIDE DEF r, f
<1>7. files' = [files EXCEPT ![h].ptr = q]
    BY DEF ReadFile, p, f
<1> HIDE DEF q
<1> QED BY <1>1, <1>6, <1>7, PtrKeeps DEF ReadFile, f

LEMMA SeekStep ==
    ASSUME IInv, NEW h \in Handles, NEW n \in Offsets, NEW origin \in {"CUR", "SET", "END"},
           fseek(h, n, origin)
    PROVE  IInv'
<1> DEFINE base == CASE origin = "CUR" -> files[h].ptr
                     [] origin = "SET" -> 0
                     [] origin = "END" -> files[h].size
           q == (base + n) % Wide
<1>1. files[h] # NULL /\ files[h] \in FileRec
    BY DEF IInv, FilesInv, fseek
<1>2. base \in Nat
    BY <1>1 DEF FileRec, Sizes
<1>3. n \in Int /\ Wide \in Nat \ {0}
    BY NumberAssumption
<1>4. files' = [files EXCEPT ![h].ptr = q]
    BY DEF fseek
<1> HIDE DEF base
<1>5. q \in Nat
    BY <1>2, <1>3
<1> HIDE DEF q
<1> QED BY <1>1, <1>4, <1>5, PtrKeeps DEF fseek

LEMMA CloseStep ==
    ASSUME IInv, NEW h \in Handles, fclose(h)
    PROVE  IInv'
BY DEF IInv, MountsInv, VolumesInv, FilesInv, fclose

LEMMA StepIInv ==
    ASSUME IInv, [Next]_vars
    PROVE  IInv'
<1>1. CASE RegisterFAT32FileSystem
    BY <1>1 DEF IInv, MountsInv, VolumesInv, FilesInv, RegisterFAT32FileSystem
<1>2. ASSUME NEW d \in Devices, NEW p \in Points, MountFileSystem(d, p)
      PROVE  IInv'
    BY <1>2, MountStep
<1>3. ASSUME NEW p \in Points, UnmountFileSystem(p)
      PROVE  IInv'
    BY <1>3, UnmountStep
<1>4. ASSUME NEW h \in Handles, NEW p \in Paths, NEW m \in Modes,
             OpenExisting(h, p, m) \/ OpenNew(h, p, m)
      PROVE  IInv'
    BY <1>4, OpenExistingStep, OpenNewStep
<1>5. ASSUME NEW h \in Handles, NEW n \in Reads, NEW cut \in Cuts, NEW good \in Goods,
             ReadFile(h, n, cut, good)
      PROVE  IInv'
    BY <1>5, ReadStep, NumberAssumption DEF Goods
<1>6. ASSUME NEW h \in Handles, NEW n \in Offsets, NEW origin \in {"CUR", "SET", "END"},
             fseek(h, n, origin)
      PROVE  IInv'
    BY <1>6, SeekStep
<1>7. ASSUME NEW h \in Handles, fclose(h)
      PROVE  IInv'
    BY <1>7, CloseStep
<1>8. CASE UNCHANGED vars
    BY <1>8 DEF IInv, MountsInv, VolumesInv, FilesInv, vars
<1> QED BY <1>1, <1>2, <1>3, <1>4, <1>5, <1>6, <1>7, <1>8 DEF Next

\* Mounts, volumes and FILEs are what they should be: the invariant behind the
\* two theorems (MountFileSystem, UnmountFileSystem, fopen).
THEOREM MountsAndFilesHold == Spec => []IInv
<1>1. Init => IInv
    BY InitIInv
<1>2. IInv /\ [Next]_vars => IInv'
    BY StepIInv
<1> QED BY <1>1, <1>2, PTL DEF Spec

\* A read that starts inside the file stores the bytes that follow, in order,
\* as far as the clusters of its chain are found, no more than asked for and
\* none from behind the end, and returns how many, or 0 if a cluster could not
\* be read: for chains of every length and clusters of every size, wherever the
\* walk is cut and whatever a read of the end mark returns (fread,
\* readFAT32File, getNextCluster).
THEOREM ReadsFitHolds == Spec => []ReadsFit
<1>1. IInv => ReadsFit
    <2> SUFFICES ASSUME IInv, NEW h \in Handles, files[h] # NULL, files[h].ptr <= files[h].size,
                        NEW n \in Reads, NEW cut \in Cuts, NEW good \in Goods
                 PROVE  LET f    == files[h]
                            r    == Fread(f, n, cut, good)
                            most == IF n < f.size - f.ptr THEN n ELSE f.size - f.ptr
                        IN  /\ Len(r.stored) <= most
                            /\ \A k \in DOMAIN r.stored :
                                  Fits(f.ptr, FoundOf(f, cut), k, r.stored[k])
                            /\ r.read = most \/ (r.read = 0 /\ good < most)
        BY DEF ReadsFit, Fits
    <2>1. files[h].ptr \in Nat /\ files[h].size \in Sizes
        BY DEF IInv, FilesInv, FileRec
    <2>2. good \in Nat
        BY NumberAssumption DEF Goods
    <2> QED BY <2>1, <2>2, FreadFits
<1> QED BY <1>1, MountsAndFilesHold, PTL

-----------------------------------------------------------------------------
(* The components of a path *)

LEMMA FromOne ==
    ASSUME NEW S, NEW s \in Seq(S)
    PROVE  From(s, 1) = s
<1>1. Len(s) \in Nat /\ 1 \in 1 .. Len(s) + 1
    BY LenProperties
<1>2. /\ From(s, 1) \in Seq(S) /\ Len(From(s, 1)) = Len(s) + 1 - 1
      /\ \A i \in 1 .. Len(s) + 1 - 1 : From(s, 1)[i] = s[1 + i - 1]
    BY <1>1, FromFacts
<1>3. Len(s) + 1 - 1 = Len(s) /\ \A i \in 1 .. Len(s) : 1 + i - 1 = i
    BY <1>1
<1> QED BY <1>2, <1>3, SameSeq

\* The first n characters.
LEMMA StartFacts ==
    ASSUME NEW S, NEW s \in Seq(S), NEW n \in 0 .. Len(s)
    PROVE  /\ SubSeq(s, 1, n) \in Seq(S) /\ Len(SubSeq(s, 1, n)) = n
           /\ \A i \in 1 .. n : SubSeq(s, 1, n)[i] = s[i]
<1>1. Len(s) \in Nat /\ n \in Nat
    BY LenProperties
<1>2. \A i \in 1 .. n : i \in 1 .. Len(s)
    BY <1>1
<1>3. \A i \in 1 .. n : s[i] \in S
    BY <1>2, ElementOfSeq
<1>4. /\ SubSeq(s, 1, n) \in Seq(S)
      /\ Len(SubSeq(s, 1, n)) = IF 1 <= n THEN n - 1 + 1 ELSE 0
      /\ \A i \in 1 .. n - 1 + 1 : SubSeq(s, 1, n)[i] = s[1 + i - 1]
    <2>1. 1 \in Int /\ n \in Int
        BY <1>1
    <2> QED BY <2>1, <1>3, SubSeqProperties
<1>5. (IF 1 <= n THEN n - 1 + 1 ELSE 0) = n /\ n - 1 + 1 = n
      /\ \A i \in 1 .. n : 1 + i - 1 = i
    BY <1>1
<1> QED BY <1>4, <1>5

CompAt(s, sub1, subn) ==
    IF s = <<>> THEN <<>>
    ELSE IF s[1] = Slash THEN sub1
    ELSE <<SubSeq(s, 1, ComponentLength(s))>> \o subn

Comps(path, M, g) ==
    [k \in M .. Len(path) + 1 |->
        IF k = Len(path) + 1 THEN <<>>
        ELSE IF path[k] = Slash THEN g[k + 1]
        ELSE <<SubSeq(path, k, k + ComponentLength(From(path, k)) - 1)>>
                 \o g[k + ComponentLength(From(path, k))]]

\* A component ends behind where it begins and within the path.
LEMMA ComponentAt ==
    ASSUME NEW path \in Seq(STRING), NEW k \in 1 .. Len(path), path[k] # Slash
    PROVE  /\ ComponentLength(From(path, k)) \in 1 .. Len(path) + 1 - k
           /\ k + ComponentLength(From(path, k)) \in k + 1 .. Len(path) + 1
           /\ SubSeq(path, k, k + ComponentLength(From(path, k)) - 1)
                = SubSeq(From(path, k), 1, ComponentLength(From(path, k)))
<1> DEFINE r == From(path, k)
           w == ComponentLength(r)
           N == Len(path)
<1>1. N \in Nat
    BY LenProperties
<1>2. r \in Seq(STRING) /\ Len(r) = N + 1 - k /\ \A i \in 1 .. N + 1 - k : r[i] = path[k + i - 1]
    BY <1>1, FromFacts
<1>3. w \in 0 .. Len(r) /\ (w = Len(r) \/ r[w + 1] = Slash)
    BY <1>2, ComponentLengthIs
<1>4. r[1] = path[k] /\ Len(r) >= 1
    <2>1. 1 \in 1 .. N + 1 - k /\ k + 1 - 1 = k
        BY <1>1
    <2> HIDE DEF r
    <2> QED BY <2>1, <1>1, <1>2
<1> HIDE DEF r, w
<1>5. w # 0
    BY <1>3, <1>4
<1>6. w \in 1 .. N + 1 - k /\ k + w \in k + 1 .. N + 1
    BY <1>1, <1>2, <1>3, <1>5
<1>7. SubSeq(path, k, k + w - 1) = SubSeq(r, 1, w)
    <2> DEFINE a == SubSeq(path, k, k + w - 1)
               b == SubSeq(r, 1, w)
    <2>1. b \in Seq(STRING) /\ Len(b) = w /\ \A i \in 1 .. w : b[i] = r[i]
        BY <1>2, <1>3, StartFacts
    <2>2. \A i \in k .. k + w - 1 : path[i] \in STRING
        <3>1. \A i \in k .. k + w - 1 : i \in 1 .. N
            BY <1>1, <1>6
        <3> QED BY <3>1, ElementOfSeq
    <2>3. /\ a \in Seq(STRING)
          /\ Len(a) = IF k <= k + w - 1 THEN (k + w - 1) - k + 1 ELSE 0
          /\ \A i \in 1 .. (k + w - 1) - k + 1 : a[i] = path[k + i - 1]
        <3>1. k \in Int /\ k + w - 1 \in Int
            BY <1>6
        <3> QED BY <2>2, <3>1, SubSeqProperties
    <2> HIDE DEF a, b, N
    <2>4. (IF k <= k + w - 1 THEN (k + w - 1) - k + 1 ELSE 0) = w /\ (k + w - 1) - k + 1 = w
          /\ \A i \in 1 .. w : i \in 1 .. N + 1 - k
        BY <1>1, <1>6
    <2>5. Len(a) = w /\ \A i \in 1 .. w : a[i] = path[k + i - 1]
        BY <2>3, <2>4
    <2>6. \A i \in 1 .. w : a[i] = b[i]
        BY <2>1, <2>4, <2>5, <1>2
    <2>7. a = b
        BY <2>1, <2>3, <2>5, <2>6, SameSeq
    <2> QED BY <2>7 DEF a, b
<1> QED BY <1>6, <1>7 DEF r, w

LEMMA CompsExist ==
    ASSUME NEW path \in Seq(STRING)
    PROVE  \E g : g = Comps(path, 1, g)
<1> DEFINE N == Len(path)
           Is(M, g) == g = Comps(path, M, g)
           s == {m \in 0 .. N : \E g : Is(N + 1 - m, g)}
<1>1. N \in Nat
    BY LenProperties
<1>2. 0 \in s
    <2> DEFINE g == [k \in N + 1 - 0 .. N + 1 |-> <<>>]
    <2>1. \A k \in N + 1 - 0 .. N + 1 : k = N + 1
        BY <1>1
    <2>2. Is(N + 1 - 0, g)
        BY <2>1 DEF Comps
    <2> HIDE DEF Is
    <2> QED BY <2>2, <1>1
<1>3. ASSUME NEW m \in 0 .. N - 1, m \in s PROVE m + 1 \in s
    <2> DEFINE M == N + 1 - m
               L == N + 1 - (m + 1)
    <2>1. PICK g : Is(M, g)
        <3> HIDE DEF Is
        <3> QED BY <1>3
    <2>2. M \in 2 .. N + 1 /\ L = M - 1 /\ L \in 1 .. N
        BY <1>1
    <2> HIDE DEF M, L
    <2> DEFINE at(k, q) ==
                   IF k = N + 1 THEN <<>>
                   ELSE IF path[k] = Slash THEN q[k + 1]
                   ELSE <<SubSeq(path, k, k + ComponentLength(From(path, k)) - 1)>>
                            \o q[k + ComponentLength(From(path, k))]
               h == [k \in L .. N + 1 |-> IF k = L THEN at(L, g) ELSE g[k]]
    <2>3. \A k \in M .. N + 1 : h[k] = g[k]
        BY <2>2, <1>1
    <2>4. \A k \in M .. N + 1 : g[k] = at(k, g)
        BY <2>1 DEF Comps
    <2>5. h[L] = at(L, g) /\ h = [k \in L .. N + 1 |-> h[k]]
        BY <2>2, <1>1
    <2> HIDE DEF h
    <2>6. ASSUME NEW k \in L .. N + 1 PROVE at(k, g) = at(k, h)
        <3>1. CASE k # N + 1 /\ path[k] = Slash
            <4>1. k + 1 \in M .. N + 1
                BY <3>1, <2>2, <1>1
            <4> QED BY <3>1, <4>1, <2>3
        <3>2. CASE k # N + 1 /\ path[k] # Slash
            <4>1. k \in 1 .. N
                BY <3>2, <2>2, <1>1
            <4>2. k + ComponentLength(From(path, k)) \in k + 1 .. N + 1
                BY <3>2, <4>1, ComponentAt
            <4>3. k + ComponentLength(From(path, k)) \in M .. N + 1
                BY <4>1, <4>2, <2>2, <1>1
            <4> QED BY <3>2, <4>3, <2>3
        <3> QED BY <3>1, <3>2
    <2>7. \A k \in L .. N + 1 : h[k] = at(k, h)
        <3> TAKE k \in L .. N + 1
        <3>1. h[k] = at(k, g)
            <4>1. k = L \/ k \in M .. N + 1
                BY <2>2, <1>1
            <4> HIDE DEF at
            <4> QED BY <4>1, <2>3, <2>4, <2>5
        <3> HIDE DEF at
        <3> QED BY <3>1, <2>6
    <2>8. Is(L, h)
        BY <2>5, <2>7 DEF Comps
    <2> HIDE DEF Is
    <2> QED BY <2>8, <1>1 DEF L
<1>4. \A m \in 0 .. N : m \in s
    <2> HIDE DEF s, N
    <2> QED BY <1>1, <1>2, <1>3, UpTo
<1>5. N \in s /\ N + 1 - N = 1
    BY <1>1, <1>4
<1> QED BY <1>5

CompsOf(path) == CHOOSE g : g = Comps(path, 1, g)

LEMMA CompsIs ==
    ASSUME NEW path \in Seq(STRING)
    PROVE  /\ Components(path) = CompsOf(path)[1]
           /\ \A k \in 1 .. Len(path) + 1 :
                CompsOf(path)[k] =
                  CompAt(From(path, k), CompsOf(path)[k + 1],
                         CompsOf(path)[k + ComponentLength(From(path, k))])
<1> DEFINE g == CompsOf(path)
           N == Len(path)
<1>1. g = Comps(path, 1, g)
    BY CompsExist DEF CompsOf
<1>2. Components(path) = g[1]
    BY DEF Components, CompsOf, Comps
<1> HIDE DEF g
<1>3. \A k \in 1 .. N + 1 :
        g[k] = IF k = N + 1 THEN <<>>
               ELSE IF path[k] = Slash THEN g[k + 1]
               ELSE <<SubSeq(path, k, k + ComponentLength(From(path, k)) - 1)>>
                        \o g[k + ComponentLength(From(path, k))]
    BY <1>1 DEF Comps
<1>4. ASSUME NEW k \in 1 .. N + 1
      PROVE  g[k] = CompAt(From(path, k), g[k + 1], g[k + ComponentLength(From(path, k))])
    <2>1. N \in Nat
        BY LenProperties
    <2>2. /\ From(path, k) \in Seq(STRING) /\ Len(From(path, k)) = N + 1 - k
          /\ \A i \in 1 .. N + 1 - k : From(path, k)[i] = path[k + i - 1]
        BY FromFacts
    <2>3. CASE k = N + 1
        <3>1. From(path, k) = <<>>
            BY <2>1, <2>2, <2>3, EmptySeq
        <3> QED BY <3>1, <2>3, <1>3 DEF CompAt
    <2>4. CASE k # N + 1
        <3>1. k \in 1 .. N /\ 1 \in 1 .. N + 1 - k /\ k + 1 - 1 = k
            BY <2>1, <2>4
        <3>2. From(path, k) # <<>> /\ From(path, k)[1] = path[k]
            <4>1. Len(From(path, k)) # 0
                BY <2>1, <2>2, <2>4
            <4>2. From(path, k) # <<>>
                BY <4>1, EmptySeq
            <4>3. From(path, k)[1] = path[k + 1 - 1]
                BY <2>2, <3>1
            <4> QED BY <4>2, <4>3, <3>1
        <3>3. CASE path[k] = Slash
            BY <3>1, <3>2, <3>3, <2>4, <1>3 DEF CompAt
        <3>4. CASE path[k] # Slash
            <4>1. SubSeq(path, k, k + ComponentLength(From(path, k)) - 1)
                    = SubSeq(From(path, k), 1, ComponentLength(From(path, k)))
                BY <3>1, <3>4, ComponentAt
            <4>2. g[k] = <<SubSeq(path, k, k + ComponentLength(From(path, k)) - 1)>>
                            \o g[k + ComponentLength(From(path, k))]
                BY <3>4, <2>4, <1>3
            <4> QED BY <3>2, <3>4, <4>1, <4>2 DEF CompAt
        <3> QED BY <3>3, <3>4
    <2> QED BY <2>3, <2>4
<1> QED BY <1>2, <1>4 DEF g

LEMMA CompsShift ==
    ASSUME NEW path \in Seq(STRING), NEW k \in 1 .. Len(path) + 1
    PROVE  CompsOf(path)[k] = Components(From(path, k))
<1> DEFINE t == From(path, k)
           n == Len(path) + 1 - k
           g == CompsOf(path)
           h == CompsOf(t)
           s == {j \in 1 .. n + 1 : h[j] = g[k + j - 1]}
<1>1. Len(path) \in Nat /\ n \in Nat
    BY LenProperties
<1>2. t \in Seq(STRING) /\ Len(t) = n
    BY FromFacts
<1>3. ASSUME NEW j \in 1 .. n + 1, \A i \in j + 1 .. n + 1 : i \in s
      PROVE  j \in s
    <2> DEFINE r == From(t, j)
               w == ComponentLength(r)
               K == k + j - 1
    <2>1. r = From(path, K) /\ K \in 1 .. Len(path) + 1
        <3>1. j \in 1 .. Len(path) + 2 - k
            BY <1>1
        <3> QED BY <3>1, <1>1, FromFrom
    <2>2. r \in Seq(STRING) /\ Len(r) = n + 1 - j
        BY <1>2, FromFacts
    <2>3. w \in 0 .. n + 1 - j /\ (w = Len(r) \/ r[w + 1] = Slash)
        BY <2>2, ComponentLengthIs
    <2>4. h[j] = CompAt(r, h[j + 1], h[j + w])
        BY <1>2, CompsIs
    <2>5. g[K] = CompAt(r, g[K + 1], g[K + w])
        BY <2>1, CompsIs
    <2> HIDE DEF r, w, t, g, h
    <2>6. CASE r = <<>>
        BY <2>4, <2>5, <2>6 DEF CompAt
    <2>7. CASE r # <<>> /\ r[1] = Slash
        <3>1. Len(r) # 0
            BY <2>2, <2>7, EmptySeq
        <3>2. j + 1 \in j + 1 .. n + 1 /\ k + (j + 1) - 1 = K + 1
            BY <3>1, <2>2, <1>1
        <3>3. h[j + 1] = g[K + 1]
            BY <3>2, <1>3
        <3> QED BY <3>3, <2>4, <2>5, <2>7 DEF CompAt
    <2>8. CASE r # <<>> /\ r[1] # Slash
        <3>1. Len(r) # 0
            BY <2>2, <2>8, EmptySeq
        <3>2. w # 0
            BY <3>1, <2>3, <2>8
        <3>3. j + w \in j + 1 .. n + 1 /\ k + (j + w) - 1 = K + w
            BY <3>2, <2>3, <1>1
        <3>4. h[j + w] = g[K + w]
            BY <3>3, <1>3
        <3> QED BY <3>4, <2>4, <2>5, <2>8 DEF CompAt, w
    <2> QED BY <2>6, <2>7, <2>8
<1>4. \A j \in 1 .. n + 1 : j \in s
    <2> HIDE DEF s, n
    <2>1. n + 1 \in Nat
        BY <1>1
    <2> QED BY <1>3, <2>1, DownFrom
<1>5. 1 \in s /\ k + 1 - 1 = k
    BY <1>1, <1>4
<1>6. Components(t) = h[1]
    BY <1>2, CompsIs
<1> QED BY <1>5, <1>6

\* The components, one at a time.
LEMMA ComponentsStep ==
    ASSUME NEW s \in Seq(STRING), NEW n, n = ComponentLength(s)
    PROVE  /\ s = <<>> => Components(s) = <<>>
           /\ s # <<>> /\ s[1] = Slash => Components(s) = Components(From(s, 2))
           /\ s # <<>> /\ s[1] # Slash =>
                /\ n \in 1 .. Len(s)
                /\ Components(s) = <<SubSeq(s, 1, n)>> \o Components(From(s, n + 1))
<1> DEFINE g == CompsOf(s)
<1>1. Len(s) \in Nat /\ 1 \in 1 .. Len(s) + 1 /\ From(s, 1) = s
    BY LenProperties, FromOne
<1>2. Components(s) = CompAt(s, g[1 + 1], g[1 + n])
    BY <1>1, CompsIs
<1>3. ASSUME s # <<>> PROVE Len(s) \in Nat \ {0} /\ 2 \in 1 .. Len(s) + 1
    BY <1>3, EmptySeq
<1>4. ASSUME s # <<>>, s[1] # Slash PROVE n \in 1 .. Len(s) /\ 1 + n \in 1 .. Len(s) + 1
    <2>1. n \in 0 .. Len(s) /\ (n = Len(s) \/ s[n + 1] = Slash)
        BY ComponentLengthIs
    <2>2. n # 0
        BY <2>1, <1>3, <1>4
    <2> QED BY <2>1, <2>2, <1>1
<1>5. \A k \in 1 .. Len(s) + 1 : g[k] = Components(From(s, k))
    BY CompsShift
<1> HIDE DEF g
<1>6. CASE s = <<>>
    BY <1>2, <1>6 DEF CompAt
<1>7. CASE s # <<>> /\ s[1] = Slash
    BY <1>2, <1>3, <1>5, <1>7 DEF CompAt
<1>8. CASE s # <<>> /\ s[1] # Slash
    <2>1. n \in 1 .. Len(s) /\ 1 + n \in 1 .. Len(s) + 1 /\ 1 + n = n + 1
        BY <1>4, <1>8
    <2>2. Components(s) = <<SubSeq(s, 1, n)>> \o g[1 + n]
        BY <1>2, <1>8 DEF CompAt
    <2> QED BY <2>1, <2>2, <1>5, <1>8
<1> QED BY <1>6, <1>7, <1>8

LEMMA ComponentsType ==
    ASSUME NEW s \in Seq(STRING)
    PROVE  Components(s) \in Seq(Seq(STRING))
<1> DEFINE ok == {n \in Nat : \A p \in Seq(STRING) : Len(p) = n =>
                                 Components(p) \in Seq(Seq(STRING))}
<1>1. ASSUME NEW n \in Nat, \A m \in 0 .. n - 1 : m \in ok PROVE n \in ok
    <2> SUFFICES ASSUME NEW p \in Seq(STRING), Len(p) = n
                 PROVE  Components(p) \in Seq(Seq(STRING))
        OBVIOUS
    <2> DEFINE w == ComponentLength(p)
    <2>0. w \in 0 .. Len(p)
        BY ComponentLengthIs
    <2>1. \A k \in 2 .. n + 1 : From(p, k) \in Seq(STRING) /\ Len(From(p, k)) \in 0 .. n - 1
        BY FromFacts
    <2>2. \A k \in 2 .. n + 1 : Components(From(p, k)) \in Seq(Seq(STRING))
        BY <2>1, <1>1
    <2>3. CASE p = <<>>
        <3>1. Components(p) = <<>>
            BY <2>3, ComponentsStep
        <3> QED BY <3>1, EmptySeq
    <2>4. CASE p # <<>> /\ p[1] = Slash
        <3>1. 2 \in 2 .. n + 1
            BY <2>4, EmptySeq
        <3>2. Components(p) = Components(From(p, 2))
            BY <2>4, ComponentsStep
        <3>3. Components(From(p, 2)) \in Seq(Seq(STRING))
            BY <3>1, <2>2
        <3> QED BY <3>2, <3>3
    <2>5. CASE p # <<>> /\ p[1] # Slash
        <3>1. w \in 1 .. n /\ Components(p) = <<SubSeq(p, 1, w)>> \o Components(From(p, w + 1))
            BY <2>5, ComponentsStep
        <3>2. SubSeq(p, 1, w) \in Seq(STRING)
            BY <2>0, StartFacts
        <3> HIDE DEF w
        <3>3. Components(From(p, w + 1)) \in Seq(Seq(STRING))
            BY <3>1, <2>2
        <3>4. <<SubSeq(p, 1, w)>> \in Seq(Seq(STRING))
            BY <3>2
        <3> QED BY <3>1, <3>3, <3>4, ConcatProperties
    <2> QED BY <2>3, <2>4, <2>5
<1>2. \A n \in Nat : n \in ok
    <2> HIDE DEF ok
    <2> QED BY <1>1, Upwards
<1>3. Len(s) \in ok
    BY <1>2, LenProperties
<1> QED BY <1>3

LEMMA StartOfFrom ==
    ASSUME NEW S, NEW q \in Seq(S), NEW k \in 0 .. Len(q), NEW j \in 1 .. k + 1
    PROVE  From(SubSeq(q, 1, k), j) = SubSeq(From(q, j), 1, k + 1 - j)
<1> DEFINE p == SubSeq(q, 1, k)
           r == From(q, j)
           N == Len(q)
           m == k + 1 - j
<1>1. N \in Nat /\ k \in 0 .. N /\ j \in 1 .. N + 1 /\ m \in 0 .. N + 1 - j
    BY LenProperties
<1>2. p \in Seq(S) /\ Len(p) = k /\ \A i \in 1 .. k : p[i] = q[i]
    BY StartFacts
<1>3. r \in Seq(S) /\ Len(r) = N + 1 - j /\ \A i \in 1 .. N + 1 - j : r[i] = q[j + i - 1]
    BY <1>1, FromFacts
<1> HIDE DEF p, r
<1> DEFINE a == From(p, j)
           b == SubSeq(r, 1, m)
<1>4. a \in Seq(S) /\ Len(a) = k + 1 - j /\ \A i \in 1 .. k + 1 - j : a[i] = p[j + i - 1]
    <2>1. j \in 1 .. Len(p) + 1
        BY <1>2
    <2>2. /\ a \in Seq(S) /\ Len(a) = Len(p) + 1 - j
          /\ \A i \in 1 .. Len(p) + 1 - j : a[i] = p[j + i - 1]
        BY <1>2, <2>1, FromFacts
    <2> QED BY <1>2, <2>2
<1>5. b \in Seq(S) /\ Len(b) = m /\ \A i \in 1 .. m : b[i] = r[i]
    BY <1>1, <1>3, StartFacts
<1> HIDE DEF a, b, N
<1>6. ASSUME NEW i \in 1 .. m PROVE a[i] = b[i]
    <2>1. i \in 1 .. k + 1 - j /\ j + i - 1 \in 1 .. k /\ i \in 1 .. N + 1 - j
        BY <1>1
    <2> QED BY <2>1, <1>2, <1>3, <1>4, <1>5
<1>7. a = b
    BY <1>4, <1>5, <1>6, SameSeq
<1> QED BY <1>7 DEF a, b, p, r

LEMMA StartOfStart ==
    ASSUME NEW S, NEW q \in Seq(S), NEW k \in 0 .. Len(q), NEW n \in 0 .. k
    PROVE  SubSeq(SubSeq(q, 1, k), 1, n) = SubSeq(q, 1, n)
<1> DEFINE p == SubSeq(q, 1, k)
           a == SubSeq(p, 1, n)
           b == SubSeq(q, 1, n)
<1>1. Len(q) \in Nat /\ n \in 0 .. Len(q)
    BY LenProperties
<1>2. p \in Seq(S) /\ Len(p) = k /\ \A i \in 1 .. k : p[i] = q[i]
    BY StartFacts
<1>3. b \in Seq(S) /\ Len(b) = n /\ \A i \in 1 .. n : b[i] = q[i]
    BY <1>1, StartFacts
<1> HIDE DEF p, b
<1>4. a \in Seq(S) /\ Len(a) = n /\ \A i \in 1 .. n : a[i] = p[i]
    BY <1>2, StartFacts
<1> HIDE DEF a
<1>5. \A i \in 1 .. n : a[i] = b[i]
    <2>1. \A i \in 1 .. n : i \in 1 .. k
        OBVIOUS
    <2> QED BY <2>1, <1>2, <1>3, <1>4
<1>6. a = b
    BY <1>3, <1>4, <1>5, SameSeq
<1> QED BY <1>6 DEF a, b, p

Associates(x, y, z) == (x \o y) \o z = x \o (y \o z)

LEMMA SeqAssociates ==
    ASSUME NEW S, NEW x \in Seq(S), NEW y \in Seq(S), NEW z \in Seq(S)
    PROVE  Associates(x, y, z)
<1>1. (x \o y) \o z = x \o (y \o z)
    BY ONLY ConcatAssociative
<1> QED BY ONLY <1>1 DEF Associates

\* A path cut at a slash, or at one of its ends: its components are those of the
\* two parts.
LEMMA ComponentsCat ==
    ASSUME NEW path \in Seq(STRING), NEW l \in 0 .. Len(path),
           \/ l = 0 \/ l = Len(path)
           \/ path[l] = Slash \/ path[l + 1] = Slash
    PROVE  Components(path) = Components(SubSeq(path, 1, l)) \o Components(From(path, l + 1))
<1> DEFINE Cut(q, k) == k = 0 \/ k = Len(q) \/ q[k] = Slash \/ q[k + 1] = Slash
           T(q, k) == Components(q) = Components(SubSeq(q, 1, k)) \o Components(From(q, k + 1))
           s == {n \in Nat : \A q \in Seq(STRING) : Len(q) = n =>
                                \A k \in 0 .. n : Cut(q, k) => T(q, k)}
           X == Seq(STRING)
<1>1. ASSUME NEW n \in Nat, \A m \in 0 .. n - 1 : m \in s PROVE n \in s
    <2> SUFFICES ASSUME NEW q \in Seq(STRING), Len(q) = n, NEW k \in 0 .. n, Cut(q, k)
                 PROVE  T(q, k)
        OBVIOUS
    <2> DEFINE p == SubSeq(q, 1, k)
               w == ComponentLength(q)
    <2>1. p \in X /\ Len(p) = k /\ \A i \in 1 .. k : p[i] = q[i]
        BY StartFacts
    <2>2. Components(q) \in Seq(X) /\ Components(p) \in Seq(X)
        BY <2>1, ComponentsType
    <2>3. CASE k = 0
        <3>1. p = <<>>
            BY <2>1, <2>3, EmptySeq
        <3>2. From(q, k + 1) = q
            BY <2>3, FromOne
        <3>3. Components(p) = <<>>
            BY <3>1, <2>1, ComponentsStep
        <3> HIDE DEF p
        <3> QED BY <3>2, <3>3, <2>2, ConcatEmptySeq DEF p
    \* The same, for what is left behind the first j - 1 characters.
    <2>4. ASSUME NEW j \in 2 .. k + 1, Cut(From(q, j), k + 1 - j)
          PROVE  /\ Components(From(q, j))
                      = Components(From(p, j)) \o Components(From(q, k + 1))
                 /\ Components(From(p, j)) \in Seq(X) /\ Components(From(q, k + 1)) \in Seq(X)
        <3> DEFINE r == From(q, j)
                   i == k + 1 - j
        <3>1. r \in X /\ Len(r) = n + 1 - j
            BY FromFacts
        <3>2. i \in 0 .. Len(r) /\ Len(r) \in 0 .. n - 1
            BY <3>1
        <3>3. SubSeq(r, 1, i) = From(p, j) /\ From(r, i + 1) = From(q, k + 1)
            <4>1. SubSeq(r, 1, i) = From(p, j)
                <5>1. k \in 0 .. Len(q) /\ j \in 1 .. k + 1 /\ q \in Seq(STRING)
                    OBVIOUS
                <5> QED BY ONLY <5>1, StartOfFrom
            <4>2. i + 1 \in 1 .. Len(q) + 2 - j /\ j + (i + 1) - 1 = k + 1
                OBVIOUS
            <4>3. From(r, i + 1) = From(q, j + (i + 1) - 1)
                <5> HIDE DEF i
                <5>1. j \in 1 .. Len(q) + 1
                    OBVIOUS
                <5> QED BY <4>2, <5>1, FromFrom
            <4> QED BY <4>1, <4>2, <4>3
        <3>4. T(r, i)
            <4> HIDE DEF T, r, i
            <4>1. Cut(r, i)
                BY <2>4 DEF r, i
            <4> HIDE DEF Cut
            <4> QED BY <3>1, <3>2, <4>1, <1>1
        <3>5. From(p, j) \in X /\ From(q, k + 1) \in X
            <4>1. j \in 1 .. Len(p) + 1 /\ k + 1 \in 1 .. Len(q) + 1
                BY <2>1
            <4> HIDE DEF p
            <4> QED BY <4>1, <2>1, FromFacts
        <3> QED BY <3>3, <3>4, <3>5, ComponentsType
    <2>5. ASSUME NEW j \in 2 .. k + 1 PROVE Cut(From(q, j), k + 1 - j)
        <3> DEFINE r == From(q, j)
        <3>1. /\ Len(r) = n + 1 - j
              /\ \A i \in 1 .. n + 1 - j : r[i] = q[j + i - 1]
            <4>1. j \in 1 .. Len(q) + 1 /\ Len(q) = n
                OBVIOUS
            <4>2. q \in Seq(STRING)
                OBVIOUS
            <4>3. /\ Len(r) = Len(q) + 1 - j
                  /\ \A i \in 1 .. Len(q) + 1 - j : r[i] = q[j + i - 1]
                BY ONLY <4>1, <4>2, FromFacts
            <4> QED BY <4>1, <4>3
        <3> HIDE DEF r
        <3>2. CASE k = n
            BY <3>1, <3>2 DEF r
        <3>3. CASE q[k] = Slash /\ k + 1 - j # 0
            <4>1. k + 1 - j \in 1 .. n + 1 - j /\ j + (k + 1 - j) - 1 = k
                BY <3>3
            <4> QED BY <4>1, <3>1, <3>3 DEF r
        <3>4. CASE q[k + 1] = Slash /\ k # n
            <4>1. (k + 1 - j) + 1 \in 1 .. n + 1 - j /\ j + ((k + 1 - j) + 1) - 1 = k + 1
                BY <3>4
            <4> QED BY <4>1, <3>1, <3>4 DEF r
        <3>5. k # 0
            OBVIOUS
        <3> QED BY <3>2, <3>3, <3>4, <3>5
    <2>6. CASE k # 0 /\ q[1] = Slash
        <3>1. p # <<>> /\ p[1] = Slash /\ q # <<>> /\ 2 \in 2 .. k + 1
            <4>1. 1 \in 1 .. k
                BY <2>6
            <4> HIDE DEF p
            <4> QED BY <4>1, <2>1, <2>6, EmptySeq
        <3>2. Components(q) = Components(From(q, 2)) /\ Components(p) = Components(From(p, 2))
            BY <3>1, <2>1, <2>6, ComponentsStep
        <3> HIDE DEF p, Cut
        <3> QED BY <3>1, <3>2, <2>4, <2>5 DEF p
    <2>7. CASE k # 0 /\ q[1] # Slash
        <3>1. w \in 0 .. n /\ (w = n \/ q[w + 1] = Slash) /\ \A i \in 1 .. w : q[i] # Slash
            BY ComponentLengthIs
        <3>2. w <= k
            <4> SUFFICES ASSUME w > k PROVE FALSE
                BY <3>1
            <4>1. k \in 1 .. w /\ k + 1 \in 1 .. w /\ k # n
                BY <3>1, <2>7
            <4> HIDE DEF w
            <4> QED BY <4>1, <3>1
        <3>3. q # <<>> /\ p # <<>> /\ p[1] # Slash
            <4>1. 1 \in 1 .. k
                BY <2>7
            <4> HIDE DEF p
            <4> QED BY <4>1, <2>1, <2>7, EmptySeq
        <3>4. ComponentLength(p) = w
            <4>1. w \in 0 .. Len(p) /\ (w = Len(p) \/ p[w + 1] = Slash)
                <5>1. w # k => w + 1 \in 1 .. k /\ w # n
                    BY <3>1, <3>2
                <5> HIDE DEF p, w
                <5> QED BY <5>1, <2>1, <3>1, <3>2
            <4>2. \A i \in 1 .. w : p[i] # Slash
                <5>1. \A i \in 1 .. w : i \in 1 .. k
                    BY <3>1, <3>2
                <5> HIDE DEF p, w
                <5> QED BY <5>1, <2>1, <3>1
            <4> HIDE DEF p, w
            <4> QED BY <2>1, <4>1, <4>2, ComponentLengthOf
        <3>5. w \in 1 .. n /\ Components(q) = <<SubSeq(q, 1, w)>> \o Components(From(q, w + 1))
            BY <3>3, <2>7, ComponentsStep
        <3>6. Components(p) = <<SubSeq(p, 1, w)>> \o Components(From(p, w + 1))
            <4> HIDE DEF p, w
            <4> QED BY <3>3, <3>4, <2>1, ComponentsStep
        <3>7. SubSeq(p, 1, w) = SubSeq(q, 1, w) /\ SubSeq(q, 1, w) \in X
            <4>1. w \in 0 .. k /\ w \in 0 .. Len(q)
                BY <3>1, <3>2
            <4> HIDE DEF w
            <4> QED BY <4>1, StartOfStart, StartFacts
        <3>8. w + 1 \in 2 .. k + 1
            BY <3>5, <3>2
        <3> DEFINE j == w + 1
                   A == Components(From(p, j))
                   B == Components(From(q, k + 1))
                   c == <<SubSeq(q, 1, w)>>
        <3>9. Components(From(q, j)) = A \o B /\ A \in Seq(X) /\ B \in Seq(X)
            <4> HIDE DEF p, Cut, w
            <4> QED BY <3>8, <2>4, <2>5
        <3>10. c \in Seq(X)
            BY <3>7
        <3>11. Components(q) = c \o (A \o B) /\ Components(p) = c \o A
            BY <3>5, <3>6, <3>7, <3>9
        <3>12. (c \o A) \o B = c \o (A \o B)
            <4>1. A \in Seq(X) /\ B \in Seq(X) /\ c \in Seq(X)
                BY <3>9, <3>10
            <4> HIDE DEF A, B, c, X
            <4>2. Associates(c, A, B)
                BY ONLY <4>1, SeqAssociates
            <4> QED BY ONLY <4>2 DEF Associates
        <3> QED BY <3>11, <3>12
    <2> QED BY <2>3, <2>6, <2>7
<1>2. \A n \in Nat : n \in s
    <2> HIDE DEF s
    <2> QED BY <1>1, Upwards
<1>3. Len(path) \in s
    BY <1>2, LenProperties
<1> QED BY <1>3

-----------------------------------------------------------------------------
(* Beginnings *)

Starts(p, q) == Len(p) <= Len(q) /\ \A i \in 1 .. Len(p) : p[i] = q[i]

LEMMA IsPrefixIs ==
    ASSUME NEW S, NEW p \in Seq(S), NEW q \in Seq(S)
    PROVE  IsPrefix(p, q) <=> Starts(p, q)
<1>1. Len(p) \in Nat /\ Len(q) \in Nat
    BY LenProperties
<1>2. SubSeq(p, 1, Len(p)) \in Seq(S) /\ Len(SubSeq(p, 1, Len(p))) = Len(p)
      /\ \A i \in 1 .. Len(p) : SubSeq(p, 1, Len(p))[i] = p[i]
    BY <1>1, StartFacts
<1>3. CASE Len(p) <= Len(q)
    <2>1. Len(p) \in 0 .. Len(q)
        BY <1>1, <1>3
    <2>2. SubSeq(q, 1, Len(p)) \in Seq(S) /\ Len(SubSeq(q, 1, Len(p))) = Len(p)
          /\ \A i \in 1 .. Len(p) : SubSeq(q, 1, Len(p))[i] = q[i]
        BY <2>1, StartFacts
    <2> DEFINE a == SubSeq(p, 1, Len(p))
               b == SubSeq(q, 1, Len(p))
    <2>3. (\A i \in 1 .. Len(a) : a[i] = b[i]) => a = b
        BY <1>2, <2>2, SameSeq
    <2>4. a = b <=> \A i \in 1 .. Len(p) : p[i] = q[i]
        <3> HIDE DEF a, b
        <3>1. ASSUME a = b PROVE \A i \in 1 .. Len(p) : p[i] = q[i]
            BY <3>1, <1>2, <2>2 DEF a, b
        <3>2. ASSUME \A i \in 1 .. Len(p) : p[i] = q[i] PROVE a = b
            <4>1. \A i \in 1 .. Len(a) : a[i] = b[i]
                BY <3>2, <1>2, <2>2 DEF a, b
            <4> QED BY <4>1, <2>3
        <3> QED BY <3>1, <3>2
    <2> QED BY <1>3, <2>4 DEF IsPrefix, Starts
<1>4. CASE ~(Len(p) <= Len(q))
    BY <1>4 DEF IsPrefix, Starts
<1> QED BY <1>3, <1>4

\* A sequence that begins with c.
LEMMA ConsFacts ==
    ASSUME NEW S, NEW c \in S, NEW r \in Seq(S), NEW q, q = <<c>> \o r
    PROVE  /\ q \in Seq(S) /\ Len(q) = Len(r) + 1 /\ q[1] = c
           /\ \A i \in 1 .. Len(r) : q[i + 1] = r[i]
           /\ Len(r) \in Nat
<1> DEFINE o == <<c>>
<1>1. o \in Seq(S) /\ Len(o) = 1 /\ o[1] = c
    OBVIOUS
<1>2. Len(r) \in Nat
    BY LenProperties
<1> HIDE DEF o
<1>3. /\ o \o r \in Seq(S) /\ Len(o \o r) = Len(o) + Len(r)
      /\ \A i \in 1 .. Len(o) + Len(r) :
            (o \o r)[i] = IF i <= Len(o) THEN o[i] ELSE r[i - Len(o)]
    BY <1>1, ConcatProperties
<1>4. q = o \o r
    BY DEF o
<1>5. /\ q \in Seq(S) /\ Len(q) = 1 + Len(r)
      /\ \A i \in 1 .. 1 + Len(r) : q[i] = IF i <= 1 THEN o[i] ELSE r[i - 1]
    BY <1>1, <1>3, <1>4
<1>6. q[1] = c
    <2>1. 1 \in 1 .. 1 + Len(r)
        BY <1>2
    <2> QED BY <2>1, <1>1, <1>5
<1>7. \A i \in 1 .. Len(r) : q[i + 1] = r[i]
    <2>1. \A i \in 1 .. Len(r) : i + 1 \in 1 .. 1 + Len(r) /\ ~(i + 1 <= 1) /\ i + 1 - 1 = i
        BY <1>2
    <2> QED BY <2>1, <1>5
<1> QED BY <1>2, <1>5, <1>6, <1>7

LEMMA ConsStarts ==
    ASSUME NEW S, NEW c \in S, NEW d \in S, NEW a \in Seq(S), NEW b \in Seq(S),
           Starts(<<c>> \o a, <<d>> \o b)
    PROVE  c = d /\ Starts(a, b)
<1> DEFINE p == <<c>> \o a
           q == <<d>> \o b
<1>1. /\ Len(p) = Len(a) + 1 /\ p[1] = c /\ Len(a) \in Nat
      /\ \A i \in 1 .. Len(a) : p[i + 1] = a[i]
    BY ConsFacts
<1>2. /\ Len(q) = Len(b) + 1 /\ q[1] = d /\ Len(b) \in Nat
      /\ \A i \in 1 .. Len(b) : q[i + 1] = b[i]
    BY ConsFacts
<1>3. Len(p) <= Len(q) /\ \A i \in 1 .. Len(p) : p[i] = q[i]
    BY DEF Starts
<1> HIDE DEF p, q
<1>4. 1 \in 1 .. Len(p) /\ Len(a) <= Len(b)
    BY <1>1, <1>2, <1>3
<1>5. c = d
    BY <1>1, <1>2, <1>3, <1>4
<1>6. \A i \in 1 .. Len(a) : a[i] = b[i]
    <2>1. \A i \in 1 .. Len(a) : i + 1 \in 1 .. Len(p) /\ i \in 1 .. Len(b)
        BY <1>1, <1>2, <1>4
    <2> QED BY <2>1, <1>1, <1>2, <1>3
<1> QED BY <1>4, <1>5, <1>6 DEF Starts

Single(s) == \A k \in 1 .. Len(s) - 1 : s[k] = Slash => s[k + 1] # Slash

LEMMA SingleFrom ==
    ASSUME NEW s \in Seq(STRING), Single(s), NEW k \in 1 .. Len(s) + 1
    PROVE  Single(From(s, k))
<1> DEFINE r == From(s, k)
<1>1. Len(s) \in Nat
    BY LenProperties
<1>2. Len(r) = Len(s) + 1 - k /\ \A i \in 1 .. Len(s) + 1 - k : r[i] = s[k + i - 1]
    BY FromFacts
<1> HIDE DEF r
<1>3. ASSUME NEW i \in 1 .. Len(r) - 1, r[i] = Slash PROVE r[i + 1] # Slash
    <2>1. /\ i \in 1 .. Len(s) + 1 - k /\ i + 1 \in 1 .. Len(s) + 1 - k
          /\ k + i - 1 \in 1 .. Len(s) - 1 /\ k + (i + 1) - 1 = (k + i - 1) + 1
        BY <1>1, <1>2
    <2>2. r[i] = s[k + i - 1] /\ r[i + 1] = s[(k + i - 1) + 1]
        BY <1>2, <2>1
    <2> QED BY <1>3, <2>1, <2>2 DEF Single
<1> QED BY <1>3 DEF Single, r

\* What stands behind a slash, split into its first component and the rest.
FirstOf(s) == SubSeq(From(s, 2), 1, ComponentLength(From(s, 2)))
RestOf(s)  == From(s, ComponentLength(From(s, 2)) + 2)

LEMMA Split ==
    ASSUME NEW s \in Seq(STRING), Single(s), s # <<>>, s[1] = Slash, Len(s) # 1
    PROVE  /\ FirstOf(s) \in Seq(STRING) /\ Len(FirstOf(s)) \in 1 .. Len(s) - 1
           /\ \A i \in 1 .. Len(FirstOf(s)) : FirstOf(s)[i] = s[i + 1]
           /\ RestOf(s) \in Seq(STRING) /\ Single(RestOf(s))
           /\ Len(RestOf(s)) = Len(s) - 1 - Len(FirstOf(s))
           /\ \A i \in 1 .. Len(RestOf(s)) : RestOf(s)[i] = s[Len(FirstOf(s)) + 1 + i]
           /\ RestOf(s) = <<>> \/ RestOf(s)[1] = Slash
           /\ Components(s) = <<FirstOf(s)>> \o Components(RestOf(s))
           /\ Components(RestOf(s)) \in Seq(Seq(STRING))
<1> DEFINE N == Len(s)
           t == From(s, 2)
           w == ComponentLength(t)
           c == SubSeq(t, 1, w)
           r == From(s, w + 2)
<1>1. N \in Nat /\ N >= 2
    <2>1. N \in Nat \ {0} /\ N # 1
        BY EmptySeq
    <2> HIDE DEF N
    <2> QED BY <2>1
<1>2. t \in Seq(STRING) /\ Len(t) = N - 1 /\ \A i \in 1 .. N - 1 : t[i] = s[i + 1]
    <2>1. 2 \in 1 .. Len(s) + 1
        BY <1>1
    <2>2. /\ t \in Seq(STRING) /\ Len(t) = Len(s) + 1 - 2
          /\ \A i \in 1 .. Len(s) + 1 - 2 : t[i] = s[2 + i - 1]
        BY <2>1, FromFacts
    <2>3. N + 1 - 2 = N - 1 /\ \A i \in 1 .. N - 1 : 2 + i - 1 = i + 1
        BY <1>1
    <2> QED BY <2>2, <2>3
<1>3. t # <<>> /\ t[1] # Slash
    <2>1. Len(t) # 0 /\ 1 \in 1 .. N - 1
        BY <1>1, <1>2
    <2>2. t # <<>>
        BY <2>1, EmptySeq
    <2>3. s[1 + 1] # Slash
        BY <2>1 DEF Single
    <2> QED BY <1>2, <2>1, <2>2, <2>3
<1>4. /\ w \in 1 .. Len(t) /\ Components(t) = <<c>> \o Components(From(t, w + 1))
    BY <1>2, <1>3, ComponentsStep
<1>5. (w = Len(t) \/ t[w + 1] = Slash)
    BY <1>2, ComponentLengthIs
<1>6. c \in Seq(STRING) /\ Len(c) = w /\ \A i \in 1 .. w : c[i] = t[i]
    <2>1. w \in 0 .. Len(t)
        BY <1>4
    <2> QED BY <2>1, <1>2, StartFacts
<1>7. From(t, w + 1) = r
    <2>1. 2 \in 1 .. Len(s) + 1 /\ w + 1 \in 1 .. Len(s) + 2 - 2 /\ 2 + (w + 1) - 1 = w + 2
        BY <1>1, <1>2, <1>4
    <2>2. From(From(s, 2), w + 1) = From(s, 2 + (w + 1) - 1)
        BY <2>1, FromFrom
    <2> QED BY <2>1, <2>2
<1>8. Components(s) = Components(t)
    BY ComponentsStep
<1>9. /\ r \in Seq(STRING) /\ Len(r) = N - 1 - w
      /\ \A i \in 1 .. N - 1 - w : r[i] = s[w + 1 + i]
      /\ Single(r)
    <2>1. w + 2 \in 1 .. Len(s) + 1 /\ w \in Nat
        BY <1>1, <1>2, <1>4
    <2> HIDE DEF w
    <2>2. /\ r \in Seq(STRING) /\ Len(r) = Len(s) + 1 - (w + 2)
          /\ \A i \in 1 .. Len(s) + 1 - (w + 2) : r[i] = s[(w + 2) + i - 1]
        BY <2>1, FromFacts
    <2>3. Single(r)
        BY <2>1, SingleFrom
    <2> HIDE DEF r
    <2>4. N + 1 - (w + 2) = N - 1 - w /\ \A i \in 1 .. N - 1 - w : (w + 2) + i - 1 = w + 1 + i
        BY <1>1, <2>1
    <2> QED BY <2>2, <2>3, <2>4
<1> HIDE DEF t, c, w, r
<1>10. r = <<>> \/ r[1] = Slash
    <2>1. CASE w = Len(t)
        BY <2>1, <1>1, <1>2, <1>9, EmptySeq
    <2>2. CASE w # Len(t)
        <3>1. 1 \in 1 .. N - 1 - w /\ w + 1 \in 1 .. N - 1 /\ (w + 1) + 1 = w + 1 + 1
            BY <2>2, <1>1, <1>2, <1>4
        <3>2. r[1] = s[w + 1 + 1] /\ t[w + 1] = s[(w + 1) + 1]
            BY <3>1, <1>2, <1>9
        <3> QED BY <3>1, <3>2, <2>2, <1>5
    <2> QED BY <2>1, <2>2
<1>11. \A i \in 1 .. w : c[i] = s[i + 1]
    <2>1. \A i \in 1 .. w : i \in 1 .. N - 1
        BY <1>1, <1>2, <1>4
    <2> QED BY <2>1, <1>2, <1>6
<1>12. Components(r) \in Seq(Seq(STRING))
    BY <1>9, ComponentsType
<1>13. Components(s) = <<c>> \o Components(r)
    BY <1>4, <1>7, <1>8
<1>14. w \in 1 .. N - 1
    BY <1>2, <1>4
<1>15. FirstOf(s) = c /\ RestOf(s) = r
    BY DEF FirstOf, RestOf, c, r, w, t
<1> QED BY <1>6, <1>9, <1>10, <1>11, <1>12, <1>13, <1>14, <1>15

Normal(s) == s \in Seq(STRING) /\ Single(s) /\ (s = <<>> \/ s[1] = Slash)

\* If the components of a path begin with those of another, which does not end
\* in a slash, so do their characters, and there is a slash or nothing next.
LEMMA ComponentsPrefix ==
    ASSUME NEW point, Normal(point), point = <<>> \/ point[Len(point)] # Slash,
           NEW path, Normal(path), Starts(Components(point), Components(path))
    PROVE  Starts(point, path) /\ (Len(path) = Len(point) \/ path[Len(point) + 1] = Slash)
<1> DEFINE H(p, q) == /\ Normal(p) /\ (p = <<>> \/ p[Len(p)] # Slash)
                      /\ Normal(q) /\ Starts(Components(p), Components(q))
           T(p, q) == Starts(p, q) /\ (Len(q) = Len(p) \/ q[Len(p) + 1] = Slash)
           s == {n \in Nat : \A p, q \in Seq(STRING) : Len(p) = n /\ H(p, q) => T(p, q)}
           X == Seq(STRING)
<1>1. ASSUME NEW n \in Nat, \A m \in 0 .. n - 1 : m \in s PROVE n \in s
    <2> SUFFICES ASSUME NEW p \in X, NEW q \in X, Len(p) = n, H(p, q) PROVE T(p, q)
        OBVIOUS
    <2>1. Len(p) \in Nat /\ Len(q) \in Nat
        BY LenProperties
    <2>2. CASE p = <<>>
        <3>1. Len(p) = 0
            BY <2>2
        <3>2. q = <<>> => Len(q) = 0
            OBVIOUS
        <3> QED BY <2>1, <3>1, <3>2 DEF Starts, Normal
    <2>3. CASE p # <<>>
        <3>1. p[1] = Slash /\ Single(p) /\ Len(p) # 1
            BY <2>3 DEF Normal
        <3> DEFINE c == FirstOf(p)
                   w == Len(c)
                   r == RestOf(p)
                   A == Components(r)
        <3>2. /\ c \in X /\ w \in 1 .. Len(p) - 1 /\ Len(c) = w
              /\ \A i \in 1 .. w : c[i] = p[i + 1]
              /\ r \in X /\ Single(r) /\ Len(r) = Len(p) - 1 - w
              /\ \A i \in 1 .. Len(r) : r[i] = p[w + 1 + i]
              /\ r = <<>> \/ r[1] = Slash
              /\ Components(p) = <<c>> \o A /\ A \in Seq(X)
            BY <2>3, <3>1, Split
        <3> HIDE DEF w, c, r
        <3>3. Len(Components(p)) \in Nat /\ Len(Components(p)) >= 1
            <4> HIDE DEF A
            <4> QED BY <3>2, ConsFacts
        <3>4. Len(Components(p)) <= Len(Components(q))
            BY DEF Starts
        <3>5. q # <<>> /\ Len(q) # 1 /\ q[1] = Slash /\ Single(q)
            <4>1. Len(Components(q)) # 0
                <5>1. Len(Components(q)) \in Nat
                    BY ComponentsType, LenProperties
                <5> QED BY <5>1, <3>3, <3>4
            <4>2. Components(q) # <<>>
                BY <4>1, EmptySeq
            <4>3. q # <<>>
                BY <4>2, ComponentsStep
            <4>4. q[1] = Slash /\ Single(q)
                BY <4>3 DEF Normal
            <4>5. Len(q) # 1
                <5> SUFFICES ASSUME Len(q) = 1 PROVE FALSE
                    OBVIOUS
                <5>1. From(q, 2) \in Seq(STRING) /\ Len(From(q, 2)) = Len(q) + 1 - 2
                    <6>1. 2 \in 1 .. Len(q) + 1
                        OBVIOUS
                    <6> QED BY <6>1, FromFacts
                <5>2. From(q, 2) = <<>>
                    BY <5>1, EmptySeq
                <5>3. Components(q) = Components(From(q, 2))
                    BY <4>3, <4>4, ComponentsStep
                <5>4. Components(<<>>) = <<>>
                    BY <5>1, <5>2, ComponentsStep
                <5> QED BY <5>2, <5>3, <5>4, <4>2
            <4> QED BY <4>3, <4>4, <4>5
        <3> DEFINE d == FirstOf(q)
                   v == Len(d)
                   u == RestOf(q)
                   B == Components(u)
        <3>6. /\ d \in X /\ v \in 1 .. Len(q) - 1 /\ Len(d) = v
              /\ \A i \in 1 .. v : d[i] = q[i + 1]
              /\ u \in X /\ Single(u) /\ Len(u) = Len(q) - 1 - v
              /\ \A i \in 1 .. Len(u) : u[i] = q[v + 1 + i]
              /\ u = <<>> \/ u[1] = Slash
              /\ Components(q) = <<d>> \o B /\ B \in Seq(X)
            BY <3>5, Split
        <3> HIDE DEF v, d, u
        <3>7. c = d /\ Starts(A, B)
            <4>1. Starts(<<c>> \o A, <<d>> \o B)
                BY <3>2, <3>6
            <4>2. c \in X /\ d \in X /\ A \in Seq(X) /\ B \in Seq(X)
                BY <3>2, <3>6
            <4> HIDE DEF A, B, X
            <4> QED BY ONLY <4>1, <4>2, ConsStarts
        <3>8. w = v
            BY <3>2, <3>6, <3>7
        <3>9. H(r, u)
            <4>1. r = <<>> \/ r[Len(r)] # Slash
                <5> SUFFICES ASSUME r # <<>> PROVE r[Len(r)] # Slash
                    OBVIOUS
                <5>1. Len(r) \in Nat \ {0}
                    BY <3>2, EmptySeq
                <5>2. Len(r) \in 1 .. Len(r) /\ w + 1 + Len(r) = Len(p)
                    BY <5>1, <3>2, <2>1
                <5>3. r[Len(r)] = p[Len(p)]
                    BY <5>2, <3>2
                <5> QED BY <5>3, <2>3
            <4> QED BY <4>1, <3>2, <3>6, <3>7 DEF Normal
        <3>10. T(r, u)
            <4>1. Len(r) \in 0 .. n - 1
                BY <3>2, <2>1, LenProperties
            <4> HIDE DEF H, T
            <4> QED BY <4>1, <3>2, <3>6, <3>9, <1>1
        <3>11. Len(r) <= Len(u) /\ (\A i \in 1 .. Len(r) : r[i] = u[i])
               /\ (Len(u) = Len(r) \/ u[Len(r) + 1] = Slash)
            BY <3>10 DEF Starts
        <3>12. Len(r) \in Nat /\ Len(u) \in Nat
            BY <3>2, <3>6, LenProperties
        <3>13. Len(p) <= Len(q)
            BY <3>2, <3>6, <3>8, <3>11, <3>12, <2>1
        <3>14. ASSUME NEW i \in 1 .. Len(p) PROVE p[i] = q[i]
            <4>1. CASE i = 1
                BY <4>1, <3>1, <3>5
            <4>2. CASE i \in 2 .. w + 1
                <5>1. i - 1 \in 1 .. w /\ (i - 1) + 1 = i
                    BY <4>2, <3>2
                <5> QED BY <5>1, <3>2, <3>6, <3>7, <3>8, ZenonT(60)
            <4>3. CASE i > w + 1
                <5>1. i - (w + 1) \in 1 .. Len(r) /\ w + 1 + (i - (w + 1)) = i
                      /\ i - (w + 1) \in 1 .. Len(u)
                    BY <4>3, <3>2, <3>6, <3>8, <3>11, <3>12, <2>1
                <5> QED BY <5>1, <3>2, <3>6, <3>8, <3>11, ZenonT(60)
            <4> QED BY <4>1, <4>2, <4>3, <3>2, <2>1
        <3>15. Len(q) = Len(p) \/ q[Len(p) + 1] = Slash
            <4>1. CASE Len(u) = Len(r)
                BY <4>1, <3>2, <3>6, <3>8, <2>1
            <4>2. CASE Len(u) # Len(r)
                <5> DEFINE lr == Len(r)
                           lu == Len(u)
                           lp == Len(p)
                <5>0. lr <= lu /\ lr # lu /\ lr \in Nat /\ lu \in Nat /\ lp \in Nat
                      /\ v \in Nat /\ lr = lp - 1 - v
                    BY <4>2, <3>2, <3>8, <3>11, <3>12, <2>1
                <5> HIDE DEF lr, lu, lp
                <5>3. lr + 1 \in 1 .. lu /\ v + 1 + (lr + 1) = lp + 1
                    BY <5>0
                <5>1. Len(r) + 1 \in 1 .. Len(u) /\ v + 1 + (Len(r) + 1) = Len(p) + 1
                    BY <5>3 DEF lr, lu, lp
                <5>2. u[Len(r) + 1] = q[v + 1 + (Len(r) + 1)]
                    BY <5>1, <3>6
                <5> QED BY <4>2, <5>1, <5>2, <3>11
            <4> QED BY <4>1, <4>2
        <3> QED BY <3>13, <3>14, <3>15 DEF Starts
    <2> QED BY <2>2, <2>3
<1>2. \A n \in Nat : n \in s
    <2> HIDE DEF s
    <2> QED BY <1>1, Upwards
<1>3. point \in X /\ path \in X
    BY DEF Normal
<1>4. Len(point) \in s
    BY <1>2, <1>3, LenProperties
<1> QED BY <1>3, <1>4

-----------------------------------------------------------------------------
(* What components name *)

\* What the name c leads to from entry d.
Under(v, c, d) ==
    IF d = NULL \/ ~d.isDir \/ Hits(v.entries[d.cluster], c) = {} THEN NULL
    ELSE First(v.entries[d.cluster], c)

Names(v, cs, e, N, g) == [i \in 0 .. N |-> IF i = 0 THEN e ELSE Under(v, cs[i], g[i - 1])]

LEMMA NamesExist ==
    ASSUME NEW v, NEW cs, NEW e, NEW N \in Nat
    PROVE  \E g : g = Names(v, cs, e, N, g)
<1> DEFINE Is(m, g) == g = Names(v, cs, e, m, g)
           s == {m \in Nat : \E g : Is(m, g)}
<1>1. 0 \in s
    <2>1. Is(0, [k \in 0 .. 0 |-> e])
        BY DEF Names
    <2> HIDE DEF Is
    <2> QED BY <2>1
<1>2. ASSUME NEW m \in 0 .. N - 1, m \in s PROVE m + 1 \in s
    <2>1. PICK g : Is(m, g)
        <3> HIDE DEF Is
        <3> QED BY <1>2
    <2> DEFINE last == Under(v, cs[m + 1], g[m])
               h == [k \in 0 .. m + 1 |-> IF k = m + 1 THEN last ELSE g[k]]
    <2>2. \A k \in 0 .. m : h[k] = g[k]
        OBVIOUS
    <2>3. \A k \in 0 .. m : g[k] = IF k = 0 THEN e ELSE Under(v, cs[k], g[k - 1])
        BY <2>1 DEF Names
    <2>4. h[m + 1] = last /\ h = [k \in 0 .. m + 1 |-> h[k]]
        OBVIOUS
    <2> HIDE DEF h
    <2>5. \A k \in 0 .. m + 1 : h[k] = IF k = 0 THEN e ELSE Under(v, cs[k], h[k - 1])
        <3> TAKE k \in 0 .. m + 1
        <3>1. CASE k = m + 1
            <4>1. k # 0 /\ k - 1 = m /\ m \in 0 .. m
                BY <3>1
            <4> QED BY <3>1, <4>1, <2>2, <2>4
        <3>2. CASE k # m + 1
            <4>1. k \in 0 .. m /\ (k # 0 => k - 1 \in 0 .. m)
                BY <3>2
            <4> QED BY <4>1, <2>2, <2>3
        <3> QED BY <3>1, <3>2
    <2>6. Is(m + 1, h)
        BY <2>4, <2>5 DEF Names
    <2> HIDE DEF Is
    <2> QED BY <2>6
<1>3. N \in s
    <2> HIDE DEF s
    <2> QED BY <1>1, <1>2, UpTo
<1> QED BY <1>3

NamesOf(v, cs, e) == CHOOSE g : g = Names(v, cs, e, Len(cs), g)

LEMMA NamesIs ==
    ASSUME NEW v, NEW S, NEW cs \in Seq(S), NEW e
    PROVE  /\ Named(v, cs, e) = NamesOf(v, cs, e)[Len(cs)]
           /\ NamesOf(v, cs, e)[0] = e
           /\ \A i \in 1 .. Len(cs) :
                NamesOf(v, cs, e)[i] = Under(v, cs[i], NamesOf(v, cs, e)[i - 1])
<1> DEFINE g == NamesOf(v, cs, e)
           N == Len(cs)
<1>1. N \in Nat
    BY LenProperties
<1>2. g = Names(v, cs, e, N, g)
    BY <1>1, NamesExist DEF NamesOf
<1>3. Named(v, cs, e) = g[N]
    BY DEF Named, NamesOf, Names, Under
<1> HIDE DEF g
<1>4. \A i \in 0 .. N : g[i] = IF i = 0 THEN e ELSE Under(v, cs[i], g[i - 1])
    BY <1>2 DEF Names
<1>5. 0 \in 0 .. N /\ \A i \in 1 .. N : i \in 0 .. N /\ i # 0
    BY <1>1
<1> QED BY <1>3, <1>4, <1>5 DEF g

\* The first component, then the others.
LEMMA NamedStep ==
    ASSUME NEW v, NEW S, NEW c \in S, NEW r \in Seq(S), NEW e
    PROVE  Named(v, <<c>> \o r, e) = Named(v, r, Under(v, c, e))
<1> DEFINE q == <<c>> \o r
           x == Under(v, c, e)
           g == NamesOf(v, q, e)
           h == NamesOf(v, r, x)
           n == Len(r)
<1>1. q \in Seq(S) /\ Len(q) = n + 1 /\ q[1] = c /\ n \in Nat
      /\ \A i \in 1 .. n : q[i + 1] = r[i]
    BY ConsFacts
<1> HIDE DEF q
<1>2. /\ Named(v, q, e) = g[n + 1] /\ g[0] = e
      /\ \A i \in 1 .. n + 1 : g[i] = Under(v, q[i], g[i - 1])
    <2>1. q \in Seq(S)
        BY <1>1
    <2>2. /\ Named(v, q, e) = g[Len(q)] /\ g[0] = e
          /\ \A i \in 1 .. Len(q) : g[i] = Under(v, q[i], g[i - 1])
        BY <2>1, NamesIs
    <2> HIDE DEF g, n
    <2> QED BY <2>2, <1>1
<1>3. /\ Named(v, r, x) = h[n] /\ h[0] = x
      /\ \A i \in 1 .. n : h[i] = Under(v, r[i], h[i - 1])
    BY NamesIs
<1> HIDE DEF g, h, n
<1> DEFINE s == {i \in 0 .. n : h[i] = g[i + 1]}
<1>4. 0 \in s
    <2>1. 1 \in 1 .. n + 1 /\ 1 - 1 = 0 /\ 0 + 1 = 1 /\ 0 \in 0 .. n
        BY <1>1
    <2>2. g[1] = Under(v, q[1], g[0])
        BY <1>2, <2>1
    <2> QED BY <2>1, <2>2, <1>1, <1>2, <1>3
<1>5. ASSUME NEW i \in 0 .. n - 1, i \in s PROVE i + 1 \in s
    <2>1. /\ i + 1 \in 1 .. n /\ (i + 1) - 1 = i /\ (i + 1) + 1 \in 1 .. n + 1
          /\ ((i + 1) + 1) - 1 = i + 1 /\ i + 1 \in 0 .. n
        BY <1>1
    <2>2. h[i + 1] = Under(v, r[i + 1], h[i])
        BY <1>3, <2>1
    <2>3. g[(i + 1) + 1] = Under(v, q[(i + 1) + 1], g[i + 1])
        BY <1>2, <2>1
    <2>4. q[(i + 1) + 1] = r[i + 1]
        BY <1>1, <2>1
    <2>5. h[i] = g[i + 1]
        BY <1>5
    <2> QED BY <2>1, <2>2, <2>3, <2>4, <2>5
<1>6. \A i \in 0 .. n : i \in s
    <2> HIDE DEF s
    <2> QED BY <1>1, <1>4, <1>5, UpTo
<1>7. n \in s
    BY <1>1, <1>6
<1> QED BY <1>2, <1>3, <1>7 DEF q

LEMMA NamedEmpty ==
    ASSUME NEW v, NEW e
    PROVE  Named(v, <<>>, e) = e
<1> DEFINE cs == <<>>
           g  == NamesOf(v, cs, e)
<1>1. cs \in Seq(STRING) /\ Len(cs) = 0
    BY EmptySeq
<1>0. \A c \in Seq(STRING) : Named(v, c, e) = NamesOf(v, c, e)[Len(c)] /\ NamesOf(v, c, e)[0] = e
    BY NamesIs
<1> HIDE DEF cs
<1>2. Named(v, cs, e) = g[Len(cs)] /\ g[0] = e
    BY <1>0, <1>1
<1> HIDE DEF g
<1>3. Named(v, cs, e) = e
    BY <1>1, <1>2
<1> QED BY <1>3 DEF cs

\* From nothing nothing is reached.
LEMMA NamedNothing ==
    ASSUME NEW v, NEW S, NEW cs \in Seq(S)
    PROVE  Named(v, cs, NULL) = NULL
<1> DEFINE g == NamesOf(v, cs, NULL)
           n == Len(cs)
           s == {i \in 0 .. n : g[i] = NULL}
<1>1. n \in Nat
    BY LenProperties
<1>2. /\ Named(v, cs, NULL) = g[n] /\ g[0] = NULL
      /\ \A i \in 1 .. n : g[i] = Under(v, cs[i], g[i - 1])
    BY NamesIs
<1> HIDE DEF g
<1>3. 0 \in s
    BY <1>1, <1>2
<1>4. ASSUME NEW i \in 0 .. n - 1, i \in s PROVE i + 1 \in s
    <2>1. i + 1 \in 1 .. n /\ (i + 1) - 1 = i /\ i + 1 \in 0 .. n
        BY <1>1
    <2>2. g[i + 1] = Under(v, cs[i + 1], g[i])
        BY <1>2, <2>1
    <2> QED BY <2>1, <2>2, <1>4 DEF Under
<1>5. \A i \in 0 .. n : i \in s
    <2> HIDE DEF s, n
    <2> QED BY <1>1, <1>3, <1>4, UpTo
<1>6. n \in s
    BY <1>1, <1>5
<1> QED BY <1>2, <1>6

LEMMA EntryNotNull ==
    ASSUME NEW e \in FileEntry
    PROVE  e # NULL
<1>1. DOMAIN e = {"name", "isDir", "cluster", "size"}
    BY DEF FileEntry
<1>2. DOMAIN NULL = {"null"}
    BY DEF NULL
<1> QED BY <1>1, <1>2

\* Only whether a directory and where: what is reached from it is the same.
LEMMA NamedSame ==
    ASSUME NEW v, NEW e \in FileEntry, NEW f \in FileEntry,
           e.isDir = f.isDir, e.cluster = f.cluster,
           NEW s \in Seq(STRING)
    PROVE  \/ /\ Named(v, Components(s), e) = e /\ Named(v, Components(s), f) = f
           \/ Named(v, Components(s), e) = Named(v, Components(s), f)
<1> DEFINE ok == {n \in Nat : \A t \in Seq(STRING) : Len(t) = n =>
                    LET cs == Components(t) IN
                    \/ Named(v, cs, e) = e /\ Named(v, cs, f) = f
                    \/ Named(v, cs, e) = Named(v, cs, f)}
<1>1. ASSUME NEW n \in Nat, \A m \in 0 .. n - 1 : m \in ok PROVE n \in ok
    <2> SUFFICES ASSUME NEW t \in Seq(STRING), Len(t) = n
                 PROVE  \/ /\ Named(v, Components(t), e) = e
                           /\ Named(v, Components(t), f) = f
                        \/ Named(v, Components(t), e) = Named(v, Components(t), f)
        OBVIOUS
    <2>1. CASE t = <<>>
        <3>1. Components(t) = <<>>
            BY <2>1, ComponentsStep
        <3> QED BY <3>1, NamedEmpty
    <2>2. CASE t # <<>> /\ t[1] = Slash
        <3>1. 2 \in 1 .. Len(t) + 1 /\ Len(t) \in Nat \ {0}
            <4>1. Len(t) \in Nat \ {0}
                BY <2>2, EmptySeq
            <4> QED BY <4>1
        <3>2. From(t, 2) \in Seq(STRING) /\ Len(From(t, 2)) = Len(t) + 1 - 2
            BY <3>1, FromFacts
        <3>3. Len(From(t, 2)) \in 0 .. n - 1
            BY <3>1, <3>2
        <3>4. Components(t) = Components(From(t, 2))
            BY <2>2, ComponentsStep
        <3> QED BY <3>2, <3>3, <3>4, <1>1
    <2>3. CASE t # <<>> /\ t[1] # Slash
        <3> DEFINE w == ComponentLength(t)
                   c == SubSeq(t, 1, w)
                   r == From(t, w + 1)
                   cs == Components(r)
                   X == Seq(STRING)
        <3>1. w \in 1 .. Len(t) /\ Components(t) = <<c>> \o cs
            BY <2>3, ComponentsStep
        <3> HIDE DEF w
        <3>2. c \in X /\ r \in X
            <4>1. w \in 0 .. Len(t) /\ w + 1 \in 1 .. Len(t) + 1
                BY <3>1
            <4> QED BY <4>1, StartFacts, FromFacts
        <3> HIDE DEF c, r
        <3>3. cs \in Seq(X)
            BY <3>2, ComponentsType
        <3> HIDE DEF cs, X
        <3>4. /\ Named(v, <<c>> \o cs, e) = Named(v, cs, Under(v, c, e))
              /\ Named(v, <<c>> \o cs, f) = Named(v, cs, Under(v, c, f))
            BY <3>2, <3>3, NamedStep
        <3>5. Under(v, c, e) = Under(v, c, f)
            BY EntryNotNull DEF Under
        <3> QED BY <3>1, <3>4, <3>5
    <2> QED BY <2>1, <2>2, <2>3
<1>2. \A n \in Nat : n \in ok
    <2> HIDE DEF ok
    <2> QED BY <1>1, Upwards
<1>3. Len(s) \in ok
    BY <1>2, LenProperties
<1> QED BY <1>3

\* What findFAT32Entry finds is what the components name; but a file is not
\* found when there is a slash before or behind the path.
LEMMA FindNamed ==
    ASSUME NEW v, IsVolume(v), NEW path \in Seq(STRING), Single(path), NEW dir \in Clusters,
           NEW w, w = Named(v, Components(path), Entry(<<>>, TRUE, dir, 0))
    PROVE  \/ Same(Find(v, path, dir), w)
           \/ /\ Find(v, path, dir) = NULL /\ w # NULL /\ ~w.isDir
              /\ path # <<>> /\ (path[1] = Slash \/ path[Len(path)] = Slash)
<1> DEFINE X == Seq(STRING)
           E(d) == Entry(<<>>, TRUE, d, 0)
           W(p, d) == Named(v, Components(p), E(d))
           T(p, d) == \/ Same(Find(v, p, d), W(p, d))
                      \/ /\ Find(v, p, d) = NULL /\ W(p, d) # NULL /\ ~W(p, d).isDir
                         /\ p # <<>> /\ (p[1] = Slash \/ p[Len(p)] = Slash)
           s == {n \in Nat : \A p \in X, d \in Clusters : Len(p) = n /\ Single(p) => T(p, d)}
<1>0. \A d \in Clusters : E(d) \in FileEntry /\ E(d).isDir /\ E(d).cluster = d
    <2>1. <<>> \in Seq(STRING) /\ 0 \in Sizes
        BY NumberAssumption, EmptySeq
    <2> QED BY <2>1 DEF Entry, FileEntry
<1>1. ASSUME NEW n \in Nat, \A m \in 0 .. n - 1 : m \in s PROVE n \in s
    <2> SUFFICES ASSUME NEW p \in X, NEW d \in Clusters, Len(p) = n, Single(p) PROVE T(p, d)
        OBVIOUS
    <2> DEFINE t == NameOf(p)
               c == Here(p)
               k == Width(p)
               e == First(v.entries[d], c)
               r == From(t, k + 1)
               cs == Components(r)
    <2>1. t \in X /\ k \in 0 .. Len(p) /\ c \in X
        BY NameOfFacts
    <2>2. CASE t = <<>>
        <3>1. Find(v, p, d) = E(d)
            BY <2>2, FindStep
        <3>2. Components(p) = <<>>
            <4>1. CASE p = <<>>
                BY <4>1, ComponentsStep
            <4>2. CASE p # <<>>
                <5>1. p[1] = Slash
                    BY <4>2, <2>2 DEF NameOf
                <5>2. Components(p) = Components(From(p, 2))
                    BY <4>2, <5>1, ComponentsStep
                <5>3. From(p, 2) = Tail(p)
                    BY <4>2, TailIsSubSeq DEF From
                <5>4. Tail(p) = <<>>
                    BY <4>2, <5>1, <2>2 DEF NameOf
                <5>5. Components(<<>>) = <<>>
                    BY EmptySeq, ComponentsStep
                <5> QED BY <5>2, <5>3, <5>4, <5>5
            <4> QED BY <4>1, <4>2
        <3>3. W(p, d) = E(d)
            BY <3>2, NamedEmpty
        <3> HIDE DEF W, E
        <3> QED BY <3>1, <3>3 DEF Same
    <2>3. CASE t # <<>>
        <3>1. t[1] # Slash /\ Components(p) = Components(t)
              /\ (p[1] = Slash => t = From(p, 2)) /\ (p[1] # Slash => t = p)
              /\ p # <<>> /\ Len(p) \in Nat \ {0}
            <4>1. p # <<>>
                BY <2>3 DEF NameOf
            <4>2. Len(p) \in Nat \ {0}
                BY <4>1, EmptySeq
            <4>3. CASE p[1] = Slash
                <5>1. t = Tail(p) /\ Tail(p) = From(p, 2)
                    BY <4>1, <4>3, TailIsSubSeq DEF NameOf, From
                <5>2. Len(Tail(p)) = Len(p) - 1 /\ \A i \in 1 .. Len(Tail(p)) : Tail(p)[i] = p[i + 1]
                    BY <4>1, HeadTailProperties
                <5>3. Len(t) \in Nat \ {0}
                    BY <2>1, <2>3, EmptySeq
                <5>4. 1 \in 1 .. Len(p) - 1 /\ t[1] = p[1 + 1]
                    <6>1. 1 \in 1 .. Len(Tail(p))
                        BY <5>1, <5>3
                    <6>2. Tail(p)[1] = p[1 + 1]
                        BY <5>2, <6>1
                    <6> QED BY <5>1, <5>2, <6>1, <6>2
                <5>5. t[1] # Slash
                    BY <5>4, <4>3 DEF Single
                <5>6. Components(p) = Components(t)
                    BY <4>1, <4>3, <5>1, ComponentsStep
                <5> QED BY <4>1, <4>2, <4>3, <5>1, <5>5, <5>6
            <4>4. CASE p[1] # Slash
                BY <4>1, <4>2, <4>4 DEF NameOf
            <4> QED BY <4>3, <4>4
        <3>2. k \in 1 .. Len(t) /\ Components(t) = <<c>> \o cs
              /\ (k = Len(t) \/ t[k + 1] = Slash)
            <4>1. k = ComponentLength(t) /\ c = SubSeq(t, 1, k)
                BY DEF Width, Here
            <4>2. k = Len(t) \/ t[k + 1] = Slash
                BY <4>1, <2>1, ComponentLengthIs
            <4> QED BY <4>1, <4>2, <2>1, <2>3, <3>1, ComponentsStep
        <3> HIDE DEF t, k, c
        <3>3. Single(t) /\ Len(t) \in Nat
            <4>1. Len(t) \in Nat
                BY <2>1, LenProperties
            <4>2. 2 \in 1 .. Len(p) + 1
                BY <3>1
            <4> QED BY <4>1, <4>2, <3>1, SingleFrom
        <3>4. k + 1 \in 1 .. Len(t) + 1 /\ k \in Nat
            BY <3>2, <3>3
        <3>5. /\ r \in X /\ Single(r) /\ Len(r) = Len(t) - k
              /\ \A i \in 1 .. Len(t) - k : r[i] = t[k + i]
            <4>1. /\ r \in X /\ Len(r) = Len(t) + 1 - (k + 1)
                  /\ \A i \in 1 .. Len(t) + 1 - (k + 1) : r[i] = t[(k + 1) + i - 1]
                BY <2>1, <3>4, FromFacts
            <4>2. Single(r)
                BY <2>1, <3>3, <3>4, SingleFrom
            <4> HIDE DEF r
            <4>3. Len(t) + 1 - (k + 1) = Len(t) - k
                  /\ \A i \in 1 .. Len(t) - k : (k + 1) + i - 1 = k + i
                BY <3>3, <3>4
            <4> QED BY <4>1, <4>2, <4>3
        <3>6. cs \in Seq(X)
            BY <3>5, ComponentsType
        <3> HIDE DEF r
        <3>7. W(p, d) = Named(v, cs, Under(v, c, E(d)))
            <4>1. W(p, d) = Named(v, <<c>> \o cs, E(d))
                BY <3>1, <3>2
            <4>2. c \in X
                BY <2>1
            <4> HIDE DEF cs, X, E, W
            <4> QED BY <4>1, <4>2, <3>6, NamedStep
        <3>8. Under(v, c, E(d)) = IF Hits(v.entries[d], c) = {} THEN NULL ELSE e
            BY <1>0, EntryNotNull DEF Under
        <3>9. /\ Hits(v.entries[d], c) = {} => Find(v, p, d) = NULL
              /\ Hits(v.entries[d], c) # {} =>
                   /\ e \in FileEntry
                   /\ k = Len(p) => Find(v, p, d) = e
                   /\ k # Len(p) /\ ~e.isDir => Find(v, p, d) = NULL
                   /\ k # Len(p) /\ e.isDir =>
                        /\ k + 2 \in 1 .. Len(p) + 1
                        /\ Find(v, p, d) = Find(v, From(p, k + 2), e.cluster)
            BY <2>3, FindStep DEF t, k, c
        <3>10. Len(t) = IF p[1] = Slash THEN Len(p) - 1 ELSE Len(p)
            <4>1. 2 \in 1 .. Len(p) + 1
                BY <3>1
            <4>2. Len(From(p, 2)) = Len(p) + 1 - 2
                BY <4>1, FromFacts
            <4> QED BY <3>1, <4>2
        <3> HIDE DEF W, e, E
        <3>11. CASE Hits(v.entries[d], c) = {}
            <4>1. W(p, d) = NULL
                BY <3>6, <3>7, <3>8, <3>11, NamedNothing
            <4> QED BY <4>1, <3>9, <3>11 DEF Same
        <3>12. CASE Hits(v.entries[d], c) # {} /\ k = Len(p)
            <4>1. Len(r) = 0
                BY <3>1, <3>2, <3>3, <3>5, <3>10, <3>12
            <4>2. r = <<>>
                BY <4>1, <3>5, EmptySeq
            <4>3. cs = <<>>
                BY <4>2, <3>5, ComponentsStep
            <4>4. W(p, d) = e
                BY <4>3, <3>7, <3>8, <3>12, NamedEmpty
            <4> QED BY <4>4, <3>9, <3>12 DEF Same
        <3>13. CASE Hits(v.entries[d], c) # {} /\ k # Len(p) /\ ~e.isDir
            <4>1. Find(v, p, d) = NULL /\ e \in FileEntry /\ e # NULL
                BY <3>9, <3>13, EntryNotNull
            <4>2. W(p, d) = Named(v, cs, e)
                BY <3>7, <3>8, <3>13
            <4>3. CASE r = <<>>
                <5>1. cs = <<>>
                    BY <4>3, <3>5, ComponentsStep
                <5>2. W(p, d) = e
                    BY <4>2, <5>1, NamedEmpty
                <5>3. Len(r) = 0
                    BY <4>3, EmptySeq
                <5>4. p[1] = Slash
                    BY <5>3, <3>1, <3>3, <3>4, <3>5, <3>10, <3>13
                <5> QED BY <4>1, <5>2, <5>4, <3>1, <3>13
            <4>4. CASE r # <<>>
                <5>1. Len(r) \in Nat \ {0}
                    BY <4>4, <3>5, EmptySeq
                <5>2. r[1] = Slash
                    <6>1. 1 \in 1 .. Len(t) - k /\ k # Len(t)
                        BY <5>1, <3>3, <3>4, <3>5
                    <6>2. r[1] = t[k + 1]
                        BY <6>1, <3>5
                    <6> QED BY <6>1, <6>2, <3>2
                <5>3. CASE Len(r) = 1
                    <6>1. 2 \in 1 .. Len(r) + 1
                        BY <5>1
                    <6>2. From(r, 2) \in X /\ Len(From(r, 2)) = Len(r) + 1 - 2
                        BY <6>1, <3>5, FromFacts
                    <6>3. From(r, 2) = <<>>
                        BY <5>3, <6>2, EmptySeq
                    <6>4. cs = <<>>
                        BY <6>2, <6>3, <4>4, <5>2, <3>5, ComponentsStep
                    <6>5. W(p, d) = e
                        BY <4>2, <6>4, NamedEmpty
                    <6>6. p[Len(p)] = Slash \/ p[1] = Slash
                        <7> SUFFICES ASSUME p[1] # Slash PROVE p[Len(p)] = Slash
                            OBVIOUS
                        <7>0. t = p
                            BY <3>1
                        <7>1. t = p /\ k + 1 = Len(p)
                            <8>1. Len(t) - k = 1 /\ Len(t) \in Nat /\ k \in Nat
                                BY <5>3, <3>3, <3>4, <3>5
                            <8>2. k + 1 = Len(t)
                                BY <8>1
                            <8> QED BY <7>0, <8>2
                        <7>2. r[1] = t[k + 1]
                            <8>1. 1 \in 1 .. Len(t) - k
                                BY <5>3, <3>5
                            <8> QED BY <8>1, <3>5
                        <7> QED BY <7>1, <7>2, <5>2
                    <6> QED BY <4>1, <6>5, <6>6, <3>1, <3>13
                <5>4. CASE Len(r) # 1
                    <6> DEFINE f == FirstOf(r)
                               q == Components(RestOf(r))
                    <6>1. f \in X /\ cs = <<f>> \o q /\ q \in Seq(X)
                        BY <5>2, <5>4, <4>4, <3>5, Split
                    <6>2. Named(v, cs, e) = Named(v, q, Under(v, f, e))
                        <7> HIDE DEF cs, f, q, X
                        <7> QED BY <6>1, NamedStep
                    <6>3. Under(v, f, e) = NULL
                        BY <3>13 DEF Under
                    <6>4. Named(v, q, NULL) = NULL
                        <7> HIDE DEF q, X
                        <7> QED BY <6>1, NamedNothing
                    <6> QED BY <4>1, <4>2, <6>2, <6>3, <6>4 DEF Same
                <5> QED BY <5>3, <5>4
            <4> QED BY <4>3, <4>4
        <3>14. CASE Hits(v.entries[d], c) # {} /\ k # Len(p) /\ e.isDir
            <4> DEFINE u == From(p, k + 2)
                       g == e.cluster
            <4>1. /\ k + 2 \in 1 .. Len(p) + 1 /\ e \in FileEntry /\ g \in Clusters
                  /\ Find(v, p, d) = Find(v, u, g)
                BY <3>9, <3>14 DEF FileEntry
            <4>2. W(p, d) = Named(v, cs, e)
                BY <3>7, <3>8, <3>14
            <4>3. /\ u \in X /\ Single(u) /\ Len(u) = Len(p) - 1 - k /\ Len(u) \in 0 .. n - 1
                  /\ \A i \in 1 .. Len(p) - 1 - k : u[i] = p[k + 1 + i]
                <5>1. /\ u \in X /\ Len(u) = Len(p) + 1 - (k + 2)
                      /\ \A i \in 1 .. Len(p) + 1 - (k + 2) : u[i] = p[(k + 2) + i - 1]
                    BY <4>1, FromFacts
                <5>2. Single(u)
                    BY <4>1, SingleFrom
                <5> HIDE DEF u
                <5>3. Len(p) + 1 - (k + 2) = Len(p) - 1 - k
                      /\ \A i \in 1 .. Len(p) - 1 - k : (k + 2) + i - 1 = k + 1 + i
                    BY <3>1, <3>4
                <5>4. Len(u) \in 0 .. n - 1
                    BY <4>1, <5>1, <3>1, <3>4
                <5> QED BY <5>1, <5>2, <5>3, <5>4
            <4>4. T(u, g)
                <5> HIDE DEF u, g, T
                <5> QED BY <4>1, <4>3, <1>1
            <4> HIDE DEF u, g
            <4>5. Components(u) = cs /\ (p[1] # Slash /\ u # <<>> => u[1] # Slash)
                <5>1. CASE p[1] = Slash
                    <6>1. t = From(p, 2)
                        BY <5>1, <3>1
                    <6>2. 2 \in 1 .. Len(p) + 1 /\ k + 1 \in 1 .. Len(p) + 2 - 2
                          /\ 2 + (k + 1) - 1 = k + 2
                        BY <4>1, <3>1, <3>4
                    <6>3. From(From(p, 2), k + 1) = From(p, 2 + (k + 1) - 1)
                        BY <6>2, FromFrom
                    <6>4. r = u
                        BY <6>1, <6>2, <6>3 DEF r, u
                    <6> QED BY <6>4, <5>1
                <5>2. CASE p[1] # Slash
                    <6>1. t = p
                        BY <5>2, <3>1
                    <6>2. Len(r) \in Nat \ {0} /\ r # <<>>
                        <7>1. Len(r) \in Nat \ {0}
                            BY <6>1, <3>2, <3>3, <3>5, <3>14
                        <7> QED BY <7>1, EmptySeq
                    <6>3. r[1] = Slash
                        <7>1. 1 \in 1 .. Len(t) - k
                            BY <6>2, <3>5
                        <7>2. r[1] = t[k + 1]
                            BY <7>1, <3>5
                        <7> QED BY <7>2, <6>1, <3>2, <3>14
                    <6>4. cs = Components(From(r, 2))
                        BY <6>2, <6>3, <3>5, ComponentsStep
                    <6>5. From(r, 2) = u
                        <7>1. k + 1 \in 1 .. Len(p) + 1 /\ 2 \in 1 .. Len(p) + 2 - (k + 1)
                              /\ (k + 1) + 2 - 1 = k + 2
                            BY <4>1, <3>1, <3>4
                        <7>2. From(From(p, k + 1), 2) = From(p, (k + 1) + 2 - 1)
                            BY <7>1, FromFrom
                        <7> QED BY <7>1, <7>2, <6>1 DEF r, u
                    <6>6. u # <<>> => u[1] # Slash
                        <7> SUFFICES ASSUME u # <<>> PROVE u[1] # Slash
                            OBVIOUS
                        <7>1. Len(u) \in Nat \ {0}
                            BY <4>3, EmptySeq
                        <7>2. 1 \in 1 .. Len(p) - 1 - k /\ k + 1 \in 1 .. Len(p) - 1
                            BY <7>1, <4>3, <3>1, <3>4
                        <7>3. u[1] = p[k + 1 + 1] /\ p[k + 1] = Slash
                            BY <7>2, <4>3, <6>1, <3>2, <3>14
                        <7> QED BY <7>2, <7>3 DEF Single
                    <6> QED BY <6>4, <6>5, <6>6
                <5> QED BY <5>1, <5>2
            <4>6. \/ W(u, g) = E(g) /\ W(p, d) = e
                  \/ W(u, g) = W(p, d)
                <5>1. E(g) \in FileEntry /\ E(g).isDir = e.isDir /\ E(g).cluster = e.cluster
                    <6>1. E(g) \in FileEntry /\ E(g).isDir /\ E(g).cluster = g
                        BY <1>0, <4>1
                    <6>2. E(g).isDir \in BOOLEAN /\ e.isDir \in BOOLEAN
                        BY <6>1, <4>1 DEF FileEntry
                    <6> QED BY <6>1, <6>2, <3>14 DEF g
                <5>2. W(u, g) = Named(v, Components(u), E(g))
                    BY DEF W
                <5>3. \/ Named(v, Components(u), E(g)) = E(g) /\ Named(v, Components(u), e) = e
                      \/ Named(v, Components(u), E(g)) = Named(v, Components(u), e)
                    BY <5>1, <4>1, <4>3, NamedSame
                <5> QED BY <5>2, <5>3, <4>2, <4>5
            <4>7. /\ W(u, g) # NULL <=> W(p, d) # NULL
                  /\ Same(Find(v, u, g), W(u, g)) => Same(Find(v, u, g), W(p, d))
                  /\ W(u, g).isDir <=> W(p, d).isDir
                <5>1. CASE W(u, g) = W(p, d)
                    BY <5>1
                <5>2. CASE W(u, g) = E(g) /\ W(p, d) = e
                    <6>1. E(g) \in FileEntry /\ E(g).isDir /\ E(g).cluster = g
                        BY <1>0, <4>1
                    <6>2. E(g) # NULL /\ e # NULL
                        BY <6>1, <4>1, EntryNotNull
                    <6>3. E(g).isDir = TRUE /\ e.isDir = TRUE
                        BY <6>1, <4>1, <3>14 DEF FileEntry
                    <6> QED BY <5>2, <6>1, <6>2, <6>3 DEF Same, g
                <5> QED BY <4>6, <5>1, <5>2
            <4>8. CASE Same(Find(v, u, g), W(u, g))
                BY <4>1, <4>7, <4>8
            <4>9. CASE /\ Find(v, u, g) = NULL /\ W(u, g) # NULL /\ ~W(u, g).isDir
                       /\ u # <<>> /\ (u[1] = Slash \/ u[Len(u)] = Slash)
                <5>1. Find(v, p, d) = NULL /\ W(p, d) # NULL /\ ~W(p, d).isDir
                    BY <4>1, <4>7, <4>9
                <5>2. p[1] = Slash \/ p[Len(p)] = Slash
                    <6> SUFFICES ASSUME p[1] # Slash PROVE p[Len(p)] = Slash
                        OBVIOUS
                    <6>1. u[Len(u)] = Slash
                        BY <4>5, <4>9
                    <6>2. Len(u) \in Nat \ {0}
                        BY <4>3, <4>9, EmptySeq
                    <6>3. Len(u) \in 1 .. Len(p) - 1 - k /\ k + 1 + Len(u) = Len(p)
                        BY <6>2, <4>3, <3>1, <3>4
                    <6>4. u[Len(u)] = p[Len(p)]
                        BY <6>3, <4>3
                    <6> QED BY <6>1, <6>4
                <5> QED BY <5>1, <5>2, <3>1
            <4> QED BY <4>4, <4>8, <4>9
        <3> QED BY <3>11, <3>12, <3>13, <3>14
    <2> QED BY <2>2, <2>3
<1>2. \A n \in Nat : n \in s
    <2> HIDE DEF s
    <2> QED BY <1>1, Upwards
<1>3. Len(path) \in s
    BY <1>2, LenProperties
<1>4. T(path, dir)
    BY <1>3
<1> QED BY <1>4

-----------------------------------------------------------------------------
(* Paths resolve *)

\* A point and a path in use: the path is on the mount if the point's components
\* are the first of the path's, and the rest of the path has the others.
LEMMA PointIs ==
    ASSUME NEW p \in Points, NEW path \in Paths
    PROVE  /\ Covers(p, path) <=> IsPrefix(Components(p), Components(path))
           /\ Covers(p, path) =>
                /\ Components(path) = Components(p) \o Components(From(path, Len(p) + 1))
                /\ p = SubSeq(path, 1, Len(p))
<1> DEFINE X == Seq(STRING)
<1>1. /\ p \in X /\ p # <<>> /\ p[1] = Slash /\ Single(p) /\ Len(p) \in Nat \ {0}
      /\ path \in X /\ path # <<>> /\ path[1] = Slash /\ Single(path) /\ Len(path) \in Nat \ {0}
      /\ (p = <<Slash>> \/ p[Len(p)] # Slash)
    BY PathAssumption, EmptySeq DEF Single, Last
<1>2. Components(p) \in Seq(X) /\ Components(path) \in Seq(X)
    BY <1>1, ComponentsType
<1>3. IsPrefix(p, path) <=> Starts(p, path)
    BY <1>1, IsPrefixIs
<1>4. IsPrefix(Components(p), Components(path)) <=> Starts(Components(p), Components(path))
    BY <1>2, IsPrefixIs
<1>5. p = <<Slash>> => Len(p) = 1 /\ Components(p) = <<>>
    <2> SUFFICES ASSUME p = <<Slash>> PROVE Len(p) = 1 /\ Components(p) = <<>>
        OBVIOUS
    <2>1. Len(p) = 1
        OBVIOUS
    <2>2. Components(p) = Components(From(p, 2))
        BY <1>1, ComponentsStep
    <2>3. 2 \in 1 .. Len(p) + 1
        BY <2>1
    <2>4. From(p, 2) \in Seq(STRING) /\ Len(From(p, 2)) = Len(p) + 1 - 2
        BY <1>1, <2>3, FromFacts, ZenonT(60)
    <2>5. From(p, 2) = <<>>
        BY <2>1, <2>4, EmptySeq
    <2>6. Components(<<>>) = <<>>
        BY EmptySeq, ComponentsStep
    <2> QED BY <2>1, <2>2, <2>5, <2>6
<1>6. ASSUME Covers(p, path)
      PROVE  /\ Components(path) = Components(p) \o Components(From(path, Len(p) + 1))
             /\ p = SubSeq(path, 1, Len(p))
             /\ Starts(Components(p), Components(path))
    <2> DEFINE l == Len(p)
               a == SubSeq(path, 1, l)
               A == Components(p)
               B == Components(From(path, l + 1))
    <2>1. l \in 0 .. Len(path) /\ \A i \in 1 .. l : p[i] = path[i]
        BY <1>1, <1>3, <1>6 DEF Covers, Starts
    <2>2. a \in X /\ Len(a) = l /\ \A i \in 1 .. l : a[i] = path[i]
        BY <1>1, <2>1, StartFacts
    <2>3. p = a
        <3> HIDE DEF a
        <3> QED BY <1>1, <2>1, <2>2, SameSeq
    <2>4. l = Len(path) \/ path[l] = Slash \/ path[l + 1] = Slash
        <3>1. CASE p = <<Slash>>
            <4>1. 1 \in 1 .. l /\ l = 1
                BY <1>5, <3>1
            <4> QED BY <4>1, <1>1, <2>1
        <3>2. CASE p # <<Slash>>
            BY <3>2, <1>6 DEF Covers
        <3> QED BY <3>1, <3>2
    <2>5. Components(path) = Components(a) \o B
        <3> HIDE DEF l
        <3> QED BY <1>1, <2>1, <2>4, ComponentsCat
    <2>6. From(path, l + 1) \in X
        <3>1. l + 1 \in 1 .. Len(path) + 1
            BY <1>1, <2>1
        <3> QED BY <3>1, <1>1, FromFacts
    <2>7. B \in Seq(X)
        BY <2>6, ComponentsType
    <2>8. Components(path) = A \o B
        BY <2>3, <2>5
    <2> HIDE DEF A, B
    <2>9. /\ Len(A \o B) = Len(A) + Len(B) /\ Len(A) \in Nat /\ Len(B) \in Nat
          /\ \A i \in 1 .. Len(A) + Len(B) : (A \o B)[i] = IF i <= Len(A) THEN A[i] ELSE B[i - Len(A)]
        <3>1. A \in Seq(X)
            BY <1>2 DEF A
        <3> HIDE DEF X
        <3> QED BY <2>7, <3>1, ConcatProperties, LenProperties
    <2>10. Starts(A, A \o B)
        <3>1. Len(A) <= Len(A \o B) /\ \A i \in 1 .. Len(A) : i \in 1 .. Len(A) + Len(B)
            BY <2>9
        <3> QED BY <2>9, <3>1 DEF Starts
    <2> QED BY <2>3, <2>8, <2>10 DEF A, B
<1>7. ASSUME Starts(Components(p), Components(path)) PROVE Covers(p, path)
    <2>1. CASE p = <<Slash>>
        <3>1. Len(p) = 1 /\ p[1] = path[1] /\ Len(path) >= 1
            BY <1>1, <1>5, <2>1
        <3>2. Starts(p, path)
            BY <3>1 DEF Starts
        <3> QED BY <2>1, <3>2, <1>3 DEF Covers
    <2>2. CASE p # <<Slash>>
        <3>1. Normal(p) /\ Normal(path) /\ p[Len(p)] # Slash
            BY <1>1, <2>2 DEF Normal
        <3>2. Starts(p, path) /\ (Len(path) = Len(p) \/ path[Len(p) + 1] = Slash)
            BY <3>1, <1>7, ComponentsPrefix
        <3> QED BY <3>2, <1>3 DEF Covers
    <2> QED BY <2>1, <2>2
<1> QED BY <1>4, <1>6, <1>7

\* Of two points that cover a path the shorter covers what the longer covers, so
\* it has no more components; and if it has as many, it is the same.
LEMMA PointsOrdered ==
    ASSUME NEW p \in Points, NEW q \in Points, NEW path \in Paths,
           Covers(p, path), Covers(q, path), Len(p) <= Len(q)
    PROVE  /\ Len(Components(p)) \in Nat /\ Len(Components(q)) \in Nat
           /\ Len(Components(p)) <= Len(Components(q))
           /\ Len(Components(p)) = Len(Components(q)) => p = q
<1> DEFINE X == Seq(STRING)
           l == Len(p)
           m == Len(q)
<1>1. /\ p \in X /\ p # <<>> /\ p[1] = Slash /\ l \in Nat \ {0}
      /\ q \in X /\ q # <<>> /\ q[1] = Slash /\ Single(q) /\ m \in Nat \ {0}
      /\ (p = <<Slash>> \/ p[Len(p)] # Slash) /\ (q = <<Slash>> \/ q[Len(q)] # Slash)
      /\ path \in X
    BY PathAssumption, EmptySeq DEF Single, Last
<1>2. Starts(p, path) /\ Starts(q, path)
    BY <1>1, IsPrefixIs DEF Covers
<1>3. \A i \in 1 .. l : p[i] = q[i]
    BY <1>1, <1>2 DEF Starts
<1>4. SubSeq(q, 1, l) = p
    <2> DEFINE a == SubSeq(q, 1, l)
    <2>1. l \in 0 .. Len(q)
        BY <1>1
    <2>2. a \in X /\ Len(a) = l /\ \A i \in 1 .. l : a[i] = q[i]
        BY <1>1, <2>1, StartFacts
    <2> HIDE DEF a
    <2>3. a = p
        BY <1>1, <1>3, <2>2, SameSeq
    <2> QED BY <2>3 DEF a
<1>5. l = m \/ q[l] = Slash \/ q[l + 1] = Slash
    <2>1. CASE p = <<Slash>>
        <3>1. l = 1 /\ 1 \in 1 .. l
            BY <2>1
        <3> QED BY <3>1, <1>1, <1>3
    <2>2. CASE p # <<Slash>> /\ l # m
        <3>1. Len(path) = l \/ path[l + 1] = Slash
            BY <2>2 DEF Covers
        <3>2. l + 1 \in 1 .. m /\ m <= Len(path) /\ Len(path) \in Nat
            BY <1>1, <1>2, <2>2, LenProperties DEF Starts
        <3>3. q[l + 1] = path[l + 1]
            BY <1>2, <3>2 DEF Starts
        <3> QED BY <3>1, <3>2, <3>3, <1>1
    <2> QED BY <2>1, <2>2
<1> DEFINE r == From(q, l + 1)
           A == Components(p)
           B == Components(r)
<1>6. r \in X /\ Single(r) /\ Len(r) = m - l /\ (l < m => r[1] = q[l + 1])
    <2> DEFINE k == l + 1
    <2>1. k \in 1 .. Len(q) + 1 /\ q \in Seq(STRING) /\ r = From(q, k)
        BY <1>1
    <2>2. k = l + 1 /\ Len(q) = m
        OBVIOUS
    <2> HIDE DEF k, l, m, r
    <2>3. /\ From(q, k) \in Seq(STRING) /\ Len(From(q, k)) = Len(q) + 1 - k
          /\ \A i \in 1 .. Len(q) + 1 - k : From(q, k)[i] = q[k + i - 1]
        BY ONLY <2>1, FromFacts
    <2>4. Single(r)
        BY <1>1, <2>1, SingleFrom
    <2>5. Len(q) + 1 - k = m - l /\ k + 1 - 1 = l + 1
          /\ (l < m => 1 \in 1 .. Len(q) + 1 - k)
        BY <1>1, <2>2
    <2>6. l < m => r[1] = q[k + 1 - 1]
        BY <2>1, <2>3, <2>5
    <2> QED BY <2>1, <2>3, <2>4, <2>5, <2>6
<1>7. Components(q) = A \o B
    <2>1. l \in 0 .. Len(q) /\ (l = 0 \/ l = Len(q) \/ q[l] = Slash \/ q[l + 1] = Slash)
        BY <1>1, <1>5
    <2>2. Components(q) = Components(SubSeq(q, 1, l)) \o B
        <3> HIDE DEF l
        <3> QED BY <1>1, <2>1, ComponentsCat
    <2> QED BY <2>2, <1>4
<1>8. A \in Seq(X) /\ B \in Seq(X)
    BY <1>1, <1>6, ComponentsType
<1>9. /\ Len(Components(q)) = Len(A) + Len(B) /\ Len(A) \in Nat /\ Len(B) \in Nat
    <2> HIDE DEF A, B, X
    <2> QED BY <1>7, <1>8, ConcatProperties, LenProperties
<1>10. ASSUME Len(B) = 0 PROVE p = q
    <2> HIDE DEF r
    <2>1. B = <<>>
        BY <1>8, <1>10, EmptySeq
    <2>2. CASE l = m
        BY <2>2, <1>1, <1>3, SameSeq
    <2>3. CASE l # m
        <3>1. Len(r) \in Nat \ {0} /\ l < m
            BY <2>3, <1>1, <1>6
        <3>2. r # <<>>
            BY <3>1, EmptySeq
        <3>3. r[1] # Slash => B # <<>>
            <4> SUFFICES ASSUME r[1] # Slash PROVE B # <<>>
                OBVIOUS
            <4> DEFINE c == SubSeq(r, 1, ComponentLength(r))
                       z == Components(From(r, ComponentLength(r) + 1))
            <4>1. ComponentLength(r) \in 1 .. Len(r) /\ B = <<c>> \o z
                BY <1>6, <3>2, ComponentsStep
            <4>2. c \in X /\ From(r, ComponentLength(r) + 1) \in X
                <5>1. ComponentLength(r) \in 0 .. Len(r)
                      /\ ComponentLength(r) + 1 \in 1 .. Len(r) + 1
                    BY <4>1, <3>1
                <5> QED BY <5>1, <1>6, StartFacts, FromFacts
            <4>3. z \in Seq(X)
                BY <4>2, ComponentsType
            <4>4. Len(B) = Len(z) + 1 /\ Len(z) \in Nat
                <5> HIDE DEF c, z, X, B
                <5> QED BY <4>1, <4>2, <4>3, ConsFacts
            <4>5. Len(B) # 0
                <5> HIDE DEF B, z
                <5> QED BY <4>4
            <4> QED BY <4>5, <1>10
        <3>4. r[1] = Slash
            BY <3>3, <2>1
        \* p is "/": it ends in a slash, and r begins with another.  Otherwise q
        \* ends behind that slash, or has one more component.
        <3>5. CASE p = <<Slash>>
            <4>1. l = 1 /\ q[l] = Slash /\ q[l + 1] = Slash /\ l \in 1 .. m - 1
                BY <3>1, <3>4, <3>5, <1>1, <1>6
            <4> QED BY <4>1, <1>1 DEF Single
        <3>6. CASE p # <<Slash>>
            <4>1. CASE Len(r) = 1
                <5>1. m = l + 1 /\ q[m] = Slash
                    <6> HIDE DEF l, m
                    <6>1. m - l = 1 /\ m \in Nat /\ l \in Nat
                        BY <4>1, <1>1, <1>6
                    <6>2. m = l + 1
                        BY <6>1
                    <6>3. r[1] = q[l + 1]
                        BY <3>1, <1>6
                    <6> QED BY <6>2, <6>3, <3>4
                <5>2. q # <<Slash>>
                    <6> SUFFICES ASSUME q = <<Slash>> PROVE FALSE
                        OBVIOUS
                    <6>1. m = 1
                        OBVIOUS
                    <6> QED BY <6>1, <5>1, <1>1
                <5> QED BY <5>1, <5>2, <1>1
            <4>2. CASE Len(r) # 1
                <5> DEFINE f == FirstOf(r)
                           z == Components(RestOf(r))
                <5>1. f \in X /\ B = <<f>> \o z /\ z \in Seq(X)
                    BY <3>2, <3>4, <4>2, <1>6, Split
                <5>2. Len(B) = Len(z) + 1 /\ Len(z) \in Nat
                    <6> HIDE DEF f, z, X, B
                    <6> QED BY <5>1, ConsFacts
                <5> QED BY <5>2, <1>10
            <4> QED BY <4>1, <4>2
        <3> QED BY <3>5, <3>6
    <2> QED BY <2>2, <2>3
<1> QED BY <1>9, <1>10

\* The mount that getMount finds is the nearest above the path.
LEMMA MountIsNearest ==
    ASSUME MountsInv, NEW path \in Paths
    PROVE  /\ MountOf(path) = 0 => Above(path) = {}
           /\ MountOf(path) # 0 => Above(path) # {} /\ Nearest(path) = MountOf(path)
<1> DEFINE m == MountOf(path)
           P(i) == mounted[i].point
           C(i) == Len(Components(P(i)))
<1>1. mounted \in Seq(MountRec) /\ DOMAIN mounted = 1 .. Len(mounted) /\ Len(mounted) \in Nat
    BY LenProperties DEF MountsInv
<1>2. \A i \in DOMAIN mounted : P(i) \in Points /\ Len(P(i)) \in Nat
    BY MountTypes, PathSeq
<1>3. /\ m \in 0 .. Len(mounted)
      /\ m # 0 => Covers(P(m), path)
      /\ \A i \in DOMAIN mounted : Covers(P(i), path) => m # 0 /\ Len(P(i)) <= Len(P(m))
    BY <1>1, <1>2, MountOfShape
<1>4. Above(path) = {i \in DOMAIN mounted : Covers(P(i), path)}
    BY <1>2, PointIs DEF Above
<1> HIDE DEF m
<1>5. CASE m = 0
    BY <1>3, <1>4, <1>5 DEF m
<1>6. CASE m # 0
    <2>1. m \in Above(path) /\ m \in DOMAIN mounted
        BY <1>1, <1>3, <1>4, <1>6
    <2>2. ASSUME NEW j \in Above(path)
          PROVE  /\ C(j) \in Nat /\ C(m) \in Nat /\ C(j) <= C(m)
                 /\ C(j) = C(m) => j = m
        <3>1. j \in DOMAIN mounted /\ Covers(P(j), path) /\ Len(P(j)) <= Len(P(m))
            BY <1>3, <1>4
        <3>2. /\ C(j) \in Nat /\ C(m) \in Nat /\ C(j) <= C(m)
              /\ C(j) = C(m) => P(j) = P(m)
            <4>1. P(j) \in Points /\ P(m) \in Points /\ Covers(P(m), path)
                BY <1>2, <1>3, <1>6, <2>1, <3>1
            <4> HIDE DEF P
            <4> QED BY <3>1, <4>1, PointsOrdered
        <3>3. P(j) = P(m) => j = m
            BY <2>1, <3>1 DEF MountsInv
        <3> QED BY <3>2, <3>3
    <2> HIDE DEF C
    <2>3. \A i \in Above(path) : (\A j \in Above(path) : C(j) <= C(i)) => i = m
        <3> TAKE i \in Above(path)
        <3> HAVE \A j \in Above(path) : C(j) <= C(i)
        <3>1. C(m) <= C(i)
            BY <2>1
        <3>2. C(i) \in Nat /\ C(m) \in Nat /\ C(i) <= C(m) /\ (C(i) = C(m) => i = m)
            BY <2>2
        <3> QED BY <3>1, <3>2
    <2>4. \A j \in Above(path) : C(j) <= C(m)
        BY <2>2
    <2>5. Nearest(path) = CHOOSE i \in Above(path) : \A j \in Above(path) : C(j) <= C(i)
        BY DEF Nearest, C
    <2>6. Nearest(path) = m
        BY <2>1, <2>3, <2>4, <2>5
    <2> QED BY <2>1, <2>6, <1>6 DEF m
<1> QED BY <1>5, <1>6

LEMMA PathResolves ==
    ASSUME MountsInv, NEW path \in Paths
    PROVE  \/ Same(Lookup(path), Wanted(path))
           \/ /\ Lookup(path) = NULL /\ ~Wanted(path).isDir
              /\ mounted[Nearest(path)].point # <<Slash>> \/ Last(path) = Slash
<1> DEFINE m   == MountOf(path)
           p   == mounted[m].point
           v   == volumes[mounted[m].device]
           rel == From(path, Len(p) + 1)
           top == Entry(<<>>, TRUE, Root, 0)
           w   == Named(v, Components(rel), top)
<1>1. CASE m = 0
    <2>1. Above(path) = {}
        BY <1>1, MountIsNearest
    <2> QED BY <1>1, <2>1 DEF Lookup, Wanted, Same
<1>2. CASE m # 0
    <2>1. Above(path) # {} /\ Nearest(path) = m
        BY <1>2, MountIsNearest
    <2>2. p \in Points /\ Covers(p, path) /\ IsVolume(v)
        BY <1>2, MountFound
    <2>3. /\ p \in Seq(STRING) /\ Len(p) \in Nat \ {0} /\ p[1] = Slash
          /\ path \in Seq(STRING) /\ Len(path) \in Nat \ {0} /\ Single(path)
          /\ Len(p) + 1 \in 1 .. Len(path) + 1
        BY <2>2, PathSeq, PathAssumption, CoversLen DEF Single
    <2> HIDE DEF p, v
    <2>4. Lookup(path) = Find(v, rel, Root)
        BY <1>2 DEF Lookup, p, v
    <2>5. /\ rel \in Seq(STRING) /\ Single(rel) /\ Len(rel) = Len(path) - Len(p)
          /\ \A i \in 1 .. Len(path) - Len(p) : rel[i] = path[Len(p) + i]
        <3>1. /\ rel \in Seq(STRING) /\ Len(rel) = Len(path) + 1 - (Len(p) + 1)
              /\ \A i \in 1 .. Len(path) + 1 - (Len(p) + 1) : rel[i] = path[(Len(p) + 1) + i - 1]
            BY <2>3, FromFacts
        <3>2. Single(rel)
            BY <2>3, SingleFrom
        <3> HIDE DEF rel
        <3>3. Len(path) + 1 - (Len(p) + 1) = Len(path) - Len(p)
              /\ \A i \in 1 .. Len(path) - Len(p) : (Len(p) + 1) + i - 1 = Len(p) + i
            BY <2>3
        <3> QED BY <3>1, <3>2, <3>3
    <2>6. Wanted(path) = w
        <3> DEFINE A == Components(p)
                   B == Components(rel)
                   X == Seq(STRING)
        <3>1. Wanted(path) = Named(v, From(Components(path), Len(A) + 1), top)
            BY <2>1 DEF Wanted, p, v
        <3>2. Components(path) = A \o B
            BY <2>2, PointIs
        <3>3. A \in Seq(X) /\ B \in Seq(X)
            BY <2>3, <2>5, ComponentsType
        <3> HIDE DEF A, B, X
        <3>4. From(A \o B, Len(A) + 1) = B
            <4> DEFINE q == A \o B
            <4>1. /\ q \in Seq(X) /\ Len(q) = Len(A) + Len(B) /\ Len(A) \in Nat /\ Len(B) \in Nat
                  /\ \A i \in 1 .. Len(A) + Len(B) :
                        q[i] = IF i <= Len(A) THEN A[i] ELSE B[i - Len(A)]
                BY <3>3, ConcatProperties, LenProperties
            <4> HIDE DEF q
            <4> DEFINE k == Len(A) + 1
                       u == From(q, k)
            <4>2. k \in 1 .. Len(q) + 1
                BY <4>1
            <4>3. u \in Seq(X) /\ Len(u) = Len(q) + 1 - k
                  /\ \A i \in 1 .. Len(q) + 1 - k : u[i] = q[k + i - 1]
                <5> HIDE DEF k
                <5> QED BY <4>1, <4>2, FromFacts, ZenonT(60)
            <4> HIDE DEF u
            <4>4. Len(u) = Len(B)
                BY <4>1, <4>3
            <4>5. ASSUME NEW i \in 1 .. Len(u) PROVE u[i] = B[i]
                <5>1. /\ i \in 1 .. Len(q) + 1 - k /\ k + i - 1 \in 1 .. Len(A) + Len(B)
                      /\ ~(k + i - 1 <= Len(A)) /\ (k + i - 1) - Len(A) = i
                    BY <4>1, <4>4
                <5>2. u[i] = q[k + i - 1] /\ q[k + i - 1] = B[(k + i - 1) - Len(A)]
                    <6> HIDE DEF k
                    <6> QED BY <5>1, <4>1, <4>3
                <5> QED BY <5>1, <5>2
            <4>6. u = B
                BY <3>3, <4>3, <4>4, <4>5, SameSeq
            <4> QED BY <4>6 DEF u, q
        <3> QED BY <3>1, <3>2, <3>4 DEF B
    <2>7. Root \in Clusters
        BY VolumeAssumption
    <2> HIDE DEF rel, m
    <2>8. \/ Same(Find(v, rel, Root), w)
          \/ /\ Find(v, rel, Root) = NULL /\ w # NULL /\ ~w.isDir
             /\ rel # <<>> /\ (rel[1] = Slash \/ rel[Len(rel)] = Slash)
        BY <2>2, <2>5, <2>7, FindNamed
    <2>9. ASSUME rel # <<>>, rel[1] = Slash \/ rel[Len(rel)] = Slash
          PROVE  p # <<Slash>> \/ Last(path) = Slash
        <3> SUFFICES ASSUME p = <<Slash>> PROVE Last(path) = Slash
            OBVIOUS
        <3>1. Len(p) = 1
            OBVIOUS
        <3>2. Len(rel) \in Nat \ {0}
            BY <2>5, <2>9, EmptySeq
        <3>3. rel[1] # Slash
            <4>1. 1 \in 1 .. Len(path) - Len(p) /\ 1 \in 1 .. Len(path) - 1 /\ Len(p) + 1 = 1 + 1
                BY <3>1, <3>2, <2>3, <2>5
            <4>2. path[1] = Slash
                BY PathSeq
            <4>3. path[1 + 1] # Slash
                BY <4>1, <4>2, <2>3 DEF Single
            <4>4. rel[1] = path[Len(p) + 1]
                BY <4>1, <2>5
            <4> QED BY <4>1, <4>3, <4>4
        <3>4. Len(rel) \in 1 .. Len(path) - Len(p) /\ Len(p) + Len(rel) = Len(path)
            BY <3>1, <3>2, <2>3, <2>5
        <3>5. rel[Len(rel)] = path[Len(path)]
            BY <3>4, <2>5
        <3> QED BY <3>3, <3>5, <2>9 DEF Last
    <2> HIDE DEF w
    <2> QED BY <2>1, <2>4, <2>6, <2>8, <2>9 DEF p, m
<1> QED BY <1>1, <1>2

\* For every tree of entries, every set of mounts however they came and went, and
\* every path without two slashes in a row: what the path finds is what its
\* components lead to from the nearest mount above it (getMount, findFAT32Entry).
THEOREM PathsResolveHolds == Spec => []PathsResolve
<1>1. IInv => PathsResolve
    BY PathResolves DEF IInv, PathsResolve
<1> QED BY <1>1, MountsAndFilesHold, PTL
=============================================================================
