---------------------------- MODULE FatLossProofs ----------------------------
(***************************************************************************)
(* No cluster leaks but in the ways the code is known to leak, and a file  *)
(* has the clusters its size claims: Accounted and SizeCovered for every   *)
(* number of clusters, names and faults.                                   *)
(*                                                                         *)
(* Accounted is not inductive.  What a call has still to write (call.todo) *)
(* may unlink or free clusters, so LossInv says that each of those writes  *)
(* lets go of none that is not already counted as lost or as the call's    *)
(* own, whichever of them fail.  When a call returns, what it got is no    *)
(* longer its own: FineInv says that, if nothing failed, the table and the *)
(* directory that its writes make reach all of it.  Both rest on the       *)
(* invariant of FatTableProofs, which keeps chains apart.                  *)
(*                                                                         *)
(* SizeCovered is not inductive either: LongInv says that what is still to *)
(* be written cuts no chain within the size that an entry or an open file  *)
(* claims, and that the writes of a growing file, when all of them land,   *)
(* make its chain as long as the entry that the last of them writes.       *)
(*                                                                         *)
(* Rest(f, a, k), the clusters of a chain behind its k-th, is what a write *)
(* can cut off; Past, those behind the size of an entry, is what nobody    *)
(* reads again.  Claims names the entries whose size counts; Spares is a   *)
(* write that leaves the clusters of such an entry linked.                 *)
(***************************************************************************)
EXTENDS FatTableProofs

-----------------------------------------------------------------------------
(* Chains and what is behind a cluster of them *)

LEMMA ChainFacts ==
    ASSUME NEW f, NEW a \in Clusters
    PROVE  /\ DOMAIN Chain(f, a) = 1 .. Len(Chain(f, a))
           /\ Len(Chain(f, a)) \in Nat \ {0}
           /\ Len(Chain(f, a)) \in 1 .. Cardinality(Clusters)
           /\ Chain(f, a)[1] = a
           /\ \A i \in 1 .. Len(Chain(f, a)) - 1 : Chain(f, a)[i + 1] = f[Chain(f, a)[i]]
           /\ Len(Chain(f, a)) < Cardinality(Clusters) =>
                f[Chain(f, a)[Len(Chain(f, a))]] \notin Clusters
           /\ Cardinality(Clusters) \in Nat
           /\ \A i \in 1 .. Len(Chain(f, a)) : Chain(f, a)[i] \in Clusters
           /\ Chain(f, a) \in Seq(Clusters)
<1> DEFINE s == Chain(f, a)
<1>1. s \in Seq(Clusters) /\ Len(s) \in 1 .. Cardinality(Clusters)
    BY ChainShape
<1>2. \A i \in 1 .. Len(s) : s[i] \in Clusters
    BY <1>1, ElementOfSeq
<1>3. Len(s) \in Nat \ {0}
    BY <1>1, Constants
<1> QED BY <1>1, <1>2, <1>3, ChainShape, Constants

\* A chain after a write of the table: as before, or the cluster now linked.
LEMMA ChainWritten ==
    ASSUME NEW f, NEW g, NEW a \in Clusters, NEW b, NEW v, Becomes(f, g, b, v),
           v \in Clusters => f[v] \notin Clusters /\ v # b
    PROVE  \A i \in 1 .. Len(Chain(g, a)) :
               \/ i <= Len(Chain(f, a)) /\ Chain(g, a)[i] = Chain(f, a)[i]
               \/ Chain(g, a)[i] = v /\ v \in Clusters
<1> DEFINE s == Chain(f, a)
           u == Chain(g, a)
           bad == {i \in 1 .. Len(u) : ~(\/ i <= Len(s) /\ u[i] = s[i]
                                         \/ u[i] = v /\ v \in Clusters)}
<1>1. /\ Len(s) \in 1 .. Cardinality(Clusters) /\ Len(u) \in 1 .. Cardinality(Clusters)
      /\ s[1] = a /\ u[1] = a
      /\ \A i \in 1 .. Len(s) - 1 : s[i + 1] = f[s[i]]
      /\ \A i \in 1 .. Len(u) - 1 : u[i + 1] = g[u[i]]
      /\ Len(s) < Cardinality(Clusters) => f[s[Len(s)]] \notin Clusters
      /\ Cardinality(Clusters) \in Nat
      /\ \A i \in 1 .. Len(s) : s[i] \in Clusters
      /\ \A i \in 1 .. Len(u) : u[i] \in Clusters
    BY ChainShape, ElementOfSeq, Constants
<1> HIDE DEF s, u
<1>2. bad = {}
    <2> SUFFICES ASSUME bad # {} PROVE FALSE
        OBVIOUS
    <2>1. bad \subseteq Nat
        BY <1>1
    <2>2. PICK i \in bad : \A j \in bad : i <= j
        <3> HIDE DEF bad
        <3> QED BY <2>1, LeastOfNats
    <2>3. i \in 1 .. Len(u) /\ ~(i <= Len(s) /\ u[i] = s[i]) /\ ~(u[i] = v /\ v \in Clusters)
        OBVIOUS
    <2>4. i # 1
        BY <2>3, <1>1
    <2>5. i - 1 \in 1 .. Len(u) - 1 /\ i - 1 \in 1 .. Len(u) /\ (i - 1) + 1 = i
        BY <2>3, <2>4, <1>1
    <2>6. i - 1 \notin bad
        <3> HIDE DEF bad
        <3> QED BY <2>1, <2>2, <2>5
    <2>7. (i - 1 <= Len(s) /\ u[i - 1] = s[i - 1]) \/ (u[i - 1] = v /\ v \in Clusters)
        BY <2>5, <2>6
    <2>8. u[i] = g[u[i - 1]] /\ u[i] \in Clusters /\ u[i - 1] \in Clusters
        BY <2>5, <2>3, <1>1
    <2>9. g[u[i - 1]] = IF u[i - 1] = b THEN v ELSE f[u[i - 1]]
        BY <2>8 DEF Becomes
    <2>10. u[i - 1] # b
        BY <2>3, <2>8, <2>9
    <2>11. i - 1 <= Len(s) /\ u[i - 1] = s[i - 1] /\ f[s[i - 1]] \in Clusters
        BY <2>7, <2>8, <2>9, <2>10
    <2>12. i - 1 # Len(s)
        <3>1. i <= Cardinality(Clusters) /\ i \in Nat
            BY <2>3, <1>1
        <3> QED BY <3>1, <2>11, <1>1
    <2>13. i - 1 \in 1 .. Len(s) - 1 /\ i <= Len(s)
        BY <2>5, <2>11, <2>12, <1>1
    <2>14. s[(i - 1) + 1] = f[s[i - 1]]
        BY <2>13, <1>1
    <2> QED BY <2>3, <2>5, <2>8, <2>9, <2>10, <2>11, <2>13, <2>14
<1> QED BY <1>2 DEF s, u

\* A chain as far as it goes before a cluster whose entry is not the same.
LEMMA ChainBefore ==
    ASSUME NEW f, NEW g, NEW a \in Clusters, NEW W, \A x \in Clusters \ W : g[x] = f[x],
           NEW e \in 1 .. Len(Chain(f, a)), \A i \in 1 .. e - 1 : Chain(f, a)[i] \notin W
    PROVE  e <= Len(Chain(g, a)) /\ \A i \in 1 .. e : Chain(g, a)[i] = Chain(f, a)[i]
<1> DEFINE s == Chain(f, a)
           u == Chain(g, a)
           bad == {i \in 1 .. e : ~(i <= Len(u) /\ u[i] = s[i])}
<1>1. /\ Len(s) \in 1 .. Cardinality(Clusters) /\ Len(u) \in 1 .. Cardinality(Clusters)
      /\ s[1] = a /\ u[1] = a
      /\ \A i \in 1 .. Len(s) - 1 : s[i + 1] = f[s[i]]
      /\ \A i \in 1 .. Len(u) - 1 : u[i + 1] = g[u[i]]
      /\ Len(u) < Cardinality(Clusters) => g[u[Len(u)]] \notin Clusters
      /\ Cardinality(Clusters) \in Nat
      /\ \A i \in 1 .. Len(s) : s[i] \in Clusters
      /\ e \in 1 .. Len(s) /\ \A i \in 1 .. e - 1 : s[i] \notin W
    <2>1. s \in Seq(Clusters) /\ u \in Seq(Clusters)
        BY ChainShape
    <2>2. \A i \in 1 .. Len(s) : s[i] \in Clusters
        BY <2>1, ElementOfSeq
    <2> QED BY <2>2, ChainShape, Constants
<1> HIDE DEF s, u
<1>2. bad = {}
    <2> SUFFICES ASSUME bad # {} PROVE FALSE
        OBVIOUS
    <2>1. bad \subseteq Nat
        BY <1>1
    <2>2. PICK i \in bad : \A j \in bad : i <= j
        <3> HIDE DEF bad
        <3> QED BY <2>1, LeastOfNats
    <2>3. i \in 1 .. e /\ ~(i <= Len(u) /\ u[i] = s[i])
        OBVIOUS
    <2>4. i # 1
        BY <2>3, <1>1
    <2>5. i - 1 \in 1 .. e - 1 /\ i - 1 \in 1 .. e /\ i - 1 \in 1 .. Len(s) - 1
          /\ i - 1 \in 1 .. Len(s) /\ (i - 1) + 1 = i /\ i \in 1 .. Len(s)
        BY <2>3, <2>4, <1>1
    <2>6. i - 1 \notin bad
        <3> HIDE DEF bad
        <3> QED BY <2>1, <2>2, <2>5
    <2>7. i - 1 <= Len(u) /\ u[i - 1] = s[i - 1]
        BY <2>5, <2>6
    <2>8. s[i - 1] \notin W /\ s[i - 1] \in Clusters /\ s[i] = f[s[i - 1]] /\ s[i] \in Clusters
        <3>1. s[(i - 1) + 1] = f[s[i - 1]]
            BY <2>5, <1>1
        <3> QED BY <3>1, <2>5, <1>1
    <2>9. g[u[i - 1]] = s[i]
        BY <2>7, <2>8
    <2>10. i - 1 # Len(u)
        BY <2>3, <2>8, <2>9, <1>1, <2>5
    <2>11. i - 1 \in 1 .. Len(u) - 1 /\ i <= Len(u)
        <3>1. Len(u) \in Nat /\ i - 1 \in Nat /\ i - 1 # 0
            BY <2>5, <1>1, SMTT(30)
        <3>2. \A x, y \in Nat : x # 0 /\ x <= y /\ x # y => x \in 1 .. y - 1 /\ x + 1 <= y
            OBVIOUS
        <3>3. i - 1 \in 1 .. Len(u) - 1 /\ (i - 1) + 1 <= Len(u)
            BY <3>1, <3>2, <2>7, <2>10
        <3> QED BY <3>3, <2>5
    <2>12. u[(i - 1) + 1] = g[u[i - 1]]
        BY <2>11, <1>1
    <2> QED BY <2>3, <2>5, <2>9, <2>11, <2>12
<1>3. \A i \in 1 .. e : i <= Len(u) /\ u[i] = s[i]
    BY <1>2
<1>4. e \in 1 .. e
    BY <1>1
<1> QED BY <1>3, <1>4 DEF s, u

\* From the j-th cluster of a chain on it is that one's chain.
LEMMA ChainFrom ==
    ASSUME NEW f, NEW a \in Clusters, NEW j \in 1 .. Len(Chain(f, a)),
           NEW i \in j .. Len(Chain(f, a))
    PROVE  LET u == Chain(f, Chain(f, a)[j]) IN
           i - j + 1 \in 1 .. Len(u) /\ u[i - j + 1] = Chain(f, a)[i]
<1> DEFINE s == Chain(f, a)
           u == Chain(f, s[j])
           bad == {k \in j .. Len(s) : ~(k - j + 1 <= Len(u) /\ u[k - j + 1] = s[k])}
<1>0. s[j] \in Clusters
    BY ChainFacts
<1>5. /\ Len(s) \in 1 .. Cardinality(Clusters) /\ Cardinality(Clusters) \in Nat
      /\ \A k \in 1 .. Len(s) - 1 : s[k + 1] = f[s[k]]
      /\ \A k \in 1 .. Len(s) : s[k] \in Clusters
    BY ChainFacts
<1>6. /\ Len(u) \in 1 .. Cardinality(Clusters) /\ u[1] = s[j]
      /\ \A k \in 1 .. Len(u) - 1 : u[k + 1] = f[u[k]]
      /\ Len(u) < Cardinality(Clusters) => f[u[Len(u)]] \notin Clusters
    <2> DEFINE b == s[j]
    <2> HIDE DEF b
    <2>1. b \in Clusters
        BY <1>0 DEF b
    <2>2. LET w == Chain(f, b) IN
          /\ Len(w) \in 1 .. Cardinality(Clusters) /\ w[1] = b
          /\ \A k \in 1 .. Len(w) - 1 : w[k + 1] = f[w[k]]
          /\ Len(w) < Cardinality(Clusters) => f[w[Len(w)]] \notin Clusters
        BY <2>1, ChainFacts
    <2> QED BY <2>2 DEF b
<1>7. j \in 1 .. Len(s) /\ i \in j .. Len(s)
    OBVIOUS
<1> HIDE DEF s, u
<1>1. /\ Len(s) \in 1 .. Cardinality(Clusters) /\ Len(u) \in 1 .. Cardinality(Clusters)
      /\ u[1] = s[j]
      /\ \A k \in 1 .. Len(s) - 1 : s[k + 1] = f[s[k]]
      /\ \A k \in 1 .. Len(u) - 1 : u[k + 1] = f[u[k]]
      /\ Len(u) < Cardinality(Clusters) => f[u[Len(u)]] \notin Clusters
      /\ Cardinality(Clusters) \in Nat
      /\ \A k \in 1 .. Len(s) : s[k] \in Clusters
      /\ j \in 1 .. Len(s) /\ i \in j .. Len(s)
    BY <1>5, <1>6, <1>7
<1>2. bad = {}
    <2> SUFFICES ASSUME bad # {} PROVE FALSE
        OBVIOUS
    <2>1. bad \subseteq Nat
        BY <1>1
    <2>2. PICK k \in bad : \A m \in bad : k <= m
        <3> HIDE DEF bad
        <3> QED BY <2>1, LeastOfNats
    <2>3. k \in j .. Len(s) /\ ~(k - j + 1 <= Len(u) /\ u[k - j + 1] = s[k])
        OBVIOUS
    <2>4. k # j
        BY <2>3, <1>1
    <2>5. k - 1 \in j .. Len(s) /\ k - 1 \in 1 .. Len(s) - 1 /\ (k - 1) + 1 = k
          /\ k \in 1 .. Len(s) /\ (k - 1) - j + 1 = k - j /\ k - j \in Nat \ {0}
          /\ k - j + 1 <= Cardinality(Clusters)
        BY <2>3, <2>4, <1>1
    <2>6. k - 1 \notin bad
        <3> HIDE DEF bad
        <3> QED BY <2>1, <2>2, <2>5, <1>1
    <2>7. k - j <= Len(u) /\ u[k - j] = s[k - 1]
        BY <2>5, <2>6
    <2>8. s[k] = f[s[k - 1]] /\ s[k] \in Clusters
        <3>1. s[(k - 1) + 1] = f[s[k - 1]]
            BY <2>5, <1>1
        <3> QED BY <3>1, <2>5, <1>1
    <2>9. k - j # Len(u)
        BY <2>5, <2>7, <2>8, <1>1, SMTT(30)
    <2>10. k - j \in 1 .. Len(u) - 1 /\ k - j + 1 <= Len(u)
        <3>1. Len(u) \in Nat
            BY <1>1
        <3>2. \A x, y \in Nat : x # 0 /\ x <= y /\ x # y => x \in 1 .. y - 1 /\ x + 1 <= y
            OBVIOUS
        <3> QED BY <3>1, <3>2, <2>5, <2>7, <2>9
    <2> QED BY <2>3, <2>7, <2>8, <2>10, <1>1
<1>3. i - j + 1 <= Len(u) /\ u[i - j + 1] = s[i] /\ i - j + 1 \in Nat \ {0}
    <2>1. i \in j .. Len(s) /\ i \notin bad
        BY <1>1, <1>2
    <2>2. i - j + 1 <= Len(u) /\ u[i - j + 1] = s[i]
        BY <2>1
    <2>3. \A y, z \in Nat : y <= z => z - y + 1 \in Nat \ {0}
        OBVIOUS
    <2>4. i \in Nat /\ j \in Nat /\ j <= i
        BY <1>1
    <2> QED BY <2>2, <2>3, <2>4
<1>4. i - j + 1 \in 1 .. Len(u)
    BY <1>3, <1>1
<1> QED BY <1>3, <1>4 DEF s, u

\* What a chain has behind its k-th cluster.
Rest(f, a, k) == {Chain(f, a)[i] : i \in k + 1 .. Len(Chain(f, a))}

\* What is no longer on a chain was behind a cluster whose entry has changed.
LEMMA ChainKept ==
    ASSUME NEW f, NEW g, NEW a \in Clusters, NEW W, \A x \in Clusters \ W : g[x] = f[x],
           NEW x \in Range(Chain(f, a))
    PROVE  \/ x \in Range(Chain(g, a))
           \/ \E b \in W : b \in Range(Chain(f, a)) /\ x \in Rest(f, b, 1)
<1> DEFINE s == Chain(f, a)
           u == Chain(g, a)
<1>1. /\ DOMAIN s = 1 .. Len(s) /\ DOMAIN u = 1 .. Len(u)
      /\ Len(s) \in Nat /\ Len(u) \in Nat
    BY ChainShape, Constants
<1>2. PICK i \in 1 .. Len(s) : x = s[i]
    BY <1>1 DEF Range
<1>3. CASE \A j \in 1 .. i - 1 : s[j] \notin W
    <2>1. i <= Len(u) /\ \A j \in 1 .. i : u[j] = s[j]
        BY <1>2, <1>3, ChainBefore
    <2> HIDE DEF s, u
    <2>2. i \in DOMAIN u /\ u[i] = s[i]
        BY <2>1, <1>1, <1>2
    <2> QED BY <2>2, <1>2 DEF Range, u
<1>4. ASSUME NEW j \in 1 .. i - 1, s[j] \in W
      PROVE  \E b \in W : b \in Range(Chain(f, a)) /\ x \in Rest(f, b, 1)
    <2>1. j \in 1 .. Len(s) /\ i \in j .. Len(s)
        BY <1>1, <1>2, <1>4
    <2>2. LET w == Chain(f, s[j]) IN i - j + 1 \in 1 .. Len(w) /\ w[i - j + 1] = s[i]
        BY <2>1, ChainFrom
    <2>5. s[j] \in Range(s)
        BY <2>1, <1>1 DEF Range
    <2> DEFINE b == s[j]
    <2>3. i - j + 1 \in 1 .. Len(Chain(f, b)) /\ Chain(f, b)[i - j + 1] = x
        BY <2>2, <1>2
    <2> HIDE DEF b
    <2>4. i - j + 1 \in 1 + 1 .. Len(Chain(f, b))
        BY <2>1, <2>3, <1>4, <1>1
    <2>6. x \in Rest(f, b, 1)
        BY <2>3, <2>4 DEF Rest
    <2> QED BY <2>5, <2>6, <1>4 DEF b
<1> QED BY <1>3, <1>4

\* What is behind a cluster after a write: what was there, and what was linked.
LEMMA RestWritten ==
    ASSUME NEW f, NEW g, NEW a \in Clusters, NEW b, NEW v, Becomes(f, g, b, v),
           v \in Clusters => f[v] \notin Clusters /\ v # b, NEW k \in Nat
    PROVE  \A x \in Rest(g, a, k) : x \in Rest(f, a, k) \/ (x = v /\ v \in Clusters)
<1> DEFINE s == Chain(f, a)
           u == Chain(g, a)
<1>1. Len(s) \in Nat /\ Len(u) \in Nat
    BY ChainShape, Constants
<1>2. \A i \in 1 .. Len(u) : (i <= Len(s) /\ u[i] = s[i]) \/ (u[i] = v /\ v \in Clusters)
    BY ChainWritten
<1>3. ASSUME NEW i \in k + 1 .. Len(u)
      PROVE  (\E j \in k + 1 .. Len(s) : u[i] = s[j]) \/ (u[i] = v /\ v \in Clusters)
    <2> HIDE DEF s, u
    <2>1. i \in 1 .. Len(u) /\ (i <= Len(s) => i \in k + 1 .. Len(s))
        BY <1>1
    <2> QED BY <2>1, <1>2
<1> QED BY <1>3 DEF Rest

LEMMA RangeRest ==
    ASSUME NEW f, NEW a \in Clusters
    PROVE  Range(Chain(f, a)) = {a} \cup Rest(f, a, 1)
<1> DEFINE s == Chain(f, a)
<1>1. DOMAIN s = 1 .. Len(s) /\ Len(s) \in Nat \ {0} /\ s[1] = a
    BY ChainShape, Constants
<1> HIDE DEF s
<1>2. \A i \in 1 .. Len(s) : i = 1 \/ i \in 1 + 1 .. Len(s)
    BY <1>1
<1>3. \A i \in 1 + 1 .. Len(s) : i \in 1 .. Len(s)
    BY <1>1
<1>4. Range(s) = {s[i] : i \in 1 .. Len(s)} /\ 1 \in 1 .. Len(s)
    BY <1>1 DEF Range
<1>5. Rest(f, a, 1) = {s[i] : i \in 1 + 1 .. Len(s)}
    BY DEF Rest, s
<1>6. Range(s) = {a} \cup Rest(f, a, 1)
    BY <1>1, <1>2, <1>3, <1>4, <1>5
<1> QED BY <1>6 DEF s

LEMMA RestLess ==
    ASSUME NEW f, NEW a \in Clusters, NEW k \in Nat, NEW m \in Nat, k <= m
    PROVE  Rest(f, a, m) \subseteq Rest(f, a, k)
<1> DEFINE n == Len(Chain(f, a))
<1>1. n \in Nat
    BY ChainShape, Constants
<1> HIDE DEF n
<1>2. \A i \in m + 1 .. n : i \in k + 1 .. n
    BY <1>1
<1> QED BY <1>2 DEF Rest, n

\* While every cluster is linked to once, a chain goes on where the table does.
LEMMA ChainNext ==
    ASSUME NEW f, NEW a \in Clusters, Linked(f), Unled(f, a),
           NEW k \in 1 .. Len(Chain(f, a)), f[Chain(f, a)[k]] \in Clusters
    PROVE  k + 1 \in 1 .. Len(Chain(f, a)) /\ Chain(f, a)[k + 1] = f[Chain(f, a)[k]]
<1> DEFINE s == Chain(f, a)
           v == f[s[k]]
<1>1. /\ DOMAIN s = 1 .. Len(s) /\ Len(s) \in Nat \ {0} /\ Len(s) <= Cardinality(Clusters)
      /\ s[1] = a /\ \A i \in 1 .. Len(s) - 1 : s[i + 1] = f[s[i]]
      /\ Len(s) < Cardinality(Clusters) => f[s[Len(s)]] \notin Clusters
      /\ Cardinality(Clusters) \in Nat
      /\ \A i \in 1 .. Len(s) : s[i] \in Clusters
    BY ChainFacts
<1>2. \A i, j \in 1 .. Len(s) : s[i] = s[j] => i = j
    BY ChainDistinct
<1>3. k \in 1 .. Len(s) /\ f[s[k]] \in Clusters
    OBVIOUS
<1> HIDE DEF s
<1>4. k # Len(s)
    <2> SUFFICES ASSUME k = Len(s) PROVE FALSE
        OBVIOUS
    <2>1. Len(s) = Cardinality(Clusters)
        BY <1>1, <1>3
    <2>2. ASSUME v \notin Range(s) PROVE FALSE
        <3>1. \A i \in 1 .. Len(s) : s[i] \in Clusters \ {v}
            BY <1>1, <2>2 DEF Range
        <3>2. s \in [1 .. Len(s) -> Clusters \ {v}]
            <4>1. s = [i \in 1 .. Len(s) |-> s[i]]
                BY ChainFacts DEF s
            <4> HIDE DEF v
            <4> QED BY <4>1, <3>1
        <3>3. s \in Injection(1 .. Len(s), Clusters \ {v})
            <4> HIDE DEF v
            <4> QED BY <1>2, <3>2 DEF Injection, IsInjective
        <3>4. IsFiniteSet(Clusters \ {v}) /\ Cardinality(Clusters \ {v}) = Cardinality(Clusters) - 1
            BY <1>3, Constants, FS_RemoveElement
        <3>5. Cardinality(1 .. Len(s)) <= Cardinality(Clusters \ {v})
            <4> HIDE DEF v
            <4> QED BY <3>3, <3>4, FS_Injection
        <3>6. Cardinality(1 .. Len(s)) = Len(s)
            <4> DEFINE n == Len(s)
            <4>1. n \in Int /\ 1 \in Int /\ 1 <= n /\ n - 1 + 1 = n
                BY <1>1
            <4> HIDE DEF n
            <4>2. Cardinality(1 .. n) = n
                BY <4>1, FS_Interval
            <4> QED BY <4>2 DEF n
        <3> QED BY <3>4, <3>5, <3>6, <2>1, <1>1
    <2>3. PICK j \in 1 .. Len(s) : s[j] = v
        BY <2>2, <1>1 DEF Range
    <2>4. j # 1
        BY <2>3, <1>1, <1>3 DEF Unled
    <2>5. j - 1 \in 1 .. Len(s) - 1 /\ j - 1 \in 1 .. Len(s) /\ (j - 1) + 1 = j
          /\ j - 1 # Len(s)
        BY <2>3, <2>4, <1>1
    <2>6. f[s[j - 1]] = v
        <3>1. s[(j - 1) + 1] = f[s[j - 1]]
            BY <2>5, <1>1
        <3> QED BY <3>1, <2>5, <2>3
    <2>7. s[j - 1] = s[k]
        <3>1. s[j - 1] \in Clusters /\ s[k] \in Clusters
            BY <2>5, <1>1, <1>3
        <3> QED BY <3>1, <2>6, <1>3 DEF Linked
    <2> QED BY <2>5, <2>7, <1>2, <1>3
<1>5. k \in 1 .. Len(s) - 1 /\ k + 1 \in 1 .. Len(s)
    <2>1. Len(s) \in Nat
        BY <1>1
    <2>2. \A n \in Nat : \A i \in 1 .. n : i # n => i \in 1 .. n - 1 /\ i + 1 \in 1 .. n
        OBVIOUS
    <2> QED BY <2>1, <2>2, <1>3, <1>4
<1> QED BY <1>1, <1>5 DEF s

\* The chain of a cluster of such a chain is the rest of it.
LEMMA RestOfMember ==
    ASSUME NEW f, NEW a \in Clusters, Linked(f), Unled(f, a),
           NEW j \in 1 .. Len(Chain(f, a))
    PROVE  Rest(f, Chain(f, a)[j], 1) \subseteq Rest(f, a, j)
<1> DEFINE s == Chain(f, a)
           b == s[j]
           u == Chain(f, b)
           bad == {i \in 1 .. Len(u) : ~(j + i - 1 <= Len(s) /\ s[j + i - 1] = u[i])}
<1>1. Len(s) \in Nat \ {0} /\ b \in Clusters
    BY ChainFacts
<1>2. \A k \in 1 .. Len(s) :
          f[s[k]] \in Clusters => k + 1 \in 1 .. Len(s) /\ s[k + 1] = f[s[k]]
    BY ChainNext
<1>3. j \in 1 .. Len(s) /\ s[j] = b
    OBVIOUS
<1> HIDE DEF s, b
<1>4. /\ Len(u) \in Nat \ {0} /\ u[1] = b
      /\ \A i \in 1 .. Len(u) - 1 : u[i + 1] = f[u[i]]
      /\ \A i \in 1 .. Len(u) : u[i] \in Clusters
    BY <1>1, ChainFacts
<1> HIDE DEF u
<1>5. bad = {}
    <2> SUFFICES ASSUME bad # {} PROVE FALSE
        OBVIOUS
    <2>1. bad \subseteq Nat
        BY <1>4
    <2>2. PICK i \in bad : \A m \in bad : i <= m
        <3> HIDE DEF bad
        <3> QED BY <2>1, LeastOfNats
    <2>3. i \in 1 .. Len(u) /\ ~(j + i - 1 <= Len(s) /\ s[j + i - 1] = u[i])
        OBVIOUS
    <2>4. i # 1
        BY <2>3, <1>1, <1>3, <1>4
    <2>5. i - 1 \in 1 .. Len(u) - 1 /\ i - 1 \in 1 .. Len(u) /\ (i - 1) + 1 = i
          /\ j + (i - 1) - 1 \in Nat /\ (j + (i - 1) - 1) + 1 = j + i - 1
          /\ j + (i - 1) - 1 >= 1
        BY <2>3, <2>4, <1>3, <1>4, <1>1
    <2>6. i - 1 \notin bad
        <3> HIDE DEF bad
        <3> QED BY <2>1, <2>2, <2>5
    <2> DEFINE m == j + (i - 1) - 1
    <2>7. m <= Len(s) /\ s[m] = u[i - 1] /\ m \in 1 .. Len(s)
        BY <2>5, <2>6, <1>1
    <2>8. u[i] = f[u[i - 1]] /\ u[i] \in Clusters
        <3>1. u[(i - 1) + 1] = f[u[i - 1]]
            BY <2>5, <1>4
        <3> QED BY <3>1, <2>3, <2>5, <1>4
    <2>10. m + 1 = j + i - 1
        BY <2>5
    <2> HIDE DEF m
    <2>9. m + 1 \in 1 .. Len(s) /\ s[m + 1] = u[i]
        BY <2>7, <2>8, <1>2
    <2> QED BY <2>3, <2>9, <2>10, <1>1
<1>6. ASSUME NEW i \in 1 + 1 .. Len(u) PROVE j + i - 1 \in j + 1 .. Len(s) /\ s[j + i - 1] = u[i]
    <2>1. i \in 1 .. Len(u) /\ i \in Nat
        BY <1>4
    <2>2. j + i - 1 <= Len(s) /\ s[j + i - 1] = u[i]
        BY <2>1, <1>5
    <2> QED BY <2>1, <2>2, <1>1, <1>3
<1>7. \A i \in 1 + 1 .. Len(u) : \E k \in j + 1 .. Len(s) : u[i] = s[k]
    BY <1>6
<1> QED BY <1>7 DEF Rest, s, b, u

\* What is behind a cluster of a chain is in use.
LEMMA RestUsed ==
    ASSUME NEW f, NEW a \in Clusters, NEW k \in Nat \ {0}, Linked(f)
    PROVE  \A x \in Rest(f, a, k) : x \in Clusters /\ f[x] # Free
<1> DEFINE s == Chain(f, a)
<1>1. /\ Len(s) \in Nat \ {0}
      /\ \A i \in 1 .. Len(s) - 1 : s[i + 1] = f[s[i]]
      /\ \A i \in 1 .. Len(s) : s[i] \in Clusters
    BY ChainFacts
<1> HIDE DEF s
<1>2. ASSUME NEW i \in k + 1 .. Len(s) PROVE s[i] \in Clusters /\ f[s[i]] # Free
    <2>1. i \in 1 .. Len(s) /\ i - 1 \in 1 .. Len(s) - 1 /\ i - 1 \in 1 .. Len(s)
          /\ (i - 1) + 1 = i
        BY <1>1
    <2>2. s[(i - 1) + 1] = f[s[i - 1]]
        BY <2>1, <1>1
    <2>3. s[i] = f[s[i - 1]] /\ s[i - 1] \in Clusters /\ s[i] \in Clusters
        BY <2>1, <2>2, <1>1
    <2> QED BY <2>3 DEF Linked
<1> QED BY <1>2 DEF Rest, s

\* Nothing is behind a cluster that leads nowhere.
LEMMA RestNone ==
    ASSUME NEW f, NEW a \in Clusters, f[a] \notin Clusters
    PROVE  /\ Len(Chain(f, a)) = 1 /\ Range(Chain(f, a)) = {a}
           /\ \A k \in Nat \ {0} : Rest(f, a, k) = {}
<1> DEFINE s == Chain(f, a)
<1>1. /\ Len(s) \in Nat \ {0} /\ s[1] = a /\ DOMAIN s = 1 .. Len(s)
      /\ \A i \in 1 .. Len(s) - 1 : s[i + 1] = f[s[i]]
      /\ \A i \in 1 .. Len(s) : s[i] \in Clusters
    BY ChainFacts
<1> HIDE DEF s
<1>2. Len(s) = 1
    <2> SUFFICES ASSUME Len(s) # 1 PROVE FALSE
        OBVIOUS
    <2>1. 1 \in 1 .. Len(s) - 1 /\ 1 + 1 \in 1 .. Len(s)
        BY <1>1
    <2> QED BY <2>1, <1>1
<1>3. Range(s) = {a}
    BY <1>1, <1>2 DEF Range
<1>4. \A k \in Nat \ {0} : k + 1 .. Len(s) = {}
    BY <1>2
<1> QED BY <1>2, <1>3, <1>4 DEF Rest, s

-----------------------------------------------------------------------------
(* In the middle of a call *)

\* The clusters of a file that its size says nothing of.
Used(e)    == IF e.size = 0 THEN 1 ELSE e.size
Past(f, e) == Rest(f, e.cluster, Used(e))

Reached(f, d, x) ==
    \/ x \in Range(Chain(f, Root))
    \/ \E s \in DOMAIN d : x \in Range(Chain(f, d[s].cluster))

\* A cluster in use that no chain reaches is one of K.
Covered(f, d, K) == \A x \in Clusters : f[x] # Free => Reached(f, d, x) \/ x \in K

\* Some entry of cluster c is not cleared by T.
Stays(d, T, c) == \E s \in DOMAIN d : d[s].cluster = c /\ ~Cleared(T, s)

\* What the writes T do to the table unlinks clusters of K only, and leaves
\* none in use that is not one of them.
TableHeld(f, d, K, T) ==
    \A k \in DOMAIN T : T[k].on = "fat" =>
        /\ Rest(f, T[k].at, 1) \subseteq K
        /\ Links(T[k]) => T[k].value \in K
        /\ ~Frees(T[k]) =>
             \/ T[k].at \in K
             \/ Stays(d, T, T[k].at)
             \/ f[T[k].at] # Free /\ \A j \in DOMAIN T : Frees(T[j]) => T[j].at # T[k].at

\* So does what they do to the directory.
DirHeld(f, d, K, T) ==
    \A k \in DOMAIN T :
        /\ Enters(T[k]) => Past(f, T[k].value) \subseteq K
        /\ Clears(T[k]) /\ T[k].at \in DOMAIN d =>
             \/ Range(Chain(f, d[T[k].at].cluster)) \subseteq K
             \/ Stays(d, T, d[T[k].at].cluster)
             \/ \E j \in DOMAIN T :
                  /\ j < k /\ Enters(T[j]) /\ Firm(T[j])
                  /\ T[j].value.cluster = d[T[k].at].cluster

\* What an entry, or an open file, does not say it has is in K.
EntriesHeld(f, d, t, K) ==
    \A s \in DOMAIN d : d[s].name \notin t => Past(f, d[s]) \subseteq K
OpenHeld(f, o, K) == \A n \in DOMAIN o : Past(f, o[n]) \subseteq K
OwnHeld(f, c, K, T) ==
    c.op \in {"open", "write"} /\ ~c.failed =>
        (\E k \in DOMAIN T : T[k].on = "nowhere") \/ Past(f, c) \subseteq K

Losses(f, d, o, c, t, K, T) ==
    /\ Covered(f, d, K)
    /\ TableHeld(f, d, K, T)
    /\ DirHeld(f, d, K, T)
    /\ EntriesHeld(f, d, t, K)
    /\ OpenHeld(f, o, K)
    /\ OwnHeld(f, c, K, T)

\* Sizes are counts, and files have clusters.
Sized(o, c) ==
    /\ \A n \in DOMAIN o : o[n].cluster \in Clusters /\ o[n].size \in Nat
    /\ c.op \in {"open", "write"} /\ ~c.failed => c.cluster \in Clusters /\ c.size \in Nat

LEMMA UsedShape ==
    ASSUME NEW e, e.size \in Nat
    PROVE  Used(e) \in Nat \ {0}
BY DEF Used

LEMMA EntrySized ==
    ASSUME NEW e \in Entry
    PROVE  e.cluster \in Clusters /\ e.size \in Nat
BY BoundAssumption DEF Entry

LEMMA StaysNext ==
    ASSUME NEW d, NEW T, NEW U, Follows(T, U), NEW c, Stays(d, T, c)
    PROVE  Stays(d, U, c)
<1>1. PICK s \in DOMAIN d : d[s].cluster = c /\ ~Cleared(T, s)
    BY DEF Stays
<1>2. ~Cleared(U, s)
    BY <1>1, EarlierWrites DEF Cleared
<1> QED BY <1>1, <1>2 DEF Stays

\* A write of the table lands.
LEMMA TableLands ==
    ASSUME NEW f, NEW g, NEW d, NEW o, NEW c, NEW t, NEW K, NEW T, NEW U, Follows(T, U),
           Typed(f, d, T), Sized(o, c), T[1].on = "fat",
           Becomes(f, g, T[1].at, T[1].value),
           T[1].value \in Clusters => f[T[1].value] \notin Clusters /\ T[1].value # T[1].at,
           Losses(f, d, o, c, t, K, T)
    PROVE  Losses(g, d, o, c, t, K, U)
<1> DEFINE b == T[1].at
           v == T[1].value
<1>1. /\ 1 \in DOMAIN T /\ T[1] \in DeviceWrites
      /\ \A k \in DOMAIN U : k + 1 \in DOMAIN T /\ U[k] = T[k + 1] /\ k + 1 # 1 /\ k \in Nat
      /\ \A j \in DOMAIN T : j # 1 => j - 1 \in DOMAIN U /\ U[j - 1] = T[j] /\ (j - 1) + 1 = j
    BY EarlierWrites DEF Typed, Follows
<1>2. /\ b \in Clusters /\ (Marks(T[1]) \/ Frees(T[1]) \/ Links(T[1])) /\ v \in Values
      /\ v \in Clusters => Links(T[1])
    BY <1>1, WriteShape DEF Links
<1>3. Rest(f, b, 1) \subseteq K /\ (v \in Clusters => v \in K)
    BY <1>1, <1>2 DEF Losses, TableHeld
<1>4. ASSUME NEW a \in Clusters, NEW k \in Nat, Rest(f, a, k) \subseteq K
      PROVE  Rest(g, a, k) \subseteq K
    BY <1>3, <1>4, RestWritten
<1>5. ASSUME NEW e, e.cluster \in Clusters, e.size \in Nat, Past(f, e) \subseteq K
      PROVE  Past(g, e) \subseteq K
    <2>1. Used(e) \in Nat
        BY <1>5, UsedShape
    <2> QED BY <2>1, <1>4, <1>5 DEF Past
<1>6. ASSUME NEW a \in Clusters, Range(Chain(f, a)) \subseteq K
      PROVE  Range(Chain(g, a)) \subseteq K
    <2>1. Rest(f, a, 1) \subseteq K /\ a \in K
        BY <1>6, RangeRest
    <2>2. Rest(g, a, 1) \subseteq K
        BY <2>1, <1>4
    <2> QED BY <2>1, <2>2, RangeRest
<1>7. /\ \A s \in DOMAIN d : d[s].cluster \in Clusters /\ d[s].size \in Nat
      /\ \A k \in DOMAIN T : T[k].on = "fat" => T[k].at \in Clusters
      /\ \A k \in DOMAIN T :
            Enters(T[k]) => T[k].value.cluster \in Clusters /\ T[k].value.size \in Nat
    BY WriteShape, EntrySized DEF Typed
<1>8. Root \in Clusters
    BY Constants
<1>9. ASSUME NEW x \in Clusters, Reached(f, d, x) PROVE Reached(g, d, x) \/ x \in K
    <2>1. PICK a \in Clusters : /\ x \in Range(Chain(f, a))
                                /\ a = Root \/ \E s \in DOMAIN d : a = d[s].cluster
        BY <1>7, <1>8, <1>9 DEF Reached
    <2>2. \A y \in Clusters \ {b} : g[y] = f[y]
        BY DEF Becomes
    <2> DEFINE W == {b}
    <2>4. \A y \in W : y = b
        OBVIOUS
    <2> HIDE DEF W
    <2>5. \A y \in Clusters \ W : g[y] = f[y]
        BY <2>2 DEF W
    <2>6. x \in Range(Chain(g, a)) \/ \E y \in W : y \in Range(Chain(f, a)) /\ x \in Rest(f, y, 1)
        BY <2>1, <2>5, ChainKept
    <2>3. x \in Range(Chain(g, a)) \/ x \in Rest(f, b, 1)
        BY <2>4, <2>6
    <2> QED BY <1>3, <2>1, <2>3 DEF Reached
<1>10. ASSUME NEW x \in Clusters, Stays(d, T, x) PROVE Reached(g, d, x)
    BY <1>10, RangeRest DEF Stays, Reached
<1>11. Covered(g, d, K)
    <2> SUFFICES ASSUME NEW x \in Clusters, g[x] # Free PROVE Reached(g, d, x) \/ x \in K
        BY DEF Covered
    <2>1. CASE f[x] # Free
        BY <2>1, <1>9 DEF Covered, Losses
    <2>2. CASE f[x] = Free
        <3>1. x = b /\ ~Frees(T[1])
            BY <2>2 DEF Becomes, Frees
        <3>2. b \in K \/ Stays(d, T, b)
            BY <1>1, <2>2, <3>1 DEF Losses, TableHeld
        <3> QED BY <3>1, <3>2, <1>10
    <2> QED BY <2>1, <2>2
<1>12. TableHeld(g, d, K, U)
    <2> SUFFICES ASSUME NEW k \in DOMAIN U, U[k].on = "fat"
                 PROVE  /\ Rest(g, U[k].at, 1) \subseteq K
                        /\ Links(U[k]) => U[k].value \in K
                        /\ ~Frees(U[k]) =>
                             \/ U[k].at \in K
                             \/ Stays(d, U, U[k].at)
                             \/ g[U[k].at] # Free
                                /\ \A j \in DOMAIN U : Frees(U[j]) => U[j].at # U[k].at
        BY DEF TableHeld
    <2> DEFINE w == U[k]
    <2>1. k + 1 \in DOMAIN T /\ T[k + 1] = w
        BY <1>1
    <2> HIDE DEF w
    <2>2. w.at \in Clusters /\ w.on = "fat"
        BY <2>1, <1>7 DEF w
    <2>3. Rest(f, w.at, 1) \subseteq K /\ (Links(w) => w.value \in K)
          /\ (~Frees(w) => \/ w.at \in K
                           \/ Stays(d, T, w.at)
                           \/ f[w.at] # Free /\ \A j \in DOMAIN T : Frees(T[j]) => T[j].at # w.at)
        BY <2>1, <2>2 DEF Losses, TableHeld
    <2>4. Rest(g, w.at, 1) \subseteq K
        BY <2>2, <2>3, <1>4
    <2>5. ASSUME f[w.at] # Free, \A j \in DOMAIN T : Frees(T[j]) => T[j].at # w.at
          PROVE  g[w.at] # Free /\ \A j \in DOMAIN U : Frees(U[j]) => U[j].at # w.at
        <3>1. w.at = b => ~Frees(T[1])
            BY <2>5, <1>1
        <3>2. g[w.at] # Free
            BY <2>2, <2>5, <3>1 DEF Becomes, Frees
        <3> QED BY <3>2, <2>5, <1>1
    <2> QED BY <2>3, <2>4, <2>5, StaysNext DEF w
<1>13. DirHeld(g, d, K, U)
    <2> SUFFICES ASSUME NEW k \in DOMAIN U
                 PROVE  /\ Enters(U[k]) => Past(g, U[k].value) \subseteq K
                        /\ Clears(U[k]) /\ U[k].at \in DOMAIN d =>
                             \/ Range(Chain(g, d[U[k].at].cluster)) \subseteq K
                             \/ Stays(d, U, d[U[k].at].cluster)
                             \/ \E j \in DOMAIN U :
                                  /\ j < k /\ Enters(U[j]) /\ Firm(U[j])
                                  /\ U[j].value.cluster = d[U[k].at].cluster
        BY DEF DirHeld
    <2> DEFINE w == U[k]
    <2>1. k + 1 \in DOMAIN T /\ T[k + 1] = w /\ k \in Nat
        BY <1>1
    <2> HIDE DEF w
    <2>2. Enters(w) => Past(g, w.value) \subseteq K
        BY <2>1, <1>5, <1>7 DEF Losses, DirHeld
    <2>3. ASSUME Clears(w), w.at \in DOMAIN d
          PROVE  \/ Range(Chain(g, d[w.at].cluster)) \subseteq K
                 \/ Stays(d, U, d[w.at].cluster)
                 \/ \E j \in DOMAIN U :
                      /\ j < k /\ Enters(U[j]) /\ Firm(U[j])
                      /\ U[j].value.cluster = d[w.at].cluster
        <3>1. CASE Range(Chain(f, d[w.at].cluster)) \subseteq K
            BY <3>1, <2>3, <1>6, <1>7
        <3>2. CASE Stays(d, T, d[w.at].cluster)
            BY <3>2, StaysNext
        <3>3. ASSUME NEW j \in DOMAIN T, j < k + 1, Enters(T[j]), Firm(T[j]),
                     T[j].value.cluster = d[w.at].cluster
              PROVE  \E i \in DOMAIN U :
                       /\ i < k /\ Enters(U[i]) /\ Firm(U[i])
                       /\ U[i].value.cluster = d[w.at].cluster
            <4>1. j # 1
                BY <3>3, Kinds, <1>2
            <4>2. j - 1 \in DOMAIN U /\ U[j - 1] = T[j] /\ j \in Nat
                BY <4>1, <1>1 DEF Follows
            <4>3. j - 1 < k
                BY <4>2, <3>3, <2>1
            <4> QED BY <4>2, <4>3, <3>3
        <3> QED BY <3>1, <3>2, <3>3, <2>1, <2>3 DEF Losses, DirHeld
    <2> QED BY <2>2, <2>3 DEF w
<1>14. EntriesHeld(g, d, t, K)
    BY <1>5, <1>7 DEF Losses, EntriesHeld
<1>15. OpenHeld(g, o, K)
    BY <1>5 DEF Losses, OpenHeld, Sized
<1>16. OwnHeld(g, c, K, U)
    <2> SUFFICES ASSUME c.op \in {"open", "write"}, ~c.failed
                 PROVE  (\E k \in DOMAIN U : U[k].on = "nowhere") \/ Past(g, c) \subseteq K
        BY DEF OwnHeld
    <2>1. (\E k \in DOMAIN T : T[k].on = "nowhere") \/ Past(f, c) \subseteq K
        BY DEF Losses, OwnHeld
    <2>2. CASE \E k \in DOMAIN T : T[k].on = "nowhere"
        BY <2>2, EarlierWrites
    <2>3. CASE Past(f, c) \subseteq K
        BY <2>3, <1>5 DEF Sized
    <2> QED BY <2>1, <2>2, <2>3
<1> QED BY <1>11, <1>12, <1>13, <1>14, <1>15, <1>16 DEF Losses

\* A write that is not of the table does what it does to all but the directory.
LEMMA SameTable ==
    ASSUME NEW f, NEW d, NEW e, NEW o, NEW c, NEW t, NEW K, NEW T, NEW U, Follows(T, U),
           T[1].on # "nowhere",
           \A a : Stays(d, T, a) => Stays(e, U, a),
           Losses(f, d, o, c, t, K, T)
    PROVE  TableHeld(f, e, K, U) /\ OpenHeld(f, o, K) /\ OwnHeld(f, c, K, U)
<1>1. /\ 1 \in DOMAIN T
      /\ \A k \in DOMAIN U : k + 1 \in DOMAIN T /\ U[k] = T[k + 1]
      /\ \A k \in DOMAIN T : T[k] = T[1] \/ \E i \in DOMAIN U : U[i] = T[k]
    BY EarlierWrites DEF Follows
<1>2. TableHeld(f, e, K, U)
    BY <1>1 DEF TableHeld, Losses
<1>3. OwnHeld(f, c, K, U)
    BY <1>1 DEF OwnHeld, Losses
<1> QED BY <1>2, <1>3 DEF Losses

\* An entry is written.
LEMMA EntryLands ==
    ASSUME NEW f, NEW d, NEW e, NEW o, NEW c, NEW t, NEW K, NEW T, NEW U, Follows(T, U),
           Enters(T[1]), Puts(d, e, T[1].at, T[1].value),
           T[1].at \in DOMAIN d => d[T[1].at].cluster = T[1].value.cluster,
           \A k \in DOMAIN T : Clears(T[k]) => T[k].at # T[1].at,
           Losses(f, d, o, c, t, K, T)
    PROVE  Losses(f, e, o, c, t, K, U)
<1> DEFINE s == T[1].at
           v == T[1].value
<1>1. /\ 1 \in DOMAIN T /\ T[1].on # "nowhere"
      /\ \A k \in DOMAIN U : k + 1 \in DOMAIN T /\ U[k] = T[k + 1] /\ k \in Nat
      /\ \A j \in DOMAIN T : j # 1 => j - 1 \in DOMAIN U /\ U[j - 1] = T[j] /\ j \in Nat
    BY EarlierWrites, Kinds DEF Follows
<1>2. /\ DOMAIN e = DOMAIN d \cup {s} /\ e[s] = v /\ \A u \in DOMAIN d : u # s => e[u] = d[u]
      /\ \A u \in DOMAIN d : e[u].cluster = d[u].cluster
    BY DEF Puts
<1>3. ~Cleared(T, s) /\ ~Cleared(U, s)
    BY <1>1 DEF Cleared
<1>4. ASSUME NEW a, Stays(d, T, a) PROVE Stays(e, U, a)
    <2>1. Stays(d, U, a)
        BY <1>4, StaysNext
    <2> QED BY <2>1, <1>2 DEF Stays
<1>5. TableHeld(f, e, K, U) /\ OpenHeld(f, o, K) /\ OwnHeld(f, c, K, U)
    BY <1>1, <1>4, SameTable
<1>6. Covered(f, e, K)
    BY <1>2 DEF Covered, Losses, Reached
<1>7. Past(f, v) \subseteq K
    BY <1>1 DEF Losses, DirHeld
<1>8. EntriesHeld(f, e, t, K)
    BY <1>2, <1>7 DEF Losses, EntriesHeld
<1>9. Stays(e, U, v.cluster)
    BY <1>2, <1>3 DEF Stays
<1>10. DirHeld(f, e, K, U)
    <2> SUFFICES ASSUME NEW k \in DOMAIN U
                 PROVE  /\ Enters(U[k]) => Past(f, U[k].value) \subseteq K
                        /\ Clears(U[k]) /\ U[k].at \in DOMAIN e =>
                             \/ Range(Chain(f, e[U[k].at].cluster)) \subseteq K
                             \/ Stays(e, U, e[U[k].at].cluster)
                             \/ \E j \in DOMAIN U :
                                  /\ j < k /\ Enters(U[j]) /\ Firm(U[j])
                                  /\ U[j].value.cluster = e[U[k].at].cluster
        BY DEF DirHeld
    <2> DEFINE w == U[k]
    <2>1. k + 1 \in DOMAIN T /\ T[k + 1] = w /\ k \in Nat
        BY <1>1
    <2> HIDE DEF w
    <2>2. Enters(w) => Past(f, w.value) \subseteq K
        BY <2>1 DEF Losses, DirHeld
    <2>3. ASSUME Clears(w), w.at \in DOMAIN e
          PROVE  \/ Range(Chain(f, e[w.at].cluster)) \subseteq K
                 \/ Stays(e, U, e[w.at].cluster)
                 \/ \E j \in DOMAIN U :
                      /\ j < k /\ Enters(U[j]) /\ Firm(U[j])
                      /\ U[j].value.cluster = e[w.at].cluster
        <3>1. w.at \in DOMAIN d /\ e[w.at].cluster = d[w.at].cluster
            BY <2>1, <2>3, <1>2
        <3>2. CASE Stays(d, T, d[w.at].cluster)
            BY <3>1, <3>2, <1>4
        <3>3. ASSUME NEW j \in DOMAIN T, j < k + 1, Enters(T[j]), Firm(T[j]),
                     T[j].value.cluster = d[w.at].cluster
              PROVE  \/ Stays(e, U, e[w.at].cluster)
                     \/ \E i \in DOMAIN U :
                          /\ i < k /\ Enters(U[i]) /\ Firm(U[i])
                          /\ U[i].value.cluster = e[w.at].cluster
            <4>1. CASE j = 1
                BY <4>1, <3>1, <3>3, <1>9
            <4>2. CASE j # 1
                <5>1. j - 1 \in DOMAIN U /\ U[j - 1] = T[j] /\ j \in Nat
                    BY <4>2, <1>1
                <5>2. j - 1 < k
                    BY <5>1, <3>3, <2>1
                <5> QED BY <5>1, <5>2, <3>1, <3>3
            <4> QED BY <4>1, <4>2
        <3> QED BY <3>1, <3>2, <3>3, <2>1, <2>3 DEF Losses, DirHeld
    <2> QED BY <2>2, <2>3 DEF w
<1> QED BY <1>5, <1>6, <1>8, <1>10 DEF Losses

\* An entry is cleared.
LEMMA ClearLands ==
    ASSUME NEW f, NEW d, NEW e, NEW o, NEW c, NEW t, NEW K, NEW T, NEW U, Follows(T, U),
           Clears(T[1]), Takes(d, e, T[1].at), Losses(f, d, o, c, t, K, T)
    PROVE  Losses(f, e, o, c, t, K, U)
<1> DEFINE s == T[1].at
<1>1. /\ 1 \in DOMAIN T /\ T[1].on # "nowhere" /\ ~Enters(T[1])
      /\ \A j \in DOMAIN T : j \in Nat /\ ~(j < 1)
      /\ \A k \in DOMAIN U : k + 1 \in DOMAIN T /\ U[k] = T[k + 1] /\ k \in Nat
      /\ \A j \in DOMAIN T : j # 1 => j - 1 \in DOMAIN U /\ U[j - 1] = T[j] /\ j \in Nat
    BY EarlierWrites, Kinds DEF Follows
<1>2. DOMAIN e = DOMAIN d \ {s} /\ \A u \in DOMAIN e : e[u] = d[u]
    BY DEF Takes
<1>3. Cleared(T, s)
    BY <1>1 DEF Cleared
<1>4. ASSUME NEW a, Stays(d, T, a)
      PROVE  Stays(e, U, a) /\ \E u \in DOMAIN e : e[u].cluster = a
    <2>1. PICK u \in DOMAIN d : d[u].cluster = a /\ ~Cleared(T, u)
        BY <1>4 DEF Stays
    <2>2. u \in DOMAIN e /\ e[u].cluster = a
        BY <2>1, <1>2, <1>3
    <2>3. ~Cleared(U, u)
        BY <2>1, EarlierWrites DEF Cleared
    <2> QED BY <2>2, <2>3 DEF Stays
<1>5. TableHeld(f, e, K, U) /\ OpenHeld(f, o, K) /\ OwnHeld(f, c, K, U)
    BY <1>1, <1>4, SameTable
<1>6. Covered(f, e, K)
    <2> SUFFICES ASSUME NEW x \in Clusters, f[x] # Free PROVE Reached(f, e, x) \/ x \in K
        BY DEF Covered
    <2>1. Reached(f, d, x) \/ x \in K
        BY DEF Covered, Losses
    <2>2. ASSUME s \in DOMAIN d, x \in Range(Chain(f, d[s].cluster))
          PROVE  Reached(f, e, x) \/ x \in K
        <3>1. \/ Range(Chain(f, d[s].cluster)) \subseteq K
              \/ Stays(d, T, d[s].cluster)
            BY <1>1, <2>2 DEF Losses, DirHeld
        <3>2. ASSUME Stays(d, T, d[s].cluster) PROVE Reached(f, e, x)
            BY <3>2, <2>2, <1>4 DEF Reached
        <3> QED BY <3>1, <3>2, <2>2
    <2> QED BY <2>1, <2>2, <1>2 DEF Reached
<1>8. EntriesHeld(f, e, t, K)
    BY <1>2 DEF Losses, EntriesHeld
<1>10. DirHeld(f, e, K, U)
    <2> SUFFICES ASSUME NEW k \in DOMAIN U
                 PROVE  /\ Enters(U[k]) => Past(f, U[k].value) \subseteq K
                        /\ Clears(U[k]) /\ U[k].at \in DOMAIN e =>
                             \/ Range(Chain(f, e[U[k].at].cluster)) \subseteq K
                             \/ Stays(e, U, e[U[k].at].cluster)
                             \/ \E j \in DOMAIN U :
                                  /\ j < k /\ Enters(U[j]) /\ Firm(U[j])
                                  /\ U[j].value.cluster = e[U[k].at].cluster
        BY DEF DirHeld
    <2> DEFINE w == U[k]
    <2>1. k + 1 \in DOMAIN T /\ T[k + 1] = w /\ k \in Nat
        BY <1>1
    <2> HIDE DEF w
    <2>2. Enters(w) => Past(f, w.value) \subseteq K
        BY <2>1 DEF Losses, DirHeld
    <2>3. ASSUME Clears(w), w.at \in DOMAIN e
          PROVE  \/ Range(Chain(f, e[w.at].cluster)) \subseteq K
                 \/ Stays(e, U, e[w.at].cluster)
                 \/ \E j \in DOMAIN U :
                      /\ j < k /\ Enters(U[j]) /\ Firm(U[j])
                      /\ U[j].value.cluster = e[w.at].cluster
        <3>1. w.at \in DOMAIN d /\ e[w.at].cluster = d[w.at].cluster
            BY <2>3, <1>2
        <3>2. CASE Stays(d, T, d[w.at].cluster)
            BY <3>1, <3>2, <1>4
        <3>3. ASSUME NEW j \in DOMAIN T, j < k + 1, Enters(T[j]), Firm(T[j]),
                     T[j].value.cluster = d[w.at].cluster
              PROVE  \E i \in DOMAIN U :
                       /\ i < k /\ Enters(U[i]) /\ Firm(U[i])
                       /\ U[i].value.cluster = e[w.at].cluster
            <4>1. j # 1
                BY <3>3, <1>1
            <4>2. j - 1 \in DOMAIN U /\ U[j - 1] = T[j] /\ j \in Nat
                BY <4>1, <1>1
            <4>3. j - 1 < k
                BY <4>2, <3>3, <2>1
            <4> QED BY <4>2, <4>3, <3>1, <3>3
        <3> QED BY <3>1, <3>2, <3>3, <2>1, <2>3 DEF Losses, DirHeld
    <2> QED BY <2>2, <2>3 DEF w
<1> QED BY <1>5, <1>6, <1>8, <1>10 DEF Losses

\* A write that changes neither the table nor the directory.
LEMMA NothingLands ==
    ASSUME NEW f, NEW d, NEW o, NEW c, NEW t, NEW K, NEW T, NEW U, Follows(T, U),
           T[1].on # "nowhere", ~(Enters(T[1]) /\ Firm(T[1])), Losses(f, d, o, c, t, K, T)
    PROVE  Losses(f, d, o, c, t, K, U)
<1>1. /\ 1 \in DOMAIN T
      /\ \A k \in DOMAIN U : k + 1 \in DOMAIN T /\ U[k] = T[k + 1] /\ k \in Nat
      /\ \A j \in DOMAIN T : j # 1 => j - 1 \in DOMAIN U /\ U[j - 1] = T[j] /\ j \in Nat
    BY EarlierWrites DEF Follows
<1>2. TableHeld(f, d, K, U) /\ OpenHeld(f, o, K) /\ OwnHeld(f, c, K, U)
    BY StaysNext, SameTable
<1>3. DirHeld(f, d, K, U)
    <2> SUFFICES ASSUME NEW k \in DOMAIN U
                 PROVE  /\ Enters(U[k]) => Past(f, U[k].value) \subseteq K
                        /\ Clears(U[k]) /\ U[k].at \in DOMAIN d =>
                             \/ Range(Chain(f, d[U[k].at].cluster)) \subseteq K
                             \/ Stays(d, U, d[U[k].at].cluster)
                             \/ \E j \in DOMAIN U :
                                  /\ j < k /\ Enters(U[j]) /\ Firm(U[j])
                                  /\ U[j].value.cluster = d[U[k].at].cluster
        BY DEF DirHeld
    <2> DEFINE w == U[k]
    <2>1. k + 1 \in DOMAIN T /\ T[k + 1] = w /\ k \in Nat
        BY <1>1
    <2> HIDE DEF w
    <2>2. Enters(w) => Past(f, w.value) \subseteq K
        BY <2>1 DEF Losses, DirHeld
    <2>3. ASSUME NEW j \in DOMAIN T, j < k + 1, Enters(T[j]), Firm(T[j]),
                 T[j].value.cluster = d[w.at].cluster
          PROVE  \E i \in DOMAIN U :
                   /\ i < k /\ Enters(U[i]) /\ Firm(U[i])
                   /\ U[i].value.cluster = d[w.at].cluster
        <3>1. j # 1
            BY <2>3
        <3>2. j - 1 \in DOMAIN U /\ U[j - 1] = T[j] /\ j \in Nat
            BY <3>1, <1>1
        <3>3. j - 1 < k
            BY <3>2, <2>3, <2>1
        <3> QED BY <3>2, <3>3, <2>3
    <2> QED BY <2>1, <2>2, <2>3, StaysNext DEF w, Losses, DirHeld
<1> QED BY <1>2, <1>3 DEF Losses

\* Nothing is left to do but writes of the second copy.
LEMMA StopHeld ==
    ASSUME NEW f, NEW d, NEW o, NEW c, NEW e, NEW t, NEW K, NEW T, NEW U,
           \A k \in DOMAIN U : U[k].on = "bak", e.failed,
           Losses(f, d, o, c, t, K, T)
    PROVE  Losses(f, d, o, e, t, K, U)
<1>1. \A k \in DOMAIN U : ~Enters(U[k]) /\ ~Clears(U[k]) /\ U[k].on # "fat"
    BY Kinds
<1>2. TableHeld(f, d, K, U) /\ DirHeld(f, d, K, U) /\ OwnHeld(f, e, K, U)
    BY <1>1 DEF TableHeld, DirHeld, OwnHeld
<1> QED BY <1>2 DEF Losses

\* While a call is in progress it accounts for the clusters it has got.
LossInv == Losses(fat, dir, open, call, torn \ call.doubt, lost \cup call.got, call.todo)

LEMMA CallSized ==
    ASSUME IInv
    PROVE  Sized(open, call)
<1>1. Types /\ call \in Calls /\ Ending(fat, dir, call, torn, call.todo)
    BY DEF IInv
<1>2. call.size \in Nat
    BY <1>1, CallShape, BoundAssumption
<1>3. \A n \in DOMAIN open : open[n].cluster \in Clusters /\ open[n].size \in Nat
    BY <1>1, BoundAssumption DEF Types
<1>4. call.op \in {"open", "write"} /\ ~call.failed => call.cluster \in Clusters
    BY <1>1 DEF Ending, WillMatch
<1> QED BY <1>2, <1>3, <1>4 DEF Sized

\* Losses look at nothing but these of a call.
LEMMA SameLosses ==
    ASSUME NEW f, NEW d, NEW o, NEW c, NEW e, NEW t, NEW K, NEW T,
           e.op = c.op, e.failed = c.failed, e.cluster = c.cluster, e.size = c.size,
           Losses(f, d, o, c, t, K, T)
    PROVE  Losses(f, d, o, e, t, K, T)
BY DEF Losses, OwnHeld, Past, Used

LEMMA LandLosses ==
    ASSUME IInv, LossInv, WriteLands
    PROVE  LossInv'
<1> DEFINE T == call.todo
           U == Tail(T)
           h == T[1]
           t == torn \ call.doubt
           K == lost \cup call.got
<1>1. /\ Types /\ call \in Calls /\ Sane(fat, dir, open, call, torn)
      /\ Ready(fat, dir, open, call, torn, T) /\ Sized(open, call)
      /\ fat \in [Clusters -> Values]
    BY CallSized DEF IInv, Types
<1>2. /\ T # <<>> /\ Lands(fat, fat', dir, dir', h)
      /\ Typed(fat, dir, T) /\ Entries(dir) /\ Follows(T, U) /\ h \in DeviceWrites
    BY <1>1, LandTypes, TypeShape
<1>3. 1 \in DOMAIN T
    <2> HIDE DEF T, U
    <2> QED BY <1>2, EarlierWrites
<1>4. Losses(fat, dir, open, call, t, K, T)
    BY DEF LossInv
<1>5. /\ open' = open /\ torn' = torn /\ lost' = lost /\ call' = [call EXCEPT !.todo = U]
    BY DEF WriteLands
<1>6. /\ call'.todo = U /\ call'.op = call.op /\ call'.failed = call.failed
      /\ call'.cluster = call.cluster /\ call'.size = call.size
      /\ call'.doubt = call.doubt /\ call'.got = call.got
    <2> HIDE DEF U
    <2> QED BY <1>1, <1>5 DEF Calls
<1>7. Safe(fat, dir, open, call, torn, {}, Range(T), h)
    <2> HIDE DEF T, U
    <2> QED BY <1>1, <1>2, FirstSafe
<1>8. torn' \ call'.doubt = t /\ lost' \cup call'.got = K
    BY <1>5, <1>6
<1> HIDE DEF T, U, h, t, K
<1>9. CASE h.on = "fat"
    <2>1. Becomes(fat, fat', h.at, h.value) /\ dir' = dir /\ h.at \in Clusters
        BY <1>2, <1>9, WriteShape DEF Lands
    <2>2. ASSUME h.value \in Clusters
          PROVE  fat[h.value] \notin Clusters /\ h.value # h.at
        <3>1. Links(h)
            BY <1>9, <2>2 DEF Links
        <3>2. fat[h.value] = ENDOFCHAIN /\ h.value # h.at
            BY <1>7, <3>1 DEF Safe, CanLink
        <3> QED BY <3>2, Constants
    <2>3. Losses(fat', dir, open, call, t, K, U)
        BY <1>1, <1>2, <1>4, <1>9, <2>1, <2>2, TableLands DEF h
    <2> QED BY <2>1, <2>3, <1>5, <1>6, <1>8, SameLosses DEF LossInv
<1>10. CASE Enters(h)
    <2>1. Puts(dir, dir', h.at, h.value) /\ fat' = fat
        BY <1>2, <1>10, Kinds DEF Lands, Enters
    <2>2. h.at \in DOMAIN dir => dir[h.at].cluster = h.value.cluster
        BY <1>7, <1>10 DEF Safe, CanEnter
    <2>3. \A k \in DOMAIN T : Clears(T[k]) => T[k].at # h.at
        <3>1. h \in Range(T)
            BY <1>3 DEF Range, h
        <3> QED BY <3>1, <1>1, <1>10 DEF Ready, Safe, CanClear
    <2>4. Losses(fat, dir', open, call, t, K, U)
        BY <1>2, <1>4, <1>10, <2>1, <2>2, <2>3, EntryLands DEF h
    <2> QED BY <2>1, <2>4, <1>5, <1>6, <1>8, SameLosses DEF LossInv
<1>11. CASE Clears(h)
    <2>1. Takes(dir, dir', h.at) /\ fat' = fat
        BY <1>2, <1>11, Kinds DEF Lands, Clears
    <2>2. Losses(fat, dir', open, call, t, K, U)
        BY <1>2, <1>4, <1>11, <2>1, ClearLands DEF h
    <2> QED BY <2>1, <2>2, <1>5, <1>6, <1>8, SameLosses DEF LossInv
<1>12. CASE h.on \notin {"fat", "dir"}
    <2>1. fat' = fat /\ dir' = dir /\ h.on # "nowhere" /\ ~Enters(h)
        BY <1>2, <1>12 DEF Lands, Enters
    <2>2. Losses(fat, dir, open, call, t, K, U)
        BY <1>2, <1>4, <2>1, NothingLands DEF h
    <2> QED BY <2>1, <2>2, <1>5, <1>6, <1>8, SameLosses DEF LossInv
<1> QED BY <1>9, <1>10, <1>11, <1>12 DEF Enters, Clears

\* What a failure leaves of a call.
LEMMA FailShape ==
    ASSUME IInv, WriteFails \/ ReadFails
    PROVE  LET T == call.todo
               U == call'.todo
               h == T[1] IN
           /\ Types /\ call \in Calls /\ T # <<>>
           /\ \/ U = Tail(T) /\ call'.failed = call.failed /\ h.onFail = "ignore"
              \/ /\ U = Tail(Tail(T)) /\ call'.failed = call.failed /\ h.onFail = "ignore"
                 /\ h.on = "fat" /\ ReadFails
              \/ (\A k \in DOMAIN U : U[k].on = "bak") /\ call'.failed
           /\ call'.op = call.op /\ call'.cluster = call.cluster /\ call'.size = call.size
           /\ call'.doubt = call.doubt /\ call'.got = call.got /\ call'.name = call.name
           /\ UNCHANGED <<fat, dir, open, lost, torn, short>>
           /\ faults' = faults + 1 \/ (faults' = faults /\ Refused(h) /\ WriteFails)
<1> DEFINE T == call.todo
           U == call'.todo
           h == T[1]
           u == IF h.onFail = "ignore" THEN Tail(Tail(T)) ELSE <<>>
           V == IF WriteFails THEN AfterFailure(T) ELSE u
           b == call.failed \/ h.onFail # "ignore"
           m == IF WriteFails THEN call.missed \/ Head(T).on # "bak" ELSE TRUE
<1>1. /\ call \in Calls /\ Types /\ call.failed \in BOOLEAN /\ T # <<>>
    BY CallShape DEF IInv, WriteFails, ReadFails
<1>2. Head(T) = h /\ h \in DeviceWrites
    BY <1>1, TypeShape
<1>3. /\ call' = [call EXCEPT !.todo = V, !.failed = b, !.missed = m]
      /\ UNCHANGED <<fat, dir, open, lost, torn, short>>
      /\ faults' = faults + 1 \/ (faults' = faults /\ Refused(h) /\ WriteFails)
    BY <1>2 DEF WriteFails, ReadFails
<1>4. ~WriteFails => h.on = "fat" /\ ReadFails
    BY <1>2 DEF ReadFails
<1>5. /\ call'.todo = V /\ call'.failed = b
      /\ call'.op = call.op /\ call'.cluster = call.cluster /\ call'.size = call.size
      /\ call'.doubt = call.doubt /\ call'.got = call.got /\ call'.name = call.name
    <2> HIDE DEF V, b, m
    <2> QED BY <1>1, <1>3 DEF Calls
<1>6. \/ V = Tail(T) /\ h.onFail = "ignore"
      \/ V = Tail(Tail(T)) /\ h.onFail = "ignore" /\ h.on = "fat" /\ ReadFails
      \/ (\A k \in DOMAIN V : V[k].on = "bak") /\ h.onFail # "ignore"
    <2>1. CASE WriteFails
        <3>1. V = AfterFailure(T)
            BY <2>1
        <3>2. CASE h.onFail = "ignore"
            BY <3>1, <3>2, <1>2 DEF AfterFailure
        <3>3. CASE h.onFail = "finish"
            <4>1. h.on = "fat"
                BY <1>2, <3>3 DEF DeviceWrites
            <4>2. T[2].on = "bak"
                BY <1>1, <1>2, <4>1, SecondCopy
            <4>3. V = <<T[2]>>
                BY <3>1, <3>3, <1>2 DEF AfterFailure
            <4> HIDE DEF V, T, h
            <4> QED BY <4>2, <4>3, <3>3
        <3>4. CASE h.onFail = "stop"
            <4>1. V = <<>> /\ DOMAIN <<>> = {}
                BY <3>1, <3>4, <1>2 DEF AfterFailure
            <4> HIDE DEF V, T, h
            <4> QED BY <4>1, <3>4
        <3>5. h.onFail \in {"ignore", "finish", "stop"}
            BY <1>2 DEF DeviceWrites
        <3> QED BY <3>2, <3>3, <3>4, <3>5
    <2>2. CASE ~WriteFails
        <3>1. h.on = "fat" /\ V = u /\ ReadFails
            BY <2>2, <1>4
        <3>2. DOMAIN <<>> = {}
            OBVIOUS
        <3>3. h.onFail # "ignore" => u = <<>>
            OBVIOUS
        <3>4. h.onFail = "ignore" => u = Tail(Tail(T))
            OBVIOUS
        <3> HIDE DEF V, u
        <3> QED BY <3>1, <3>2, <3>3, <3>4
    <2> QED BY <2>1, <2>2
<1>7. h.onFail = "ignore" => b = call.failed
    BY <1>1
<1> HIDE DEF V, u, m, h, T
<1> QED BY <1>1, <1>3, <1>5, <1>6, <1>7 DEF h, T

\* A write or read fails.
LEMMA FailLosses ==
    ASSUME IInv, LossInv, WriteFails \/ ReadFails
    PROVE  LossInv'
<1> DEFINE T == call.todo
           U == call'.todo
           h == T[1]
           t == torn \ call.doubt
           K == lost \cup call.got
<1>1. /\ Types /\ call \in Calls /\ T # <<>>
      /\ \/ call'.todo = Tail(T) /\ call'.failed = call.failed /\ h.onFail = "ignore"
         \/ /\ call'.todo = Tail(Tail(T)) /\ call'.failed = call.failed /\ h.onFail = "ignore"
            /\ h.on = "fat"
         \/ (\A k \in DOMAIN U : U[k].on = "bak") /\ call'.failed
      /\ call'.op = call.op /\ call'.cluster = call.cluster /\ call'.size = call.size
      /\ call'.doubt = call.doubt /\ call'.got = call.got
      /\ UNCHANGED <<fat, dir, open, lost, torn>>
    BY FailShape
<1>2. Follows(T, Tail(T)) /\ h \in DeviceWrites /\ Head(T) = h /\ Tail(T) \in Seq(DeviceWrites)
    BY <1>1, TypeShape
<1>3. Losses(fat, dir, open, call, t, K, T)
    BY DEF LossInv
<1>4. h.onFail = "ignore" => h.on # "nowhere" /\ ~(Enters(h) /\ Firm(h))
    BY <1>2 DEF DeviceWrites, Firm
<1>5. h.onFail = "ignore" => Losses(fat, dir, open, call, t, K, Tail(T))
    <2> DEFINE V == Tail(T)
    <2>1. Follows(T, V)
        BY <1>2
    <2> HIDE DEF T, V, t, K
    <2> QED BY <1>3, <1>4, <2>1, NothingLands DEF h, V
<1>6. ASSUME h.onFail = "ignore", h.on = "fat"
      PROVE  Losses(fat, dir, open, call, t, K, Tail(Tail(T)))
    <2> DEFINE V == Tail(T)
               W == Tail(V)
    <2>1. V # <<>> /\ Head(V).on = "bak"
        BY <1>1, <1>2, <1>6, SecondCopy
    <2>2. Follows(V, W) /\ Head(V) = V[1]
        BY <1>2, <2>1, TailFollows
    <2>3. Losses(fat, dir, open, call, t, K, V)
        BY <1>5, <1>6
    <2> HIDE DEF V, t, K
    <2>4. V[1].on # "nowhere" /\ ~(Enters(V[1]) /\ Firm(V[1]))
        BY <2>1, <2>2 DEF Enters
    <2> HIDE DEF W
    <2> QED BY <2>2, <2>3, <2>4, NothingLands DEF W, V
<1>7. torn' \ call'.doubt = t /\ lost' \cup call'.got = K
    BY <1>1
<1>8. UNCHANGED <<fat, dir, open>>
    BY <1>1
<1>9. CASE (\A k \in DOMAIN U : U[k].on = "bak") /\ call'.failed
    <2>1. Losses(fat, dir, open, call', t, K, U)
        <3> HIDE DEF T, U, t, K
        <3> QED BY <1>3, <1>9, StopHeld
    <2> QED BY <2>1, <1>7, <1>8 DEF LossInv
<1>10. CASE \/ call'.todo = Tail(T) /\ call'.failed = call.failed /\ h.onFail = "ignore"
            \/ /\ call'.todo = Tail(Tail(T)) /\ call'.failed = call.failed /\ h.onFail = "ignore"
               /\ h.on = "fat"
    <2>1. Losses(fat, dir, open, call, t, K, U) /\ call'.failed = call.failed
        BY <1>5, <1>6, <1>10
    <2>2. Losses(fat, dir, open, call', t, K, U)
        <3> HIDE DEF T, U, t, K
        <3> QED BY <1>1, <2>1, SameLosses
    <2> QED BY <2>2, <1>7, <1>8 DEF LossInv
<1> QED BY <1>1, <1>9, <1>10

\* The clusters of K in use are all that matters of it.
LEMMA InUse ==
    ASSUME NEW f, NEW d, NEW K, NEW L, L = {x \in K : f[x] # Free}, Linked(f)
    PROVE  /\ Covered(f, d, K) => Covered(f, d, L)
           /\ \A e : e.cluster \in Clusters /\ e.size \in Nat /\ Past(f, e) \subseteq K =>
                Past(f, e) \subseteq L
<1>1. Covered(f, d, K) => Covered(f, d, L)
    BY DEF Covered
<1>2. ASSUME NEW e, e.cluster \in Clusters, e.size \in Nat, Past(f, e) \subseteq K
      PROVE  Past(f, e) \subseteq L
    <2>1. Used(e) \in Nat \ {0}
        BY <1>2, UsedShape
    <2>2. \A x \in Past(f, e) : f[x] # Free
        BY <1>2, <2>1, RestUsed DEF Past
    <2> QED BY <1>2, <2>2
<1> QED BY <1>1, <1>2

\* Between two calls nothing is in progress that could be lost.
LEMMA IdleLosses ==
    ASSUME NEW f, NEW d, NEW o, NEW t, NEW K,
           Covered(f, d, K), EntriesHeld(f, d, t, K), OpenHeld(f, o, K)
    PROVE  Losses(f, d, o, Idle, t \ Idle.doubt, K \cup Idle.got, Idle.todo)
<1>1. /\ Idle.op = "idle" /\ Idle.doubt = {} /\ Idle.todo = <<>> /\ Idle.got = {}
      /\ DOMAIN <<>> = {}
    BY DEF Idle
<1>2. t \ Idle.doubt = t /\ K \cup Idle.got = K
    BY <1>1
<1>3. TableHeld(f, d, K, <<>>) /\ DirHeld(f, d, K, <<>>) /\ OwnHeld(f, Idle, K, <<>>)
    BY <1>1 DEF TableHeld, DirHeld, OwnHeld
<1> QED BY <1>1, <1>2, <1>3 DEF Losses

-----------------------------------------------------------------------------
(* What a call makes of the table when nothing fails *)

\* g is the table f when all of the writes T have landed.
Final(f, T, g) ==
    \A x \in Clusters :
        \/ \E k \in DOMAIN T :
             /\ T[k].on = "fat" /\ T[k].at = x /\ g[x] = T[k].value
             /\ \A j \in DOMAIN T : T[j].on = "fat" /\ T[j].at = x => j <= k
        \/ g[x] = f[x] /\ \A k \in DOMAIN T : T[k].on = "fat" => T[k].at # x

\* So is e for the directory d.
FinalDir(d, T, e) ==
    \A s :
        \/ \E k \in DOMAIN T :
             /\ T[k].on = "dir" /\ T[k].at = s
             /\ \A j \in DOMAIN T : T[j].on = "dir" /\ T[j].at = s => j <= k
             /\ IF Enters(T[k]) THEN s \in DOMAIN e /\ e[s] = T[k].value ELSE s \notin DOMAIN e
        \/ /\ \A k \in DOMAIN T : T[k].on = "dir" => T[k].at # s
           /\ IF s \in DOMAIN d THEN s \in DOMAIN e /\ e[s] = d[s] ELSE s \notin DOMAIN e

\* The call c may end well with the table g and the directory e.
Outcome(f, d, c, T, g, e) ==
    /\ g \in [Clusters -> Values] /\ Linked(g)
    /\ Final(f, T, g) /\ FinalDir(d, T, e)
    /\ c.op = "write" => Len(Chain(g, c.cluster)) >= c.size

Settled(g, e, o, c, t, K) ==
    /\ Covered(g, e, K)
    /\ EntriesHeld(g, e, t, K)
    /\ \A n \in DOMAIN o :
         n # c.name \/ c.op \notin {"open", "write"} => Past(g, o[n]) \subseteq K
    /\ c.op \in {"open", "write"} => Past(g, c) \subseteq K

Fine(f, d, o, c, t, K, T) ==
    ~c.failed /\ ~c.missed /\ (\A k \in DOMAIN T : T[k].on # "nowhere") =>
        \A g, e : Outcome(f, d, c, T, g, e) => Settled(g, e, o, c, t, K)

\* A call that nothing has failed of will lose what its code loses, no more.
FineInv ==
    call # Idle =>
        Fine(fat, dir, open, call, torn \ call.doubt, lost \cup call.left, call.todo)

LEMMA FinalBack ==
    ASSUME NEW f, NEW h, NEW g, NEW T, NEW U, Follows(T, U),
           \A x \in Clusters :
               h[x] = IF T[1].on = "fat" /\ T[1].at = x THEN T[1].value ELSE f[x],
           Final(h, U, g)
    PROVE  Final(f, T, g)
<1>1. /\ 1 \in DOMAIN T
      /\ \A k \in DOMAIN U : k + 1 \in DOMAIN T /\ U[k] = T[k + 1] /\ k \in Nat
      /\ \A j \in DOMAIN T : j # 1 => j - 1 \in DOMAIN U /\ U[j - 1] = T[j]
      /\ \A j \in DOMAIN T : j \in Nat \ {0}
    BY EarlierWrites DEF Follows
<1>2. SUFFICES ASSUME NEW x \in Clusters
               PROVE  \/ \E k \in DOMAIN T :
                           /\ T[k].on = "fat" /\ T[k].at = x /\ g[x] = T[k].value
                           /\ \A j \in DOMAIN T : T[j].on = "fat" /\ T[j].at = x => j <= k
                      \/ g[x] = f[x] /\ \A k \in DOMAIN T : T[k].on = "fat" => T[k].at # x
    BY DEF Final
<1>3. ASSUME NEW k \in DOMAIN U, U[k].on = "fat", U[k].at = x, g[x] = U[k].value,
             \A j \in DOMAIN U : U[j].on = "fat" /\ U[j].at = x => j <= k
      PROVE  \E i \in DOMAIN T :
               /\ T[i].on = "fat" /\ T[i].at = x /\ g[x] = T[i].value
               /\ \A j \in DOMAIN T : T[j].on = "fat" /\ T[j].at = x => j <= i
    <2>1. k + 1 \in DOMAIN T /\ T[k + 1] = U[k] /\ k \in Nat
        BY <1>1
    <2>2. ASSUME NEW j \in DOMAIN T, T[j].on = "fat", T[j].at = x PROVE j <= k + 1
        <3>1. CASE j = 1
            BY <3>1, <2>1
        <3>2. CASE j # 1
            <4>1. j - 1 <= k /\ j \in Nat
                BY <3>2, <2>2, <1>1, <1>3
            <4> QED BY <4>1, <2>1
        <3> QED BY <3>1, <3>2
    <2> QED BY <2>1, <2>2, <1>3
<1>4. ASSUME g[x] = h[x], \A k \in DOMAIN U : U[k].on = "fat" => U[k].at # x
      PROVE  \/ \E k \in DOMAIN T :
                  /\ T[k].on = "fat" /\ T[k].at = x /\ g[x] = T[k].value
                  /\ \A j \in DOMAIN T : T[j].on = "fat" /\ T[j].at = x => j <= k
             \/ g[x] = f[x] /\ \A k \in DOMAIN T : T[k].on = "fat" => T[k].at # x
    <2>1. \A j \in DOMAIN T : j # 1 => ~(T[j].on = "fat" /\ T[j].at = x)
        BY <1>1, <1>4
    <2>2. CASE T[1].on = "fat" /\ T[1].at = x
        <3>1. g[x] = T[1].value
            BY <2>2, <1>4
        <3>2. \A j \in DOMAIN T : T[j].on = "fat" /\ T[j].at = x => j <= 1
            BY <2>1
        <3> QED BY <1>1, <2>2, <3>1, <3>2
    <2>3. CASE ~(T[1].on = "fat" /\ T[1].at = x)
        BY <2>1, <2>3, <1>4
    <2> QED BY <2>2, <2>3
<1> QED BY <1>3, <1>4 DEF Final

LEMMA FinalDirBack ==
    ASSUME NEW d, NEW h, NEW e, NEW T, NEW U, Follows(T, U),
           T[1].on # "dir" => h = d,
           Enters(T[1]) => Puts(d, h, T[1].at, T[1].value),
           Clears(T[1]) => Takes(d, h, T[1].at),
           FinalDir(h, U, e)
    PROVE  FinalDir(d, T, e)
<1>1. /\ 1 \in DOMAIN T
      /\ \A k \in DOMAIN U : k + 1 \in DOMAIN T /\ U[k] = T[k + 1] /\ k \in Nat
      /\ \A j \in DOMAIN T : j # 1 => j - 1 \in DOMAIN U /\ U[j - 1] = T[j]
      /\ \A j \in DOMAIN T : j \in Nat \ {0}
    BY EarlierWrites DEF Follows
<1>2. SUFFICES ASSUME NEW s
               PROVE  \/ \E k \in DOMAIN T :
                           /\ T[k].on = "dir" /\ T[k].at = s
                           /\ \A j \in DOMAIN T : T[j].on = "dir" /\ T[j].at = s => j <= k
                           /\ IF Enters(T[k]) THEN s \in DOMAIN e /\ e[s] = T[k].value
                              ELSE s \notin DOMAIN e
                      \/ /\ \A k \in DOMAIN T : T[k].on = "dir" => T[k].at # s
                         /\ IF s \in DOMAIN d THEN s \in DOMAIN e /\ e[s] = d[s]
                            ELSE s \notin DOMAIN e
    BY DEF FinalDir
<1>3. ASSUME NEW k \in DOMAIN U, U[k].on = "dir", U[k].at = s,
             \A j \in DOMAIN U : U[j].on = "dir" /\ U[j].at = s => j <= k,
             IF Enters(U[k]) THEN s \in DOMAIN e /\ e[s] = U[k].value ELSE s \notin DOMAIN e
      PROVE  \E i \in DOMAIN T :
               /\ T[i].on = "dir" /\ T[i].at = s
               /\ \A j \in DOMAIN T : T[j].on = "dir" /\ T[j].at = s => j <= i
               /\ IF Enters(T[i]) THEN s \in DOMAIN e /\ e[s] = T[i].value
                  ELSE s \notin DOMAIN e
    <2>1. k + 1 \in DOMAIN T /\ T[k + 1] = U[k] /\ k \in Nat
        BY <1>1
    <2>2. ASSUME NEW j \in DOMAIN T, T[j].on = "dir", T[j].at = s PROVE j <= k + 1
        <3>1. CASE j = 1
            BY <3>1, <2>1
        <3>2. CASE j # 1
            <4>1. j - 1 <= k /\ j \in Nat
                BY <3>2, <2>2, <1>1, <1>3
            <4> QED BY <4>1, <2>1
        <3> QED BY <3>1, <3>2
    <2> QED BY <2>1, <2>2, <1>3
<1>4. ASSUME \A k \in DOMAIN U : U[k].on = "dir" => U[k].at # s,
             IF s \in DOMAIN h THEN s \in DOMAIN e /\ e[s] = h[s] ELSE s \notin DOMAIN e
      PROVE  \/ \E k \in DOMAIN T :
                  /\ T[k].on = "dir" /\ T[k].at = s
                  /\ \A j \in DOMAIN T : T[j].on = "dir" /\ T[j].at = s => j <= k
                  /\ IF Enters(T[k]) THEN s \in DOMAIN e /\ e[s] = T[k].value
                     ELSE s \notin DOMAIN e
             \/ /\ \A k \in DOMAIN T : T[k].on = "dir" => T[k].at # s
                /\ IF s \in DOMAIN d THEN s \in DOMAIN e /\ e[s] = d[s]
                   ELSE s \notin DOMAIN e
    <2>1. \A j \in DOMAIN T : j # 1 => ~(T[j].on = "dir" /\ T[j].at = s)
        BY <1>1, <1>4
    <2>2. CASE T[1].on = "dir" /\ T[1].at = s
        <3>1. IF Enters(T[1]) THEN s \in DOMAIN e /\ e[s] = T[1].value ELSE s \notin DOMAIN e
            BY <2>2, <1>4 DEF Enters, Clears, Puts, Takes
        <3>2. \A j \in DOMAIN T : T[j].on = "dir" /\ T[j].at = s => j <= 1
            BY <2>1
        <3> QED BY <1>1, <2>2, <3>1, <3>2
    <2>3. CASE ~(T[1].on = "dir" /\ T[1].at = s)
        <3>1. (s \in DOMAIN h <=> s \in DOMAIN d) /\ (s \in DOMAIN d => h[s] = d[s])
            BY <2>3 DEF Enters, Clears, Puts, Takes
        <3> QED BY <2>1, <2>3, <3>1, <1>4
    <2> QED BY <2>2, <2>3
<1> QED BY <1>3, <1>4 DEF FinalDir

\* The outcomes of a call after a write are outcomes of it before.
LEMMA FineNext ==
    ASSUME NEW f, NEW g, NEW d, NEW e, NEW o, NEW c, NEW b, NEW t, NEW K, NEW T, NEW U,
           Follows(T, U), T[1].on # "nowhere",
           \A x \in Clusters :
               g[x] = IF T[1].on = "fat" /\ T[1].at = x THEN T[1].value ELSE f[x],
           T[1].on # "dir" => e = d,
           Enters(T[1]) => Puts(d, e, T[1].at, T[1].value),
           Clears(T[1]) => Takes(d, e, T[1].at),
           b.op = c.op, b.name = c.name, b.failed = c.failed, b.missed = c.missed,
           b.cluster = c.cluster, b.size = c.size,
           Fine(f, d, o, c, t, K, T)
    PROVE  Fine(g, e, o, b, t, K, U)
<1>1. \A k \in DOMAIN T : T[k] = T[1] \/ \E i \in DOMAIN U : U[i] = T[k]
    BY EarlierWrites DEF Follows
<1>2. SUFFICES ASSUME ~b.failed, ~b.missed, \A k \in DOMAIN U : U[k].on # "nowhere",
                      NEW y, NEW z, Outcome(g, e, b, U, y, z)
               PROVE  Settled(y, z, o, b, t, K)
    BY DEF Fine
<1>3. \A k \in DOMAIN T : T[k].on # "nowhere"
    BY <1>1, <1>2
<1>4. Final(f, T, y) /\ FinalDir(d, T, z)
    BY <1>2, FinalBack, FinalDirBack DEF Outcome
<1>5. Outcome(f, d, c, T, y, z)
    BY <1>2, <1>4 DEF Outcome
<1>6. Settled(y, z, o, c, t, K)
    BY <1>2, <1>3, <1>5 DEF Fine
<1> QED BY <1>6 DEF Settled, Past, Used

LEMMA LandFine ==
    ASSUME IInv, FineInv, WriteLands
    PROVE  FineInv'
<1> DEFINE T == call.todo
           U == Tail(T)
           h == T[1]
           t == torn \ call.doubt
           K == lost \cup call.left
<1>1. /\ Types /\ call \in Calls /\ T # <<>> /\ Sane(fat, dir, open, call, torn)
    BY DEF IInv, WriteLands
<1>2. /\ Lands(fat, fat', dir, dir', h) /\ Follows(T, U) /\ h \in DeviceWrites
    BY <1>1, LandTypes, TypeShape
<1>3. /\ open' = open /\ torn' = torn /\ lost' = lost /\ call' = [call EXCEPT !.todo = U]
    BY DEF WriteLands
<1>4. /\ call'.todo = U /\ call'.op = call.op /\ call'.failed = call.failed
      /\ call'.missed = call.missed /\ call'.name = call.name
      /\ call'.cluster = call.cluster /\ call'.size = call.size
      /\ call'.doubt = call.doubt /\ call'.left = call.left
    <2> HIDE DEF U
    <2> QED BY <1>1, <1>3 DEF Calls
<1>5. call # Idle
    BY <1>1, IdleShape
<1>6. Fine(fat, dir, open, call, t, K, T)
    BY <1>5 DEF FineInv
<1>7. torn' \ call'.doubt = t /\ lost' \cup call'.left = K
    BY <1>3, <1>4
<1>8. h.on # "nowhere"
    <2> HIDE DEF U
    <2>1. Head(T) = h
        BY <1>1, TypeShape
    <2> QED BY <2>1 DEF WriteLands, Refused
<1> HIDE DEF T, U, t, K
<1>9. \A x \in Clusters :
          fat'[x] = IF h.on = "fat" /\ h.at = x THEN h.value ELSE fat[x]
    BY <1>2 DEF Lands, Becomes
<1>10. /\ h.on # "dir" => dir' = dir
       /\ Enters(h) => Puts(dir, dir', h.at, h.value)
       /\ Clears(h) => Takes(dir, dir', h.at)
    BY <1>2 DEF Lands, Enters, Clears
<1>11. Fine(fat', dir', open, call', t, K, U)
    BY <1>2, <1>4, <1>6, <1>8, <1>9, <1>10, FineNext
<1> QED BY <1>3, <1>4, <1>7, <1>11 DEF FineInv

\* A failure that a call ends well after is one of a second copy.
LEMMA FailFine ==
    ASSUME IInv, FineInv, WriteFails \/ ReadFails
    PROVE  FineInv'
<1> DEFINE T == call.todo
           U == Tail(T)
           h == T[1]
           t == torn \ call.doubt
           K == lost \cup call.left
           V == AfterFailure(T)
           W == IF Head(T).onFail = "ignore" THEN Tail(U) ELSE <<>>
           b == call.failed \/ Head(T).onFail # "ignore"
           m == call.missed \/ Head(T).on # "bak"
<1>1. Types /\ call \in Calls /\ T # <<>>
    BY DEF IInv, WriteFails, ReadFails
<1>2. Head(T) = h /\ Follows(T, U) /\ h \in DeviceWrites
    BY <1>1, TypeShape
<1>3. CASE WriteFails
    <2>1. /\ call' = [call EXCEPT !.todo = V, !.failed = b, !.missed = m]
          /\ UNCHANGED <<fat, dir, open, lost, torn>>
        BY <1>3 DEF WriteFails
    <2>2. /\ call'.todo = V /\ call'.op = call.op /\ call'.failed = b
          /\ call'.missed = m /\ call'.name = call.name
          /\ call'.cluster = call.cluster /\ call'.size = call.size
          /\ call'.doubt = call.doubt /\ call'.left = call.left
        <3> HIDE DEF V, b, m
        <3> QED BY <1>1, <2>1 DEF Calls
    <2>3. ASSUME b \/ m PROVE FineInv'
        BY <2>2, <2>3 DEF FineInv, Fine
    <2>4. ASSUME ~b, ~m PROVE FineInv'
        <3>1. h.onFail = "ignore" /\ h.on = "bak" /\ ~call.failed /\ ~call.missed
            BY <1>2, <2>4
        <3>2. V = U
            BY <1>2, <3>1 DEF AfterFailure
        <3>3. call # Idle
            BY <1>1, IdleShape
        <3>4. Fine(fat, dir, open, call, t, K, T)
            BY <3>3 DEF FineInv
        <3>5. call'.failed = call.failed /\ call'.missed = call.missed
            BY <2>2, <2>4, <3>1, CallShape, <1>1
        <3> HIDE DEF T, U, t, K, V, b, m
        <3>6. ~Enters(h) /\ ~Clears(h)
            BY <3>1 DEF Enters, Clears
        <3>7. Fine(fat, dir, open, call', t, K, U)
            BY <1>2, <2>2, <3>1, <3>4, <3>5, <3>6, FineNext
        <3>8. torn' \ call'.doubt = t /\ lost' \cup call'.left = K
            BY <2>1, <2>2 DEF t, K
        <3> QED BY <2>1, <2>2, <3>2, <3>7, <3>8 DEF FineInv
    <2> QED BY <2>3, <2>4
<1>4. CASE ReadFails
    <2>1. call' = [call EXCEPT !.todo = W, !.failed = b, !.missed = TRUE]
        BY <1>4 DEF ReadFails
    <2>2. call'.missed
        <3> HIDE DEF W, b
        <3> QED BY <1>1, <2>1 DEF Calls
    <2> QED BY <2>2 DEF FineInv, Fine
<1> QED BY <1>3, <1>4

\* What is no longer in doubt when the table and the directory stand still.
LEMMA StandsStill ==
    /\ DOMAIN <<>> = {}
    /\ \A f : Final(f, <<>>, f)
    /\ \A d : FinalDir(d, <<>>, d)
BY DEF Final, FinalDir

LEMMA NamesMore ==
    ASSUME NEW f, NEW d, NEW t, NEW u, NEW K, t \subseteq u, EntriesHeld(f, d, t, K)
    PROVE  EntriesHeld(f, d, u, K)
BY DEF EntriesHeld

\* Between two calls.
LEMMA RestLosses ==
    ASSUME IInv, LossInv, call = Idle
    PROVE  /\ Covered(fat, dir, lost) /\ EntriesHeld(fat, dir, torn, lost)
           /\ OpenHeld(fat, open, lost)
<1>1. Idle.doubt = {} /\ Idle.got = {}
    BY DEF Idle
<1>2. torn \ call.doubt = torn /\ lost \cup call.got = lost
    BY <1>1
<1> QED BY <1>2 DEF LossInv, Losses

LEMMA IdleAgain ==
    ASSUME call' = Idle, Covered(fat', dir', lost'), EntriesHeld(fat', dir', torn', lost'),
           OpenHeld(fat', open', lost')
    PROVE  LossInv' /\ FineInv'
<1> DEFINE g == fat'
           e == dir'
           o == open'
           t == torn'
           K == lost'
<1>1. Covered(g, e, K) /\ EntriesHeld(g, e, t, K) /\ OpenHeld(g, o, K)
    OBVIOUS
<1> HIDE DEF g, e, o, t, K
<1>2. Losses(g, e, o, Idle, t \ Idle.doubt, K \cup Idle.got, Idle.todo)
    BY <1>1, IdleLosses
<1>3. LossInv'
    BY <1>2 DEF LossInv, g, e, o, t, K
<1>4. FineInv'
    BY DEF FineInv
<1> QED BY <1>3, <1>4

\* The clusters of what is in use that a failed call leaves behind.
LEMMA CutShort ==
    ASSUME IInv, LossInv
    PROVE  /\ Covered(fat, dir, Stranded)
           /\ EntriesHeld(fat, dir, torn \ call.doubt, Stranded)
           /\ OpenHeld(fat, open, Stranded)
           /\ call.op \in {"open", "write"} /\ ~call.failed /\ call.todo = <<>> =>
                Past(fat, call) \subseteq Stranded
<1> DEFINE K == lost \cup call.got
           t == torn \ call.doubt
<1>1. /\ Covered(fat, dir, K) /\ EntriesHeld(fat, dir, t, K) /\ OpenHeld(fat, open, K)
      /\ OwnHeld(fat, call, K, call.todo)
    BY DEF LossInv, Losses
<1>2. Sized(open, call) /\ Linked(fat) /\ Entries(dir)
    BY CallSized, TypeShape DEF IInv, Sane
<1>3. Stranded = {x \in K : fat[x] # Free}
    BY DEF Stranded
<1> HIDE DEF K, t
<1>4. /\ Covered(fat, dir, Stranded)
      /\ \A e : e.cluster \in Clusters /\ e.size \in Nat /\ Past(fat, e) \subseteq K =>
           Past(fat, e) \subseteq Stranded
    BY <1>1, <1>2, <1>3, InUse
<1>5. \A s \in DOMAIN dir : dir[s].cluster \in Clusters /\ dir[s].size \in Nat
    BY <1>2, EntrySized DEF Entries
<1>6. EntriesHeld(fat, dir, t, Stranded)
    BY <1>1, <1>4, <1>5 DEF EntriesHeld
<1>7. OpenHeld(fat, open, Stranded)
    BY <1>1, <1>2, <1>4 DEF OpenHeld, Sized
<1>8. ASSUME call.op \in {"open", "write"}, ~call.failed, call.todo = <<>>
      PROVE  Past(fat, call) \subseteq Stranded
    <2>1. \A k \in DOMAIN call.todo : FALSE
        BY <1>8
    <2>2. Past(fat, call) \subseteq K
        BY <2>1, <1>1, <1>8 DEF OwnHeld
    <2> QED BY <2>2, <1>2, <1>4, <1>8 DEF Sized
<1> QED BY <1>4, <1>6, <1>7, <1>8 DEF t

LEMMA CrashLosses ==
    ASSUME IInv, LossInv, Crash
    PROVE  LossInv' /\ FineInv'
<1>1. /\ call' = Idle /\ open' = <<>> /\ torn' = StillTorn /\ lost' = Stranded
      /\ UNCHANGED <<fat, dir>>
    BY DEF Crash
<1>2. torn \ call.doubt \subseteq torn'
    BY <1>1 DEF StillTorn
<1>3. Covered(fat', dir', lost') /\ EntriesHeld(fat', dir', torn', lost')
    BY <1>1, <1>2, CutShort, NamesMore
<1>4. DOMAIN open' = {}
    BY <1>1
<1>5. OpenHeld(fat', open', lost')
    BY <1>4 DEF OpenHeld
<1> QED BY <1>1, <1>3, <1>5, IdleAgain

\* The open files with one more.
LEMMA OpenedHeld ==
    ASSUME NEW f, NEW o, NEW n, NEW s, NEW c, NEW z, NEW K,
           \A m \in DOMAIN o : m # n => Past(f, o[m]) \subseteq K,
           NEW e, e.cluster = c, e.size = z, Past(f, e) \subseteq K
    PROVE  OpenHeld(f, Opened(o, n, s, c, z), K)
<1> DEFINE p == Opened(o, n, s, c, z)
<1>1. /\ DOMAIN p = DOMAIN o \cup {n} /\ p[n].cluster = c /\ p[n].size = z
      /\ \A m \in DOMAIN o : m # n => p[m] = o[m]
    BY DEF Opened
<1> HIDE DEF p
<1>2. Past(f, p[n]) \subseteq K
    BY <1>1 DEF Past, Used
<1> QED BY <1>1, <1>2 DEF OpenHeld, p

LEMMA ReturnLosses ==
    ASSUME IInv, LossInv, FineInv, Return
    PROVE  LossInv' /\ FineInv'
<1> DEFINE t == torn \ call.doubt
           n == call.name
           bad == call.failed \/ Missing \/ call.missed
           more == call.op \in {"open", "write"} /\ ~call.failed
<1>1. /\ call # Idle /\ call.todo = <<>> /\ call' = Idle /\ UNCHANGED <<fat, dir>>
      /\ open' = IF more THEN Opened(open, n, call.slot, call.cluster, call.size) ELSE open
      /\ lost' = IF bad THEN Stranded ELSE StrandedYet
      /\ torn' = IF call.failed \/ Missing THEN StillTorn ELSE t
    BY DEF Return
<1>2. t \subseteq torn'
    BY <1>1 DEF StillTorn
<1>3. /\ Covered(fat, dir, lost') /\ EntriesHeld(fat, dir, t, lost')
      /\ \A m \in DOMAIN open : m # n \/ ~more => Past(fat, open[m]) \subseteq lost'
      /\ more => Past(fat, call) \subseteq lost'
    <2>1. CASE bad
        BY <2>1, <1>1, CutShort DEF OpenHeld
    <2>2. CASE ~bad
        <3> DEFINE K == lost \cup call.left
        <3>1. Fine(fat, dir, open, call, t, K, <<>>)
            BY <1>1 DEF FineInv
        <3>2. /\ fat \in [Clusters -> Values] /\ Linked(fat) /\ Entries(dir)
              /\ Sized(open, call)
            BY CallSized, TypeShape DEF IInv, Sane, Types
        <3>3. call.op = "write" => Len(Chain(fat, call.cluster)) >= call.size
            <4>1. ASSUME call.op = "write"
                  PROVE  Len(Chain(fat, call.cluster)) \in Nat /\ call.size \in Nat
                <5>1. call.cluster \in Clusters /\ call.size \in Nat
                    BY <2>2, <3>2, <4>1 DEF Sized
                <5> QED BY <5>1, ChainFacts
            <4> QED BY <2>2, <4>1 DEF Missing
        <3>4. Outcome(fat, dir, call, <<>>, fat, dir)
            BY <3>2, <3>3, StandsStill DEF Outcome
        <3>5. Settled(fat, dir, open, call, t, K)
            BY <3>1, <3>4, <2>2, StandsStill DEF Fine
        <3>6. lost' = {x \in K : fat[x] # Free}
            BY <1>1, <2>2 DEF StrandedYet
        <3> DEFINE L == lost'
        <3> HIDE DEF K, L
        <3>7. L = {x \in K : fat[x] # Free}
            BY <3>6 DEF L
        <3>8. /\ Covered(fat, dir, K) => Covered(fat, dir, L)
              /\ \A e : e.cluster \in Clusters /\ e.size \in Nat /\ Past(fat, e) \subseteq K =>
                   Past(fat, e) \subseteq L
            BY <3>2, <3>7, InUse
        <3>9. Covered(fat, dir, L)
            BY <3>5, <3>8 DEF Settled
        <3>10. \A s \in DOMAIN dir : dir[s].cluster \in Clusters /\ dir[s].size \in Nat
            BY <3>2, EntrySized DEF Entries
        <3>11. EntriesHeld(fat, dir, t, L)
            BY <3>5, <3>8, <3>10 DEF EntriesHeld, Settled
        <3>12. \A m \in DOMAIN open : m # n \/ ~more => Past(fat, open[m]) \subseteq L
            BY <2>2, <3>2, <3>5, <3>8 DEF Sized, Settled
        <3>13. more => Past(fat, call) \subseteq L
            BY <3>2, <3>5, <3>8 DEF Sized, Settled
        <3> QED BY <3>9, <3>11, <3>12, <3>13 DEF L
    <2> QED BY <2>1, <2>2
<1> HIDE DEF t, bad
<1>4. EntriesHeld(fat, dir, torn', lost')
    BY <1>2, <1>3, NamesMore
<1>5. OpenHeld(fat, open', lost')
    <2>1. CASE more
        <3> DEFINE K == lost'
        <3>1. /\ \A m \in DOMAIN open : m # n => Past(fat, open[m]) \subseteq K
              /\ Past(fat, call) \subseteq K
            BY <2>1, <1>3
        <3> HIDE DEF K
        <3>2. OpenHeld(fat, Opened(open, n, call.slot, call.cluster, call.size), K)
            BY <3>1, OpenedHeld
        <3> QED BY <2>1, <3>2, <1>1 DEF K
    <2>2. CASE ~more
        BY <2>2, <1>1, <1>3 DEF OpenHeld
    <2> QED BY <2>1, <2>2
<1> QED BY <1>1, <1>3, <1>4, <1>5, IdleAgain

LEMMA OpenExistingLosses ==
    ASSUME IInv, LossInv, NEW n \in Names, OpenExisting(n)
    PROVE  LossInv' /\ FineInv'
<1> DEFINE s == SlotOf(n)
<1>1. /\ call = Idle /\ call' = Idle /\ UNCHANGED <<fat, dir, lost, torn>>
      /\ open' = Opened(open, n, s, dir[s].cluster, dir[s].size)
      /\ Exists(n) /\ n \notin torn
    BY DEF OpenExisting, Sound
<1>2. s \in DOMAIN dir /\ dir[s].name = n
    BY <1>1, SlotShape
<1>3. /\ Covered(fat, dir, lost) /\ EntriesHeld(fat, dir, torn, lost)
      /\ OpenHeld(fat, open, lost)
    BY <1>1, RestLosses
<1>4. Past(fat, dir[s]) \subseteq lost
    BY <1>1, <1>2, <1>3 DEF EntriesHeld
<1> HIDE DEF s
<1>5. OpenHeld(fat, Opened(open, n, s, dir[s].cluster, dir[s].size), lost)
    BY <1>3, <1>4, OpenedHeld DEF OpenHeld
<1> QED BY <1>1, <1>3, <1>5, IdleAgain

LEMMA CloseLosses ==
    ASSUME IInv, LossInv, NEW n \in DOMAIN open, Close(n)
    PROVE  LossInv' /\ FineInv'
<1>1. /\ call = Idle /\ call' = Idle /\ UNCHANGED <<fat, dir, lost, torn>>
      /\ open' = [m \in DOMAIN open \ {n} |-> open[m]]
    BY DEF Close
<1>2. /\ Covered(fat, dir, lost) /\ EntriesHeld(fat, dir, torn, lost)
      /\ OpenHeld(fat, open, lost)
    BY <1>1, RestLosses
<1>3. OpenHeld(fat, open', lost)
    BY <1>1, <1>2 DEF OpenHeld
<1> QED BY <1>1, <1>2, <1>3, IdleAgain

LEMMA InitLosses ==
    ASSUME Init
    PROVE  LossInv /\ FineInv
<1>1. /\ fat = [c \in Clusters |-> IF c = Root THEN ENDOFCHAIN ELSE Free]
      /\ dir = <<>> /\ open = <<>> /\ call = Idle /\ lost = {} /\ torn = {}
    BY DEF Init
<1>2. DOMAIN dir = {} /\ DOMAIN open = {}
    BY <1>1
<1>3. Covered(fat, dir, lost)
    <2>1. \A x \in Clusters : fat[x] # Free => x = Root
        BY <1>1
    <2>2. Root \in Range(Chain(fat, Root))
        BY Constants, RangeRest
    <2> QED BY <2>1, <2>2 DEF Covered, Reached
<1>4. EntriesHeld(fat, dir, torn, lost) /\ OpenHeld(fat, open, lost)
    BY <1>2 DEF EntriesHeld, OpenHeld
<1>5. Losses(fat, dir, open, Idle, torn \ Idle.doubt, lost \cup Idle.got, Idle.todo)
    BY <1>3, <1>4, IdleLosses
<1> QED BY <1>1, <1>5 DEF LossInv, FineInv

-----------------------------------------------------------------------------
(* A call starts *)

\* The torn names when a call with the names D in doubt starts.
Torn(D) == (OldTorn \cup D) \ D

\* The names a call puts in doubt have no entry, or one that is not torn.
Sure(D) == \A s \in DOMAIN dir : dir[s].name \in D => dir[s].name \notin torn

LEMMA StartHeld ==
    ASSUME IInv, LossInv, call = Idle, NEW D, Sure(D)
    PROVE  /\ Covered(fat, dir, lost) /\ OpenHeld(fat, open, lost)
           /\ EntriesHeld(fat, dir, Torn(D), lost)
           /\ \A s \in DOMAIN dir : dir[s].name \notin Torn(D) =>
                /\ dir[s].name \notin torn /\ dir[s].name \notin OldTorn
                /\ Unled(fat, dir[s].cluster)
                /\ fat[dir[s].cluster] # Free /\ dir[s].cluster # Root
           /\ \A s \in DOMAIN dir : dir[s].cluster \in Clusters /\ dir[s].size \in Nat
           /\ \A n \in DOMAIN open : open[n].cluster \in Clusters /\ open[n].size \in Nat
<1>1. /\ Covered(fat, dir, lost) /\ EntriesHeld(fat, dir, torn, lost)
      /\ OpenHeld(fat, open, lost)
    BY RestLosses
<1>2. \A s \in DOMAIN dir : dir[s].name \notin Torn(D) =>
        dir[s].name \notin torn /\ dir[s].name \notin OldTorn
    BY DEF Torn, Sure, OldTorn, Exists
<1>3. Owned(fat, dir, OldTorn) /\ Entries(dir)
    BY AtStart
<1>4. \A s \in DOMAIN dir : dir[s].name \notin Torn(D) =>
        /\ Unled(fat, dir[s].cluster)
        /\ fat[dir[s].cluster] # Free /\ dir[s].cluster # Root
    BY <1>2, <1>3 DEF Owned, Unled
<1>5. EntriesHeld(fat, dir, Torn(D), lost)
    BY <1>1, <1>2 DEF EntriesHeld
<1>6. \A s \in DOMAIN dir : dir[s].cluster \in Clusters /\ dir[s].size \in Nat
    BY <1>3, EntrySized DEF Entries
<1>7. \A n \in DOMAIN open : open[n].cluster \in Clusters /\ open[n].size \in Nat
    BY CallSized DEF Sized
<1> QED BY <1>1, <1>2, <1>4, <1>5, <1>6, <1>7

LEMMA StartLosses ==
    ASSUME IInv, LossInv, NEW c, Start(c), Sure(c.doubt),
           TableHeld(fat, dir, lost \cup c.got, c.todo),
           DirHeld(fat, dir, lost \cup c.got, c.todo),
           OwnHeld(fat, c, lost \cup c.got, c.todo),
           Fine(fat, dir, open, c, Torn(c.doubt), lost \cup c.left, c.todo)
    PROVE  LossInv' /\ FineInv'
<1> DEFINE K == lost \cup c.got
           t == Torn(c.doubt)
<1>1. /\ call = Idle /\ call' = c /\ torn' = OldTorn \cup c.doubt
      /\ UNCHANGED <<fat, dir, open, lost>>
    BY DEF Start, OldTorn
<1>2. torn' \ call'.doubt = t /\ lost' \cup call'.got = K
    BY <1>1 DEF Torn
<1>3. /\ Covered(fat, dir, lost) /\ OpenHeld(fat, open, lost) /\ EntriesHeld(fat, dir, t, lost)
    BY <1>1, StartHeld
<1>4. Covered(fat, dir, K) /\ OpenHeld(fat, open, K) /\ EntriesHeld(fat, dir, t, K)
    <2>1. lost \subseteq K
        OBVIOUS
    <2> HIDE DEF K, t
    <2> QED BY <2>1, <1>3 DEF Covered, OpenHeld, EntriesHeld
<1>5. Losses(fat, dir, open, c, t, K, c.todo)
    BY <1>4 DEF Losses
<1> HIDE DEF K
<1>6. LossInv'
    BY <1>1, <1>2, <1>5 DEF LossInv
<1>7. FineInv'
    BY <1>1, <1>2 DEF FineInv
<1> QED BY <1>6, <1>7

-----------------------------------------------------------------------------
(* Chains of which some clusters were freed *)

LEMMA RestPruned ==
    ASSUME NEW f, NEW g, \A y \in Clusters : g[y] = f[y] \/ g[y] \notin Clusters,
           NEW a \in Clusters, NEW k \in Nat
    PROVE  Rest(g, a, k) \subseteq Rest(f, a, k)
<1> DEFINE s == Chain(f, a)
           u == Chain(g, a)
           W == {y \in Clusters : g[y] # f[y]}
<1>1. /\ Len(u) \in Nat \ {0} /\ Len(s) \in Nat \ {0} /\ Len(u) \in 1 .. Len(u)
      /\ \A i \in 1 .. Len(u) - 1 : u[i + 1] = g[u[i]]
      /\ \A i \in 1 .. Len(u) : u[i] \in Clusters
    BY ChainFacts
<1>2. \A y \in W : g[y] \notin Clusters
    OBVIOUS
<1>3. \A y \in Clusters \ W : f[y] = g[y]
    OBVIOUS
<1> HIDE DEF s, u, W
<1>4. \A i \in 1 .. Len(u) - 1 : u[i] \notin W
    <2> TAKE i \in 1 .. Len(u) - 1
    <2>1. i + 1 \in 1 .. Len(u)
        BY <1>1
    <2> QED BY <2>1, <1>1, <1>2
<1>5. Len(u) <= Len(s) /\ \A i \in 1 .. Len(u) : s[i] = u[i]
    <2> DEFINE e == Len(u)
    <2>1. e \in 1 .. Len(Chain(g, a)) /\ \A i \in 1 .. e - 1 : Chain(g, a)[i] \notin W
        BY <1>1, <1>4 DEF u
    <2> HIDE DEF e
    <2>2. e <= Len(Chain(f, a)) /\ \A i \in 1 .. e : Chain(f, a)[i] = Chain(g, a)[i]
        BY <2>1, <1>3, ChainBefore, ZenonT(60)
    <2> QED BY <2>2 DEF e, s, u
<1>6. \A i \in k + 1 .. Len(u) : i \in k + 1 .. Len(s) /\ s[i] = u[i]
    BY <1>1, <1>5
<1> QED BY <1>6 DEF Rest, s, u

\* What a chain loses with clusters of another one is behind these.
LEMMA ChainPruned ==
    ASSUME NEW f, NEW g, NEW x \in Clusters, Linked(f), Unled(f, x), NEW W,
           W \subseteq Range(Chain(f, x)), \A y \in Clusters \ W : g[y] = f[y],
           NEW a \in Clusters, NEW z \in Range(Chain(f, a))
    PROVE  z \in Range(Chain(g, a)) \/ z \in Range(Chain(f, x))
<1>1. SUFFICES ASSUME NEW b \in W, z \in Rest(f, b, 1) PROVE z \in Range(Chain(f, x))
    BY ChainKept
<1>2. DOMAIN Chain(f, x) = 1 .. Len(Chain(f, x))
    BY ChainFacts
<1>3. PICK j \in 1 .. Len(Chain(f, x)) : Chain(f, x)[j] = b
    BY <1>1, <1>2 DEF Range
<1>4. z \in Rest(f, x, j)
    BY <1>1, <1>3, RestOfMember
<1>5. PICK i \in j + 1 .. Len(Chain(f, x)) : z = Chain(f, x)[i]
    BY <1>4 DEF Rest
<1>6. i \in DOMAIN Chain(f, x)
    <2>1. Len(Chain(f, x)) \in Nat
        BY ChainFacts
    <2> HIDE DEF Chain
    <2> QED BY <1>2, <2>1
<1> QED BY <1>5, <1>6 DEF Range

\* The clusters that a reset writes are of the chain, and only its first is not
\* freed; what is before it may be writes of the directory.
LEMMA ResetTable ==
    ASSUME NEW f, NEW x \in Clusters, Linked(f), Unled(f, x),
           NEW s \in Seq(Clusters), s # <<>>, s[1] = x, Range(s) \subseteq Range(Chain(f, x)),
           NEW A \in Seq(DeviceWrites), \A w \in Range(A) : w.on # "fat"
    PROVE  LET T == A \o Reset(s) IN
           \A k \in DOMAIN T : T[k].on = "fat" =>
               /\ ~Links(T[k]) /\ Rest(f, T[k].at, 1) \subseteq Rest(f, x, 1)
               /\ ~Frees(T[k]) => T[k].at = x
<1> DEFINE B == Reset(s)
           T == A \o B
<1>1. /\ B \in Seq(DeviceWrites)
      /\ \A k \in DOMAIN B :
           \/ B[k].on = "bak"
           \/ \E i \in DOMAIN s : Frees(B[k]) /\ B[k].at = s[i]
           \/ Marks(B[k]) /\ B[k].at = s[1]
    <2>1. /\ B \in Seq(DeviceWrites)
          /\ \A k \in DOMAIN B :
               \/ B[k].on = "bak"
               \/ \E i \in DOMAIN s :
                    /\ Frees(B[k]) /\ Firm(B[k]) /\ B[k].at = s[i]
                    /\ \A h \in 1 .. i - 1 :
                         \E p \in Before(B, k) : Frees(p) /\ Firm(p) /\ p.at = s[h]
               \/ /\ Marks(B[k]) /\ Firm(B[k]) /\ B[k].at = s[1]
                  /\ \E p \in Before(B, k) : Frees(p) /\ Firm(p) /\ p.at = s[1]
        BY ResetShape
    <2> HIDE DEF B
    <2> QED BY <2>1
<1> HIDE DEF B
<1>2. /\ \A k \in DOMAIN A : T[k] = A[k] /\ T[k].on # "fat"
      /\ \A j \in DOMAIN B : T[Len(A) + j] = B[j]
      /\ \A k \in DOMAIN T : k \in DOMAIN A \/ \E j \in DOMAIN B : k = Len(A) + j
    BY <1>1, CatShape DEF Range
<1> HIDE DEF T
<1>3. \A i \in DOMAIN s : s[i] \in Range(Chain(f, x)) /\ s[i] \in Clusters
    <2>1. \A y \in Range(Chain(f, x)) : y \in Clusters
        BY ChainIn
    <2> QED BY <2>1 DEF Range
<1>4. ASSUME NEW y \in Range(Chain(f, x)) PROVE Rest(f, y, 1) \subseteq Rest(f, x, 1)
    <2>1. DOMAIN Chain(f, x) = 1 .. Len(Chain(f, x)) /\ Len(Chain(f, x)) \in Nat
        BY ChainFacts
    <2>2. PICK j \in 1 .. Len(Chain(f, x)) : Chain(f, x)[j] = y
        BY <1>4, <2>1 DEF Range
    <2>3. Rest(f, y, 1) \subseteq Rest(f, x, j)
        BY <2>2, RestOfMember
    <2>4. j \in Nat /\ 1 <= j
        BY <2>1
    <2>5. Rest(f, x, j) \subseteq Rest(f, x, 1)
        BY <2>4, RestLess
    <2> QED BY <2>3, <2>5
<1>5. 1 \in DOMAIN s
    BY EmptySeq
<1>6. ASSUME NEW k \in DOMAIN T, T[k].on = "fat"
      PROVE  /\ ~Links(T[k]) /\ Rest(f, T[k].at, 1) \subseteq Rest(f, x, 1)
             /\ ~Frees(T[k]) => T[k].at = x
    <2>1. PICK j \in DOMAIN B : T[k] = B[j]
        BY <1>2, <1>6
    <2>2. \/ \E i \in DOMAIN s : Frees(T[k]) /\ T[k].at = s[i]
          \/ Marks(T[k]) /\ T[k].at = s[1]
        BY <2>1, <1>1, <1>6
    <2>3. T[k].at \in Range(Chain(f, x)) /\ ~Links(T[k]) /\ (~Frees(T[k]) => T[k].at = x)
        BY <2>2, <1>3, <1>5, Kinds, Constants DEF Frees, Marks, Links
    <2> QED BY <2>3, <1>4
<1> QED BY <1>6 DEF T, B

\* The last write of a reset marks the first cluster; all are freed before.
LEMMA ResetEnds ==
    ASSUME NEW s \in Seq(Clusters), s # <<>>,
           NEW A \in Seq(DeviceWrites), \A w \in Range(A) : w.on # "fat"
    PROVE  LET T == A \o Reset(s) IN
           /\ \A k \in DOMAIN T : T[k].on = "fat" =>
                T[k].at \in Range(s) /\ (T[k].at # s[1] => Frees(T[k]))
           /\ \A y \in Range(s) : \E k \in DOMAIN T : T[k].on = "fat" /\ T[k].at = y
           /\ \E k \in DOMAIN T :
                /\ Marks(T[k]) /\ T[k].at = s[1]
                /\ \A j \in DOMAIN T : T[j].on = "fat" => j <= k
<1> DEFINE F == FlattenSeq([i \in 1 .. Len(s) |-> SetNext(s[i], Free, "stop")])
           B == Reset(s)
           T == A \o B
           n == Len(T)
<1>1. /\ B \in Seq(DeviceWrites)
      /\ \A k \in DOMAIN B :
           \/ B[k].on = "bak"
           \/ \E i \in DOMAIN s : Frees(B[k]) /\ B[k].at = s[i]
           \/ Marks(B[k]) /\ B[k].at = s[1]
      /\ Len(B) - 1 \in DOMAIN B /\ Marks(B[Len(B) - 1])
      /\ B[Len(B) - 1].at = s[1] /\ B[Len(B)].on = "bak"
    <2>1. /\ B \in Seq(DeviceWrites)
          /\ \A k \in DOMAIN B :
               \/ B[k].on = "bak"
               \/ \E i \in DOMAIN s :
                    /\ Frees(B[k]) /\ Firm(B[k]) /\ B[k].at = s[i]
                    /\ \A h \in 1 .. i - 1 :
                         \E p \in Before(B, k) : Frees(p) /\ Firm(p) /\ p.at = s[h]
               \/ /\ Marks(B[k]) /\ Firm(B[k]) /\ B[k].at = s[1]
                  /\ \E p \in Before(B, k) : Frees(p) /\ Firm(p) /\ p.at = s[1]
          /\ Len(B) - 1 \in DOMAIN B /\ Marks(B[Len(B) - 1]) /\ Firm(B[Len(B) - 1])
          /\ B[Len(B) - 1].at = s[1] /\ B[Len(B)].on = "bak"
        BY ResetShape
    <2> HIDE DEF B
    <2> QED BY <2>1
<1>2. ASSUME NEW i \in DOMAIN s PROVE \E p \in Range(B) : Frees(p) /\ p.at = s[i]
    <2> DEFINE E == SetNext(s[1], ENDOFCHAIN, "stop")
    <2>1. /\ F \in Seq(DeviceWrites)
          /\ \E p \in Range(F) : Frees(p) /\ Firm(p) /\ p.at = s[i]
        BY FreesShape
    <2>2. E \in Seq(DeviceWrites)
        <3>1. s[1] \in Clusters /\ ENDOFCHAIN \in Values
            BY EmptySeq, ElementOfSeq DEF Values
        <3> QED BY <3>1, SetNextShape
    <2>3. B = F \o E
        BY DEF Reset
    <2> HIDE DEF B, E, F
    <2>4. Range(B) = Range(F) \cup Range(E)
        BY <2>1, <2>2, <2>3, CatShape
    <2> QED BY <2>1, <2>4
<1> HIDE DEF B, F
<1>3. /\ T \in Seq(DeviceWrites) /\ n = Len(A) + Len(B) /\ Range(T) = Range(A) \cup Range(B)
      /\ \A k \in DOMAIN A : T[k] = A[k] /\ T[k].on # "fat"
      /\ \A j \in DOMAIN B : Len(A) + j \in DOMAIN T /\ T[Len(A) + j] = B[j]
      /\ \A k \in DOMAIN T : k \in DOMAIN A \/ \E j \in DOMAIN B : k = Len(A) + j
      /\ DOMAIN B = 1 .. Len(B) /\ Len(A) \in Nat /\ Len(B) \in Nat
    <2>1. /\ T \in Seq(DeviceWrites) /\ n = Len(A) + Len(B) /\ Range(T) = Range(A) \cup Range(B)
          /\ \A k \in DOMAIN A : T[k] = A[k]
          /\ \A j \in DOMAIN B : Len(A) + j \in DOMAIN T /\ T[Len(A) + j] = B[j]
          /\ \A k \in DOMAIN T : k \in DOMAIN A \/ \E j \in DOMAIN B : k = Len(A) + j
          /\ DOMAIN B = 1 .. Len(B) /\ Len(A) \in Nat /\ Len(B) \in Nat
        BY <1>1, CatShape, SMTT(30)
    <2> HIDE DEF T, n
    <2>2. \A k \in DOMAIN A : T[k] = A[k] /\ T[k].on # "fat"
        BY <2>1 DEF Range
    <2> QED BY <2>1, <2>2
<1>4. DOMAIN T = 1 .. n /\ n \in Nat
    BY <1>3, LenProperties
<1>5. n - 1 \in DOMAIN T /\ T[n - 1] = B[Len(B) - 1] /\ T[n] = B[Len(B)]
    <2>1. /\ Len(A) + (Len(B) - 1) = n - 1 /\ Len(A) + Len(B) = n
          /\ Len(B) \in DOMAIN B
        BY <1>1, <1>3
    <2> HIDE DEF n, T
    <2> QED BY <2>1, <1>1, <1>3
<1> HIDE DEF n, T
<1>6. ASSUME NEW k \in DOMAIN T, T[k].on = "fat"
      PROVE  T[k].at \in Range(s) /\ (T[k].at # s[1] => Frees(T[k]))
    <2>1. 1 \in DOMAIN s
        BY EmptySeq
    <2>2. PICK j \in DOMAIN B : T[k] = B[j]
        BY <1>3, <1>6
    <2> QED BY <2>1, <2>2, <1>1, <1>6 DEF Range
<1>7. ASSUME NEW y \in Range(s)
      PROVE  \E k \in DOMAIN T : T[k].on = "fat" /\ T[k].at = y
    <2>1. PICK i \in DOMAIN s : y = s[i]
        BY DEF Range
    <2>2. PICK p \in Range(T) : Frees(p) /\ p.at = y
        BY <2>1, <1>2, <1>3
    <2> QED BY <2>2 DEF Frees, Range
<1>8. Marks(T[n - 1]) /\ T[n - 1].at = s[1] /\ T[n].on = "bak"
    BY <1>1, <1>5
<1>9. \A j \in DOMAIN T : T[j].on = "fat" => j <= n - 1
    <2> TAKE j \in DOMAIN T
    <2> HAVE T[j].on = "fat"
    <2>1. j # n
        BY <1>8
    <2> QED BY <2>1, <1>4
<1> QED BY <1>5, <1>6, <1>7, <1>8, <1>9 DEF T, B

\* When such writes have all landed, the first cluster is marked and the others
\* are free.
LEMMA ResetFinal ==
    ASSUME NEW f, NEW g, NEW T, NEW x \in Clusters, NEW W, x \in W,
           \A k \in DOMAIN T : T[k].on = "fat" =>
               T[k].at \in W /\ (T[k].at # x => Frees(T[k])),
           \A y \in W : \E k \in DOMAIN T : T[k].on = "fat" /\ T[k].at = y,
           \E k \in DOMAIN T : /\ Marks(T[k]) /\ T[k].at = x
                               /\ \A j \in DOMAIN T : T[j].on = "fat" => j <= k,
           DOMAIN T \subseteq Nat, Final(f, T, g)
    PROVE  \A y \in Clusters :
               g[y] = IF y = x THEN ENDOFCHAIN ELSE IF y \in W THEN Free ELSE f[y]
<1> SUFFICES ASSUME NEW y \in Clusters
             PROVE  g[y] = IF y = x THEN ENDOFCHAIN ELSE IF y \in W THEN Free ELSE f[y]
    OBVIOUS
<1>1. CASE y = x
    <2>1. PICK m \in DOMAIN T : /\ Marks(T[m]) /\ T[m].at = x
                                /\ \A j \in DOMAIN T : T[j].on = "fat" => j <= m
        OBVIOUS
    <2>2. PICK k \in DOMAIN T :
            /\ T[k].on = "fat" /\ T[k].at = y /\ g[y] = T[k].value
            /\ \A j \in DOMAIN T : T[j].on = "fat" /\ T[j].at = y => j <= k
        BY <1>1, <2>1 DEF Final, Marks
    <2>3. k <= m /\ m <= k
        BY <2>1, <2>2, <1>1 DEF Marks
    <2>4. k = m
        BY <2>3
    <2> QED BY <2>1, <2>2, <2>4, <1>1 DEF Marks
<1>2. CASE y # x /\ y \in W
    <2>1. PICK k \in DOMAIN T : T[k].on = "fat" /\ T[k].at = y /\ g[y] = T[k].value
        BY <1>2 DEF Final
    <2>2. Frees(T[k])
        BY <2>1, <1>2
    <2> QED BY <2>1, <2>2, <1>2 DEF Frees
<1>3. CASE y \notin W
    BY <1>3 DEF Final
<1> QED BY <1>1, <1>2, <1>3

\* A table of which the clusters seen of a chain were freed, but for the first.
LEMMA ResetSettles ==
    ASSUME IInv, LossInv, call = Idle, NEW x \in Clusters, Unled(fat, x),
           fat[x] # Free, NEW W, W \subseteq Range(Chain(fat, x)), x \in W, NEW g,
           \A y \in Clusters :
               g[y] = IF y = x THEN ENDOFCHAIN ELSE IF y \in W THEN Free ELSE fat[y]
    PROVE  LET K == lost \cup (Range(Chain(fat, x)) \ W) IN
           /\ \A z \in Clusters : g[z] # Free =>
                \/ z = x \/ z \in K \/ z \in Range(Chain(g, Root))
                \/ \E u \in DOMAIN dir :
                     dir[u].cluster # x /\ z \in Range(Chain(g, dir[u].cluster))
           /\ \A e : e.cluster \in Clusters /\ e.size \in Nat /\ Past(fat, e) \subseteq lost =>
                Past(g, e) \subseteq K
           /\ \A k \in Nat \ {0} : Rest(g, x, k) = {}
<1> DEFINE K == lost \cup (Range(Chain(fat, x)) \ W)
<1>1. Linked(fat) /\ Root \in Clusters /\ Entries(dir) /\ Covered(fat, dir, lost)
    BY AtStart, RestLosses
<1>2. \A s \in DOMAIN dir : dir[s].cluster \in Clusters
    BY <1>1, EntrySized DEF Entries
<1>3. \A y \in Clusters \ W : g[y] = fat[y]
    OBVIOUS
<1>4. \A a \in Clusters : \A z \in Range(Chain(fat, a)) :
        z \in Range(Chain(g, a)) \/ z \in Range(Chain(fat, x))
    BY <1>1, <1>3, ChainPruned
<1>5. ASSUME NEW z \in Clusters, g[z] # Free
      PROVE  \/ z = x \/ z \in K \/ z \in Range(Chain(g, Root))
             \/ \E u \in DOMAIN dir :
                  dir[u].cluster # x /\ z \in Range(Chain(g, dir[u].cluster))
    <2>1. fat[z] # Free /\ (z \in W => z = x)
        BY <1>5
    <2>2. CASE z \in Range(Chain(fat, x))
        BY <2>1, <2>2
    <2>3. CASE z \notin Range(Chain(fat, x))
        <3>1. Reached(fat, dir, z) \/ z \in lost
            BY <1>1, <2>1 DEF Covered
        <3>2. ASSUME NEW a \in Clusters, z \in Range(Chain(fat, a))
              PROVE  z \in Range(Chain(g, a)) /\ a # x
            BY <3>2, <2>3, <1>4
        <3> QED BY <3>1, <3>2, <1>1, <1>2 DEF Reached
    <2> QED BY <2>2, <2>3
<1>6. ASSUME NEW e, e.cluster \in Clusters, e.size \in Nat, Past(fat, e) \subseteq lost
      PROVE  Past(g, e) \subseteq K
    <2>1. \A y \in Clusters : g[y] = fat[y] \/ g[y] \notin Clusters
        BY Constants
    <2>2. Used(e) \in Nat
        BY <1>6, UsedShape
    <2>3. Past(g, e) \subseteq Past(fat, e)
        BY <1>6, <2>1, <2>2, RestPruned DEF Past
    <2> QED BY <2>3, <1>6
<1>7. \A k \in Nat \ {0} : Rest(g, x, k) = {}
    BY Constants, RestNone
<1> QED BY <1>5, <1>6, <1>7

LEMMA ResetAlone ==
    ASSUME NEW f, NEW g, NEW s \in Seq(Clusters), s # <<>>, Final(f, Reset(s), g)
    PROVE  \A y \in Clusters :
               g[y] = IF y = s[1] THEN ENDOFCHAIN ELSE IF y \in Range(s) THEN Free ELSE f[y]
<1> DEFINE A == <<>>
           T == Reset(s)
           W == Range(s)
           x == s[1]
<1>1. A \in Seq(DeviceWrites) /\ T \in Seq(DeviceWrites) /\ \A w \in Range(A) : w.on # "fat"
    BY ResetShape DEF Range
<1>2. A \o T = T
    BY <1>1, ConcatEmptySeq
<1> HIDE DEF A
<1>3. LET U == A \o Reset(s) IN
      /\ \A k \in DOMAIN U : U[k].on = "fat" =>
           U[k].at \in Range(s) /\ (U[k].at # s[1] => Frees(U[k]))
      /\ \A y \in Range(s) : \E k \in DOMAIN U : U[k].on = "fat" /\ U[k].at = y
      /\ \E k \in DOMAIN U :
           /\ Marks(U[k]) /\ U[k].at = s[1]
           /\ \A j \in DOMAIN U : U[j].on = "fat" => j <= k
    BY <1>1, ResetEnds
<1>4. /\ \A k \in DOMAIN T : T[k].on = "fat" =>
           T[k].at \in W /\ (T[k].at # x => Frees(T[k]))
      /\ \A y \in W : \E k \in DOMAIN T : T[k].on = "fat" /\ T[k].at = y
      /\ \E k \in DOMAIN T :
           /\ Marks(T[k]) /\ T[k].at = x
           /\ \A j \in DOMAIN T : T[j].on = "fat" => j <= k
    BY <1>2, <1>3
<1>5. x \in Clusters /\ x \in W /\ Final(f, T, g) /\ DOMAIN T \subseteq Nat
    <2>1. s[1] \in Clusters /\ s[1] \in Range(s)
        BY EmptySeq, ElementOfSeq DEF Range
    <2>2. DOMAIN T \subseteq Nat
        BY <1>1, LenProperties
    <2> QED BY <2>1, <2>2
<1> HIDE DEF T, W, x
<1>6. \A y \in Clusters :
          g[y] = IF y = x THEN ENDOFCHAIN ELSE IF y \in W THEN Free ELSE f[y]
    BY <1>4, <1>5, ResetFinal
<1> QED BY <1>6 DEF W, x

LEMMA TailRest ==
    ASSUME NEW f, NEW x \in Clusters
    PROVE  /\ ToSet(Tail(Chain(f, x))) = Rest(f, x, 1)
           /\ ToSet(Chain(f, x)) = Range(Chain(f, x))
<1> DEFINE s == Chain(f, x)
           u == Tail(s)
<1>1. s \in Seq(Clusters) /\ Len(s) \in Nat \ {0} /\ DOMAIN s = 1 .. Len(s)
    BY ChainFacts
<1> HIDE DEF s
<1>2. s # <<>>
    BY <1>1, EmptySeq
<1>3. u \in Seq(Clusters) /\ Len(u) = Len(s) - 1 /\ \A i \in 1 .. Len(u) : u[i] = s[i + 1]
    BY <1>1, <1>2, HeadTailProperties
<1>4. DOMAIN u = 1 .. Len(u)
    BY <1>3, LenProperties
<1> HIDE DEF u
<1>5. /\ \A i \in DOMAIN u : i + 1 \in 1 + 1 .. Len(s) /\ u[i] = s[i + 1]
      /\ \A i \in 1 + 1 .. Len(s) : i - 1 \in DOMAIN u /\ u[i - 1] = s[i]
    <2>1. \A i \in 1 + 1 .. Len(s) : i - 1 \in 1 .. Len(u) /\ (i - 1) + 1 = i
        BY <1>1, <1>3
    <2>2. \A i \in 1 .. Len(u) : i + 1 \in 1 + 1 .. Len(s)
        BY <1>1, <1>3
    <2> QED BY <2>1, <2>2, <1>3, <1>4
<1>6. Range(u) = {s[i] : i \in 1 + 1 .. Len(s)}
    BY <1>5 DEF Range
<1>7. ToSet(u) = Range(u) /\ ToSet(s) = Range(s)
    BY <1>1, <1>3, ToSetShape
<1> QED BY <1>6, <1>7 DEF Rest, s, u

\* The directory stays as it is when no write is of it.
LEMMA SameDir ==
    ASSUME NEW d, NEW e, NEW T, \A k \in DOMAIN T : T[k].on # "dir", FinalDir(d, T, e)
    PROVE  \A s : (s \in DOMAIN e <=> s \in DOMAIN d) /\ (s \in DOMAIN d => e[s] = d[s])
BY DEF FinalDir

LEMMA OpenTruncatedLosses ==
    ASSUME IInv, LossInv, NEW n \in Names, OpenTruncated(n)
    PROVE  LossInv' /\ FineInv'
<1> DEFINE s == SlotOf(n)
           x == dir[s].cluster
<1>1. Exists(n) /\ n \notin torn /\ n \notin DOMAIN open
    BY DEF OpenTruncated, Sound
<1>2. PICK seen \in Seen(x) :
        /\ faults' = faults + ReadFaults(x, seen)
        /\ Start([Idle EXCEPT !.op = "open", !.name = n, !.slot = s,
                              !.cluster = x, !.doubt = {n},
                              !.got = ToSet(Tail(Chain(fat, x))),
                              !.left = ToSet(Chain(fat, x)) \ ToSet(seen),
                              !.todo = Reset(seen)])
    BY DEF OpenTruncated
<1> DEFINE T == Reset(seen)
           G == ToSet(Tail(Chain(fat, x)))
           L == ToSet(Chain(fat, x)) \ ToSet(seen)
           c == [Idle EXCEPT !.op = "open", !.name = n, !.slot = s, !.cluster = x,
                             !.doubt = {n}, !.got = G, !.left = L, !.todo = T]
<1>3. call = Idle /\ n \notin OldTorn
    BY <1>1, <1>2 DEF Start, OldTorn
<1>4. /\ s \in DOMAIN dir /\ dir[s].name = n
      /\ x \in Clusters /\ Unled(fat, x) /\ fat[x] # Free
    BY <1>1, <1>3, SoundShape
<1>5. /\ seen \in Seq(Clusters) /\ seen # <<>> /\ seen[1] = x
      /\ Range(seen) \subseteq Range(Chain(fat, x)) /\ x \in Range(seen)
    BY <1>4, SeenShape
<1>6. /\ c.op = "open" /\ c.name = n /\ c.cluster = x /\ c.size = 0 /\ c.got = G
      /\ c.left = L /\ c.doubt = {n} /\ c.todo = T
    <2> HIDE DEF T, G, L, x, s
    <2> QED BY DEF Idle
<1>7. Start(c)
    BY <1>2
<1>8. G = Rest(fat, x, 1) /\ L = Range(Chain(fat, x)) \ Range(seen)
    BY <1>4, <1>5, TailRest, ToSetShape, ChainShape
<1> HIDE DEF c, G, L
<1>9. Linked(fat)
    BY <1>3, AtStart
<1>10. \A k \in DOMAIN T :
         /\ T[k].on = "fat" =>
              /\ ~Links(T[k]) /\ Rest(fat, T[k].at, 1) \subseteq Rest(fat, x, 1)
              /\ ~Frees(T[k]) => T[k].at = x
         /\ ~Enters(T[k]) /\ ~Clears(T[k])
    <2> DEFINE A == <<>>
    <2>1. A \in Seq(DeviceWrites) /\ Range(A) = {} /\ T \in Seq(DeviceWrites)
        BY <1>5, ResetShape DEF Range
    <2>2. A \o T = T
        BY <2>1, ConcatEmptySeq
    <2>3. \A k \in DOMAIN (A \o T) : (A \o T)[k].on = "fat" =>
            /\ ~Links((A \o T)[k])
            /\ Rest(fat, (A \o T)[k].at, 1) \subseteq Rest(fat, x, 1)
            /\ ~Frees((A \o T)[k]) => (A \o T)[k].at = x
        <3> HIDE DEF A, x
        <3>1. \A w \in Range(A) : w.on # "fat"
            BY <2>1
        <3>2. /\ x \in Clusters /\ Linked(fat) /\ Unled(fat, x)
              /\ seen \in Seq(Clusters) /\ seen # <<>> /\ seen[1] = x
              /\ Range(seen) \subseteq Range(Chain(fat, x))
            BY <1>4, <1>5, <1>9 DEF x
        <3> QED BY <2>1, <3>1, <3>2, ResetTable, SMTT(30)
    <2>4. \A w \in Range(T) : ~Enters(w) /\ ~Clears(w)
        BY <1>5, ResetWrites
    <2> HIDE DEF T
    <2>5. \A k \in DOMAIN T : ~Enters(T[k]) /\ ~Clears(T[k])
        BY <2>4 DEF Range
    <2> QED BY <2>2, <2>3, <2>5
<1>11. \A g : Final(fat, T, g) =>
         \A y \in Clusters :
             g[y] = IF y = x THEN ENDOFCHAIN ELSE IF y \in Range(seen) THEN Free ELSE fat[y]
    <2> TAKE g
    <2>1. HAVE Final(fat, T, g)
    <2>2. \A y \in Clusters :
            g[y] = IF y = seen[1] THEN ENDOFCHAIN
                   ELSE IF y \in Range(seen) THEN Free ELSE fat[y]
        <3> HIDE DEF x
        <3> QED BY <2>1, <1>5, ResetAlone
    <2> QED BY <2>2, <1>5
<1> HIDE DEF T
<1>12. Sure(c.doubt)
    BY <1>1, <1>6 DEF Sure
<1> DEFINE K == lost \cup c.got
           M == lost \cup c.left
           t == Torn(c.doubt)
<1>13. TableHeld(fat, dir, K, T)
    <2>1. Stays(dir, T, x)
        BY <1>4, <1>10 DEF Stays, Cleared
    <2> HIDE DEF x
    <2> QED BY <2>1, <1>6, <1>8, <1>10 DEF TableHeld
<1>14. DirHeld(fat, dir, K, T)
    BY <1>10 DEF DirHeld
<1>15. OwnHeld(fat, c, K, T)
    BY <1>6, <1>8 DEF OwnHeld, Past, Used
<1>16. Fine(fat, dir, open, c, t, M, T)
    <2> SUFFICES ASSUME NEW g, NEW e, Outcome(fat, dir, c, T, g, e)
                 PROVE  Settled(g, e, open, c, t, M)
        BY DEF Fine
    <2>1. \A u : (u \in DOMAIN e <=> u \in DOMAIN dir) /\ (u \in DOMAIN dir => e[u] = dir[u])
        <3>1. \A k \in DOMAIN T : T[k].on # "dir"
            BY <1>10 DEF Enters, Clears
        <3> QED BY <3>1, SameDir DEF Outcome
    <2>2. M = lost \cup (Range(Chain(fat, x)) \ Range(seen))
        BY <1>6, <1>8
    <2>3. \A y \in Clusters :
            g[y] = IF y = x THEN ENDOFCHAIN ELSE IF y \in Range(seen) THEN Free ELSE fat[y]
        BY <1>11 DEF Outcome
    <2> DEFINE W == Range(seen)
    <2>4. W \subseteq Range(Chain(fat, x)) /\ x \in W /\ M = lost \cup (Range(Chain(fat, x)) \ W)
        BY <1>5, <2>2
    <2>5. \A y \in Clusters :
            g[y] = IF y = x THEN ENDOFCHAIN ELSE IF y \in W THEN Free ELSE fat[y]
        BY <2>3
    <2> HIDE DEF M, W, x
    <2>6. /\ \A z \in Clusters : g[z] # Free =>
               \/ z = x \/ z \in M \/ z \in Range(Chain(g, Root))
               \/ \E u \in DOMAIN dir :
                    dir[u].cluster # x /\ z \in Range(Chain(g, dir[u].cluster))
          /\ \A h : h.cluster \in Clusters /\ h.size \in Nat /\ Past(fat, h) \subseteq lost =>
               Past(g, h) \subseteq M
          /\ \A k \in Nat \ {0} : Rest(g, x, k) = {}
        <3>1. x \in Clusters /\ Unled(fat, x) /\ fat[x] # Free /\ call = Idle
            BY <1>3, <1>4 DEF x
        <3> QED BY <3>1, <2>4, <2>5, ResetSettles
    <2>7. Covered(g, e, M)
        <3>1. x \in Range(Chain(g, x)) /\ s \in DOMAIN e /\ e[s].cluster = x
            BY <1>4, <2>1, RangeRest DEF x
        <3> QED BY <2>1, <2>6, <3>1 DEF Covered, Reached
    <2>8. /\ EntriesHeld(fat, dir, t, lost) /\ OpenHeld(fat, open, lost)
          /\ \A u \in DOMAIN dir : dir[u].cluster \in Clusters /\ dir[u].size \in Nat
          /\ \A m \in DOMAIN open : open[m].cluster \in Clusters /\ open[m].size \in Nat
        BY <1>3, <1>12, StartHeld
    <2>9. EntriesHeld(g, e, t, M)
        BY <2>1, <2>6, <2>8 DEF EntriesHeld
    <2>10. \A m \in DOMAIN open : Past(g, open[m]) \subseteq M
        BY <2>6, <2>8 DEF OpenHeld
    <2>11. Past(g, c) \subseteq M
        BY <1>6, <2>6 DEF Past, Used
    <2> QED BY <2>7, <2>9, <2>10, <2>11 DEF Settled
<1> HIDE DEF K, M, t
<1> QED BY <1>6, <1>7, <1>12, <1>13, <1>14, <1>15, <1>16, StartLosses DEF K, M, t

LEMMA DeleteLosses ==
    ASSUME IInv, LossInv, NEW n \in Names, Delete(n)
    PROVE  LossInv' /\ FineInv'
<1> DEFINE s == SlotOf(n)
           x == dir[s].cluster
           w0 == DeviceWrite("dir", s, NoEntry, "stop")
<1>1. Exists(n) /\ n \notin torn /\ n \notin DOMAIN open
    BY DEF Delete, Sound
<1>2. PICK seen \in Seen(x) :
        /\ faults' = faults + ReadFaults(x, seen)
        /\ Start([Idle EXCEPT !.op = "delete", !.name = n,
                              !.got = ToSet(Chain(fat, x)),
                              !.left = {x} \cup (ToSet(Chain(fat, x)) \ ToSet(seen)),
                              !.todo = <<w0>> \o Reset(seen)])
    BY DEF Delete
<1> DEFINE A == <<w0>>
           B == Reset(seen)
           T == A \o B
           G == ToSet(Chain(fat, x))
           L == {x} \cup (ToSet(Chain(fat, x)) \ ToSet(seen))
           c == [Idle EXCEPT !.op = "delete", !.name = n, !.got = G, !.left = L, !.todo = T]
<1>3. call = Idle /\ n \notin OldTorn
    BY <1>1, <1>2 DEF Start, OldTorn
<1>4. /\ s \in DOMAIN dir /\ dir[s].name = n /\ s \in Nat
      /\ x \in Clusters /\ Unled(fat, x) /\ fat[x] # Free
    BY <1>1, <1>3, SoundShape
<1>5. /\ seen \in Seq(Clusters) /\ seen # <<>> /\ seen[1] = x
      /\ Range(seen) \subseteq Range(Chain(fat, x)) /\ x \in Range(seen)
    BY <1>4, SeenShape
<1>6. /\ c.op = "delete" /\ c.name = n /\ c.got = G
      /\ c.left = L /\ c.doubt = {} /\ c.todo = T
    <2> HIDE DEF T, G, L, x, s
    <2> QED BY DEF Idle
<1>7. Start(c)
    BY <1>2
<1>8. G = Range(Chain(fat, x)) /\ L = {x} \cup (Range(Chain(fat, x)) \ Range(seen))
    BY <1>4, <1>5, TailRest, ToSetShape
<1> HIDE DEF c, G, L
<1>9. Linked(fat)
    BY <1>3, AtStart
<1>10. w0 \in DeviceWrites /\ w0.on = "dir" /\ w0.at = s /\ Clears(w0) /\ ~Enters(w0)
    <2> HIDE DEF s
    <2>1. w0 \in DeviceWrites /\ Clears(w0) /\ w0.at = s
        BY <1>4 DEF DeviceWrite, DeviceWrites, Clears
    <2> HIDE DEF w0
    <2> QED BY <2>1 DEF Clears, Enters
<1>11. A \in Seq(DeviceWrites) /\ DOMAIN A = {1} /\ A[1] = w0 /\ \A w \in Range(A) : w.on # "fat"
    <2>1. A \in Seq(DeviceWrites) /\ DOMAIN A = {1} /\ A[1] = w0
        BY <1>10
    <2> HIDE DEF A, w0
    <2> QED BY <2>1, <1>10 DEF Range
<1>12. B \in Seq(DeviceWrites) /\ \A k \in DOMAIN B : ~Enters(B[k]) /\ ~Clears(B[k])
    <2>1. B \in Seq(DeviceWrites) /\ \A w \in Range(B) : ~Enters(w) /\ ~Clears(w)
        BY <1>5, ResetShape, ResetWrites
    <2> HIDE DEF B
    <2> QED BY <2>1 DEF Range
<1> HIDE DEF A
<1>13. LET U == A \o Reset(seen) IN
       \A k \in DOMAIN U : U[k].on = "fat" =>
           /\ ~Links(U[k]) /\ Rest(fat, U[k].at, 1) \subseteq Rest(fat, x, 1)
           /\ ~Frees(U[k]) => U[k].at = x
    <2> HIDE DEF x
    <2> QED BY <1>4, <1>5, <1>9, <1>11, ResetTable DEF x
<1>14. LET U == A \o Reset(seen) IN
       /\ \A k \in DOMAIN U : U[k].on = "fat" =>
            U[k].at \in Range(seen) /\ (U[k].at # seen[1] => Frees(U[k]))
       /\ \A y \in Range(seen) : \E k \in DOMAIN U : U[k].on = "fat" /\ U[k].at = y
       /\ \E k \in DOMAIN U :
            /\ Marks(U[k]) /\ U[k].at = seen[1]
            /\ \A j \in DOMAIN U : U[j].on = "fat" => j <= k
    BY <1>5, <1>11, ResetEnds
<1> HIDE DEF B
<1>15. /\ T \in Seq(DeviceWrites) /\ 1 \in DOMAIN T /\ T[1] = w0
       /\ \A k \in DOMAIN T : T[k] = w0 \/ (~Enters(T[k]) /\ ~Clears(T[k]))
       /\ DOMAIN T \subseteq Nat
    <2>1. /\ T \in Seq(DeviceWrites)
          /\ \A k \in DOMAIN A : k \in DOMAIN T /\ T[k] = A[k]
          /\ \A j \in DOMAIN B : T[Len(A) + j] = B[j]
          /\ \A k \in DOMAIN T : k \in DOMAIN A \/ \E j \in DOMAIN B : k = Len(A) + j
        <3>1. A \in Seq(DeviceWrites) /\ B \in Seq(DeviceWrites)
            BY <1>11, <1>12
        <3> QED BY <3>1, CatShape
    <2>2. DOMAIN T = 1 .. Len(T) /\ Len(T) \in Nat
        BY <2>1, LenProperties
    <2> HIDE DEF T
    <2>3. DOMAIN T \subseteq Nat
        BY <2>2
    <2>4. 1 \in DOMAIN T /\ T[1] = w0
        BY <2>1, <1>11
    <2> QED BY <2>1, <2>3, <2>4, <1>11, <1>12
<1>16. \A k \in DOMAIN T : T[k].on = "fat" =>
         /\ ~Links(T[k]) /\ Rest(fat, T[k].at, 1) \subseteq Rest(fat, x, 1)
         /\ ~Frees(T[k]) => T[k].at = x
    BY <1>13 DEF B
<1>17. /\ \A k \in DOMAIN T : T[k].on = "fat" =>
            T[k].at \in Range(seen) /\ (T[k].at # x => Frees(T[k]))
       /\ \A y \in Range(seen) : \E k \in DOMAIN T : T[k].on = "fat" /\ T[k].at = y
       /\ \E k \in DOMAIN T :
            /\ Marks(T[k]) /\ T[k].at = x
            /\ \A j \in DOMAIN T : T[j].on = "fat" => j <= k
    BY <1>14, <1>5 DEF B
<1> HIDE DEF T, w0
<1>18. Sure(c.doubt)
    BY <1>6 DEF Sure
<1> DEFINE K == lost \cup c.got
           M == lost \cup c.left
           t == Torn(c.doubt)
           W == Range(seen)
<1>19. Range(Chain(fat, x)) \subseteq K /\ Rest(fat, x, 1) \subseteq K /\ x \in K
    BY <1>4, <1>6, <1>8, RangeRest
<1>20. W \subseteq Range(Chain(fat, x)) /\ x \in W
       /\ M = lost \cup {x} \cup (Range(Chain(fat, x)) \ W)
    BY <1>5, <1>6, <1>8
<1> HIDE DEF K, M, W
<1>21. TableHeld(fat, dir, K, T)
    <2> HIDE DEF x
    <2> QED BY <1>16, <1>19 DEF TableHeld
<1>22. DirHeld(fat, dir, K, T)
    <2>1. \A k \in DOMAIN T : ~Enters(T[k]) /\ (Clears(T[k]) => T[k].at = s)
        BY <1>10, <1>15
    <2> QED BY <2>1, <1>19 DEF DirHeld
<1>23. OwnHeld(fat, c, K, T)
    BY <1>6 DEF OwnHeld
<1>24. Fine(fat, dir, open, c, t, M, T)
    <2> SUFFICES ASSUME NEW g, NEW e, Outcome(fat, dir, c, T, g, e)
                 PROVE  Settled(g, e, open, c, t, M)
        BY DEF Fine
    <2>1. ASSUME NEW u
          PROVE  /\ u \in DOMAIN e <=> u \in DOMAIN dir \ {s}
                 /\ u \in DOMAIN e => e[u] = dir[u]
        <3>1. \A k \in DOMAIN T : T[k].on = "dir" => T[k].at = s /\ ~Enters(T[k])
            BY <1>10, <1>15 DEF Enters, Clears
        <3>2. T[1].on = "dir" /\ T[1].at = s /\ 1 \in DOMAIN T
            BY <1>10, <1>15
        <3> HIDE DEF s
        <3> QED BY <3>1, <3>2 DEF Outcome, FinalDir
    <2>2. \A y \in Clusters :
            g[y] = IF y = x THEN ENDOFCHAIN ELSE IF y \in W THEN Free ELSE fat[y]
        <3> HIDE DEF x
        <3>1. x \in Clusters /\ x \in W /\ Final(fat, T, g)
            BY <1>4, <1>20 DEF x, Outcome
        <3>2. /\ \A k \in DOMAIN T : T[k].on = "fat" =>
                   T[k].at \in W /\ (T[k].at # x => Frees(T[k]))
              /\ \A y \in W : \E k \in DOMAIN T : T[k].on = "fat" /\ T[k].at = y
              /\ \E k \in DOMAIN T :
                   /\ Marks(T[k]) /\ T[k].at = x
                   /\ \A j \in DOMAIN T : T[j].on = "fat" => j <= k
            BY <1>17 DEF W
        <3> QED BY <3>1, <3>2, <1>15, ResetFinal
    <2> DEFINE N == lost \cup (Range(Chain(fat, x)) \ W)
    <2>3. N \subseteq M /\ x \in M
        BY <1>20
    <2> HIDE DEF x
    <2>4. /\ \A z \in Clusters : g[z] # Free =>
               \/ z = x \/ z \in N \/ z \in Range(Chain(g, Root))
               \/ \E u \in DOMAIN dir :
                    dir[u].cluster # x /\ z \in Range(Chain(g, dir[u].cluster))
          /\ \A h : h.cluster \in Clusters /\ h.size \in Nat /\ Past(fat, h) \subseteq lost =>
               Past(g, h) \subseteq N
        <3>1. x \in Clusters /\ Unled(fat, x) /\ fat[x] # Free /\ call = Idle
            BY <1>3, <1>4 DEF x
        <3>2. W \subseteq Range(Chain(fat, x)) /\ x \in W
            BY <1>20
        <3> QED BY <3>1, <3>2, <2>2, ResetSettles
    <2> HIDE DEF N
    <2>7. Covered(g, e, M)
        <3>1. dir[s].cluster = x
            BY DEF x
        <3>2. \A u \in DOMAIN dir : dir[u].cluster # x => u \in DOMAIN e /\ e[u] = dir[u]
            BY <2>1, <3>1
        <3> QED BY <2>3, <2>4, <3>2 DEF Covered, Reached
    <2>8. /\ EntriesHeld(fat, dir, t, lost) /\ OpenHeld(fat, open, lost)
          /\ \A u \in DOMAIN dir : dir[u].cluster \in Clusters /\ dir[u].size \in Nat
          /\ \A m \in DOMAIN open : open[m].cluster \in Clusters /\ open[m].size \in Nat
        BY <1>3, <1>18, StartHeld
    <2>9. EntriesHeld(g, e, t, M)
        BY <2>1, <2>3, <2>4, <2>8 DEF EntriesHeld
    <2>10. \A m \in DOMAIN open : Past(g, open[m]) \subseteq M
        BY <2>3, <2>4, <2>8 DEF OpenHeld
    <2> QED BY <2>7, <2>9, <2>10, <1>6 DEF Settled
<1> HIDE DEF t
<1> QED BY <1>6, <1>7, <1>18, <1>21, <1>22, <1>23, <1>24, StartLosses DEF K, M, t

-----------------------------------------------------------------------------
(* A chain is extended *)

\* The last write of T to the table at x is v.
LastWrite(T, x, v) ==
    \E k \in DOMAIN T :
        /\ T[k].on = "fat" /\ T[k].at = x /\ T[k].value = v
        /\ \A j \in DOMAIN T : T[j].on = "fat" /\ T[j].at = x => j <= k

\* T extends the chain behind last by n of the clusters free.
Extends(free, last, n, T) ==
    /\ \A k \in DOMAIN T :
         /\ T[k].on # "dir"
         /\ T[k].on = "fat" => \E i \in 1 .. n :
              /\ i \in DOMAIN free
              /\ \/ Marks(T[k]) /\ T[k].at = free[i]
                 \/ Links(T[k]) /\ T[k].at = Prev(free, last, i) /\ T[k].value = free[i]
    /\ \A i \in 1 .. n : i \in DOMAIN free =>
         \E k \in DOMAIN T : T[k].on = "zero" /\ T[k].at = free[i]
    /\ n # 0 /\ n \notin DOMAIN free => \E k \in DOMAIN T : T[k].on = "nowhere"
    /\ n \in DOMAIN free =>
         /\ LastWrite(T, free[n], ENDOFCHAIN)
         /\ \A i \in 1 .. n : Prev(free, last, i) \in Clusters =>
              LastWrite(T, Prev(free, last, i), free[i])

LEMMA PrevApart ==
    ASSUME NEW free \in Seq(Clusters), NEW last, last \notin Range(free),
           \A i, j \in DOMAIN free : free[i] = free[j] => i = j,
           NEW a \in DOMAIN free, NEW i \in DOMAIN free
    PROVE  /\ a <= i => Prev(free, last, a) # free[i]
           /\ Prev(free, last, a) = Prev(free, last, i) => a = i
           /\ free[a] = Prev(free, last, i) => i = a + 1
<1>1. DOMAIN free = 1 .. Len(free) /\ Len(free) \in Nat
    BY LenProperties
<1>2. \A h \in DOMAIN free : last # free[h]
    BY DEF Range
<1>3. \A h \in DOMAIN free : h # 1 => h - 1 \in DOMAIN free
    BY <1>1
<1>4. a # 1 => a - 1 # i \/ ~(a <= i)
    BY <1>1
<1>5. a - 1 = i - 1 => a = i
    BY <1>1
<1>6. a = i - 1 => i = a + 1
    BY <1>1
<1> QED BY <1>2, <1>3, <1>4, <1>5, <1>6 DEF Prev

\* The writes of a block of the extension, by their places.
LEMMA BlockPlaces ==
    ASSUME NEW c \in Clusters, NEW p
    PROVE  LET S == Alloc(c) \o SetNext(p, c, "ignore") IN
           /\ 3 \in DOMAIN S /\ S[3].on = "zero" /\ S[3].at = c
           /\ p \in Clusters =>
                4 \in DOMAIN S /\ S[4].on = "fat" /\ S[4].at = p /\ S[4].value = c
<1> DEFINE A == Alloc(c)
           B == SetNext(p, c, "ignore")
           S == A \o B
<1>1. A \in Seq(DeviceWrites) /\ DOMAIN A = {1, 2, 3} /\ Len(A) = 3 /\ A[3].on = "zero"
    BY AllocShape
<1>2. A[3].at = c
    BY DEF Alloc, DeviceWrite
<1>3. c \in Values
    BY DEF Values
<1>4. /\ B \in Seq(DeviceWrites)
      /\ p \in Clusters =>
           DOMAIN B = {1, 2} /\ B[1].on = "fat" /\ B[1].at = p /\ B[1].value = c
    BY <1>3, SetNextShape
<1> HIDE DEF A, B
<1>5. A \in Seq(DeviceWrites) /\ B \in Seq(DeviceWrites)
    BY <1>1, <1>4
<1>6. /\ \A k \in DOMAIN A : k \in DOMAIN S /\ S[k] = A[k]
      /\ \A j \in DOMAIN B : Len(A) + j \in DOMAIN S /\ S[Len(A) + j] = B[j]
    BY <1>5, CatShape
<1> HIDE DEF S
<1>7. \A j \in DOMAIN B : 3 + j \in DOMAIN S /\ S[3 + j] = B[j]
    BY <1>1, <1>6
<1>8. 3 \in DOMAIN S /\ S[3] = A[3]
    BY <1>1, <1>6
<1>9. p \in Clusters => 4 \in DOMAIN S /\ S[4] = B[1]
    <2>1. p \in Clusters => 1 \in DOMAIN B
        BY <1>4
    <2>2. p \in Clusters => 3 + 1 \in DOMAIN S /\ S[3 + 1] = B[1]
        BY <2>1, <1>7
    <2>3. 3 + 1 = 4
        OBVIOUS
    <2> QED BY <2>2, <2>3
<1> QED BY <1>1, <1>2, <1>4, <1>8, <1>9 DEF S, A, B

LEMMA ExtensionPlaces ==
    ASSUME NEW free \in Seq(Clusters), NEW last, NEW n \in Nat \ {0}, NEW i \in 1 .. n
    PROVE  LET seqs == Extension(free, last, n) IN
           /\ i \in DOMAIN free =>
                /\ 3 \in DOMAIN seqs[i] /\ seqs[i][3].on = "zero" /\ seqs[i][3].at = free[i]
                /\ Prev(free, last, i) \in Clusters =>
                     /\ 4 \in DOMAIN seqs[i] /\ seqs[i][4].on = "fat"
                     /\ seqs[i][4].at = Prev(free, last, i) /\ seqs[i][4].value = free[i]
           /\ i \notin DOMAIN free => 1 \in DOMAIN seqs[i] /\ seqs[i][1].on = "nowhere"
<1> DEFINE s == Extension(free, last, n)[i]
           q == Prev(free, last, i)
           S == Alloc(free[i]) \o SetNext(q, free[i], "ignore")
<1>1. DOMAIN free = 1 .. Len(free) /\ Len(free) \in Nat
      /\ \A j \in DOMAIN free : free[j] \in Clusters
    BY ElementOfSeq, LenProperties
<1>2. i \in DOMAIN free <=> i <= Len(free)
    BY <1>1
<1>3. s = IF i <= Len(free) THEN S ELSE Full
    BY DEF Extension
<1> HIDE DEF s, S
<1>4. CASE i \in DOMAIN free
    <2>1. s = S /\ free[i] \in Clusters
        BY <1>1, <1>2, <1>3, <1>4
    <2>2. /\ 3 \in DOMAIN S /\ S[3].on = "zero" /\ S[3].at = free[i]
          /\ q \in Clusters =>
               4 \in DOMAIN S /\ S[4].on = "fat" /\ S[4].at = q /\ S[4].value = free[i]
        <3> HIDE DEF q
        <3> QED BY <2>1, BlockPlaces, ZenonT(60) DEF S
    <2> QED BY <1>4, <2>1, <2>2 DEF s
<1>5. CASE i \notin DOMAIN free
    <2>1. s = Full
        BY <1>2, <1>3, <1>5
    <2>2. 1 \in DOMAIN s /\ s[1].on = "nowhere"
        BY <2>1, FullShape
    <2> QED BY <1>5, <2>2 DEF s
<1> QED BY <1>4, <1>5

\* The blocks of the extension, one after the other.
LEMMA ExtensionEnds ==
    ASSUME NEW free \in Seq(Clusters), NEW last, NEW n \in Nat \ {0}, last \notin Range(free),
           \A i, j \in DOMAIN free : free[i] = free[j] => i = j
    PROVE  LET T == FlattenSeq(Extension(free, last, n)) IN
           /\ T \in Seq(DeviceWrites)
           /\ \A k \in DOMAIN T :
                /\ T[k].on # "dir"
                /\ T[k].on = "fat" => \E i \in 1 .. n :
                     /\ i \in DOMAIN free
                     /\ \/ Marks(T[k]) /\ T[k].at = free[i]
                        \/ Links(T[k]) /\ T[k].at = Prev(free, last, i) /\ T[k].value = free[i]
           /\ \A i \in 1 .. n : i \in DOMAIN free =>
                /\ \E k \in DOMAIN T : T[k].on = "zero" /\ T[k].at = free[i]
                /\ Prev(free, last, i) \in Clusters =>
                     LastWrite(T, Prev(free, last, i), free[i])
           /\ n \notin DOMAIN free => \E k \in DOMAIN T : T[k].on = "nowhere"
<1> DEFINE seqs == Extension(free, last, n)
           T == FlattenSeq(seqs)
<1>1. /\ seqs \in Seq(Seq(DeviceWrites)) /\ seqs # <<>> /\ DOMAIN seqs = 1 .. n
    BY ExtensionShape
<1>2. \A i \in 1 .. n : \A j \in DOMAIN seqs[i] :
        \/ Plain(seqs[i][j])
        \/ /\ i \in DOMAIN free /\ j = 1 /\ Marks(seqs[i][j])
           /\ seqs[i][j].at = free[i]
        \/ /\ i \in DOMAIN free /\ j = 4 /\ Links(seqs[i][j])
           /\ seqs[i][j].at = Prev(free, last, i)
           /\ seqs[i][j].value = free[i]
    BY ExtensionShape
<1>3. \A i \in 1 .. n :
        /\ i \in DOMAIN free =>
             /\ 3 \in DOMAIN seqs[i] /\ seqs[i][3].on = "zero" /\ seqs[i][3].at = free[i]
             /\ Prev(free, last, i) \in Clusters =>
                  /\ 4 \in DOMAIN seqs[i] /\ seqs[i][4].on = "fat"
                  /\ seqs[i][4].at = Prev(free, last, i) /\ seqs[i][4].value = free[i]
        /\ i \notin DOMAIN free => 1 \in DOMAIN seqs[i] /\ seqs[i][1].on = "nowhere"
    BY ExtensionPlaces
<1> HIDE DEF seqs
<1>4. /\ T \in Seq(DeviceWrites)
      /\ \A k \in DOMAIN T : \E i \in DOMAIN seqs : \E j \in DOMAIN seqs[i] :
             Sits(seqs, T, k, i, j)
      /\ \A i \in DOMAIN seqs : \A j \in DOMAIN seqs[i] : seqs[i][j] \in Range(T)
    BY <1>1, Blocks
<1>5. DOMAIN T = 1 .. Len(T) /\ Len(T) \in Nat
    BY <1>4, LenProperties
<1> HIDE DEF T
\* Where the writes of the table are.
<1>6. ASSUME NEW i \in 1 .. n, NEW j \in DOMAIN seqs[i]
      PROVE  /\ seqs[i][j].on # "dir"
             /\ seqs[i][j].on = "fat" =>
                  /\ i \in DOMAIN free
                  /\ \/ j = 1 /\ Marks(seqs[i][j]) /\ seqs[i][j].at = free[i]
                     \/ /\ j = 4 /\ Links(seqs[i][j])
                        /\ seqs[i][j].at = Prev(free, last, i)
                        /\ seqs[i][j].value = free[i]
    <2>1. Plain(seqs[i][j]) => seqs[i][j].on # "dir" /\ seqs[i][j].on # "fat"
        BY DEF Plain
    <2>2. Marks(seqs[i][j]) \/ Links(seqs[i][j]) => seqs[i][j].on = "fat"
        BY DEF Marks, Links
    <2> QED BY <1>2, <2>1, <2>2
<1>7. ASSUME NEW k \in DOMAIN T
      PROVE  /\ T[k].on # "dir"
             /\ T[k].on = "fat" => \E i \in 1 .. n :
                  /\ i \in DOMAIN free
                  /\ \/ Marks(T[k]) /\ T[k].at = free[i]
                     \/ Links(T[k]) /\ T[k].at = Prev(free, last, i) /\ T[k].value = free[i]
    <2>1. PICK i \in DOMAIN seqs : \E j \in DOMAIN seqs[i] : Sits(seqs, T, k, i, j)
        BY <1>4
    <2>2. PICK j \in DOMAIN seqs[i] : T[k] = seqs[i][j]
        BY <2>1 DEF Sits
    <2> QED BY <2>2, <1>1, <1>6
<1>8. ASSUME NEW i \in 1 .. n, i \in DOMAIN free, Prev(free, last, i) \in Clusters
      PROVE  LastWrite(T, Prev(free, last, i), free[i])
    <2> DEFINE p == Prev(free, last, i)
               w == seqs[i][4]
    <2>1. /\ 4 \in DOMAIN seqs[i] /\ w.on = "fat" /\ w.at = p /\ w.value = free[i]
        BY <1>3, <1>8
    <2>0. w \in Range(T)
        BY <2>1, <1>1, <1>4
    <2> HIDE DEF p, w
    <2>2. PICK k \in DOMAIN T : T[k] = w
        BY <2>0 DEF Range
    <2>3. ASSUME NEW l \in DOMAIN T, T[l].on = "fat", T[l].at = p, k < l PROVE FALSE
        <3>1. PICK a \in DOMAIN seqs : \E b \in DOMAIN seqs[a] : Sits(seqs, T, l, a, b)
            BY <1>4
        <3>2. PICK b \in DOMAIN seqs[a] : Sits(seqs, T, l, a, b)
            BY <3>1
        <3>3. w \in Before(T, l)
            <4>1. k \in 1 .. l - 1
                BY <2>3, <1>5
            <4> QED BY <4>1, <2>2 DEF Before
        <3>4. PICK c \in DOMAIN seqs : \E h \in DOMAIN seqs[c] :
                w = seqs[c][h] /\ Earlier(c, h, a, b)
            BY <3>2, <3>3 DEF Sits
        <3>5. PICK h \in DOMAIN seqs[c] : w = seqs[c][h] /\ Earlier(c, h, a, b)
            BY <3>4
        <3>6. /\ a \in 1 .. n /\ c \in 1 .. n /\ T[l] = seqs[a][b]
            BY <3>2, <1>1 DEF Sits
        \* w is the link of its block.
        <3>7. c = i /\ h = 4
            <4>1. /\ c \in DOMAIN free
                  /\ \/ h = 1 /\ Marks(w)
                     \/ h = 4 /\ w.value = free[c]
                BY <3>5, <3>6, <2>1, <1>6
            <4>2. free[i] \in Clusters
                BY <1>8, ElementOfSeq
            <4>3. ~Marks(w)
                BY <4>2, <2>1, Constants DEF Marks
            <4> QED BY <4>1, <4>3, <2>1, <1>8
        <3>8. /\ a \in DOMAIN free
              /\ \/ b = 1 /\ p = free[a]
                 \/ b = 4 /\ p = Prev(free, last, a)
            BY <3>6, <2>3, <1>6
        <3>9. i < a \/ (i = a /\ 4 < b)
            BY <3>5, <3>7 DEF Earlier
        <3>10. DOMAIN free \subseteq Nat
            BY LenProperties
        <3>11. CASE b = 1 /\ p = free[a]
            <4>1. i = a + 1
                BY <3>8, <3>11, <1>8, PrevApart DEF p
            <4> QED BY <4>1, <3>8, <3>9, <3>10, <3>11
        <3>12. CASE b = 4 /\ p = Prev(free, last, a)
            <4>1. i = a
                BY <3>8, <3>12, <1>8, PrevApart DEF p
            <4> QED BY <4>1, <3>8, <3>9, <3>10, <3>12
        <3> QED BY <3>8, <3>11, <3>12
    <2>4. \A j \in DOMAIN T : T[j].on = "fat" /\ T[j].at = p => j <= k
        BY <2>3, <1>5
    <2> QED BY <2>1, <2>2, <2>4 DEF LastWrite, p
<1>9. ASSUME NEW i \in 1 .. n, i \in DOMAIN free
      PROVE  \E k \in DOMAIN T : T[k].on = "zero" /\ T[k].at = free[i]
    <2>1. seqs[i][3] \in Range(T)
        BY <1>1, <1>3, <1>4, <1>9
    <2> QED BY <2>1, <1>3, <1>9 DEF Range
<1>10. ASSUME n \notin DOMAIN free PROVE \E k \in DOMAIN T : T[k].on = "nowhere"
    <2>1. n \in 1 .. n
        OBVIOUS
    <2>2. seqs[n][1] \in Range(T)
        BY <2>1, <1>1, <1>3, <1>4, <1>10
    <2> QED BY <2>1, <2>2, <1>3, <1>10 DEF Range
<1> QED BY <1>4, <1>7, <1>8, <1>9, <1>10 DEF T, seqs

\* A last write stays the last one when none of the table comes after it.
LEMMA LastCat ==
    ASSUME NEW A \in Seq(DeviceWrites), NEW B \in Seq(DeviceWrites), NEW x, NEW v
    PROVE  /\ LastWrite(B, x, v) => LastWrite(A \o B, x, v)
           /\ LastWrite(A, x, v) /\ (\A j \in DOMAIN B : B[j].on = "fat" => B[j].at # x) =>
                LastWrite(A \o B, x, v)
<1> DEFINE C == A \o B
<1>1. /\ \A k \in DOMAIN A : k \in DOMAIN C /\ C[k] = A[k]
      /\ \A j \in DOMAIN B : Len(A) + j \in DOMAIN C /\ C[Len(A) + j] = B[j]
      /\ \A k \in DOMAIN C : k \in DOMAIN A \/ \E j \in DOMAIN B : k = Len(A) + j
      /\ DOMAIN A = 1 .. Len(A) /\ DOMAIN B = 1 .. Len(B)
      /\ Len(A) \in Nat /\ Len(B) \in Nat
    BY CatShape
<1> HIDE DEF C
<1>2. ASSUME LastWrite(B, x, v) PROVE LastWrite(C, x, v)
    <2>1. PICK k \in DOMAIN B :
            /\ B[k].on = "fat" /\ B[k].at = x /\ B[k].value = v
            /\ \A j \in DOMAIN B : B[j].on = "fat" /\ B[j].at = x => j <= k
        BY <1>2 DEF LastWrite
    <2>2. Len(A) + k \in DOMAIN C /\ C[Len(A) + k] = B[k]
        BY <1>1
    <2>3. ASSUME NEW j \in DOMAIN C, C[j].on = "fat", C[j].at = x PROVE j <= Len(A) + k
        <3>1. CASE j \in DOMAIN A
            BY <3>1, <1>1
        <3>2. ASSUME NEW i \in DOMAIN B, j = Len(A) + i PROVE j <= Len(A) + k
            <4>1. i <= k
                BY <3>2, <2>1, <2>3, <1>1
            <4> QED BY <4>1, <3>2, <1>1
        <3> QED BY <3>1, <3>2, <1>1
    <2> QED BY <2>1, <2>2, <2>3 DEF LastWrite
<1>3. ASSUME LastWrite(A, x, v), \A j \in DOMAIN B : B[j].on = "fat" => B[j].at # x
      PROVE  LastWrite(C, x, v)
    <2>1. PICK k \in DOMAIN A :
            /\ A[k].on = "fat" /\ A[k].at = x /\ A[k].value = v
            /\ \A j \in DOMAIN A : A[j].on = "fat" /\ A[j].at = x => j <= k
        BY <1>3 DEF LastWrite
    <2>2. \A j \in DOMAIN C : C[j].on = "fat" /\ C[j].at = x => j <= k
        BY <2>1, <1>1, <1>3
    <2>3. k \in DOMAIN C /\ C[k] = A[k]
        BY <1>1
    <2> QED BY <2>1, <2>2, <2>3 DEF LastWrite
<1> QED BY <1>2, <1>3 DEF C

LEMMA ExtendEnds ==
    ASSUME NEW free \in Seq(Clusters), NEW last, NEW n \in Nat, last \notin Range(free),
           \A i, j \in DOMAIN free : free[i] = free[j] => i = j
    PROVE  Extends(free, last, n, Extend(free, last, n))
<1> DEFINE T == Extend(free, last, n)
<1>1. DOMAIN free = 1 .. Len(free) /\ Len(free) \in Nat
      /\ \A i \in DOMAIN free : free[i] \in Clusters
    BY ElementOfSeq, LenProperties
<1>2. CASE n = 0
    <2>1. T = <<>> /\ DOMAIN <<>> = {}
        BY <1>2 DEF Extend
    <2> HIDE DEF T
    <2>2. DOMAIN T = {} /\ 1 .. n = {} /\ n \notin DOMAIN free
        BY <2>1, <1>1, <1>2
    <2> QED BY <2>2, <1>2 DEF Extends, T
<1>3. CASE n # 0
    <2> DEFINE A == FlattenSeq(Extension(free, last, n))
               B == IF n <= Len(free) THEN SetNext(free[n], ENDOFCHAIN, "stop") ELSE <<>>
               S == A \o B
    <2>1. T = S
        BY <1>3 DEF Extend, Extension, Prev
    <2>2. /\ A \in Seq(DeviceWrites)
          /\ \A k \in DOMAIN A :
                /\ A[k].on # "dir"
                /\ A[k].on = "fat" => \E i \in 1 .. n :
                     /\ i \in DOMAIN free
                     /\ \/ Marks(A[k]) /\ A[k].at = free[i]
                        \/ Links(A[k]) /\ A[k].at = Prev(free, last, i) /\ A[k].value = free[i]
          /\ \A i \in 1 .. n : i \in DOMAIN free =>
                /\ \E k \in DOMAIN A : A[k].on = "zero" /\ A[k].at = free[i]
                /\ Prev(free, last, i) \in Clusters =>
                     LastWrite(A, Prev(free, last, i), free[i])
          /\ n \notin DOMAIN free => \E k \in DOMAIN A : A[k].on = "nowhere"
        BY <1>3, ExtensionEnds
    <2>3. /\ B \in Seq(DeviceWrites)
          /\ \A j \in DOMAIN B :
               /\ B[j].on # "dir"
               /\ B[j].on = "fat" => n \in DOMAIN free /\ Marks(B[j]) /\ B[j].at = free[n]
          /\ n \in DOMAIN free => LastWrite(B, free[n], ENDOFCHAIN)
        <3>1. CASE n <= Len(free)
            <4> DEFINE C == SetNext(free[n], ENDOFCHAIN, "stop")
            <4>1. n \in DOMAIN free /\ free[n] \in Clusters /\ ENDOFCHAIN \in Values
                BY <1>3, <3>1, <1>1 DEF Values
            <4>2. /\ C \in Seq(DeviceWrites) /\ DOMAIN C = {1, 2}
                  /\ C[1].on = "fat" /\ C[1].at = free[n] /\ C[1].value = ENDOFCHAIN
                  /\ C[2].on = "bak"
                BY <4>1, SetNextShape
            <4>3. B = C
                BY <3>1
            <4> HIDE DEF C, B
            <4>4. \A j \in DOMAIN C : j = 1 \/ j = 2
                BY <4>2
            <4>5. Marks(C[1])
                BY <4>2 DEF Marks
            <4>6. LastWrite(C, free[n], ENDOFCHAIN)
                <5>1. \A j \in DOMAIN C : C[j].on = "fat" /\ C[j].at = free[n] => j <= 1
                    BY <4>2, <4>4
                <5>2. 1 \in DOMAIN C
                    BY <4>2
                <5> QED BY <5>1, <5>2, <4>2 DEF LastWrite
            <4> QED BY <4>1, <4>2, <4>3, <4>4, <4>5, <4>6
        <3>2. CASE ~(n <= Len(free))
            <4>1. B = <<>> /\ DOMAIN <<>> = {}
                BY <3>2
            <4>2. <<>> \in Seq(DeviceWrites) /\ n \notin DOMAIN free
                BY <3>2, <1>1
            <4> HIDE DEF B
            <4> QED BY <4>1, <4>2
        <3> QED BY <3>1, <3>2
    <2> HIDE DEF A, B, T
    <2>4. A \in Seq(DeviceWrites) /\ B \in Seq(DeviceWrites)
        BY <2>2, <2>3
    <2>5. /\ \A k \in DOMAIN A : k \in DOMAIN S /\ S[k] = A[k]
          /\ \A j \in DOMAIN B : S[Len(A) + j] = B[j]
          /\ \A k \in DOMAIN S : k \in DOMAIN A \/ \E j \in DOMAIN B : k = Len(A) + j
        BY <2>4, CatShape
    <2>6. \A x, v :
            /\ LastWrite(B, x, v) => LastWrite(S, x, v)
            /\ LastWrite(A, x, v) /\ (\A j \in DOMAIN B : B[j].on = "fat" => B[j].at # x) =>
                 LastWrite(S, x, v)
        BY <2>4, LastCat
    <2> HIDE DEF S
    <2>7. ASSUME NEW k \in DOMAIN S
          PROVE  /\ S[k].on # "dir"
                 /\ S[k].on = "fat" => \E i \in 1 .. n :
                      /\ i \in DOMAIN free
                      /\ \/ Marks(S[k]) /\ S[k].at = free[i]
                         \/ Links(S[k]) /\ S[k].at = Prev(free, last, i) /\ S[k].value = free[i]
        <3>1. n \in 1 .. n
            BY <1>3
        <3>2. CASE k \in DOMAIN A
            BY <3>2, <2>2, <2>5
        <3>3. ASSUME NEW j \in DOMAIN B, S[k] = B[j]
              PROVE  /\ S[k].on # "dir"
                     /\ S[k].on = "fat" => n \in DOMAIN free /\ Marks(S[k]) /\ S[k].at = free[n]
            BY <3>3, <2>3
        <3> QED BY <3>1, <3>2, <3>3, <2>5
    <2>8. \A i \in 1 .. n : i \in DOMAIN free =>
            \E k \in DOMAIN S : S[k].on = "zero" /\ S[k].at = free[i]
        BY <2>2, <2>5
    <2>9. n \notin DOMAIN free => \E k \in DOMAIN S : S[k].on = "nowhere"
        BY <2>2, <2>5
    <2>10. n \in DOMAIN free => LastWrite(S, free[n], ENDOFCHAIN)
        BY <2>3, <2>6
    <2>11. ASSUME n \in DOMAIN free, NEW i \in 1 .. n, Prev(free, last, i) \in Clusters
           PROVE  LastWrite(S, Prev(free, last, i), free[i])
        <3>1. i \in DOMAIN free /\ i <= n
            BY <2>11, <1>1
        <3>2. Prev(free, last, i) # free[n]
            BY <2>11, <3>1, PrevApart
        <3>3. LastWrite(A, Prev(free, last, i), free[i])
            BY <2>2, <2>11, <3>1
        <3>4. \A j \in DOMAIN B : B[j].on = "fat" => B[j].at # Prev(free, last, i)
            BY <2>3, <3>2
        <3> QED BY <2>6, <3>3, <3>4
    <2> QED BY <2>1, <2>7, <2>8, <2>9, <2>10, <2>11 DEF Extends, T
<1> QED BY <1>2, <1>3

\* What the last writes make of the table.
LEMMA FinalWrites ==
    ASSUME NEW f, NEW g, NEW T, DOMAIN T \subseteq Nat, Final(f, T, g), NEW x \in Clusters
    PROVE  /\ \A v : LastWrite(T, x, v) => g[x] = v
           /\ (\A k \in DOMAIN T : T[k].on = "fat" => T[k].at # x) => g[x] = f[x]
<1>1. ASSUME NEW v, LastWrite(T, x, v) PROVE g[x] = v
    <2>1. PICK k \in DOMAIN T :
            /\ T[k].on = "fat" /\ T[k].at = x /\ T[k].value = v
            /\ \A j \in DOMAIN T : T[j].on = "fat" /\ T[j].at = x => j <= k
        BY <1>1 DEF LastWrite
    <2>2. PICK l \in DOMAIN T :
            /\ T[l].on = "fat" /\ T[l].at = x /\ g[x] = T[l].value
            /\ \A j \in DOMAIN T : T[j].on = "fat" /\ T[j].at = x => j <= l
        BY <2>1 DEF Final
    <2>3. k <= l /\ l <= k /\ k \in Nat /\ l \in Nat
        BY <2>1, <2>2
    <2>4. k = l
        BY <2>3
    <2> QED BY <2>1, <2>2, <2>4
<1>2. ASSUME \A k \in DOMAIN T : T[k].on = "fat" => T[k].at # x PROVE g[x] = f[x]
    BY <1>2 DEF Final
<1> QED BY <1>1, <1>2

FreeIn(f, free) ==
    /\ free \in Seq(Clusters)
    /\ \A i, j \in DOMAIN free : free[i] = free[j] => i = j
    /\ \A x \in Range(free) : x \in Clusters /\ f[x] = Free

\* g is f with the first n of the clusters free linked behind last.
Growth(f, g, free, last, n) ==
    /\ \A y \in Clusters :
         (\A i \in 1 .. n : y # Prev(free, last, i) /\ y # free[i]) => g[y] = f[y]
    /\ \A i \in 1 .. n : Prev(free, last, i) \in Clusters => g[Prev(free, last, i)] = free[i]
    /\ n # 0 => g[free[n]] = ENDOFCHAIN

\* Only the new clusters and the last one are touched.
LEMMA GrowthSame ==
    ASSUME NEW f, NEW g, NEW free, NEW last, NEW n \in Nat, n = 0 \/ n \in DOMAIN free,
           FreeIn(f, free), Growth(f, g, free, last, n), NEW y \in Clusters, y # last,
           y \notin Range(free)
    PROVE  g[y] = f[y]
<1>1. DOMAIN free = 1 .. Len(free) /\ Len(free) \in Nat
    BY LenProperties DEF FreeIn
<1>2. ASSUME NEW i \in 1 .. n PROVE y # Prev(free, last, i) /\ y # free[i]
    <2>1. i \in DOMAIN free /\ (i # 1 => i - 1 \in DOMAIN free)
        BY <1>1
    <2> QED BY <2>1 DEF Range, Prev
<1> QED BY <1>2 DEF Growth

\* A chain that last is not on stays as it is.
LEMMA GrowthBeside ==
    ASSUME NEW f, NEW g, NEW free, NEW last, NEW n \in Nat, n = 0 \/ n \in DOMAIN free,
           FreeIn(f, free), Growth(f, g, free, last, n), Linked(f),
           NEW a \in Clusters, f[a] # Free, n # 0 => last \notin Range(Chain(f, a))
    PROVE  Chain(g, a) = Chain(f, a)
<1>1. \A x \in Range(Chain(f, a)) : x \in Clusters /\ f[x] # Free
    BY ChainUsed, ChainIn
<1>2. CASE n = 0
    <2>1. \A y \in Clusters : g[y] = f[y]
        BY <1>2 DEF Growth
    <2> QED BY <1>1, <2>1, ChainSame
<1>3. CASE n # 0
    <2>1. \A x \in Range(Chain(f, a)) : x # last /\ x \notin Range(free)
        BY <1>1, <1>3 DEF FreeIn
    <2>2. \A x \in Range(Chain(f, a)) : g[x] = f[x]
        BY <1>1, <2>1, GrowthSame
    <2> QED BY <2>2, ChainSame
<1> QED BY <1>2, <1>3

\* What was reached still is, but for what was behind last.
LEMMA GrowthCovers ==
    ASSUME NEW f, NEW g, NEW free, NEW last, NEW n \in Nat, n = 0 \/ n \in DOMAIN free,
           FreeIn(f, free), Growth(f, g, free, last, n), NEW d, NEW K, Covered(f, d, K),
           \A s \in DOMAIN d : d[s].cluster \in Clusters,
           n # 0 /\ last \in Clusters => f[last] # Free /\ Rest(f, last, 1) \subseteq K
    PROVE  \A x \in Clusters : g[x] # Free =>
               (\E i \in 1 .. n : x = free[i]) \/ Reached(g, d, x) \/ x \in K
<1> SUFFICES ASSUME NEW x \in Clusters, g[x] # Free, \A i \in 1 .. n : x # free[i]
             PROVE  Reached(g, d, x) \/ x \in K
    OBVIOUS
<1>1. DOMAIN free = 1 .. Len(free) /\ Len(free) \in Nat
    BY LenProperties DEF FreeIn
<1> DEFINE W == {y \in Clusters : g[y] # f[y]}
<1>2. \A y \in Clusters \ W : g[y] = f[y]
    OBVIOUS
<1>3. \A y \in W : /\ y \in Clusters
                   /\ y # last => y \in Range(free)
                   /\ n # 0
    <2>1. n = 0 => \A y \in Clusters : g[y] = f[y]
        BY DEF Growth
    <2> QED BY <2>1, GrowthSame
<1> HIDE DEF W
<1>4. f[x] # Free
    <2>1. CASE x \in W
        <3>1. x = last => f[x] # Free
            BY <1>3, <2>1
        <3>2. ASSUME x # last PROVE FALSE
            <4>1. PICK i \in 1 .. n : x = Prev(free, last, i) \/ x = free[i]
                <5>1. g[x] # f[x]
                    BY <2>1 DEF W
                <5> QED BY <5>1 DEF Growth
            <4>2. x = Prev(free, last, i)
                BY <4>1
            <4>3. i # 1
                BY <3>2, <4>2 DEF Prev
            <4>4. i - 1 \in 1 .. n /\ x = free[i - 1]
                BY <4>2, <4>3 DEF Prev
            <4> QED BY <4>4
        <3> QED BY <3>1, <3>2
    <2>2. CASE x \notin W
        BY <2>2, <1>2
    <2> QED BY <2>1, <2>2
<1>5. \A y \in W : y \in Clusters /\ Rest(f, y, 1) \subseteq K
    <2> TAKE y \in W
    <2>1. CASE y = last
        BY <1>3, <2>1
    <2>2. CASE y # last
        <3>1. y \in Clusters /\ f[y] = Free
            BY <1>3, <2>2 DEF FreeIn
        <3>2. f[y] \notin Clusters
            BY <3>1, Constants
        <3> QED BY <3>1, <3>2, RestNone
    <2> QED BY <2>1, <2>2
<1>6. ASSUME NEW a \in Clusters, x \in Range(Chain(f, a))
      PROVE  x \in Range(Chain(g, a)) \/ x \in K
    BY <1>2, <1>5, <1>6, ChainKept
<1>7. Root \in Clusters
    BY Constants
<1> QED BY <1>4, <1>6, <1>7 DEF Covered, Reached

\* The chain that last is on goes on with the new clusters, and ends with them.
LEMMA GrowthChain ==
    ASSUME NEW f, NEW g, NEW free, NEW last, NEW n \in Nat, n \in DOMAIN free,
           FreeIn(f, free), Growth(f, g, free, last, n), Linked(f), Linked(g),
           NEW a \in Clusters, Unled(f, a), f[a] # Free,
           NEW e \in 1 .. Len(Chain(f, a)), Chain(f, a)[e] = last
    PROVE  /\ Len(Chain(g, a)) = e + n
           /\ \A i \in 1 .. n : e + i \in DOMAIN Chain(g, a) /\ Chain(g, a)[e + i] = free[i]
<1> DEFINE s == Chain(f, a)
           u == Chain(g, a)
           bad == {i \in 1 .. n : ~(e + i \in 1 .. Len(u) /\ u[e + i] = free[i])}
<1>1. DOMAIN free = 1 .. Len(free) /\ Len(free) \in Nat /\ n \in 1 .. Len(free)
      /\ \A i \in DOMAIN free : free[i] \in Clusters /\ free[i] \in Range(free)
    <2>1. DOMAIN free = 1 .. Len(free) /\ Len(free) \in Nat
        BY LenProperties DEF FreeIn
    <2> QED BY <2>1 DEF FreeIn, Range
<1>2. /\ Len(s) \in Nat /\ DOMAIN s = 1 .. Len(s) /\ e \in 1 .. Len(s) /\ s[e] = last
      /\ \A i \in 1 .. Len(s) : s[i] \in Clusters /\ s[i] \in Range(s)
    BY ChainFacts DEF Range
<1>3. \A x \in Range(s) : f[x] # Free
    BY ChainUsed
<1>4. \A i \in 1 .. Len(s), j \in 1 .. Len(s) : s[i] = s[j] => i = j
    BY ChainDistinct
<1>5. /\ Len(u) \in Nat /\ DOMAIN u = 1 .. Len(u)
      /\ \A i \in 1 .. Len(u) - 1 : u[i + 1] = g[u[i]]
      /\ \A i \in 1 .. Len(u) : u[i] \in Clusters
    BY ChainFacts
<1>6. last \in Clusters /\ f[last] # Free /\ last \notin Range(free)
    BY <1>2, <1>3 DEF FreeIn
<1>7. e <= Len(u) /\ u[e] = last
    <2> DEFINE W == {last} \cup Range(free)
    <2>1. \A y \in Clusters \ W : g[y] = f[y]
        BY GrowthSame
    <2>2. \A i \in 1 .. e - 1 : s[i] \notin W
        <3> TAKE i \in 1 .. e - 1
        <3>1. i \in 1 .. Len(s) /\ i # e
            BY <1>2
        <3>2. s[i] # last
            BY <3>1, <1>2, <1>4
        <3> QED BY <3>1, <3>2, <1>2, <1>3 DEF FreeIn
    <2> HIDE DEF W
    <2>3. e <= Len(Chain(g, a)) /\ \A i \in 1 .. e : Chain(g, a)[i] = Chain(f, a)[i]
        <3>1. \A i \in 1 .. e - 1 : Chain(f, a)[i] \notin W
            BY <2>2
        <3> QED BY <2>1, <3>1, ChainBefore
    <2> QED BY <2>3, <1>2
<1>8. Unled(g, a)
    <2>1. ASSUME NEW y \in Clusters, g[y] = a PROVE FALSE
        <3>1. ASSUME NEW i \in 1 .. n, y = Prev(free, last, i) PROVE FALSE
            <4>1. g[y] = free[i]
                BY <3>1 DEF Growth
            <4>2. i \in DOMAIN free
                BY <1>1
            <4> QED BY <4>1, <4>2, <2>1, <1>1 DEF FreeIn
        <3>2. ASSUME NEW i \in 1 .. n, y = free[i] PROVE FALSE
            <4>1. CASE i = n
                <5>1. g[y] = ENDOFCHAIN
                    BY <3>2, <4>1 DEF Growth
                <5> QED BY <5>1, <2>1, Constants
            <4>2. CASE i # n
                <5>1. i + 1 \in 1 .. n /\ Prev(free, last, i + 1) = y
                    BY <3>2, <4>2 DEF Prev
                <5> QED BY <5>1, <3>1
            <4> QED BY <4>1, <4>2
        <3>3. g[y] = f[y]
            BY <3>1, <3>2 DEF Growth
        <3> QED BY <3>3, <2>1 DEF Unled
    <2> QED BY <2>1 DEF Unled
<1>9. ASSUME NEW k \in 1 .. Len(u), g[u[k]] \in Clusters
      PROVE  k + 1 \in 1 .. Len(u) /\ u[k + 1] = g[u[k]]
    BY <1>8, <1>9, ChainNext
<1> HIDE DEF s, u
<1>10. bad = {}
    <2> SUFFICES ASSUME bad # {} PROVE FALSE
        OBVIOUS
    <2>1. PICK i \in bad : \A j \in bad : i <= j
        <3>1. bad \subseteq Nat
            OBVIOUS
        <3> HIDE DEF bad
        <3> QED BY <3>1, LeastOfNats
    <2>2. /\ i \in 1 .. n /\ ~(e + i \in 1 .. Len(u) /\ u[e + i] = free[i])
          /\ i \in DOMAIN free /\ i \in Nat /\ e \in Nat
          /\ i # 1 => i - 1 \in 1 .. n /\ i - 1 \notin bad
        <3>1. i \in 1 .. n /\ ~(e + i \in 1 .. Len(u) /\ u[e + i] = free[i])
            BY <2>1
        <3>2. i - 1 \notin bad
            <4> HIDE DEF bad
            <4> QED BY <2>1, <3>1
        <3> HIDE DEF bad
        <3> QED BY <3>1, <3>2, <1>1, <1>2
    <2>3. (e + i) - 1 \in 1 .. Len(u) /\ u[(e + i) - 1] = Prev(free, last, i)
        <3>1. CASE i = 1
            BY <3>1, <1>2, <1>5, <1>7 DEF Prev
        <3>2. CASE i # 1
            <4>1. e + (i - 1) \in 1 .. Len(u) /\ u[e + (i - 1)] = free[i - 1]
                BY <3>2, <2>2
            <4>2. e + (i - 1) = (e + i) - 1
                BY <2>2
            <4> QED BY <3>2, <4>1, <4>2 DEF Prev
        <3> QED BY <3>1, <3>2
    <2>4. g[u[(e + i) - 1]] = free[i] /\ free[i] \in Clusters
        <3>1. Prev(free, last, i) \in Clusters
            BY <2>3, <1>5
        <3>2. g[Prev(free, last, i)] = free[i]
            BY <3>1, <2>2 DEF Growth
        <3> QED BY <3>2, <2>2, <2>3, <1>1
    <2>5. ((e + i) - 1) + 1 \in 1 .. Len(u) /\ u[((e + i) - 1) + 1] = free[i]
        BY <2>3, <2>4, <1>9
    <2>6. ((e + i) - 1) + 1 = e + i
        BY <2>2
    <2> QED BY <2>2, <2>5, <2>6
<1>11. \A i \in 1 .. n : e + i \in 1 .. Len(u) /\ u[e + i] = free[i]
    BY <1>10
<1> HIDE DEF bad
<1>12. Len(u) = e + n
    <2>1. n \in 1 .. n /\ e \in Nat
        BY <1>1, <1>2
    <2>2. e + n \in 1 .. Len(u) /\ u[e + n] = free[n]
        BY <2>1, <1>11
    <2>3. g[free[n]] = ENDOFCHAIN
        BY <2>1 DEF Growth
    <2>4. ASSUME e + n < Len(u) PROVE FALSE
        <3>1. e + n \in 1 .. Len(u) - 1 /\ (e + n) + 1 \in 1 .. Len(u)
            BY <2>1, <2>2, <2>4, <1>5
        <3>2. u[(e + n) + 1] = ENDOFCHAIN /\ u[(e + n) + 1] \in Clusters
            BY <3>1, <2>2, <2>3, <1>5
        <3> QED BY <3>2, Constants
    <2> QED BY <2>1, <2>2, <2>4, <1>5
<1> QED BY <1>11, <1>12, <1>5 DEF u

\* A, writes that extend a chain behind last, unlinks and uses clusters of K only.
Contained(f, free, last, K, A) ==
    \A k \in DOMAIN A : A[k].on = "fat" =>
        /\ Rest(f, A[k].at, 1) \subseteq K
        /\ Links(A[k]) => A[k].value \in K
        /\ ~Frees(A[k])
        /\ \/ A[k].at \in K /\ A[k].at \in Range(free)
           \/ A[k].at = last /\ f[A[k].at] # Free

LEMMA ExtendsHeld ==
    ASSUME NEW f, NEW free, NEW last, NEW n \in Nat, FreeIn(f, free),
           NEW A \in Seq(DeviceWrites), Extends(free, last, n, A),
           NEW K, Allocated(A) \subseteq K,
           1 \in DOMAIN free /\ last \in Clusters =>
               f[last] # Free /\ Rest(f, last, 1) \subseteq K
    PROVE  Contained(f, free, last, K, A)
<1> SUFFICES ASSUME NEW k \in DOMAIN A, A[k].on = "fat"
             PROVE  /\ Rest(f, A[k].at, 1) \subseteq K
                    /\ Links(A[k]) => A[k].value \in K
                    /\ ~Frees(A[k])
                    /\ \/ A[k].at \in K /\ A[k].at \in Range(free)
                       \/ A[k].at = last /\ f[A[k].at] # Free
    BY DEF Contained
<1> DEFINE w == A[k]
<1>1. w.on = "fat" /\ w.at \in Clusters /\ w \in DeviceWrites
    BY ElementOfSeq, WriteShape
<1>2. PICK i \in 1 .. n :
        /\ i \in DOMAIN free
        /\ \/ Marks(w) /\ w.at = free[i]
           \/ Links(w) /\ w.at = Prev(free, last, i) /\ w.value = free[i]
    BY DEF Extends
<1> HIDE DEF w
<1>3. DOMAIN free = 1 .. Len(free) /\ Len(free) \in Nat
    BY LenProperties DEF FreeIn
<1>4. ASSUME NEW j \in 1 .. n, j \in DOMAIN free
      PROVE  /\ free[j] \in Clusters /\ free[j] \in Range(free) /\ free[j] \in K
             /\ Rest(f, free[j], 1) = {}
    <2>1. free[j] \in Range(free)
        BY <1>4 DEF Range
    <2>2. free[j] \in Clusters /\ f[free[j]] = Free
        BY <2>1 DEF FreeIn
    <2>3. f[free[j]] \notin Clusters
        BY <2>2, Constants
    <2>4. free[j] \in Allocated(A)
        BY <1>4 DEF Extends, Allocated
    <2> QED BY <2>1, <2>2, <2>3, <2>4, RestNone
<1>5. ~Frees(w)
    BY <1>2, Kinds
<1>6. CASE Marks(w) /\ w.at = free[i]
    <2>1. ~Links(w)
        BY <1>6, Kinds
    <2> QED BY <1>2, <1>4, <1>5, <1>6, <2>1 DEF w
<1>7. CASE Links(w) /\ w.at = Prev(free, last, i) /\ w.value = free[i]
    <2>1. CASE i = 1
        <3>1. w.at = last
            BY <1>7, <2>1 DEF Prev
        <3> QED BY <3>1, <1>1, <1>2, <1>4, <1>5, <1>7, <2>1 DEF w
    <2>2. CASE i # 1
        <3>1. i - 1 \in 1 .. n /\ i - 1 \in DOMAIN free /\ w.at = free[i - 1]
            BY <1>2, <1>3, <1>7, <2>2 DEF Prev
        <3> QED BY <3>1, <1>2, <1>4, <1>5, <1>7 DEF w
    <2> QED BY <2>1, <2>2
<1> QED BY <1>2, <1>6, <1>7

\* What they make of the table when they are the last to write there.
LEMMA ExtendsGrow ==
    ASSUME NEW f, NEW g, NEW h, NEW free, NEW last, NEW n \in Nat,
           n = 0 \/ n \in DOMAIN free, NEW A, NEW T, DOMAIN T \subseteq Nat,
           Extends(free, last, n, A), Final(f, T, g), free \in Seq(Clusters),
           \A x, v : LastWrite(A, x, v) => LastWrite(T, x, v),
           \A y \in Clusters : (\A k \in DOMAIN A : A[k].on = "fat" => A[k].at # y) => g[y] = h[y]
    PROVE  Growth(h, g, free, last, n)
<1>1. \A x \in Clusters : \A v : LastWrite(A, x, v) => g[x] = v
    BY FinalWrites
<1>2. ASSUME NEW y \in Clusters, \A i \in 1 .. n : y # Prev(free, last, i) /\ y # free[i]
      PROVE  g[y] = h[y]
    <2>1. \A k \in DOMAIN A : A[k].on = "fat" => A[k].at # y
        BY <1>2 DEF Extends
    <2> QED BY <2>1
<1>3. n # 0 => n \in DOMAIN free /\ free[n] \in Clusters
    BY ElementOfSeq
<1>4. \A i \in 1 .. n : Prev(free, last, i) \in Clusters => g[Prev(free, last, i)] = free[i]
    BY <1>1, <1>3 DEF Extends
<1>5. n # 0 => g[free[n]] = ENDOFCHAIN
    BY <1>1, <1>3 DEF Extends
<1> QED BY <1>2, <1>4, <1>5 DEF Growth

LEMMA AllocatedCat ==
    ASSUME NEW A \in Seq(DeviceWrites), NEW B \in Seq(DeviceWrites)
    PROVE  Allocated(A) \subseteq Allocated(A \o B) /\ Allocated(B) \subseteq Allocated(A \o B)
<1> DEFINE C == A \o B
<1>1. /\ \A k \in DOMAIN A : k \in DOMAIN C /\ C[k] = A[k]
      /\ \A j \in DOMAIN B : Len(A) + j \in DOMAIN C /\ C[Len(A) + j] = B[j]
    BY CatShape
<1> HIDE DEF C
<1> QED BY <1>1, ZenonT(60) DEF Allocated, C

\* How many clusters the directory is extended by for a new entry.
More == IF FreeSlots = {} THEN 1 ELSE 0

LEMMA RoomExtends ==
    ASSUME IInv, call = Idle, NEW free, FreeList(free)
    PROVE  /\ Extends(free, Last(Chain(fat, Root)), More, NewRoom(free))
           /\ NewRoom(free) \in Seq(DeviceWrites) /\ More \in {0, 1}
           /\ FreeIn(fat, free)
<1> DEFINE a == Last(Chain(fat, Root))
<1>1. NewRoom(free) \in Seq(DeviceWrites) /\ a \in Clusters /\ fat[a] # Free
    BY RoomShape
<1>2. FreeIn(fat, free) /\ a \notin Range(free)
    BY <1>1 DEF FreeList, FreeIn
<1> HIDE DEF a
<1>3. CASE FreeSlots = {}
    <2>1. NewRoom(free) = Extend(free, a, 1) /\ More = 1
        BY <1>3 DEF NewRoom, More, a
    <2>2. Extends(free, a, 1, Extend(free, a, 1))
        BY <1>2, ExtendEnds DEF FreeIn
    <2> QED BY <1>1, <1>2, <2>1, <2>2 DEF a
<1>4. CASE FreeSlots # {}
    <2>1. NewRoom(free) = <<>> /\ More = 0 /\ DOMAIN <<>> = {}
        BY <1>4 DEF NewRoom, More
    <2>2. 0 \notin DOMAIN free
        <3>1. DOMAIN free = 1 .. Len(free) /\ Len(free) \in Nat
            BY <1>2, LenProperties DEF FreeIn
        <3> QED BY <3>1
    <2>3. \A i \in 1 .. 0 : FALSE
        OBVIOUS
    <2>4. Extends(free, a, 0, <<>>)
        BY <2>1, <2>2, <2>3 DEF Extends
    <2> QED BY <1>1, <1>2, <2>1, <2>4 DEF a
<1> QED BY <1>3, <1>4

\* The directory is extended: its new cluster is reached, and nothing is lost.
LEMMA RoomSettles ==
    ASSUME NEW f, NEW g, NEW d, NEW K, NEW free, NEW n \in {0, 1}, n = 0 \/ n \in DOMAIN free,
           Linked(f), Linked(g), f[Root] # Free, FreeIn(f, free), Covered(f, d, K),
           \A s \in DOMAIN d : d[s].cluster \in Clusters,
           Growth(f, g, free, Last(Chain(f, Root)), n)
    PROVE  /\ \A a \in Clusters : Unled(f, a) /\ f[a] # Free /\ a # Root =>
                Chain(g, a) = Chain(f, a)
           /\ \A x \in Clusters : g[x] # Free => Reached(g, d, x) \/ x \in K
<1> DEFINE last == Last(Chain(f, Root))
<1>1. /\ Unled(f, Root) /\ last \in Clusters /\ f[last] # Free /\ last \in Range(Chain(f, Root))
      /\ \A x \in Clusters : f[x] = Free => f[last] \notin Clusters
    BY RootLast
<1>2. Root \in Clusters /\ n \in Nat
    BY Constants
<1>3. last = Chain(f, Root)[Len(Chain(f, Root))]
      /\ Len(Chain(f, Root)) \in 1 .. Len(Chain(f, Root))
    <2>1. Len(Chain(f, Root)) \in Nat \ {0}
        BY <1>2, ChainFacts
    <2>2. last = Chain(f, Root)[Len(Chain(f, Root))]
        BY DEF Last
    <2> HIDE DEF last
    <2> QED BY <2>1, <2>2
<1>4. Growth(f, g, free, last, n)
    OBVIOUS
<1> HIDE DEF last
<1>5. ASSUME NEW a \in Clusters, Unled(f, a), f[a] # Free, a # Root
      PROVE  Chain(g, a) = Chain(f, a)
    <2>1. last \notin Range(Chain(f, a))
        BY <1>1, <1>2, <1>5, ChainsDisjoint
    <2> QED BY <2>1, <1>2, <1>4, <1>5, GrowthBeside
<1>6. n # 0 => f[last] # Free /\ Rest(f, last, 1) \subseteq K
    <2> SUFFICES ASSUME n # 0 PROVE f[last] # Free /\ Rest(f, last, 1) \subseteq K
        OBVIOUS
    <2>1. n \in DOMAIN free /\ free[n] \in Range(free)
        BY DEF Range
    <2>2. f[last] \notin Clusters
        BY <1>1, <2>1 DEF FreeIn
    <2> QED BY <1>1, <2>2, RestNone
<1>7. \A x \in Clusters : g[x] # Free =>
        (\E i \in 1 .. n : x = free[i]) \/ Reached(g, d, x) \/ x \in K
    BY <1>2, <1>4, <1>6, GrowthCovers
<1>8. ASSUME NEW i \in 1 .. n PROVE free[i] \in Range(Chain(g, Root))
    <2>1. n \in DOMAIN free
        BY <1>8
    <2> DEFINE e == Len(Chain(f, Root))
    <2>2. e \in 1 .. Len(Chain(f, Root)) /\ Chain(f, Root)[e] = last
        BY <1>3
    <2> HIDE DEF e
    <2>3. e + i \in DOMAIN Chain(g, Root) /\ Chain(g, Root)[e + i] = free[i]
        BY <1>1, <1>2, <1>4, <1>8, <2>1, <2>2, GrowthChain
    <2> QED BY <2>3 DEF Range
<1> QED BY <1>5, <1>7, <1>8 DEF Reached

\* One more write, of the directory.
LEMMA DirBehind ==
    ASSUME NEW R \in Seq(DeviceWrites), NEW D \in DeviceWrites, D.on = "dir"
    PROVE  LET U == R \o <<D>> IN
           /\ U \in Seq(DeviceWrites) /\ DOMAIN U \subseteq Nat /\ Len(U) = Len(R) + 1
           /\ Len(R) \in Nat /\ Len(R) + 1 \in DOMAIN U /\ U[Len(R) + 1] = D
           /\ \A k \in DOMAIN U : k \in DOMAIN R \/ k = Len(R) + 1
           /\ \A k \in DOMAIN R : k \in DOMAIN U /\ U[k] = R[k] /\ k <= Len(R)
           /\ \A x, v : LastWrite(R, x, v) => LastWrite(U, x, v)
           /\ Allocated(R) \subseteq Allocated(U)
<1> DEFINE B == <<D>>
           U == R \o B
<1>1. B \in Seq(DeviceWrites) /\ DOMAIN B = {1} /\ B[1] = D /\ Len(B) = 1
    OBVIOUS
<1> HIDE DEF B
<1>2. /\ U \in Seq(DeviceWrites) /\ Len(U) = Len(R) + Len(B)
      /\ \A k \in DOMAIN R : k \in DOMAIN U /\ U[k] = R[k]
      /\ \A j \in DOMAIN B : Len(R) + j \in DOMAIN U /\ U[Len(R) + j] = B[j]
      /\ \A k \in DOMAIN U : k \in DOMAIN R \/ \E j \in DOMAIN B : k = Len(R) + j
      /\ DOMAIN R = 1 .. Len(R) /\ Len(R) \in Nat
    BY <1>1, CatShape
<1>3. \A x, v : LastWrite(R, x, v) => LastWrite(U, x, v)
    <2>1. \A j \in DOMAIN B : B[j].on # "fat"
        BY <1>1
    <2> QED BY <1>1, <2>1, LastCat
<1>4. Allocated(R) \subseteq Allocated(U)
    BY <1>1, AllocatedCat
<1> HIDE DEF U
<1>5. DOMAIN U \subseteq Nat
    BY <1>2, LenProperties
<1> QED BY <1>1, <1>2, <1>3, <1>4, <1>5 DEF U, B

LEMMA SamePast ==
    ASSUME NEW f, NEW g, NEW e, Chain(g, e.cluster) = Chain(f, e.cluster)
    PROVE  Past(g, e) = Past(f, e)
BY DEF Past, Rest

LEMMA MoveLosses ==
    ASSUME IInv, LossInv, NEW n \in Names, NEW m \in Names, Move(n, m)
    PROVE  LossInv' /\ FineInv'
<1> DEFINE s == SlotOf(n)
           x == dir[s].cluster
           e == [dir[s] EXCEPT !.name = m]
           D == DeviceWrite("dir", NewSlot, e, "stop")
           w0 == DeviceWrite("dir", s, NoEntry, "stop")
           R == NewRoom(FreeClusters)
           A == R \o <<D>>
           T == A \o <<w0>>
           G == Allocated(A)
           c == [Idle EXCEPT !.op = "move", !.name = m, !.doubt = {n, m}, !.got = G, !.todo = T]
           a == Last(Chain(fat, Root))
<1>1. Exists(n) /\ n \notin torn /\ n \notin DOMAIN open /\ ~Exists(m) /\ call = Idle
    BY DEF Move, Sound, Start
<1>2. n \notin OldTorn
    BY <1>1 DEF OldTorn
<1>3. /\ s \in DOMAIN dir /\ dir[s].name = n /\ s \in Nat
      /\ x \in Clusters /\ fat[x] # Free /\ x # Root /\ Unled(fat, x)
    BY <1>1, <1>2, SoundShape
<1>4. /\ Linked(fat) /\ fat[Root] # Free /\ Entries(dir) /\ Matching(dir, open, torn)
    BY <1>1, AtStart
<1>5. e \in Entry /\ e.name = m /\ e.cluster = x /\ e.size = dir[s].size
    <2> HIDE DEF s
    <2>1. dir[s] \in Entry
        BY <1>3, <1>4 DEF Entries
    <2> QED BY <2>1 DEF Entry
<1>6. FreeList(FreeClusters) /\ NewSlot \in Nat /\ NewSlot \notin DOMAIN dir
    BY <1>1, FreeShape, NewSlotShape
<1> HIDE DEF e
<1>7. WriteNew(FreeClusters, e) = A
    BY <1>1, <1>5, <1>6, WriteNewShape
<1>8. Start(c)
    BY <1>7 DEF Move, e
<1>9. /\ c.op = "move" /\ c.name = m /\ c.doubt = {n, m} /\ c.got = G /\ c.left = {} /\ c.todo = T
    <2> HIDE DEF T, G
    <2> QED BY DEF Idle
<1> HIDE DEF c
<1>10. /\ D \in DeviceWrites /\ Enters(D) /\ Firm(D) /\ D.at = NewSlot /\ D.value = e
       /\ ~Clears(D) /\ D.on = "dir"
    BY <1>5, <1>6, EntryShape
<1>11. /\ w0 \in DeviceWrites /\ Clears(w0) /\ w0.at = s /\ ~Enters(w0) /\ w0.on = "dir"
    <2> HIDE DEF s
    <2>1. w0 \in DeviceWrites /\ Clears(w0) /\ w0.at = s /\ w0.on = "dir"
        BY <1>3 DEF DeviceWrite, DeviceWrites, Clears
    <2> HIDE DEF w0
    <2> QED BY <2>1 DEF Clears, Enters
<1> HIDE DEF D, w0
<1>12. /\ Extends(FreeClusters, a, More, R) /\ R \in Seq(DeviceWrites) /\ More \in {0, 1}
       /\ FreeIn(fat, FreeClusters)
    BY <1>1, <1>6, RoomExtends
<1> HIDE DEF R
<1>13. /\ A \in Seq(DeviceWrites) /\ DOMAIN A \subseteq Nat /\ Len(A) = Len(R) + 1
       /\ Len(R) \in Nat /\ Len(R) + 1 \in DOMAIN A /\ A[Len(R) + 1] = D
       /\ \A k \in DOMAIN A : k \in DOMAIN R \/ k = Len(R) + 1
       /\ \A k \in DOMAIN R : k \in DOMAIN A /\ A[k] = R[k] /\ k <= Len(R)
       /\ \A y, v : LastWrite(R, y, v) => LastWrite(A, y, v)
       /\ Allocated(R) \subseteq G
    BY <1>10, <1>12, DirBehind
<1> HIDE DEF A
<1>14. /\ T \in Seq(DeviceWrites) /\ DOMAIN T \subseteq Nat
       /\ Len(A) \in Nat /\ Len(A) + 1 \in DOMAIN T /\ T[Len(A) + 1] = w0
       /\ \A k \in DOMAIN T : k \in DOMAIN A \/ k = Len(A) + 1
       /\ \A k \in DOMAIN A : k \in DOMAIN T /\ T[k] = A[k] /\ k <= Len(A)
       /\ \A y, v : LastWrite(A, y, v) => LastWrite(T, y, v)
    BY <1>11, <1>13, DirBehind
<1> HIDE DEF T, G
<1> DEFINE p == Len(R) + 1
           q == Len(A) + 1
<1>15. /\ p \in DOMAIN T /\ T[p] = D /\ q \in DOMAIN T /\ T[q] = w0 /\ p < q
       /\ \A k \in DOMAIN T : k = p \/ k = q \/ (k \in DOMAIN R /\ T[k] = R[k])
       /\ \A k \in DOMAIN R : k \in DOMAIN T /\ T[k] = R[k]
       /\ \A y, v : LastWrite(R, y, v) => LastWrite(T, y, v)
    <2>1. p < q
        BY <1>13
    <2> HIDE DEF p, q
    <2>2. /\ \A k \in DOMAIN T : k \in DOMAIN A \/ k = q
          /\ \A k \in DOMAIN A : k \in DOMAIN R \/ k = p
        BY <1>13, <1>14 DEF p, q
    <2>3. p \in DOMAIN A /\ A[p] = D /\ q \in DOMAIN T /\ T[q] = w0
        BY <1>13, <1>14 DEF p, q
    <2> QED BY <2>1, <2>2, <2>3, <1>13, <1>14
<1> HIDE DEF p, q
<1>16. \A k \in DOMAIN R : ~Enters(R[k]) /\ ~Clears(R[k]) /\ R[k].on # "dir"
    BY <1>12 DEF Extends, Enters, Clears
<1>17. \A k \in DOMAIN T : T[k].on = "fat" => k \in DOMAIN R /\ T[k] = R[k]
    BY <1>10, <1>11, <1>15
<1>18. Sure(c.doubt)
    BY <1>1, <1>9 DEF Sure, Exists
<1>19. /\ Covered(fat, dir, lost) /\ OpenHeld(fat, open, lost)
       /\ EntriesHeld(fat, dir, Torn(c.doubt), lost)
       /\ \A u \in DOMAIN dir : dir[u].name \notin Torn(c.doubt) =>
            /\ Unled(fat, dir[u].cluster)
            /\ fat[dir[u].cluster] # Free /\ dir[u].cluster # Root
       /\ \A u \in DOMAIN dir : dir[u].cluster \in Clusters /\ dir[u].size \in Nat
    BY <1>1, <1>18, StartHeld
<1>20. Past(fat, e) \subseteq lost
    <2>1. n \notin Torn(c.doubt)
        BY <1>9 DEF Torn
    <2>2. Past(fat, dir[s]) \subseteq lost
        BY <1>3, <1>19, <2>1 DEF EntriesHeld
    <2>3. Past(fat, e) = Past(fat, dir[s])
        BY <1>5 DEF Past, Used
    <2> QED BY <2>2, <2>3
<1> DEFINE K == lost \cup c.got
           M == lost \cup c.left
           t == Torn(c.doubt)
<1>21. lost \subseteq K /\ Allocated(R) \subseteq K /\ M = lost
    BY <1>9, <1>13
<1> HIDE DEF K, M, x, s
<1>22. 1 \in DOMAIN FreeClusters /\ a \in Clusters => fat[a] # Free /\ Rest(fat, a, 1) \subseteq K
    <2> SUFFICES ASSUME 1 \in DOMAIN FreeClusters
                 PROVE  a \in Clusters => fat[a] # Free /\ Rest(fat, a, 1) \subseteq K
        OBVIOUS
    <2>1. FreeClusters[1] \in Clusters /\ fat[FreeClusters[1]] = Free
        BY <1>12 DEF FreeIn, Range
    <2>2. fat[a] # Free /\ fat[a] \notin Clusters
        BY <1>4, <2>1, RootLast
    <2> QED BY <2>2, RestNone
<1> HIDE DEF a
<1>23. TableHeld(fat, dir, K, T)
    <2>1. \A k \in DOMAIN R : R[k].on = "fat" =>
            /\ Rest(fat, R[k].at, 1) \subseteq K
            /\ Links(R[k]) => R[k].value \in K
            /\ ~Frees(R[k])
            /\ R[k].at \in K \/ fat[R[k].at] # Free
        <3>1. /\ More \in Nat /\ FreeIn(fat, FreeClusters) /\ R \in Seq(DeviceWrites)
              /\ Extends(FreeClusters, a, More, R) /\ Allocated(R) \subseteq K
              /\ 1 \in DOMAIN FreeClusters /\ a \in Clusters =>
                    fat[a] # Free /\ Rest(fat, a, 1) \subseteq K
            BY <1>12, <1>21, <1>22
        <3>2. Contained(fat, FreeClusters, a, K, R)
            BY <3>1, ExtendsHeld
        <3> QED BY <3>2 DEF Contained
    <2>2. \A k \in DOMAIN T : ~Frees(T[k])
        BY <1>17, <2>1 DEF Frees
    <2> QED BY <1>17, <2>1, <2>2 DEF TableHeld
<1>24. DirHeld(fat, dir, K, T)
    <2>1. \A k \in DOMAIN T : Enters(T[k]) => T[k] = D
        BY <1>11, <1>15, <1>16
    <2>2. \A k \in DOMAIN T : Clears(T[k]) => k = q /\ T[k].at = s
        BY <1>10, <1>11, <1>15, <1>16
    <2>3. p < q /\ p \in DOMAIN T /\ Enters(T[p]) /\ Firm(T[p]) /\ T[p].value.cluster = dir[s].cluster
        BY <1>5, <1>10, <1>15 DEF x
    <2> QED BY <1>10, <1>20, <1>21, <2>1, <2>2, <2>3 DEF DirHeld
<1>25. OwnHeld(fat, c, K, T)
    BY <1>9 DEF OwnHeld
<1>26. ASSUME \A k \in DOMAIN T : T[k].on # "nowhere", NEW g, NEW d, Outcome(fat, dir, c, T, g, d)
       PROVE  Settled(g, d, open, c, t, M)
    <2>1. More = 0 \/ More \in DOMAIN FreeClusters
        BY <1>12, <1>15, <1>26 DEF Extends
    <2>2. Linked(g) /\ Final(fat, T, g) /\ FinalDir(dir, T, d)
        BY <1>26 DEF Outcome
    <2>3. Growth(fat, g, FreeClusters, a, More)
        <3>1. ASSUME NEW y \in Clusters, \A k \in DOMAIN R : R[k].on = "fat" => R[k].at # y
              PROVE  g[y] = fat[y]
            <4>1. \A k \in DOMAIN T : T[k].on = "fat" => T[k].at # y
                BY <1>17, <3>1
            <4> QED BY <4>1, <1>14, <2>2, FinalWrites
        <3>2. More \in Nat /\ FreeClusters \in Seq(Clusters)
            BY <1>12 DEF FreeIn
        <3>3. /\ DOMAIN T \subseteq Nat /\ Extends(FreeClusters, a, More, R) /\ Final(fat, T, g)
              /\ \A y, v : LastWrite(R, y, v) => LastWrite(T, y, v)
            BY <1>12, <1>14, <1>15, <2>2
        <3> QED BY <2>1, <3>1, <3>2, <3>3, ExtendsGrow
    <2>4. /\ \A y \in Clusters : Unled(fat, y) /\ fat[y] # Free /\ y # Root =>
               Chain(g, y) = Chain(fat, y)
          /\ \A y \in Clusters : g[y] # Free => Reached(g, dir, y) \/ y \in lost
        <3>1. Growth(fat, g, FreeClusters, Last(Chain(fat, Root)), More)
            BY <2>3 DEF a
        <3>2. \A u \in DOMAIN dir : dir[u].cluster \in Clusters
            BY <1>19
        <3> QED BY <1>4, <1>12, <1>19, <2>1, <2>2, <3>1, <3>2, RoomSettles
    <2>5. NewSlot \in DOMAIN d /\ d[NewSlot] = e
        <3>1. \A k \in DOMAIN T : T[k].on = "dir" /\ T[k].at = NewSlot => T[k] = D
            BY <1>3, <1>6, <1>11, <1>15, <1>16
        <3>2. p \in DOMAIN T /\ T[p].on = "dir" /\ T[p].at = NewSlot
            BY <1>10, <1>15
        <3> QED BY <1>10, <2>2, <3>1, <3>2 DEF FinalDir
    <2>6. ASSUME NEW u
          PROVE  /\ u \in DOMAIN d => u = NewSlot \/ (u \in DOMAIN dir /\ d[u] = dir[u])
                 /\ u \in DOMAIN dir /\ u # s => u \in DOMAIN d /\ d[u] = dir[u]
        <3>1. CASE u = s
            <4>1. \A k \in DOMAIN T : T[k].on = "dir" /\ T[k].at = s => ~Enters(T[k])
                BY <1>3, <1>6, <1>10, <1>11, <1>15, <1>16
            <4>2. q \in DOMAIN T /\ T[q].on = "dir" /\ T[q].at = s
                BY <1>11, <1>15
            <4> QED BY <3>1, <4>1, <4>2, <2>2 DEF FinalDir
        <3>2. CASE u # s /\ u # NewSlot
            <4>1. \A k \in DOMAIN T : T[k].on = "dir" => T[k].at # u
                BY <3>2, <1>10, <1>11, <1>15, <1>16
            <4> QED BY <3>2, <4>1, <2>2 DEF FinalDir
        <3>3. CASE u = NewSlot
            BY <3>3, <1>6
        <3> QED BY <3>1, <3>2, <3>3
    <2>7. Covered(g, d, lost)
        <3>1. \A u \in DOMAIN dir : \E v \in DOMAIN d : d[v].cluster = dir[u].cluster
            BY <1>5, <2>5, <2>6 DEF x
        <3> QED BY <2>4, <3>1 DEF Covered, Reached
    <2>8. EntriesHeld(g, d, t, lost)
        <3> SUFFICES ASSUME NEW u \in DOMAIN d, d[u].name \notin t
                     PROVE  Past(g, d[u]) \subseteq lost
            BY DEF EntriesHeld
        <3>1. CASE u = NewSlot
            <4>1. Past(g, e) = Past(fat, e)
                BY <1>3, <1>5, <2>4, SamePast DEF x
            <4> QED BY <3>1, <4>1, <1>20, <2>5
        <3>2. CASE u # NewSlot
            <4>1. u \in DOMAIN dir /\ d[u] = dir[u]
                BY <3>2, <2>6
            <4>2. Past(g, d[u]) = Past(fat, d[u])
                BY <4>1, <1>19, <2>4, SamePast
            <4> QED BY <4>1, <4>2, <1>19 DEF EntriesHeld
        <3> QED BY <3>1, <3>2
    <2>9. \A o \in DOMAIN open : Past(g, open[o]) \subseteq lost
        <3> SUFFICES ASSUME NEW o \in DOMAIN open PROVE Past(g, open[o]) \subseteq lost
            OBVIOUS
        <3>1. PICK u \in DOMAIN dir : dir[u].name = o /\ dir[u].cluster = open[o].cluster
                                      /\ o \notin torn
            BY <1>4 DEF Matching
        <3>2. o \notin t
            BY <3>1 DEF Torn, OldTorn
        <3>3. Past(g, open[o]) = Past(fat, open[o])
            BY <3>1, <3>2, <1>19, <2>4, SamePast
        <3> QED BY <3>3, <1>19 DEF OpenHeld
    <2> QED BY <1>9, <1>21, <2>7, <2>8, <2>9 DEF Settled
<1>27. Fine(fat, dir, open, c, t, M, T)
    BY <1>26 DEF Fine
<1> HIDE DEF t
<1> QED BY <1>8, <1>9, <1>18, <1>23, <1>24, <1>25, <1>27, StartLosses DEF K, M, t

-----------------------------------------------------------------------------
(* A new file *)

\* The writes of a new file, with or without the reset of its one cluster.
LEMMA NewEnds ==
    ASSUME IInv, call = Idle, NEW n \in Names, FreeClusters # <<>>,
           NEW Z, Z = <<>> \/ Z = Reset(<<FreeClusters[1]>>)
    PROVE  LET x == FreeClusters[1]
               R == NewRoom(Tail(FreeClusters))
               D == DeviceWrite("dir", NewSlot, NewEntry(n), "stop")
               T == Create(n) \o Z IN
           /\ T \in Seq(DeviceWrites)
           /\ \A k \in DOMAIN T :
                \/ T[k].on \notin {"fat", "dir"}
                \/ T[k].on = "fat" /\ T[k].at = x /\ ~Links(T[k])
                \/ T[k] \in Range(R)
                \/ T[k] = D
           /\ D \in Range(T) /\ Range(R) \subseteq Range(T)
           /\ LastWrite(T, x, ENDOFCHAIN)
           /\ \A y, v : LastWrite(R, y, v) => LastWrite(T, y, v)
           /\ \A w \in Range(R) : w.on = "fat" => w.at # x
           /\ x \in Allocated(Create(n)) /\ Allocated(R) \subseteq Allocated(Create(n))
<1> DEFINE x == FreeClusters[1]
           u == Tail(FreeClusters)
           a == Last(Chain(fat, Root))
           R == NewRoom(u)
           D == DeviceWrite("dir", NewSlot, NewEntry(n), "stop")
           A == Alloc(x)
           B == SetNext(x, ENDOFCHAIN, "ignore")
           H == A \o B
           W == R \o <<D>>
           V == H \o W
           T == V \o Z
<1>1. FreeList(u) /\ x \in Clusters /\ fat[x] = Free /\ x \notin Range(u)
    BY FreeShape
<1>2. NewEntry(n) \in Entry /\ NewSlot \in Nat
    BY CreateShape, NewSlotShape
<1>3. WriteNew(u, NewEntry(n)) = W
    BY <1>1, <1>2, WriteNewShape
<1>4. Create(n) = V
    BY <1>3 DEF Create, NewEntry
<1>5. D \in DeviceWrites /\ D.on = "dir"
    BY <1>2, EntryShape
<1>6. /\ Extends(u, a, More, R) /\ R \in Seq(DeviceWrites) /\ More \in {0, 1}
      /\ a # x
    BY <1>1, RoomExtends, RoomShape
<1> HIDE DEF x, u, a, R, D
<1>7. \A w \in Range(R) : w.on # "dir" /\ (w.on = "fat" => w.at # x)
    <2> SUFFICES ASSUME NEW k \in DOMAIN R
                 PROVE  R[k].on # "dir" /\ (R[k].on = "fat" => R[k].at # x)
        BY DEF Range
    <2>1. \A i \in DOMAIN u : u[i] # x
        BY <1>1 DEF Range
    <2>2. R[k].on # "dir"
        BY <1>6 DEF Extends
    <2>3. ASSUME R[k].on = "fat" PROVE R[k].at # x
        <3>1. PICK i \in 1 .. More : i \in DOMAIN u
                                     /\ (R[k].at = u[i] \/ R[k].at = Prev(u, a, i))
            BY <1>6, <2>3 DEF Extends
        <3>2. i = 1
            BY <1>6
        <3> QED BY <3>1, <3>2, <2>1, <1>6 DEF Prev
    <2> QED BY <2>2, <2>3
<1>8. /\ W \in Seq(DeviceWrites)
      /\ \A k \in DOMAIN W : W[k] \in Range(R) \/ W[k] = D
      /\ D \in Range(W) /\ Range(R) \subseteq Range(W)
      /\ \A y, v : LastWrite(R, y, v) => LastWrite(W, y, v)
      /\ Allocated(R) \subseteq Allocated(W)
    <2>1. /\ W \in Seq(DeviceWrites)
          /\ Len(R) + 1 \in DOMAIN W /\ W[Len(R) + 1] = D
          /\ \A k \in DOMAIN W : k \in DOMAIN R \/ k = Len(R) + 1
          /\ \A k \in DOMAIN R : k \in DOMAIN W /\ W[k] = R[k]
          /\ \A y, v : LastWrite(R, y, v) => LastWrite(W, y, v)
          /\ Allocated(R) \subseteq Allocated(W)
        BY <1>5, <1>6, DirBehind
    <2> HIDE DEF W
    <2> QED BY <2>1 DEF Range
<1> HIDE DEF W
<1>9. /\ A \in Seq(DeviceWrites) /\ \A k \in DOMAIN A : A[k].on \notin {"fat", "dir"}
                                     \/ (Marks(A[k]) /\ A[k].at = x)
      /\ x \in Allocated(A)
    <2>1. /\ A \in Seq(DeviceWrites) /\ DOMAIN A = {1, 2, 3}
          /\ Marks(A[1]) /\ A[1].at = x /\ A[2].on = "bak" /\ A[3].on = "zero"
        BY <1>1, AllocShape
    <2>2. A[3].at = x
        BY DEF Alloc, DeviceWrite
    <2> HIDE DEF A
    <2> QED BY <2>1, <2>2 DEF Allocated
<1>10. /\ B \in Seq(DeviceWrites) /\ LastWrite(B, x, ENDOFCHAIN)
       /\ \A k \in DOMAIN B : B[k].on = "bak" \/ (Marks(B[k]) /\ B[k].at = x)
    <2>1. ENDOFCHAIN \in Values
        BY DEF Values
    <2>2. /\ B \in Seq(DeviceWrites) /\ DOMAIN B = {1, 2} /\ B[1].on = "fat" /\ B[1].at = x
          /\ B[1].value = ENDOFCHAIN /\ B[2].on = "bak"
        BY <1>1, <2>1, SetNextShape
    <2> HIDE DEF B
    <2> QED BY <2>2 DEF LastWrite, Marks
<1> HIDE DEF A, B
<1>11. /\ H \in Seq(DeviceWrites) /\ LastWrite(H, x, ENDOFCHAIN)
       /\ \A w \in Range(H) : w.on \notin {"fat", "dir"} \/ (Marks(w) /\ w.at = x)
       /\ x \in Allocated(H)
    <2>1. /\ \A w \in Range(A) : w.on \notin {"fat", "dir"} \/ (Marks(w) /\ w.at = x)
          /\ \A w \in Range(B) : w.on \notin {"fat", "dir"} \/ (Marks(w) /\ w.at = x)
        BY <1>9, <1>10 DEF Range
    <2>2. H \in Seq(DeviceWrites) /\ Range(H) = Range(A) \cup Range(B)
        BY <1>9, <1>10, CatShape
    <2>3. LastWrite(H, x, ENDOFCHAIN)
        BY <1>9, <1>10, LastCat
    <2>4. Allocated(A) \subseteq Allocated(H)
        BY <1>9, <1>10, AllocatedCat
    <2> HIDE DEF H
    <2> QED BY <1>9, <2>1, <2>2, <2>3, <2>4
<1> HIDE DEF H
<1>12. /\ V \in Seq(DeviceWrites) /\ Range(V) = Range(H) \cup Range(W)
       /\ Allocated(H) \subseteq Allocated(V) /\ Allocated(W) \subseteq Allocated(V)
    BY <1>8, <1>11, CatShape, AllocatedCat
<1>13. LastWrite(V, x, ENDOFCHAIN)
    <2>1. \A j \in DOMAIN W : W[j].on = "fat" => W[j].at # x
        BY <1>5, <1>7, <1>8
    <2> QED BY <2>1, <1>8, <1>11, LastCat
<1>14. \A y, v : LastWrite(R, y, v) => LastWrite(V, y, v)
    BY <1>8, <1>11, LastCat
<1> HIDE DEF V
<1>15. /\ Z \in Seq(DeviceWrites)
       /\ \A w \in Range(Z) : w.on \notin {"fat", "dir"}
                              \/ (w.on = "fat" /\ w.at = x /\ ~Links(w))
       /\ Z = <<>> \/ LastWrite(Z, x, ENDOFCHAIN)
    <2>1. CASE Z = <<>>
        <3>1. Range(<<>>) = {} /\ <<>> \in Seq(DeviceWrites)
            BY DEF Range
        <3> QED BY <2>1, <3>1
    <2>2. CASE Z = Reset(<<x>>)
        <3> DEFINE q == <<x>>
        <3>1. q \in Seq(Clusters) /\ q # <<>> /\ q[1] = x /\ DOMAIN q = {1}
            BY <1>1
        <3> HIDE DEF q
        <3>2. Range(q) = {x}
            BY <3>1 DEF Range
        <3>3. /\ Z \in Seq(DeviceWrites)
              /\ \A k \in DOMAIN Z :
                   \/ Z[k].on = "bak"
                   \/ \E i \in DOMAIN q : Frees(Z[k]) /\ Z[k].at = q[i]
                   \/ Marks(Z[k]) /\ Z[k].at = q[1]
            <4>1. Reset(q) = Z
                BY <2>2 DEF q
            <4>2. /\ Reset(q) \in Seq(DeviceWrites)
                  /\ \A k \in DOMAIN Reset(q) :
                       \/ Reset(q)[k].on = "bak"
                       \/ \E i \in DOMAIN q : Frees(Reset(q)[k]) /\ Reset(q)[k].at = q[i]
                       \/ Marks(Reset(q)[k]) /\ Reset(q)[k].at = q[1]
                BY <3>1, ResetShape
            <4> QED BY <4>1, <4>2
        <3>4. \A w \in Range(Z) : w.on \notin {"fat", "dir"}
                                  \/ (w.on = "fat" /\ w.at = x /\ ~Links(w))
            <4>1. \A k \in DOMAIN Z : Z[k].on = "bak"
                       \/ ((Frees(Z[k]) \/ Marks(Z[k])) /\ Z[k].at = x)
                BY <3>1, <3>3
            <4> QED BY <4>1, Kinds DEF Range
        <3>5. LastWrite(Z, x, ENDOFCHAIN)
            <4> DEFINE N == <<>>
            <4>1. N \in Seq(DeviceWrites) /\ Range(N) = {}
                BY DEF Range
            <4>2. N \o Z = Z
                BY <3>3, ConcatEmptySeq
            <4> HIDE DEF N
            <4>3. \A w \in Range(N) : w.on # "fat"
                BY <4>1
            <4>4. N \o Reset(q) = Z
                BY <4>2, <2>2 DEF q
            <4>5. \E k \in DOMAIN Z : /\ Marks(Z[k]) /\ Z[k].at = q[1]
                                      /\ \A j \in DOMAIN Z : Z[j].on = "fat" => j <= k
                <5>1. LET U == N \o Reset(q) IN
                      \E k \in DOMAIN U : /\ Marks(U[k]) /\ U[k].at = q[1]
                                          /\ \A j \in DOMAIN U : U[j].on = "fat" => j <= k
                    BY <3>1, <4>1, <4>3, ResetEnds
                <5> QED BY <4>4, <5>1
            <4> QED BY <4>5, <3>1 DEF LastWrite, Marks
        <3> QED BY <3>3, <3>4, <3>5
    <2> QED BY <2>1, <2>2 DEF x
<1>16. T \in Seq(DeviceWrites) /\ Range(T) = Range(V) \cup Range(Z)
    BY <1>12, <1>15, CatShape
<1>17. LastWrite(T, x, ENDOFCHAIN)
    <2>1. CASE Z = <<>>
        <3>1. \A j \in DOMAIN Z : FALSE
            BY <2>1
        <3> QED BY <3>1, <1>12, <1>13, <1>15, LastCat
    <2>2. CASE LastWrite(Z, x, ENDOFCHAIN)
        BY <2>2, <1>12, <1>15, LastCat
    <2> QED BY <2>1, <2>2, <1>15
<1>18. ASSUME NEW y, NEW v, LastWrite(R, y, v) PROVE LastWrite(T, y, v)
    <2>1. y # x
        BY <1>7, <1>18 DEF LastWrite, Range
    <2>2. \A j \in DOMAIN Z : Z[j].on = "fat" => Z[j].at # y
        BY <2>1, <1>15 DEF Range
    <2> QED BY <2>2, <1>12, <1>14, <1>15, <1>18, LastCat
<1> HIDE DEF T
<1>19. \A w \in Range(T) :
         \/ w.on \notin {"fat", "dir"} \/ (w.on = "fat" /\ w.at = x /\ ~Links(w))
         \/ w \in Range(R) \/ w = D
    <2>1. \A w \in Range(W) : w \in Range(R) \/ w = D
        BY <1>8 DEF Range
    <2>2. \A w \in Range(H) : w.on \notin {"fat", "dir"}
                              \/ (w.on = "fat" /\ w.at = x /\ ~Links(w))
        BY <1>11, Kinds
    <2> QED BY <2>1, <2>2, <1>12, <1>15, <1>16
<1>20. \A k \in DOMAIN T : T[k] \in Range(T)
    BY DEF Range
<1> QED BY <1>4, <1>7, <1>8, <1>11, <1>12, <1>16, <1>17, <1>18, <1>19, <1>20 DEF T, D, R, x, u

\* A table with one more cluster that is marked and belongs to no chain.
LEMMA OneMarked ==
    ASSUME NEW f, Linked(f), NEW x \in Clusters, f[x] = Free,
           NEW h, \A y \in Clusters : h[y] = IF y = x THEN ENDOFCHAIN ELSE f[y]
    PROVE  /\ Linked(h)
           /\ \A b \in Clusters : Chain(h, b) = Chain(f, b) /\ (Unled(f, b) => Unled(h, b))
           /\ \A d, K : Covered(f, d, K) /\ (\A s \in DOMAIN d : d[s].cluster \in Clusters) =>
                Covered(h, d, K \cup {x})
<1>1. ENDOFCHAIN \notin Clusters /\ Free \notin Clusters /\ ENDOFCHAIN # Free /\ Root \in Clusters
    BY Constants
<1>2. \A y \in Clusters : h[y] \in Clusters => y # x /\ h[y] = f[y]
    BY <1>1
<1>3. Linked(h)
    BY <1>1, <1>2 DEF Linked
<1>4. ASSUME NEW b \in Clusters
      PROVE  Chain(h, b) = Chain(f, b) /\ (Unled(f, b) => Unled(h, b))
    <2>1. \A y \in Range(Chain(f, b)) : y \in Clusters
        BY ChainIn
    <2>2. \A y \in Range(Chain(f, b)) :
            h[y] = f[y] \/ (f[y] \notin Clusters /\ h[y] \notin Clusters)
        BY <1>1, <2>1
    <2>3. Chain(h, b) = Chain(f, b)
        BY <2>2, ChainSame
    <2>4. Unled(f, b) => Unled(h, b)
        BY <1>1 DEF Unled
    <2> QED BY <2>3, <2>4
<1>5. ASSUME NEW d, NEW K, Covered(f, d, K), \A s \in DOMAIN d : d[s].cluster \in Clusters
      PROVE  Covered(h, d, K \cup {x})
    <2> SUFFICES ASSUME NEW z \in Clusters, h[z] # Free, z # x PROVE Reached(h, d, z) \/ z \in K
        BY DEF Covered
    <2>1. Reached(f, d, z) \/ z \in K
        BY <1>5 DEF Covered
    <2>2. Chain(h, Root) = Chain(f, Root)
        BY <1>1, <1>4
    <2>3. \A s \in DOMAIN d : Chain(h, d[s].cluster) = Chain(f, d[s].cluster)
        BY <1>4, <1>5
    <2> QED BY <2>1, <2>2, <2>3 DEF Reached
<1> QED BY <1>3, <1>4, <1>5

\* What the writes of a new file unlink and use.
LEMMA NewHeld ==
    ASSUME IInv, call = Idle, NEW n \in Names, FreeClusters # <<>>,
           NEW Z, Z = <<>> \/ Z = Reset(<<FreeClusters[1]>>)
    PROVE  LET K == lost \cup Allocated(Create(n)) IN
           /\ TableHeld(fat, dir, K, Create(n) \o Z)
           /\ DirHeld(fat, dir, K, Create(n) \o Z)
<1> DEFINE x == FreeClusters[1]
           u == Tail(FreeClusters)
           a == Last(Chain(fat, Root))
           R == NewRoom(u)
           e == NewEntry(n)
           D == DeviceWrite("dir", NewSlot, e, "stop")
           T == Create(n) \o Z
           K == lost \cup Allocated(Create(n))
<1>1. FreeList(u) /\ x \in Clusters /\ fat[x] = Free
    BY FreeShape
<1>2. /\ T \in Seq(DeviceWrites)
      /\ \A k \in DOMAIN T :
           \/ T[k].on \notin {"fat", "dir"}
           \/ T[k].on = "fat" /\ T[k].at = x /\ ~Links(T[k])
           \/ T[k] \in Range(R)
           \/ T[k] = D
      /\ x \in K /\ Allocated(R) \subseteq K
    BY NewEnds
<1>3. e \in Entry /\ NewSlot \in Nat /\ e.cluster = x /\ Used(e) = 1
    BY CreateShape, NewSlotShape DEF NewEntry, Used
<1> HIDE DEF e
<1>4. Enters(D) /\ ~Clears(D) /\ D.on = "dir" /\ D.value = e
    BY <1>3, EntryShape
<1>5. /\ Extends(u, a, More, R) /\ R \in Seq(DeviceWrites) /\ More \in {0, 1}
      /\ FreeIn(fat, u)
    BY <1>1, RoomExtends
<1>6. \A k \in Nat \ {0} : Rest(fat, x, k) = {}
    <2>1. fat[x] \notin Clusters
        BY <1>1, Constants
    <2> HIDE DEF x
    <2> QED BY <1>1, <2>1, RestNone
<1>7. a \in Clusters /\ fat[a] # Free /\ \A y \in Clusters : fat[y] = Free => fat[a] \notin Clusters
    BY AtStart, RootLast
<1> HIDE DEF a, R, u, x, D, T, K
<1>8. Contained(fat, u, a, K, R)
    <2>1. Rest(fat, a, 1) \subseteq K
        BY <1>1, <1>7, RestNone
    <2>2. /\ More \in Nat /\ FreeIn(fat, u) /\ R \in Seq(DeviceWrites)
          /\ Extends(u, a, More, R) /\ Allocated(R) \subseteq K
          /\ 1 \in DOMAIN u /\ a \in Clusters => fat[a] # Free /\ Rest(fat, a, 1) \subseteq K
        BY <1>2, <1>5, <1>7, <2>1
    <2> QED BY <2>2, ExtendsHeld
<1>9. \A w \in Range(R) :
        /\ ~Enters(w) /\ ~Clears(w) /\ w.on # "dir"
        /\ w.on = "fat" => /\ Rest(fat, w.at, 1) \subseteq K
                           /\ Links(w) => w.value \in K
                           /\ ~Frees(w)
                           /\ w.at \in K \/ (w.at = a /\ fat[w.at] # Free)
    BY <1>5, <1>8 DEF Contained, Extends, Enters, Clears, Range
<1>10. TableHeld(fat, dir, K, T)
    <2> SUFFICES ASSUME NEW k \in DOMAIN T, T[k].on = "fat"
                 PROVE  /\ Rest(fat, T[k].at, 1) \subseteq K
                        /\ Links(T[k]) => T[k].value \in K
                        /\ ~Frees(T[k]) =>
                             \/ T[k].at \in K
                             \/ /\ fat[T[k].at] # Free
                                /\ \A j \in DOMAIN T : Frees(T[j]) => T[j].at # T[k].at
        BY DEF TableHeld
    <2>1. \A j \in DOMAIN T : Frees(T[j]) => T[j].at = x
        BY <1>2, <1>4, <1>9 DEF Frees
    <2>2. CASE T[k].at = x /\ ~Links(T[k])
        BY <2>2, <1>2, <1>6
    <2>3. CASE T[k] \in Range(R)
        BY <2>1, <2>3, <1>1, <1>9
    <2> QED BY <1>2, <1>4, <2>2, <2>3
<1>11. DirHeld(fat, dir, K, T)
    <2>1. Past(fat, e) \subseteq K
        BY <1>3, <1>6 DEF Past
    <2>2. \A k \in DOMAIN T : ~Clears(T[k]) /\ (Enters(T[k]) => T[k] = D)
        BY <1>2, <1>4, <1>9 DEF Enters, Clears
    <2> QED BY <1>4, <2>1, <2>2 DEF DirHeld
<1> QED BY <1>10, <1>11 DEF T, K

\* When they have all landed nothing is lost.
LEMMA NewSettles ==
    ASSUME IInv, LossInv, call = Idle, NEW n \in Names, FreeClusters # <<>>,
           NEW Z, Z = <<>> \/ Z = Reset(<<FreeClusters[1]>>),
           NEW c, c.op = "open", c.name = n, c.cluster = FreeClusters[1], c.size = 0,
           NEW D, Sure(D), ~Exists(n)
    PROVE  Fine(fat, dir, open, c, Torn(D), lost, Create(n) \o Z)
<1> DEFINE x == FreeClusters[1]
           u == Tail(FreeClusters)
           a == Last(Chain(fat, Root))
           R == NewRoom(u)
           e == NewEntry(n)
           w0 == DeviceWrite("dir", NewSlot, e, "stop")
           T == Create(n) \o Z
           t == Torn(D)
           h == [y \in Clusters |-> IF y = x THEN ENDOFCHAIN ELSE fat[y]]
<1> SUFFICES ASSUME \A k \in DOMAIN T : T[k].on # "nowhere",
                    NEW g, NEW d, Outcome(fat, dir, c, T, g, d)
             PROVE  Settled(g, d, open, c, t, lost)
    BY DEF Fine
<1>1. FreeList(u) /\ x \in Clusters /\ fat[x] = Free /\ x \notin Range(u)
    BY FreeShape
<1>2. /\ T \in Seq(DeviceWrites)
      /\ \A k \in DOMAIN T :
           \/ T[k].on \notin {"fat", "dir"}
           \/ T[k].on = "fat" /\ T[k].at = x /\ ~Links(T[k])
           \/ T[k] \in Range(R)
           \/ T[k] = w0
      /\ w0 \in Range(T) /\ Range(R) \subseteq Range(T)
      /\ LastWrite(T, x, ENDOFCHAIN)
      /\ \A y, v : LastWrite(R, y, v) => LastWrite(T, y, v)
      /\ \A w \in Range(R) : w.on = "fat" => w.at # x
    BY NewEnds
<1>3. e \in Entry /\ NewSlot \in Nat /\ e.cluster = x /\ Used(e) = 1 /\ NewSlot \notin DOMAIN dir
    BY CreateShape, NewSlotShape DEF NewEntry, Used
<1> HIDE DEF e
<1>4. Enters(w0) /\ w0.on = "dir" /\ w0.value = e /\ w0.at = NewSlot
    BY <1>3, EntryShape
<1>5. /\ Extends(u, a, More, R) /\ R \in Seq(DeviceWrites) /\ More \in {0, 1}
      /\ FreeIn(fat, u)
    BY <1>1, RoomExtends
<1>6. /\ Linked(g) /\ Final(fat, T, g) /\ FinalDir(dir, T, d) /\ DOMAIN T \subseteq Nat
    BY <1>2, LenProperties DEF Outcome
<1>7. /\ Linked(fat) /\ fat[Root] # Free /\ Entries(dir) /\ Matching(dir, open, torn)
      /\ Root \in Clusters
    BY AtStart
<1>8. /\ Covered(fat, dir, lost) /\ OpenHeld(fat, open, lost)
      /\ EntriesHeld(fat, dir, t, lost)
      /\ \A s \in DOMAIN dir : dir[s].name \notin t =>
            /\ Unled(fat, dir[s].cluster)
            /\ fat[dir[s].cluster] # Free /\ dir[s].cluster # Root
      /\ \A s \in DOMAIN dir : dir[s].cluster \in Clusters
    BY StartHeld
<1>9. /\ \A y \in Clusters : h[y] = IF y = x THEN ENDOFCHAIN ELSE fat[y]
      /\ ENDOFCHAIN \notin Clusters /\ ENDOFCHAIN # Free
    BY Constants
<1> HIDE DEF h, T, w0, R, x, u
<1>10. /\ Linked(h) /\ Covered(h, dir, lost \cup {x})
       /\ \A b \in Clusters : Chain(h, b) = Chain(fat, b) /\ (Unled(fat, b) => Unled(h, b))
    BY <1>1, <1>7, <1>8, <1>9, OneMarked
<1>11. FreeIn(h, u)
    <2>1. \A y \in Range(u) : y \in Clusters /\ h[y] = fat[y]
        BY <1>1, <1>5, <1>9 DEF FreeIn
    <2> QED BY <2>1, <1>5 DEF FreeIn
<1>12. g[x] = ENDOFCHAIN
    BY <1>1, <1>2, <1>6, FinalWrites
<1>13. More \in Nat /\ (More = 0 \/ More \in DOMAIN u) /\ u \in Seq(Clusters)
    <2>1. \A w \in Range(R) : w.on # "nowhere"
        BY <1>2 DEF Range, T
    <2>2. \A k \in DOMAIN R : R[k].on # "nowhere"
        BY <2>1 DEF Range
    <2> QED BY <2>2, <1>5 DEF Extends, FreeIn
<1>14. Growth(h, g, u, a, More)
    <2>1. ASSUME NEW y \in Clusters, \A k \in DOMAIN R : R[k].on = "fat" => R[k].at # y
          PROVE  g[y] = h[y]
        <3>1. CASE y = x
            BY <3>1, <1>9, <1>12
        <3>2. CASE y # x
            <4>1. \A w \in Range(R) : w.on = "fat" => w.at # y
                BY <2>1 DEF Range
            <4>2. \A k \in DOMAIN T : T[k].on = "fat" => T[k].at # y
                BY <3>2, <4>1, <1>2, <1>4
            <4>3. g[y] = fat[y]
                BY <4>2, <1>6, FinalWrites
            <4> QED BY <4>3, <3>2, <1>9
        <3> QED BY <3>1, <3>2
    <2> HIDE DEF a
    <2>2. /\ DOMAIN T \subseteq Nat /\ Extends(u, a, More, R) /\ Final(fat, T, g)
          /\ \A y, v : LastWrite(R, y, v) => LastWrite(T, y, v)
        BY <1>2, <1>5, <1>6
    <2> QED BY <1>13, <2>1, <2>2, ExtendsGrow, ZenonT(60)
<1>15. /\ \A b \in Clusters : Unled(h, b) /\ h[b] # Free /\ b # Root =>
               Chain(g, b) = Chain(h, b)
       /\ \A y \in Clusters : g[y] # Free => Reached(g, dir, y) \/ y \in lost \cup {x}
    <2> DEFINE M == lost \cup {x}
    <2>1. Chain(h, Root) = Chain(fat, Root) /\ h[Root] # Free
        BY <1>7, <1>9, <1>10
    <2>2. Growth(h, g, u, Last(Chain(h, Root)), More)
        BY <2>1, <1>14
    <2>3. Covered(h, dir, M)
        BY <1>10
    <2> HIDE DEF M
    <2>4. /\ \A b \in Clusters : Unled(h, b) /\ h[b] # Free /\ b # Root =>
               Chain(g, b) = Chain(h, b)
          /\ \A y \in Clusters : g[y] # Free => Reached(g, dir, y) \/ y \in M
        BY <1>5, <1>6, <1>8, <1>10, <1>11, <1>13, <2>1, <2>2, <2>3, RoomSettles
    <2> QED BY <2>4 DEF M
<1>16. \A b \in Clusters : Unled(fat, b) /\ fat[b] # Free /\ b # Root =>
           Chain(g, b) = Chain(fat, b)
    <2> TAKE b \in Clusters
    <2> HAVE Unled(fat, b) /\ fat[b] # Free /\ b # Root
    <2>1. h[b] # Free /\ Unled(h, b) /\ Chain(h, b) = Chain(fat, b)
        BY <1>9, <1>10
    <2> QED BY <2>1, <1>15
<1>17. /\ NewSlot \in DOMAIN d /\ d[NewSlot] = e
       /\ \A s \in DOMAIN dir : s \in DOMAIN d /\ d[s] = dir[s]
       /\ \A s \in DOMAIN d : s = NewSlot \/ (s \in DOMAIN dir /\ d[s] = dir[s])
    <2>1. \A w \in Range(R) : w.on # "dir"
        BY <1>5 DEF Extends, Range
    <2>2. \A k \in DOMAIN T : T[k].on = "dir" => T[k] = w0
        BY <1>2, <2>1
    <2>3. \E k \in DOMAIN T : T[k] = w0
        BY <1>2 DEF Range
    <2>4. NewSlot \in DOMAIN d /\ d[NewSlot] = e
        BY <2>2, <2>3, <1>4, <1>6 DEF FinalDir
    <2>5. ASSUME NEW s, s # NewSlot
          PROVE  (s \in DOMAIN d <=> s \in DOMAIN dir) /\ (s \in DOMAIN dir => d[s] = dir[s])
        <3>1. \A k \in DOMAIN T : T[k].on = "dir" => T[k].at # s
            BY <2>2, <2>5, <1>4
        <3> QED BY <3>1, <1>6 DEF FinalDir
    <2> QED BY <2>4, <2>5, <1>3
<1>18. \A k \in Nat \ {0} : Rest(g, x, k) = {}
    BY <1>1, <1>9, <1>12, RestNone
<1>19. Covered(g, d, lost)
    <2>1. x \in Range(Chain(g, x)) /\ d[NewSlot].cluster = x
        BY <1>1, <1>3, <1>17, RangeRest
    <2>2. \A y : Reached(g, dir, y) => Reached(g, d, y)
        BY <1>17 DEF Reached
    <2> QED BY <2>1, <2>2, <1>15, <1>17 DEF Covered, Reached
<1>20. EntriesHeld(g, d, t, lost)
    <2> SUFFICES ASSUME NEW s \in DOMAIN d, d[s].name \notin t
                 PROVE  Past(g, d[s]) \subseteq lost
        BY DEF EntriesHeld
    <2>1. CASE s = NewSlot
        BY <2>1, <1>3, <1>17, <1>18 DEF Past
    <2>2. CASE s # NewSlot
        <3>1. s \in DOMAIN dir /\ d[s] = dir[s]
            BY <2>2, <1>17
        <3>2. Past(g, d[s]) = Past(fat, d[s])
            BY <3>1, <1>8, <1>16, SamePast
        <3> QED BY <3>1, <3>2, <1>8 DEF EntriesHeld
    <2> QED BY <2>1, <2>2
<1>21. \A o \in DOMAIN open : Past(g, open[o]) \subseteq lost
    <2> SUFFICES ASSUME NEW o \in DOMAIN open PROVE Past(g, open[o]) \subseteq lost
        OBVIOUS
    <2>1. PICK s \in DOMAIN dir : dir[s].name = o /\ dir[s].cluster = open[o].cluster
                                  /\ o \notin torn
        BY <1>7 DEF Matching
    <2>2. o \notin t
        BY <2>1 DEF Torn, OldTorn
    <2>3. Past(g, open[o]) = Past(fat, open[o])
        BY <2>1, <2>2, <1>8, <1>16, SamePast
    <2> QED BY <2>3, <1>8 DEF OpenHeld
<1>22. Past(g, c) \subseteq lost
    BY <1>18 DEF Past, Used, x
<1> QED BY <1>19, <1>20, <1>21, <1>22 DEF Settled

LEMMA OpenNewLosses ==
    ASSUME IInv, LossInv, NEW n \in Names, NEW trunc \in BOOLEAN, OpenNew(n, trunc)
    PROVE  LossInv' /\ FineInv'
<1> DEFINE x == IF FreeClusters = <<>> THEN Root ELSE FreeClusters[1]
           N == IF trunc THEN {n} ELSE {}
           G == Allocated(Create(n))
           T == IF trunc /\ Create(n) # Full THEN Create(n) \o Reset(<<x>>) ELSE Create(n)
           c == [Idle EXCEPT !.op = "open", !.name = n, !.slot = NewSlot, !.cluster = x,
                             !.got = G, !.doubt = N, !.todo = T]
<1>1. ~Exists(n) /\ Start(c)
    BY DEF OpenNew
<1>2. call = Idle
    BY <1>1 DEF Start
<1>3. /\ c.op = "open" /\ c.name = n /\ c.cluster = x /\ c.size = 0 /\ c.got = G
      /\ c.left = {} /\ c.doubt = N /\ c.todo = T
    <2> HIDE DEF T, G, N, x
    <2> QED BY DEF Idle
<1> HIDE DEF c
<1>4. Sure(c.doubt)
    BY <1>1, <1>3 DEF Sure, Exists
<1> DEFINE K == lost \cup c.got
           M == lost \cup c.left
           t == Torn(c.doubt)
<1>5. K = lost \cup G /\ M = lost
    BY <1>3
<1>6. /\ TableHeld(fat, dir, K, T) /\ DirHeld(fat, dir, K, T) /\ OwnHeld(fat, c, K, T)
      /\ Fine(fat, dir, open, c, t, M, T)
    <2>1. CASE FreeClusters = <<>>
        <3>1. T = Full
            BY <2>1 DEF Create
        <3>2. DOMAIN Full = {1} /\ Full[1].on = "nowhere"
            BY FullShape
        <3> HIDE DEF T, K, M, t
        <3>3. DOMAIN T = {1} /\ T[1].on = "nowhere" /\ ~Enters(T[1]) /\ ~Clears(T[1])
            BY <3>1, <3>2 DEF Enters, Clears
        <3>4. TableHeld(fat, dir, K, T) /\ DirHeld(fat, dir, K, T)
            BY <3>3 DEF TableHeld, DirHeld
        <3>5. OwnHeld(fat, c, K, T) /\ Fine(fat, dir, open, c, t, M, T)
            BY <3>3 DEF OwnHeld, Fine
        <3> QED BY <3>4, <3>5
    <2>2. CASE FreeClusters # <<>>
        <3> DEFINE Z == IF trunc THEN Reset(<<x>>) ELSE <<>>
        <3>1. Create(n) \in Seq(DeviceWrites) /\ Create(n) # Full
            BY <1>2, <2>2, CreateShape
        <3>2. x = FreeClusters[1] /\ (Z = <<>> \/ Z = Reset(<<FreeClusters[1]>>))
            BY <2>2
        <3>3. T = Create(n) \o Z
            <4>1. Create(n) \o <<>> = Create(n)
                BY <3>1
            <4> QED BY <3>1, <4>1
        <3> HIDE DEF T, G, x, Z
        <3>4. TableHeld(fat, dir, K, T) /\ DirHeld(fat, dir, K, T)
            <4>1. /\ TableHeld(fat, dir, lost \cup Allocated(Create(n)), Create(n) \o Z)
                  /\ DirHeld(fat, dir, lost \cup Allocated(Create(n)), Create(n) \o Z)
                BY <1>2, <2>2, <3>2, NewHeld
            <4> QED BY <4>1, <1>5, <3>3 DEF G
        <3>5. OwnHeld(fat, c, K, T)
            <4>1. x \in Clusters /\ fat[x] \notin Clusters
                BY <2>2, <3>2, FreeShape, Constants
            <4>2. Rest(fat, x, 1) = {}
                BY <4>1, RestNone
            <4> QED BY <1>3, <4>2 DEF OwnHeld, Past, Used
        <3>6. Fine(fat, dir, open, c, Torn(c.doubt), lost, Create(n) \o Z)
            <4> DEFINE D == c.doubt
            <4>1. Sure(D)
                BY <1>4
            <4> HIDE DEF D
            <4>2. Fine(fat, dir, open, c, Torn(D), lost, Create(n) \o Z)
                BY <1>1, <1>2, <1>3, <2>2, <3>2, <4>1, NewSettles
            <4> QED BY <4>2 DEF D
        <3> QED BY <3>3, <3>4, <3>5, <3>6, <1>5
    <2> QED BY <2>1, <2>2
<1> HIDE DEF T, K, M, t
<1> QED BY <1>1, <1>3, <1>4, <1>6, StartLosses DEF K, M, t

-----------------------------------------------------------------------------
(* A file grows *)

\* A walk sees a chain from its start.
LEMMA SeenPrefix ==
    ASSUME NEW c \in Clusters, NEW seen \in Seen(c)
    PROVE  /\ Len(seen) \in Nat /\ Len(seen) <= Len(Chain(fat, c))
           /\ \A i \in 1 .. Len(seen) : seen[i] = Chain(fat, c)[i]
<1> DEFINE s == Chain(fat, c)
<1>1. s \in Seq(Clusters) /\ Len(s) \in Nat \ {0}
    BY ChainFacts
<1>2. PICK n \in 1 .. Len(s) : seen = SubSeq(s, 1, n)
    <2>1. Len(s) \in 1 .. Len(s)
        BY <1>1
    <2> QED BY <2>1 DEF Seen
<1> HIDE DEF s
<1>3. \A i \in 1 .. n : i \in 1 .. Len(s) /\ s[i] \in Clusters /\ (1 + i) - 1 = i
    <2> TAKE i \in 1 .. n
    <2>1. i \in 1 .. Len(s) /\ (1 + i) - 1 = i
        BY <1>1
    <2> QED BY <2>1, <1>1, ElementOfSeq
<1>4. n \in Int /\ 1 \in Int /\ 1 <= n /\ n - 1 + 1 = n
    BY <1>1
<1>5. /\ Len(SubSeq(s, 1, n)) = n
      /\ \A i \in 1 .. n : SubSeq(s, 1, n)[i] = s[1 + i - 1]
    BY <1>3, <1>4, SubSeqProperties
<1>6. Len(seen) = n /\ \A i \in 1 .. n : seen[i] = s[i]
    BY <1>2, <1>3, <1>5
<1> QED BY <1>1, <1>6 DEF s

\* The p-th cluster of a chain, or the end mark when it has none.
Place(f, x, p, a) ==
    \/ a = ENDOFCHAIN /\ p > Len(Chain(f, x))
    \/ p \in 1 .. Len(Chain(f, x)) /\ Chain(f, x)[p] = a

LEMMA LastPlace ==
    ASSUME NEW c \in Clusters, NEW seen \in Seen(c), NEW p \in Nat \ {0}
    PROVE  /\ LastOf(seen, p) = ENDOFCHAIN \/ Place(fat, c, p, LastOf(seen, p))
           /\ seen = Chain(fat, c) => Place(fat, c, p, LastOf(seen, p))
<1>1. /\ Len(seen) \in Nat /\ Len(seen) <= Len(Chain(fat, c))
      /\ \A i \in 1 .. Len(seen) : seen[i] = Chain(fat, c)[i]
    BY SeenPrefix
<1>2. Len(Chain(fat, c)) \in Nat
    BY ChainFacts
<1> DEFINE s == Chain(fat, c)
<1>3. CASE p <= Len(seen)
    <2>1. p \in 1 .. Len(seen) /\ p \in 1 .. Len(s)
        BY <1>1, <1>2, <1>3
    <2>2. LastOf(seen, p) = s[p]
        BY <1>1, <1>3, <2>1 DEF LastOf
    <2> QED BY <2>1, <2>2 DEF Place
<1>4. CASE ~(p <= Len(seen))
    <2>1. LastOf(seen, p) = ENDOFCHAIN
        BY <1>4 DEF LastOf
    <2>2. seen = s => p > Len(s)
        BY <1>1, <1>4
    <2> QED BY <2>1, <2>2 DEF Place
<1> QED BY <1>3, <1>4

\* A file whose chain is extended behind its p-th cluster, and is then long enough.
LEMMA GrowthSettles ==
    ASSUME NEW f, NEW g, Linked(f), Linked(g), NEW x \in Clusters, Unled(f, x), f[x] # Free,
           NEW free, FreeIn(f, free), NEW n \in Nat, n = 0 \/ n \in DOMAIN free,
           NEW p \in Nat \ {0}, NEW a, Place(f, x, p, a),
           Growth(f, g, free, a, n), Len(Chain(g, x)) >= p + n
    PROVE  /\ a \in Clusters /\ a \in Range(Chain(f, x)) /\ f[a] # Free
           /\ Rest(f, a, 1) \subseteq Rest(f, x, p)
           /\ Rest(g, x, p + n) \subseteq Rest(f, x, p)
           /\ \A i \in 1 .. n : free[i] \in Range(Chain(g, x))
           /\ \A b \in Clusters : Unled(f, b) /\ f[b] # Free /\ b # x =>
                Chain(g, b) = Chain(f, b)
<1>1. /\ Len(Chain(f, x)) \in Nat \ {0} /\ DOMAIN Chain(f, x) = 1 .. Len(Chain(f, x))
      /\ \A i \in 1 .. Len(Chain(f, x)) : Chain(f, x)[i] \in Clusters
    BY ChainFacts
<1>2. \A y \in Range(Chain(f, x)) : y \in Clusters /\ f[y] # Free
    BY ChainIn, ChainUsed
<1>3. p \in 1 .. Len(Chain(f, x)) /\ Chain(f, x)[p] = a
    <2> SUFFICES ASSUME a = ENDOFCHAIN, p > Len(Chain(f, x)) PROVE FALSE
        BY DEF Place
    <2>1. a \notin Range(Chain(f, x))
        BY <1>2, Constants
    <2>2. Chain(g, x) = Chain(f, x)
        BY <2>1, GrowthBeside
    <2>3. Len(Chain(f, x)) >= p + n
        BY <2>2
    <2> DEFINE m == Len(Chain(f, x))
    <2>4. m \in Nat /\ p > m /\ m >= p + n
        BY <1>1, <2>3
    <2> HIDE DEF m
    <2> QED BY <2>4
<1>4. a \in Range(Chain(f, x)) /\ a \in Clusters /\ f[a] # Free
    BY <1>1, <1>2, <1>3 DEF Range
<1>5. Rest(f, a, 1) \subseteq Rest(f, x, p)
    BY <1>3, RestOfMember
<1>6. ASSUME NEW b \in Clusters, Unled(f, b), f[b] # Free, b # x
      PROVE  Chain(g, b) = Chain(f, b)
    <2>1. a \notin Range(Chain(f, b))
        BY <1>4, <1>6, ChainsDisjoint
    <2> QED BY <1>6, <2>1, GrowthBeside
<1>7. Rest(g, x, p + n) \subseteq Rest(f, x, p) /\ \A i \in 1 .. n : free[i] \in Range(Chain(g, x))
    <2>1. CASE n = 0
        <3>1. \A y \in Clusters : g[y] = f[y]
            BY <2>1 DEF Growth
        <3>2. Chain(g, x) = Chain(f, x)
            BY <1>2, <3>1, ChainSame
        <3>3. p + n = p /\ \A i \in 1 .. n : FALSE
            BY <2>1
        <3> QED BY <3>2, <3>3 DEF Rest
    <2>2. CASE n # 0
        <3> DEFINE u == Chain(g, x)
        <3>1. /\ Len(u) = p + n
              /\ \A i \in 1 .. n : p + i \in DOMAIN u /\ u[p + i] = free[i]
            BY <1>3, <2>2, GrowthChain
        <3>2. (p + n) + 1 .. p + n = {}
            OBVIOUS
        <3>3. Rest(g, x, p + n) = {}
            BY <3>1, <3>2 DEF Rest
        <3> HIDE DEF u
        <3>4. \A i \in 1 .. n : free[i] \in Range(u)
            BY <3>1 DEF Range
        <3> QED BY <3>3, <3>4 DEF u
    <2> QED BY <2>1, <2>2
<1> QED BY <1>4, <1>5, <1>6, <1>7

\* The entry of an open file, between two calls.
LEMMA OpenHeads ==
    ASSUME IInv, call = Idle, NEW n \in DOMAIN open
    PROVE  LET h == open[n] IN
           /\ h.slot \in DOMAIN dir /\ h.slot \in Nat /\ dir[h.slot].name = n
           /\ dir[h.slot].cluster = h.cluster /\ n \in Names /\ n \notin OldTorn
           /\ h.cluster \in Clusters /\ fat[h.cluster] # Free /\ h.cluster # Root
           /\ Unled(fat, h.cluster) /\ h.size \in Nat
           /\ \A u \in DOMAIN dir : u # h.slot /\ dir[u].name \notin OldTorn =>
                dir[u].cluster # h.cluster
<1> DEFINE h == open[n]
           s == h.slot
<1>1. /\ NamesApart(dir) /\ Matching(dir, open, torn) /\ DOMAIN open \subseteq Names
    BY AtStart
<1>2. s \in DOMAIN dir /\ dir[s].name = n /\ dir[s].cluster = h.cluster /\ n \notin torn
    BY <1>1 DEF Matching
<1>3. n \notin OldTorn /\ Exists(n)
    BY <1>2 DEF OldTorn, Exists
<1>4. SlotOf(n) = s
    BY <1>1, <1>2, <1>3, SlotShape DEF NamesApart
<1>5. /\ s \in Nat /\ h.cluster \in Clusters /\ fat[h.cluster] # Free /\ h.cluster # Root
      /\ Unled(fat, h.cluster)
      /\ \A u \in DOMAIN dir : u # s /\ dir[u].name \notin OldTorn => dir[u].cluster # h.cluster
    <2> HIDE DEF s, h
    <2> QED BY <1>2, <1>3, <1>4, SoundShape
<1>6. h.size \in Nat
    BY BoundAssumption DEF IInv, Types
<1> QED BY <1>1, <1>2, <1>3, <1>5, <1>6

\* An open file between two calls.
LEMMA OpenShape ==
    ASSUME IInv, LossInv, call = Idle, NEW n \in DOMAIN open
    PROVE  LET h == open[n] IN
           /\ h.slot \in DOMAIN dir /\ h.slot \in Nat /\ dir[h.slot].name = n
           /\ dir[h.slot].cluster = h.cluster /\ n \in Names
           /\ h.cluster \in Clusters /\ fat[h.cluster] # Free /\ h.cluster # Root
           /\ Unled(fat, h.cluster) /\ h.size \in Nat /\ Past(fat, h) \subseteq lost
           /\ \A u \in DOMAIN dir : u # h.slot /\ dir[u].name \notin OldTorn =>
                dir[u].cluster # h.cluster
BY OpenHeads, RestLosses DEF OpenHeld

\* When the writes of a growing file have all landed nothing is lost.
LEMMA WriteSettles ==
    ASSUME IInv, LossInv, call = Idle, NEW n \in DOMAIN open,
           NEW p \in Nat \ {0}, p = Used(open[n]), NEW m \in Nat,
           NEW free, FreeIn(fat, free), NEW a, Place(fat, open[n].cluster, p, a),
           NEW A \in Seq(DeviceWrites), Extends(free, a, m, A),
           NEW D \in DeviceWrites, Enters(D), D.at = open[n].slot,
           D.value.cluster = open[n].cluster, D.value.size = p + m,
           NEW c, c.op = "write", c.name = n, c.cluster = open[n].cluster, c.size = p + m
    PROVE  Fine(fat, dir, open, c, Torn({}), lost, A \o <<D>>)
<1> DEFINE x == open[n].cluster
           s == open[n].slot
           e == D.value
           T == A \o <<D>>
           t == Torn({})
<1> SUFFICES ASSUME \A k \in DOMAIN T : T[k].on # "nowhere",
                    NEW g, NEW d, Outcome(fat, dir, c, T, g, d)
             PROVE  Settled(g, d, open, c, t, lost)
    BY DEF Fine
<1>1. /\ s \in DOMAIN dir /\ dir[s].name = n /\ dir[s].cluster = x
      /\ x \in Clusters /\ fat[x] # Free /\ x # Root /\ Unled(fat, x)
      /\ Past(fat, open[n]) \subseteq lost
      /\ \A u \in DOMAIN dir : u # s /\ dir[u].name \notin OldTorn => dir[u].cluster # x
    BY OpenShape
<1>2. D.on = "dir" /\ p + m # 0
    BY DEF Enters
<1>3. /\ T \in Seq(DeviceWrites) /\ DOMAIN T \subseteq Nat
      /\ Len(A) + 1 \in DOMAIN T /\ T[Len(A) + 1] = D
      /\ \A k \in DOMAIN T : k \in DOMAIN A \/ k = Len(A) + 1
      /\ \A k \in DOMAIN A : k \in DOMAIN T /\ T[k] = A[k]
      /\ \A y, v : LastWrite(A, y, v) => LastWrite(T, y, v)
    BY <1>2, DirBehind
<1>4. /\ Linked(g) /\ Final(fat, T, g) /\ FinalDir(dir, T, d) /\ Len(Chain(g, x)) >= p + m
    BY DEF Outcome
<1>5. /\ Linked(fat) /\ fat[Root] # Free /\ Entries(dir) /\ Matching(dir, open, torn)
      /\ Root \in Clusters /\ Unled(fat, Root)
    BY AtStart
<1>6. Sure({})
    BY DEF Sure
<1>7. /\ Covered(fat, dir, lost) /\ OpenHeld(fat, open, lost)
      /\ EntriesHeld(fat, dir, t, lost)
      /\ \A u \in DOMAIN dir : dir[u].name \notin t =>
            /\ dir[u].name \notin OldTorn
            /\ Unled(fat, dir[u].cluster)
            /\ fat[dir[u].cluster] # Free /\ dir[u].cluster # Root
      /\ \A u \in DOMAIN dir : dir[u].cluster \in Clusters
    <2> DEFINE N == {}
    <2>1. Sure(N)
        BY <1>6
    <2> HIDE DEF N
    <2>2. /\ Covered(fat, dir, lost) /\ OpenHeld(fat, open, lost)
          /\ EntriesHeld(fat, dir, Torn(N), lost)
          /\ \A u \in DOMAIN dir : dir[u].name \notin Torn(N) =>
               /\ dir[u].name \notin torn /\ dir[u].name \notin OldTorn
               /\ Unled(fat, dir[u].cluster)
               /\ fat[dir[u].cluster] # Free /\ dir[u].cluster # Root
          /\ \A u \in DOMAIN dir : dir[u].cluster \in Clusters /\ dir[u].size \in Nat
        BY <2>1, StartHeld
    <2> QED BY <2>2 DEF N
<1>8. Past(fat, open[n]) = Rest(fat, x, p)
    BY DEF Past
<1> HIDE DEF T, x, s, e, t
<1>9. m = 0 \/ m \in DOMAIN free
    BY <1>3 DEF Extends
<1>10. Growth(fat, g, free, a, m)
    <2>1. ASSUME NEW y \in Clusters, \A k \in DOMAIN A : A[k].on = "fat" => A[k].at # y
          PROVE  g[y] = fat[y]
        <3>1. \A k \in DOMAIN T : T[k].on = "fat" => T[k].at # y
            BY <1>2, <1>3, <2>1
        <3> QED BY <3>1, <1>3, <1>4, FinalWrites
    <2>2. free \in Seq(Clusters) /\ FreeIn(fat, free)
        BY DEF FreeIn
    <2>3. DOMAIN T \subseteq Nat /\ Final(fat, T, g) /\ \A y, v : LastWrite(A, y, v) => LastWrite(T, y, v)
        BY <1>3, <1>4
    <2> QED BY <1>9, <2>1, <2>2, <2>3, ExtendsGrow
<1>11. /\ a \in Clusters /\ a \in Range(Chain(fat, x)) /\ fat[a] # Free
       /\ Rest(fat, a, 1) \subseteq Rest(fat, x, p)
       /\ Rest(g, x, p + m) \subseteq Rest(fat, x, p)
       /\ \A i \in 1 .. m : free[i] \in Range(Chain(g, x))
       /\ \A b \in Clusters : Unled(fat, b) /\ fat[b] # Free /\ b # x =>
            Chain(g, b) = Chain(fat, b)
    <2>1. Place(fat, x, p, a)
        BY DEF x
    <2> QED BY <1>1, <1>4, <1>5, <1>9, <1>10, <2>1, GrowthSettles
<1>12. \A y \in Clusters : g[y] # Free =>
         (\E i \in 1 .. m : y = free[i]) \/ Reached(g, dir, y) \/ y \in lost
    <2>1. m # 0 /\ a \in Clusters => fat[a] # Free /\ Rest(fat, a, 1) \subseteq lost
        BY <1>1, <1>8, <1>11
    <2> QED BY <1>7, <1>9, <1>10, <2>1, GrowthCovers
<1>13. /\ \A k \in DOMAIN T : T[k].on = "dir" => T[k] = D
       /\ \E k \in DOMAIN T : T[k] = D
    BY <1>3, SMTT(30) DEF Extends
<1>14. /\ s \in DOMAIN d /\ d[s] = e /\ e.cluster = x /\ e.size = p + m
       /\ \A u : u # s => (u \in DOMAIN d <=> u \in DOMAIN dir)
                          /\ (u \in DOMAIN dir => d[u] = dir[u])
    <2>1. D.at = s /\ D.value = e /\ e.cluster = x /\ e.size = p + m
        BY DEF s, e, x
    <2>2. s \in DOMAIN d /\ d[s] = e
        BY <1>2, <1>4, <1>13, <2>1 DEF FinalDir
    <2>3. ASSUME NEW u, u # s
          PROVE  (u \in DOMAIN d <=> u \in DOMAIN dir) /\ (u \in DOMAIN dir => d[u] = dir[u])
        <3>1. \A k \in DOMAIN T : T[k].on = "dir" => T[k].at # u
            BY <2>1, <2>3, <1>13
        <3> QED BY <3>1, <1>4 DEF FinalDir
    <2> QED BY <2>1, <2>2, <2>3
<1>15. Covered(g, d, lost)
    <2>1. \A u \in DOMAIN dir : u \in DOMAIN d /\ d[u].cluster = dir[u].cluster
        BY <1>1, <1>14
    <2>2. \A y : Reached(g, dir, y) => Reached(g, d, y)
        BY <2>1 DEF Reached
    <2>3. \A y \in Range(Chain(g, x)) : Reached(g, d, y)
        BY <1>14 DEF Reached
    <2> QED BY <1>11, <1>12, <2>2, <2>3 DEF Covered
<1>16. \A f : f.cluster = x /\ f.size = p + m => Past(g, f) \subseteq lost
    BY <1>1, <1>2, <1>8, <1>11 DEF Past, Used
<1>17. EntriesHeld(g, d, t, lost)
    <2> SUFFICES ASSUME NEW u \in DOMAIN d, d[u].name \notin t
                 PROVE  Past(g, d[u]) \subseteq lost
        BY DEF EntriesHeld
    <2>1. CASE u = s
        BY <2>1, <1>14, <1>16
    <2>2. CASE u # s
        <3>1. u \in DOMAIN dir /\ d[u] = dir[u]
            BY <2>2, <1>14
        <3>2. Past(g, d[u]) = Past(fat, d[u])
            BY <2>2, <3>1, <1>1, <1>7, <1>11, SamePast
        <3> QED BY <3>1, <3>2, <1>7 DEF EntriesHeld
    <2> QED BY <2>1, <2>2
<1>18. \A o \in DOMAIN open : o # n => Past(g, open[o]) \subseteq lost
    <2> SUFFICES ASSUME NEW o \in DOMAIN open, o # n PROVE Past(g, open[o]) \subseteq lost
        OBVIOUS
    <2>1. PICK u \in DOMAIN dir : dir[u].name = o /\ dir[u].cluster = open[o].cluster
                                  /\ o \notin torn
        BY <1>5 DEF Matching
    <2>2. o \notin t /\ u # s
        BY <2>1, <1>1 DEF Torn, OldTorn, t
    <2>3. Past(g, open[o]) = Past(fat, open[o])
        BY <2>1, <2>2, <1>1, <1>7, <1>11, SamePast
    <2> QED BY <2>3, <1>7 DEF OpenHeld
<1>19. Past(g, c) \subseteq lost
    BY <1>16 DEF x
<1> QED BY <1>15, <1>17, <1>18, <1>19 DEF Settled

\* Nothing is lost while a file grows but the clusters allocated to it, which are
\* lost only when the call fails, or the read of its chain did.
LEMMA WriteLosses ==
    ASSUME IInv, LossInv, NEW n \in DOMAIN open, NEW size \in 1 .. MaxSize, Write(n, size)
    PROVE  LossInv' /\ FineInv'
<1> DEFINE h == open[n]
           s == h.slot
           x == h.cluster
           p == IF h.size = 0 THEN 1 ELSE h.size
           m == IF size > p THEN size - p ELSE 0
           e == [name |-> n, cluster |-> x, size |-> size]
           D == DeviceWrite("dir", s, e, "ignore")
<1>1. PICK seen \in Seen(x) :
        LET todo == Extend(FreeClusters, LastOf(seen, p), m) IN
        Start([Idle EXCEPT !.op = "write", !.name = n, !.slot = s,
                           !.cluster = x, !.size = size,
                           !.got = Allocated(todo), !.missed = seen # Chain(fat, x),
                           !.todo = todo \o <<D>>])
    BY DEF Write
<1> DEFINE a == LastOf(seen, p)
           A == Extend(FreeClusters, a, m)
           T == A \o <<D>>
           G == Allocated(A)
           c == [Idle EXCEPT !.op = "write", !.name = n, !.slot = s, !.cluster = x,
                             !.size = size, !.got = G, !.missed = seen # Chain(fat, x), !.todo = T]
           K == lost \cup c.got
           M == lost \cup c.left
           t == Torn(c.doubt)
<1>2. Start(c) /\ size > h.size
    BY <1>1 DEF Write
<1>3. call = Idle
    BY <1>2 DEF Start
<1>4. /\ s \in DOMAIN dir /\ s \in Nat /\ dir[s].name = n /\ dir[s].cluster = x /\ n \in Names
      /\ x \in Clusters /\ fat[x] # Free /\ x # Root /\ Unled(fat, x) /\ h.size \in Nat
      /\ Past(fat, h) \subseteq lost
    BY <1>3, OpenShape
<1>5. p \in Nat \ {0} /\ m \in Nat /\ size = p + m /\ size \in 0 .. MaxSize /\ p = Used(h)
    BY <1>2, <1>4, BoundAssumption DEF Used
<1>6. e \in Entry
    BY <1>4, <1>5 DEF Entry
<1>7. e.cluster = x /\ e.size = size
    OBVIOUS
<1> HIDE DEF e
<1>8. D \in DeviceWrites /\ Enters(D) /\ ~Clears(D) /\ D.at = s /\ D.value = e /\ D.on = "dir"
    BY <1>4, <1>6, EntryShape
<1> HIDE DEF D
<1>9. /\ c.op = "write" /\ c.name = n /\ c.cluster = x /\ c.size = size
      /\ c.got = G /\ c.left = {} /\ c.doubt = {} /\ c.todo = T
      /\ c.missed = (seen # Chain(fat, x))
    <2> HIDE DEF T, G, x, s
    <2> QED BY DEF Idle
<1> HIDE DEF c
<1>10. /\ a = ENDOFCHAIN \/ Place(fat, x, p, a)
       /\ seen = Chain(fat, x) => Place(fat, x, p, a)
    <2> HIDE DEF x, p
    <2> QED BY <1>4, <1>5, LastPlace
<1> HIDE DEF a
<1>11. /\ Linked(fat) /\ FreeList(FreeClusters) /\ FreeIn(fat, FreeClusters)
    BY <1>3, AtStart, FreeShape DEF FreeList, FreeIn
<1>12. a \in Clusters =>
         /\ a \in Range(Chain(fat, x)) /\ fat[a] # Free
         /\ Rest(fat, a, 1) \subseteq lost
    <2> HIDE DEF x, p
    <2> SUFFICES ASSUME a \in Clusters
                 PROVE  /\ a \in Range(Chain(fat, x)) /\ fat[a] # Free
                        /\ Rest(fat, a, 1) \subseteq lost
        OBVIOUS
    <2>1. p \in 1 .. Len(Chain(fat, x)) /\ Chain(fat, x)[p] = a
        BY <1>10, Constants DEF Place
    <2>2. p \in DOMAIN Chain(fat, x)
        BY <1>4, <2>1, ChainFacts
    <2>3. a \in Range(Chain(fat, x))
        BY <2>1, <2>2 DEF Range
    <2>4. Rest(fat, a, 1) \subseteq Rest(fat, x, p)
        BY <1>4, <1>11, <2>1, RestOfMember
    <2>5. Rest(fat, x, p) \subseteq lost
        BY <1>4, <1>5 DEF Past, x
    <2> QED BY <1>4, <1>11, <2>3, <2>4, <2>5, ChainUsed
<1>13. a \notin Range(FreeClusters)
    BY <1>10, <1>11, <1>12, Constants DEF FreeIn
<1>14. A \in Seq(DeviceWrites)
    <2>1. Grows(Range(FreeClusters), a, A) /\ A \in Seq(DeviceWrites)
        BY <1>5, <1>11, <1>13, ExtendShape DEF FreeList
    <2> QED BY <2>1
<1>15. Extends(FreeClusters, a, m, A)
    <2> HIDE DEF m
    <2> QED BY <1>5, <1>11, <1>13, ExtendEnds DEF FreeIn
<1> HIDE DEF A
<1>16. /\ T \in Seq(DeviceWrites) /\ DOMAIN T \subseteq Nat
       /\ \A k \in DOMAIN T : k \in DOMAIN A \/ T[k] = D
       /\ \A k \in DOMAIN A : k \in DOMAIN T /\ T[k] = A[k]
    BY <1>8, <1>14, DirBehind
<1> HIDE DEF T, G
<1>17. lost \subseteq K /\ Allocated(A) \subseteq K /\ M = lost /\ c.doubt = {} /\ t = Torn({})
    BY <1>9 DEF G
<1>18. Sure(c.doubt)
    BY <1>9 DEF Sure
<1> HIDE DEF K, M, t
<1>19. \A f : f.cluster = x /\ f.size = size => Past(fat, f) \subseteq K
    <2> HIDE DEF x, p, m
    <2>1. size \in Nat /\ size # 0 /\ p <= size /\ p \in Nat
        BY <1>5
    <2>2. Rest(fat, x, size) \subseteq Rest(fat, x, p)
        BY <1>4, <2>1, RestLess
    <2>3. Rest(fat, x, p) \subseteq lost
        BY <1>4, <1>5 DEF Past, x
    <2> QED BY <1>17, <2>1, <2>2, <2>3 DEF Past, Used
<1> HIDE DEF x, p, m, s, h
<1>20. TableHeld(fat, dir, K, T)
    <2>1. /\ m \in Nat /\ FreeIn(fat, FreeClusters) /\ A \in Seq(DeviceWrites)
          /\ Extends(FreeClusters, a, m, A) /\ Allocated(A) \subseteq K
          /\ 1 \in DOMAIN FreeClusters /\ a \in Clusters =>
               fat[a] # Free /\ Rest(fat, a, 1) \subseteq K
        BY <1>5, <1>11, <1>12, <1>14, <1>15, <1>17
    <2>2. Contained(fat, FreeClusters, a, K, A)
        BY <2>1, ExtendsHeld
    <2>3. \A k \in DOMAIN T : T[k].on = "fat" => k \in DOMAIN A /\ T[k] = A[k]
        BY <1>8, <1>16
    <2>4. \A k \in DOMAIN T : ~Frees(T[k])
        BY <2>2, <2>3 DEF Contained, Frees
    <2> QED BY <2>2, <2>3, <2>4 DEF TableHeld, Contained
<1>21. DirHeld(fat, dir, K, T)
    <2>1. \A k \in DOMAIN A : ~Enters(A[k]) /\ ~Clears(A[k])
        BY <1>15 DEF Extends, Enters, Clears
    <2>2. \A k \in DOMAIN T : ~Clears(T[k]) /\ (Enters(T[k]) => T[k] = D)
        BY <1>8, <1>16, <2>1
    <2>3. Past(fat, D.value) \subseteq K
        BY <1>7, <1>8, <1>19
    <2> QED BY <2>2, <2>3 DEF DirHeld
<1>22. OwnHeld(fat, c, K, T)
    BY <1>9, <1>19 DEF OwnHeld
<1>23. Fine(fat, dir, open, c, t, M, T)
    <2>1. CASE c.missed
        BY <2>1 DEF Fine
    <2>2. CASE ~c.missed
        <3>1. Place(fat, open[n].cluster, p, a) /\ p = Used(open[n]) /\ p \in Nat \ {0} /\ m \in Nat
            BY <1>5, <1>9, <1>10, <2>2 DEF x, h
        <3>2. D.at = open[n].slot /\ D.value.cluster = open[n].cluster /\ D.value.size = p + m
            BY <1>5, <1>7, <1>8 DEF x, h, s
        <3>3. c.cluster = open[n].cluster /\ c.size = p + m
            BY <1>5, <1>9 DEF x, h
        <3>4. Fine(fat, dir, open, c, Torn({}), lost, A \o <<D>>)
            BY <1>3, <1>8, <1>9, <1>11, <1>14, <1>15, <3>1, <3>2, <3>3, WriteSettles
        <3> QED BY <3>4, <1>17 DEF T
    <2> QED BY <2>1, <2>2
<1>24. /\ TableHeld(fat, dir, lost \cup c.got, c.todo)
       /\ DirHeld(fat, dir, lost \cup c.got, c.todo)
       /\ OwnHeld(fat, c, lost \cup c.got, c.todo)
       /\ Fine(fat, dir, open, c, Torn(c.doubt), lost \cup c.left, c.todo)
    BY <1>9, <1>20, <1>21, <1>22, <1>23 DEF K, M, t
<1> QED BY <1>2, <1>18, <1>24, StartLosses

\* The losses are accounted for in every state.
THEOREM LossesFollowed == Spec => []((IInv /\ LossInv /\ FineInv) \/ Adrift)
<1>1. Init => IInv /\ LossInv /\ FineInv
    BY InitHolds, InitLosses
<1>2. IInv /\ LossInv /\ FineInv /\ [Next]_vars => (LossInv /\ FineInv)' \/ Adrift'
    <2> SUFFICES ASSUME IInv, LossInv, FineInv, [Next]_vars, ~Strays
                 PROVE  LossInv' /\ FineInv'
        BY StraysAdrift
    <2>1. ASSUME NEW n \in Names, OpenExisting(n) \/ OpenTruncated(n) \/ Delete(n)
          PROVE  LossInv' /\ FineInv'
        BY <2>1, OpenExistingLosses, OpenTruncatedLosses, DeleteLosses
    <2>2. ASSUME NEW n \in Names, NEW trunc \in BOOLEAN, OpenNew(n, trunc)
          PROVE  LossInv' /\ FineInv'
        BY <2>2, OpenNewLosses
    <2>3. ASSUME NEW n \in DOMAIN open, NEW size \in 1 .. MaxSize, Write(n, size)
          PROVE  LossInv' /\ FineInv'
        BY <2>3, WriteLosses
    <2>4. ASSUME NEW n \in Names, NEW m \in Names, Move(n, m) PROVE LossInv' /\ FineInv'
        BY <2>4, MoveLosses
    <2>5. ASSUME NEW n \in DOMAIN open, Close(n) PROVE LossInv' /\ FineInv'
        BY <2>5, CloseLosses
    <2>6. CASE WriteLands
        BY <2>6, LandLosses, LandFine
    <2>7. CASE WriteFails \/ ReadFails
        BY <2>7, FailLosses, FailFine
    <2>8. CASE Return
        BY <2>8, ReturnLosses
    <2>9. CASE Crash
        BY <2>9, CrashLosses
    <2>10. CASE UNCHANGED vars
        BY <2>10 DEF vars, LossInv, FineInv
    <2> QED BY <2>1, <2>2, <2>3, <2>4, <2>5, <2>6, <2>7, <2>8, <2>9, <2>10 DEF Next, Strays
<1>3. Adrift /\ [Next]_vars => Adrift'
    BY AdriftStays DEF Adrift, Astray, vars
<1> QED BY <1>1, <1>2, <1>3, Inductive, PTL DEF Spec

\* No cluster leaks but in the ways the code is known to leak, whatever fails
\* and wherever the machine stops: the order of the writes of extendFAT32File,
\* resetFAT32ClusterChain, createFAT32Entry and renameFAT32Entry leaves no other.
THEOREM NothingLeaks == Spec => []Accounted
<1>1. IInv /\ LossInv => Accounted
    <2> SUFFICES ASSUME IInv, LossInv, NEW c \in Clusters, fat[c] # Free
                 PROVE  c \in Reachable \cup lost \cup call.got
        BY DEF Accounted
    <2>1. Reached(fat, dir, c) \/ c \in lost \cup call.got
        BY DEF LossInv, Losses, Covered
    <2>2. CASE c \in Range(Chain(fat, Root))
        <3>1. c \in ToSet(Chain(fat, Root))
            BY <2>2, TailRest, Constants
        <3> QED BY <3>1 DEF Reachable
    <2>3. ASSUME NEW s \in DOMAIN dir, c \in Range(Chain(fat, dir[s].cluster))
          PROVE  c \in Reachable
        <3>1. dir[s].cluster \in Clusters
            BY DEF IInv, Types, Entry
        <3>2. c \in ToSet(Chain(fat, dir[s].cluster))
            BY <2>3, <3>1, TailRest
        <3> QED BY <3>2 DEF Reachable
    <2> QED BY <2>1, <2>2, <2>3 DEF Reached
<1>2. Adrift => Accounted
    BY DEF Adrift, Accounted
<1> QED BY <1>1, <1>2, LossesFollowed, PTL

-----------------------------------------------------------------------------
(* What an entry, or an open file, says it has: its chain is that long, and   *)
(* the writes still to be done leave it that long                             *)

Claims(d, sh, s) == d[s].name \notin sh /\ d[s].size # 0
Headed(f, x)     == f[x] # Free /\ x # Root /\ Unled(f, x)
Covers(f, e)     == e.size <= Len(Chain(f, e.cluster))

\* The write w leaves the first clusters of e, as many as it claims, linked.
Spares(f, e, w) ==
    w.on = "fat" =>
        /\ \A i \in 1 .. e.size - 1 :
             i \in DOMAIN Chain(f, e.cluster) => w.at # Chain(f, e.cluster)[i]
        /\ Frees(w) => w.at # e.cluster
        /\ Links(w) => w.value # e.cluster

\* The entry of a file that was written is looked at when the call returns.
Excused(c, T, n) == c.op = "write" /\ DOMAIN T = {} /\ ~c.failed /\ n = c.name

EntriesLong(f, d, c, sh, T) ==
    \A s \in DOMAIN d : Claims(d, sh, s) =>
        /\ Headed(f, d[s].cluster)
        /\ Covers(f, d[s]) \/ Excused(c, T, d[s].name)
        /\ \A k \in DOMAIN T :
             \/ Spares(f, d[s], T[k])
             \/ \E j \in DOMAIN T : j < k /\ Clears(T[j]) /\ T[j].at = s

\* An entry never says more than the open file, which is what extends the chain.
OpenLong(f, d, o, c, sh, T) ==
    \A n \in DOMAIN o : n \notin sh =>
        /\ Covers(f, o[n])
        /\ \A k \in DOMAIN T : Spares(f, o[n], T[k])
        /\ Excused(c, T, n) \/ \A s \in DOMAIN d : d[s].name = n => d[s].size <= Used(o[n])

\* No entry of X that claims clusters shares them with one that is not of X.
KeptApart(d, sh, X) ==
    \A s \in DOMAIN d, u \in DOMAIN d :
        Claims(d, sh, s) /\ d[s].name \in X /\ d[u].name \notin X => d[s].cluster # d[u].cluster

\* An entry to be written: the last write of a call, or the second name of a
\* chain that is as long as it claims.
ComingLong(f, d, c, t, sh, T) ==
    \A k \in DOMAIN T : Enters(T[k]) =>
        LET e == T[k].value IN
        /\ \A s \in DOMAIN d :
             Claims(d, sh, s) /\ d[s].name \in t \ c.doubt => d[s].cluster # e.cluster
        /\ c.op \in {"open", "write"} => e.size <= Used(c)
        /\ e.name \in t \/ c.doubt = {}
        /\ e.size # 0 /\ e.name \notin sh =>
             IF c.op = "write" THEN \A j \in DOMAIN T : j <= k
             ELSE /\ Headed(f, e.cluster) /\ Covers(f, e)
                  /\ \A j \in DOMAIN T : Spares(f, e, T[j])
                  /\ \A u \in DOMAIN d : d[u].name \notin t => d[u].cluster # e.cluster
                  /\ e.name \notin t \ c.doubt

OwnLong(d, c, sh) ==
    /\ c.op = "open" => c.size = 0
    /\ c.op \in {"open", "write"} /\ ~c.failed /\ c.name \notin sh =>
         \A s \in DOMAIN d : d[s].name = c.name => d[s].size <= Used(c)

Long(f, d, o, c, t, sh, T) ==
    /\ EntriesLong(f, d, c, sh, T)
    /\ OpenLong(f, d, o, c, sh, T)
    /\ KeptApart(d, sh, Doubted(d, c, t)) /\ KeptApart(d, sh, t \ c.doubt)
    /\ ComingLong(f, d, c, t, sh, T)
    /\ OwnLong(d, c, sh)

\* A chain stays as long as is claimed when a write that spares it lands.
LEMMA SparedLands ==
    ASSUME NEW f, NEW g, NEW w, Becomes(f, g, w.at, w.value), w.on = "fat",
           NEW e, e.cluster \in Clusters, e.size \in Nat, Covers(f, e), Spares(f, e, w)
    PROVE  Covers(g, e) /\ \A z : Spares(f, e, z) => Spares(g, e, z)
<1> DEFINE x == e.cluster
           n == e.size
           W == {w.at}
<1>1. /\ Len(Chain(f, x)) \in Nat \ {0} /\ DOMAIN Chain(f, x) = 1 .. Len(Chain(f, x))
      /\ Len(Chain(g, x)) \in Nat \ {0} /\ DOMAIN Chain(g, x) = 1 .. Len(Chain(g, x))
    BY ChainFacts
<1>2. CASE n = 0
    <2>1. Covers(g, e)
        BY <1>1, <1>2 DEF Covers
    <2>2. 1 .. n - 1 = {}
        BY <1>2
    <2> QED BY <2>1, <2>2 DEF Spares
<1>3. CASE n # 0
    <2>1. n \in 1 .. Len(Chain(f, x))
        BY <1>1, <1>3 DEF Covers
    <2>2. \A i \in 1 .. n - 1 : i \in DOMAIN Chain(f, x) /\ Chain(f, x)[i] \notin W
        BY <1>1, <2>1 DEF Spares
    <2>3. \A y \in Clusters \ W : g[y] = f[y]
        BY DEF Becomes
    <2> HIDE DEF n, x, W
    <2>4. n <= Len(Chain(g, x)) /\ \A i \in 1 .. n : Chain(g, x)[i] = Chain(f, x)[i]
        <3>1. x \in Clusters
            BY DEF x
        <3> QED BY <3>1, <2>1, <2>2, <2>3, ChainBefore
    <2>5. \A i \in 1 .. n - 1 : i \in 1 .. n
        BY <2>1, <1>1
    <2>6. \A z : Spares(f, e, z) => Spares(g, e, z)
        <3> SUFFICES ASSUME NEW z, Spares(f, e, z), z.on = "fat"
                     PROVE  Spares(g, e, z)
            BY DEF Spares
        <3>1. \A i \in 1 .. n - 1 : z.at # Chain(g, x)[i]
            BY <2>2, <2>4, <2>5 DEF Spares, n, x, W
        <3> QED BY <3>1 DEF Spares, n, x
    <2> QED BY <2>4, <2>6 DEF Covers, n, x
<1> QED BY <1>2, <1>3

LEMMA HeadedLands ==
    ASSUME NEW f, NEW g, NEW w \in DeviceWrites, Becomes(f, g, w.at, w.value), w.on = "fat",
           NEW e, e.cluster \in Clusters, Headed(f, e.cluster), Spares(f, e, w)
    PROVE  Headed(g, e.cluster)
<1>1. /\ w.at \in Clusters /\ w.value \in Values
      /\ Frees(w) => w.at # e.cluster
      /\ Links(w) => w.value # e.cluster
    BY WriteShape DEF Spares
<1>2. w.value = e.cluster => Links(w)
    BY DEF Links
<1>3. w.value = Free => Frees(w)
    BY DEF Frees
<1>4. \A y \in Clusters : g[y] # e.cluster
    BY <1>1, <1>2 DEF Becomes, Headed, Unled
<1>5. g[e.cluster] # Free
    BY <1>1, <1>3 DEF Becomes, Headed
<1> QED BY <1>4, <1>5 DEF Headed, Unled

\* What is left of the writes, by their places.
LEMMA LeftPlaces ==
    ASSUME NEW T, NEW U, Follows(T, U)
    PROVE  /\ 1 \in DOMAIN T /\ DOMAIN T \subseteq Nat /\ DOMAIN U \subseteq Nat
           /\ \A k \in DOMAIN U : k + 1 \in DOMAIN T /\ U[k] = T[k + 1]
           /\ \A k \in DOMAIN U, j \in DOMAIN T :
                j < k + 1 /\ j # 1 => j - 1 \in DOMAIN U /\ j - 1 < k /\ U[j - 1] = T[j]
           /\ (\A k \in DOMAIN T : k <= 1) => DOMAIN U = {}
           /\ \A k \in DOMAIN U, j \in DOMAIN U : j + 1 <= k + 1 => j <= k
<1>1. DOMAIN T = 1 .. Len(U) + 1 /\ DOMAIN U = 1 .. Len(U) /\ Len(U) \in Nat
    BY DEF Follows
<1>2. \A k \in DOMAIN U : k + 1 \in DOMAIN T /\ U[k] = T[k + 1]
    BY DEF Follows
<1>3. \A j \in DOMAIN T : j # 1 => j - 1 \in DOMAIN U /\ U[j - 1] = T[j]
    BY DEF Follows
<1>4. \A k \in DOMAIN U, j \in DOMAIN T : j < k + 1 => j - 1 < k
    BY <1>1
<1>5. (\A k \in DOMAIN T : k <= 1) => DOMAIN U = {}
    <2> SUFFICES ASSUME \A k \in DOMAIN T : k <= 1, NEW i \in DOMAIN U
                 PROVE  FALSE
        OBVIOUS
    <2>1. Len(U) + 1 \in DOMAIN T /\ Len(U) # 0
        BY <1>1
    <2>2. Len(U) + 1 <= 1
        BY <2>1
    <2> QED BY <2>1, <2>2, <1>1
<1>6. 1 \in DOMAIN T /\ DOMAIN T \subseteq Nat /\ DOMAIN U \subseteq Nat
    BY <1>1
<1>7. \A k \in DOMAIN U, j \in DOMAIN U : j + 1 <= k + 1 => j <= k
    BY <1>1
<1> HIDE DEF Follows
<1> QED BY <1>2, <1>3, <1>4, <1>5, <1>6, <1>7

\* A write of the table lands.
LEMMA TableLong ==
    ASSUME NEW f, NEW g, NEW d, NEW o, NEW c, NEW t, NEW sh, NEW T, NEW U, Follows(T, U),
           Typed(f, d, T), \A n \in DOMAIN o : o[n].cluster \in Clusters /\ o[n].size \in Nat,
           T[1].on = "fat", Becomes(f, g, T[1].at, T[1].value),
           Long(f, d, o, c, t, sh, T)
    PROVE  Long(g, d, o, c, t, sh, U)
<1>1. /\ 1 \in DOMAIN T /\ DOMAIN T \subseteq Nat
      /\ \A k \in DOMAIN U : k + 1 \in DOMAIN T /\ U[k] = T[k + 1]
      /\ \A k \in DOMAIN U, j \in DOMAIN T :
           j < k + 1 /\ j # 1 => j - 1 \in DOMAIN U /\ j - 1 < k /\ U[j - 1] = T[j]
    BY LeftPlaces
<1>2. /\ T[1] \in DeviceWrites /\ ~Clears(T[1])
      /\ \A n : ~Excused(c, T, n)
      /\ \A j \in DOMAIN T : ~(j < 1)
    <2>1. \A j \in DOMAIN T : ~(j < 1)
        <3>1. DOMAIN T = 1 .. Len(U) + 1 /\ Len(U) \in Nat
            BY DEF Follows
        <3> QED BY <3>1
    <2> QED BY <1>1, <2>1 DEF Typed, Clears, Excused
<1>3. \A e : e.cluster \in Clusters /\ e.size \in Nat /\ Covers(f, e) /\ Spares(f, e, T[1]) =>
        /\ Covers(g, e)
        /\ \A z : Spares(f, e, z) => Spares(g, e, z)
        /\ Headed(f, e.cluster) => Headed(g, e.cluster)
    BY <1>2, SparedLands, HeadedLands
<1>4. EntriesLong(g, d, c, sh, U)
    <2> SUFFICES ASSUME NEW s \in DOMAIN d, Claims(d, sh, s)
                 PROVE  /\ Headed(g, d[s].cluster) /\ Covers(g, d[s])
                        /\ \A k \in DOMAIN U :
                             \/ Spares(g, d[s], U[k])
                             \/ \E j \in DOMAIN U : j < k /\ Clears(U[j]) /\ U[j].at = s
        BY DEF EntriesLong
    <2>1. d[s].cluster \in Clusters /\ d[s].size \in Nat
        BY EntrySized DEF Typed
    <2>2. /\ Headed(f, d[s].cluster) /\ Covers(f, d[s])
          /\ Spares(f, d[s], T[1])
        BY <1>1, <1>2 DEF Long, EntriesLong
    <2>3. /\ Headed(g, d[s].cluster) /\ Covers(g, d[s])
          /\ \A z : Spares(f, d[s], z) => Spares(g, d[s], z)
        BY <1>3, <2>1, <2>2
    <2>4. ASSUME NEW k \in DOMAIN U
          PROVE  \/ Spares(g, d[s], U[k])
                 \/ \E j \in DOMAIN U : j < k /\ Clears(U[j]) /\ U[j].at = s
        <3>1. \/ Spares(f, d[s], U[k])
              \/ \E j \in DOMAIN T : j < k + 1 /\ Clears(T[j]) /\ T[j].at = s
            BY <1>1 DEF Long, EntriesLong
        <3>2. ASSUME NEW j \in DOMAIN T, j < k + 1, Clears(T[j]), T[j].at = s
              PROVE  \E i \in DOMAIN U : i < k /\ Clears(U[i]) /\ U[i].at = s
            <4>1. j # 1
                BY <1>2, <3>2
            <4>2. j - 1 \in DOMAIN U /\ j - 1 < k /\ U[j - 1] = T[j]
                BY <1>1, <3>2, <4>1
            <4> QED BY <3>2, <4>2
        <3> QED BY <3>1, <3>2, <2>3
    <2> QED BY <2>3, <2>4
<1>5. OpenLong(g, d, o, c, sh, U)
    <2> SUFFICES ASSUME NEW n \in DOMAIN o, n \notin sh
                 PROVE  /\ Covers(g, o[n])
                        /\ \A k \in DOMAIN U : Spares(g, o[n], U[k])
                        /\ \A s \in DOMAIN d : d[s].name = n => d[s].size <= Used(o[n])
        BY DEF OpenLong
    <2>1. /\ Covers(f, o[n]) /\ \A k \in DOMAIN T : Spares(f, o[n], T[k])
          /\ \A s \in DOMAIN d : d[s].name = n => d[s].size <= Used(o[n])
        BY <1>2 DEF Long, OpenLong
    <2>2. Covers(g, o[n]) /\ \A z : Spares(f, o[n], z) => Spares(g, o[n], z)
        BY <1>1, <1>3, <2>1
    <2> QED BY <1>1, <2>1, <2>2
<1>6. ComingLong(g, d, c, t, sh, U)
    <2> SUFFICES ASSUME NEW k \in DOMAIN U, Enters(U[k]),
                        NEW e, e = U[k].value
                 PROVE  /\ \A s \in DOMAIN d :
                             Claims(d, sh, s) /\ d[s].name \in t \ c.doubt =>
                                 d[s].cluster # e.cluster
                        /\ c.op \in {"open", "write"} => e.size <= Used(c)
                        /\ e.name \in t \/ c.doubt = {}
                        /\ e.size # 0 /\ e.name \notin sh =>
                             IF c.op = "write" THEN \A j \in DOMAIN U : j <= k
                             ELSE /\ Headed(g, e.cluster) /\ Covers(g, e)
                                  /\ \A j \in DOMAIN U : Spares(g, e, U[j])
                                  /\ \A u \in DOMAIN d :
                                       d[u].name \notin t => d[u].cluster # e.cluster
                                  /\ e.name \notin t \ c.doubt
        BY DEF ComingLong
    <2>1. /\ k + 1 \in DOMAIN T /\ U[k] = T[k + 1] /\ e = T[k + 1].value /\ Enters(T[k + 1])
        BY <1>1
    <2>2. /\ \A s \in DOMAIN d :
               Claims(d, sh, s) /\ d[s].name \in t \ c.doubt => d[s].cluster # e.cluster
          /\ c.op \in {"open", "write"} => e.size <= Used(c)
          /\ e.name \in t \/ c.doubt = {}
          /\ e.size # 0 /\ e.name \notin sh =>
               IF c.op = "write" THEN \A j \in DOMAIN T : j <= k + 1
               ELSE /\ Headed(f, e.cluster) /\ Covers(f, e)
                    /\ \A j \in DOMAIN T : Spares(f, e, T[j])
                    /\ \A u \in DOMAIN d : d[u].name \notin t => d[u].cluster # e.cluster
                    /\ e.name \notin t \ c.doubt
        BY <2>1 DEF Long, ComingLong
    <2>3. e.cluster \in Clusters /\ e.size \in Nat
        <3>1. T[k + 1] \in DeviceWrites
            BY <2>1 DEF Typed
        <3>2. e \in Entry
            BY <3>1, <2>1, WriteShape
        <3> QED BY <3>2, EntrySized
    <2>4. ASSUME e.size # 0, e.name \notin sh, c.op = "write" PROVE \A j \in DOMAIN U : j <= k
        <3> SUFFICES ASSUME NEW j \in DOMAIN U PROVE j <= k
            OBVIOUS
        <3>1. j + 1 \in DOMAIN T
            BY <1>1
        <3>2. j + 1 <= k + 1
            BY <2>2, <2>4, <3>1
        <3> QED BY <3>2, LeftPlaces
    <2>5. ASSUME e.size # 0, e.name \notin sh, c.op # "write"
          PROVE  /\ Headed(g, e.cluster) /\ Covers(g, e)
                 /\ \A j \in DOMAIN U : Spares(g, e, U[j])
        <3>1. /\ Headed(g, e.cluster) /\ Covers(g, e)
              /\ \A z : Spares(f, e, z) => Spares(g, e, z)
            BY <1>1, <1>3, <2>2, <2>3, <2>5
        <3> QED BY <1>1, <3>1, <2>2, <2>5
    <2> QED BY <2>2, <2>4, <2>5
<1> QED BY <1>4, <1>5, <1>6 DEF Long

\* A write passes that changes neither the table nor the directory.
LEMMA SkipLong ==
    ASSUME NEW f, NEW d, NEW o, NEW c, NEW t, NEW sh, NEW T, NEW U, Follows(T, U),
           ~Clears(T[1]), Long(f, d, o, c, t, sh, T)
    PROVE  Long(f, d, o, c, t, sh, U)
<1>1. /\ 1 \in DOMAIN T /\ DOMAIN T \subseteq Nat
      /\ \A k \in DOMAIN U : k + 1 \in DOMAIN T /\ U[k] = T[k + 1]
      /\ \A k \in DOMAIN U, j \in DOMAIN T :
           j < k + 1 /\ j # 1 => j - 1 \in DOMAIN U /\ j - 1 < k /\ U[j - 1] = T[j]
    BY LeftPlaces
<1>2. \A n : ~Excused(c, T, n)
    BY <1>1 DEF Excused
<1>3. EntriesLong(f, d, c, sh, U)
    <2> SUFFICES ASSUME NEW s \in DOMAIN d, Claims(d, sh, s), NEW k \in DOMAIN U
                 PROVE  \/ Spares(f, d[s], U[k])
                        \/ \E j \in DOMAIN U : j < k /\ Clears(U[j]) /\ U[j].at = s
        BY <1>2 DEF Long, EntriesLong
    <2>1. \/ Spares(f, d[s], U[k])
          \/ \E j \in DOMAIN T : j < k + 1 /\ Clears(T[j]) /\ T[j].at = s
        BY <1>1 DEF Long, EntriesLong
    <2>2. ASSUME NEW j \in DOMAIN T, j < k + 1, Clears(T[j]), T[j].at = s
          PROVE  \E i \in DOMAIN U : i < k /\ Clears(U[i]) /\ U[i].at = s
        <3>1. j # 1
            BY <2>2
        <3>2. j - 1 \in DOMAIN U /\ j - 1 < k /\ U[j - 1] = T[j]
            BY <1>1, <2>2, <3>1
        <3> QED BY <2>2, <3>2
    <2> QED BY <2>1, <2>2
<1>4. OpenLong(f, d, o, c, sh, U)
    BY <1>1, <1>2 DEF Long, OpenLong
<1>5. ComingLong(f, d, c, t, sh, U)
    <2>1. \A k \in DOMAIN U :
            (\A j \in DOMAIN T : j <= k + 1) => \A j \in DOMAIN U : j <= k
        <3> SUFFICES ASSUME NEW k \in DOMAIN U, \A j \in DOMAIN T : j <= k + 1, NEW j \in DOMAIN U
                     PROVE  j <= k
            OBVIOUS
        <3>1. j + 1 \in DOMAIN T
            BY <1>1
        <3> QED BY <3>1, LeftPlaces
    <2>2. \A e : (\A j \in DOMAIN T : Spares(f, e, T[j])) => \A j \in DOMAIN U : Spares(f, e, U[j])
        BY <1>1
    <2> SUFFICES ASSUME NEW k \in DOMAIN U, Enters(U[k]),
                        NEW e, e = U[k].value
                 PROVE  /\ \A s \in DOMAIN d :
                             Claims(d, sh, s) /\ d[s].name \in t \ c.doubt =>
                                 d[s].cluster # e.cluster
                        /\ c.op \in {"open", "write"} => e.size <= Used(c)
                        /\ e.name \in t \/ c.doubt = {}
                        /\ e.size # 0 /\ e.name \notin sh =>
                             IF c.op = "write" THEN \A j \in DOMAIN U : j <= k
                             ELSE /\ Headed(f, e.cluster) /\ Covers(f, e)
                                  /\ \A j \in DOMAIN U : Spares(f, e, U[j])
                                  /\ \A u \in DOMAIN d :
                                       d[u].name \notin t => d[u].cluster # e.cluster
                                  /\ e.name \notin t \ c.doubt
        BY DEF ComingLong
    <2>3. k + 1 \in DOMAIN T /\ e = T[k + 1].value /\ Enters(T[k + 1])
        BY <1>1
    <2> QED BY <2>1, <2>2, <2>3 DEF Long, ComingLong
<1> QED BY <1>3, <1>4, <1>5 DEF Long

\* An entry is cleared.
LEMMA ClearLong ==
    ASSUME NEW f, NEW d, NEW e, NEW o, NEW c, NEW t, NEW sh, NEW T, NEW U, Follows(T, U),
           Clears(T[1]), Takes(d, e, T[1].at), Doubted(e, c, t) = Doubted(d, c, t),
           Long(f, d, o, c, t, sh, T)
    PROVE  Long(f, e, o, c, t, sh, U)
<1>1. /\ 1 \in DOMAIN T /\ DOMAIN T \subseteq Nat
      /\ \A k \in DOMAIN U : k + 1 \in DOMAIN T /\ U[k] = T[k + 1]
      /\ \A k \in DOMAIN U, j \in DOMAIN T :
           j < k + 1 /\ j # 1 => j - 1 \in DOMAIN U /\ j - 1 < k /\ U[j - 1] = T[j]
    BY LeftPlaces
<1>2. /\ \A n : ~Excused(c, T, n)
      /\ \A s \in DOMAIN e : s \in DOMAIN d /\ s # T[1].at /\ e[s] = d[s]
    BY <1>1 DEF Excused, Takes
<1>3. \A s \in DOMAIN e : Claims(e, sh, s) <=> Claims(d, sh, s)
    BY <1>2 DEF Claims
<1>4. EntriesLong(f, e, c, sh, U)
    <2> SUFFICES ASSUME NEW s \in DOMAIN e, Claims(e, sh, s)
                 PROVE  /\ Headed(f, d[s].cluster) /\ Covers(f, d[s])
                        /\ \A k \in DOMAIN U :
                             \/ Spares(f, d[s], U[k])
                             \/ \E j \in DOMAIN U : j < k /\ Clears(U[j]) /\ U[j].at = s
        BY <1>2 DEF EntriesLong
    <2>1. Headed(f, d[s].cluster) /\ Covers(f, d[s])
        BY <1>2, <1>3 DEF Long, EntriesLong
    <2>2. ASSUME NEW k \in DOMAIN U
          PROVE  \/ Spares(f, d[s], U[k])
                 \/ \E j \in DOMAIN U : j < k /\ Clears(U[j]) /\ U[j].at = s
        <3>1. \/ Spares(f, d[s], U[k])
              \/ \E j \in DOMAIN T : j < k + 1 /\ Clears(T[j]) /\ T[j].at = s
            BY <1>1, <1>2, <1>3 DEF Long, EntriesLong
        <3>2. ASSUME NEW j \in DOMAIN T, j < k + 1, Clears(T[j]), T[j].at = s
              PROVE  \E i \in DOMAIN U : i < k /\ Clears(U[i]) /\ U[i].at = s
            <4>1. j # 1
                BY <1>2, <3>2
            <4>2. j - 1 \in DOMAIN U /\ j - 1 < k /\ U[j - 1] = T[j]
                BY <1>1, <3>2, <4>1
            <4> QED BY <3>2, <4>2
        <3> QED BY <3>1, <3>2
    <2> QED BY <2>1, <2>2
<1>5. OpenLong(f, e, o, c, sh, U)
    <2> SUFFICES ASSUME NEW n \in DOMAIN o, n \notin sh
                 PROVE  /\ Covers(f, o[n])
                        /\ \A k \in DOMAIN U : Spares(f, o[n], U[k])
                        /\ \A s \in DOMAIN e : e[s].name = n => e[s].size <= Used(o[n])
        BY DEF OpenLong
    <2>1. /\ Covers(f, o[n]) /\ \A k \in DOMAIN T : Spares(f, o[n], T[k])
          /\ \A s \in DOMAIN d : d[s].name = n => d[s].size <= Used(o[n])
        BY <1>2 DEF Long, OpenLong
    <2> QED BY <1>1, <1>2, <2>1
<1>6. KeptApart(e, sh, Doubted(e, c, t)) /\ KeptApart(e, sh, t \ c.doubt)
    BY <1>2, <1>3 DEF Long, KeptApart
<1>7. OwnLong(e, c, sh)
    BY <1>2 DEF Long, OwnLong
<1>8. ComingLong(f, e, c, t, sh, U)
    <2>1. Long(f, d, o, c, t, sh, T) => ComingLong(f, d, c, t, sh, T)
        BY DEF Long
    <2>2. \A k \in DOMAIN U :
            (\A j \in DOMAIN T : j <= k + 1) => \A j \in DOMAIN U : j <= k
        <3> SUFFICES ASSUME NEW k \in DOMAIN U, \A j \in DOMAIN T : j <= k + 1, NEW j \in DOMAIN U
                     PROVE  j <= k
            OBVIOUS
        <3>1. j + 1 \in DOMAIN T
            BY <1>1
        <3> QED BY <3>1, LeftPlaces
    <2>3. \A v : (\A j \in DOMAIN T : Spares(f, v, T[j])) => \A j \in DOMAIN U : Spares(f, v, U[j])
        BY <1>1
    <2> SUFFICES ASSUME NEW k \in DOMAIN U, Enters(U[k]),
                        NEW v, v = U[k].value
                 PROVE  /\ \A s \in DOMAIN e :
                             Claims(e, sh, s) /\ e[s].name \in t \ c.doubt =>
                                 e[s].cluster # v.cluster
                        /\ c.op \in {"open", "write"} => v.size <= Used(c)
                        /\ v.name \in t \/ c.doubt = {}
                        /\ v.size # 0 /\ v.name \notin sh =>
                             IF c.op = "write" THEN \A j \in DOMAIN U : j <= k
                             ELSE /\ Headed(f, v.cluster) /\ Covers(f, v)
                                  /\ \A j \in DOMAIN U : Spares(f, v, U[j])
                                  /\ \A u \in DOMAIN e :
                                       e[u].name \notin t => e[u].cluster # v.cluster
                                  /\ v.name \notin t \ c.doubt
        BY DEF ComingLong
    <2>4. k + 1 \in DOMAIN T /\ v = T[k + 1].value /\ Enters(T[k + 1])
        BY <1>1
    <2>5. /\ \A s \in DOMAIN d :
               Claims(d, sh, s) /\ d[s].name \in t \ c.doubt => d[s].cluster # v.cluster
          /\ c.op \in {"open", "write"} => v.size <= Used(c)
          /\ v.name \in t \/ c.doubt = {}
          /\ v.size # 0 /\ v.name \notin sh =>
               IF c.op = "write" THEN \A j \in DOMAIN T : j <= k + 1
               ELSE /\ Headed(f, v.cluster) /\ Covers(f, v)
                    /\ \A j \in DOMAIN T : Spares(f, v, T[j])
                    /\ \A u \in DOMAIN d : d[u].name \notin t => d[u].cluster # v.cluster
                    /\ v.name \notin t \ c.doubt
        BY <2>1, <2>4 DEF ComingLong
    <2> QED BY <1>2, <1>3, <2>2, <2>3, <2>5
<1> QED BY <1>4, <1>5, <1>6, <1>7, <1>8 DEF Long

\* Nothing is left to do but writes of the second copy.
LEMMA StopLong ==
    ASSUME NEW f, NEW d, NEW o, NEW c, NEW b, NEW t, NEW sh, NEW T, NEW U, 1 \in DOMAIN T,
           \A k \in DOMAIN U : U[k].on = "bak", b.failed,
           b.op = c.op, b.name = c.name, b.doubt = c.doubt, b.size = c.size,
           Long(f, d, o, c, t, sh, T)
    PROVE  Long(f, d, o, b, t, sh, U)
<1>1. \A n : ~Excused(c, T, n)
    BY DEF Excused
<1>2. \A k \in DOMAIN U : ~Enters(U[k]) /\ \A v : Spares(f, v, U[k])
    BY DEF Enters, Spares
<1>3. EntriesLong(f, d, b, sh, U)
    BY <1>1, <1>2 DEF Long, EntriesLong
<1>4. OpenLong(f, d, o, b, sh, U)
    BY <1>1, <1>2 DEF Long, OpenLong
<1>5. ComingLong(f, d, b, t, sh, U)
    BY <1>2 DEF ComingLong
<1>6. OwnLong(d, b, sh)
    BY DEF Long, OwnLong
<1>7. Doubted(d, b, t) = Doubted(d, c, t) /\ t \ b.doubt = t \ c.doubt
    BY DEF Doubted
<1> QED BY <1>3, <1>4, <1>5, <1>6, <1>7 DEF Long

\* These of a call are all that is looked at.
LEMMA SameLong ==
    ASSUME NEW f, NEW d, NEW o, NEW c, NEW b, NEW t, NEW sh, NEW T,
           b.op = c.op, b.name = c.name, b.doubt = c.doubt, b.failed = c.failed,
           b.size = c.size, Long(f, d, o, c, t, sh, T)
    PROVE  Long(f, d, o, b, t, sh, T)
<1>1. \A n : Excused(b, T, n) <=> Excused(c, T, n)
    BY DEF Excused
<1>2. Used(b) = Used(c) /\ Doubted(d, b, t) = Doubted(d, c, t) /\ t \ b.doubt = t \ c.doubt
    BY DEF Used, Doubted
<1>3. EntriesLong(f, d, b, sh, T) /\ OpenLong(f, d, o, b, sh, T)
    BY <1>1 DEF Long, EntriesLong, OpenLong
<1>4. ComingLong(f, d, b, t, sh, T)
    BY <1>2 DEF Long, ComingLong
<1>5. OwnLong(d, b, sh)
    BY <1>2 DEF Long, OwnLong
<1> QED BY <1>2, <1>3, <1>4, <1>5 DEF Long

\* An entry is written: it claims no more than its chain has, or the call that
\* extended the chain has yet to look at that.
LEMMA EnterLong ==
    ASSUME NEW f, NEW d, NEW e, NEW o, NEW c, NEW t, NEW sh, NEW T, NEW U, Follows(T, U),
           Typed(f, d, T), \A n \in DOMAIN o : o[n].cluster \in Clusters /\ o[n].size \in Nat,
           Sane(f, d, o, c, t), Ending(f, d, c, t, T), Enters(T[1]),
           CanEnter(f, d, c.name, t, {}, T[1]), \A k \in DOMAIN U : ~Enters(U[k]),
           c.op = "write" => c.doubt = {},
           Puts(d, e, T[1].at, T[1].value), Doubted(e, c, t) = t,
           Long(f, d, o, c, t, sh, T)
    PROVE  Long(f, e, o, c, t, sh, U)
<1> DEFINE v == T[1].value
           p == T[1].at
<1>1. /\ 1 \in DOMAIN T /\ DOMAIN T \subseteq Nat
      /\ \A k \in DOMAIN U : k + 1 \in DOMAIN T /\ U[k] = T[k + 1]
      /\ \A k \in DOMAIN U, j \in DOMAIN T :
           j < k + 1 /\ j # 1 => j - 1 \in DOMAIN U /\ j - 1 < k /\ U[j - 1] = T[j]
      /\ (\A k \in DOMAIN T : k <= 1) => DOMAIN U = {}
    BY LeftPlaces
<1>2. \A n : ~Excused(c, T, n)
    BY <1>1 DEF Excused
<1>3. v \in Entry /\ v.name = c.name /\ v.cluster \in Clusters /\ v.size \in Nat
    BY EntrySized DEF CanEnter
<1>4. /\ ~c.failed
      /\ c.op \in {"open", "write"} => c.name \notin t \ c.doubt
    BY <1>1 DEF Ending, Enters
<1>5. /\ \A s \in DOMAIN d :
           Claims(d, sh, s) /\ d[s].name \in t \ c.doubt => d[s].cluster # v.cluster
      /\ c.op \in {"open", "write"} => v.size <= Used(c)
      /\ c.name \in t \/ c.doubt = {}
      /\ v.size # 0 /\ c.name \notin sh =>
           IF c.op = "write" THEN \A j \in DOMAIN T : j <= 1
           ELSE /\ Headed(f, v.cluster) /\ Covers(f, v)
                /\ \A j \in DOMAIN T : Spares(f, v, T[j])
                /\ \A u \in DOMAIN d : d[u].name \notin t => d[u].cluster # v.cluster
                /\ c.name \notin t \ c.doubt
    BY <1>1, <1>3 DEF Long, ComingLong
<1>6. /\ DOMAIN e = DOMAIN d \cup {p} /\ e[p] = v
      /\ \A s \in DOMAIN e : s # p => s \in DOMAIN d /\ e[s] = d[s]
      /\ \A s \in DOMAIN e : s # p => (Claims(e, sh, s) <=> Claims(d, sh, s))
      /\ Claims(e, sh, p) <=> v.size # 0 /\ c.name \notin sh
    BY <1>3 DEF Puts, Claims
<1>7. IF p \in DOMAIN d THEN d[p].name = c.name /\ d[p].cluster = v.cluster
      ELSE \A s \in DOMAIN d : d[s].name # c.name
    BY DEF CanEnter
<1>8. /\ Owned(f, d, Doubted(d, c, t)) /\ NamesApart(d) /\ Matching(d, o, t)
      /\ Doubted(d, c, t) \subseteq t
      /\ Doubted(d, c, t) = t \/ Doubted(d, c, t) = t \ c.doubt
    BY DEF Sane, Doubted
<1> HIDE DEF v, p
<1>9. ASSUME v.size # 0, c.name \notin sh, c.op = "write"
      PROVE  DOMAIN U = {} /\ Headed(f, v.cluster) /\ c.name \notin t
    <2>1. DOMAIN U = {}
        BY <1>1, <1>5, <1>9
    <2>2. c.name \notin t
        BY <1>4, <1>9
    <2>3. v.cluster # Root /\ Unled(f, v.cluster)
        BY <2>2, <1>3 DEF CanEnter, Unled, v
    <2>4. f[v.cluster] # Free
        BY <2>2 DEF CanEnter, v
    <2> QED BY <2>1, <2>2, <2>3, <2>4 DEF Headed
<1>10. EntriesLong(f, e, c, sh, U)
    <2>1. ASSUME NEW s \in DOMAIN e, Claims(e, sh, s), s # p
          PROVE  /\ Headed(f, e[s].cluster) /\ Covers(f, e[s])
                 /\ \A k \in DOMAIN U :
                      \/ Spares(f, e[s], U[k])
                      \/ \E j \in DOMAIN U : j < k /\ Clears(U[j]) /\ U[j].at = s
        <3>1. s \in DOMAIN d /\ e[s] = d[s] /\ Claims(d, sh, s)
            BY <1>6, <2>1
        <3>2. Headed(f, d[s].cluster) /\ Covers(f, d[s])
            BY <1>2, <3>1 DEF Long, EntriesLong
        <3>3. ASSUME NEW k \in DOMAIN U
              PROVE  \/ Spares(f, d[s], U[k])
                     \/ \E j \in DOMAIN U : j < k /\ Clears(U[j]) /\ U[j].at = s
            <4>1. \/ Spares(f, d[s], U[k])
                  \/ \E j \in DOMAIN T : j < k + 1 /\ Clears(T[j]) /\ T[j].at = s
                BY <1>1, <3>1 DEF Long, EntriesLong
            <4>2. ASSUME NEW j \in DOMAIN T, j < k + 1, Clears(T[j]), T[j].at = s
                  PROVE  \E i \in DOMAIN U : i < k /\ Clears(U[i]) /\ U[i].at = s
                <5>1. j # 1
                    BY <4>2, Kinds
                <5>2. j - 1 \in DOMAIN U /\ j - 1 < k /\ U[j - 1] = T[j]
                    BY <1>1, <4>2, <5>1
                <5> QED BY <4>2, <5>2
            <4> QED BY <4>1, <4>2
        <3> QED BY <3>1, <3>2, <3>3
    <2>2. ASSUME Claims(e, sh, p)
          PROVE  /\ Headed(f, e[p].cluster)
                 /\ Covers(f, e[p]) \/ Excused(c, U, e[p].name)
                 /\ \A k \in DOMAIN U : Spares(f, e[p], U[k])
        <3>1. v.size # 0 /\ c.name \notin sh /\ e[p] = v
            BY <1>6, <2>2
        <3>2. CASE c.op = "write"
            BY <1>3, <1>4, <1>9, <3>1, <3>2 DEF Excused
        <3>3. CASE c.op # "write"
            BY <1>1, <1>5, <3>1, <3>3
        <3> QED BY <3>2, <3>3
    <2> QED BY <2>1, <2>2 DEF EntriesLong
<1>11. OpenLong(f, e, o, c, sh, U)
    <2> SUFFICES ASSUME NEW n \in DOMAIN o, n \notin sh
                 PROVE  /\ Covers(f, o[n])
                        /\ \A k \in DOMAIN U : Spares(f, o[n], U[k])
                        /\ \/ Excused(c, U, n)
                           \/ \A s \in DOMAIN e : e[s].name = n => e[s].size <= Used(o[n])
        BY DEF OpenLong
    <2>1. /\ Covers(f, o[n]) /\ \A k \in DOMAIN T : Spares(f, o[n], T[k])
          /\ \A s \in DOMAIN d : d[s].name = n => d[s].size <= Used(o[n])
        BY <1>2 DEF Long, OpenLong
    <2>2. Used(o[n]) \in Nat \ {0}
        BY UsedShape
    <2>3. ASSUME n = c.name, v.size # 0 PROVE Excused(c, U, n)
        <3>1. CASE c.op = "write"
            BY <1>4, <1>9, <2>3, <3>1 DEF Excused
        <3>2. CASE c.op # "write"
            <4>1. \A u \in DOMAIN d : d[u].name \notin t => d[u].cluster # v.cluster
                BY <1>5, <2>3, <3>2
            <4>2. /\ n \notin t /\ o[n].slot \in DOMAIN d /\ d[o[n].slot].name = n
                BY <1>8 DEF Matching
            <4>3. p \in DOMAIN d /\ d[p].name = n /\ d[p].cluster = v.cluster
                BY <1>7, <2>3, <4>2
            <4> QED BY <4>1, <4>2, <4>3
        <3> QED BY <3>1, <3>2
    <2>4. \/ Excused(c, U, n)
          \/ \A s \in DOMAIN e : e[s].name = n => e[s].size <= Used(o[n])
        <3> SUFFICES ASSUME ~Excused(c, U, n), NEW s \in DOMAIN e, e[s].name = n
                     PROVE  e[s].size <= Used(o[n])
            OBVIOUS
        <3>1. CASE s # p
            BY <1>6, <2>1, <3>1
        <3>2. CASE s = p
            <4>1. v.size = 0 /\ e[s] = v
                BY <1>3, <1>6, <2>3, <3>2
            <4> QED BY <4>1, <2>2
        <3> QED BY <3>1, <3>2
    <2> QED BY <1>1, <2>1, <2>4
<1>12. ASSUME NEW X, X = t \/ X = t \ c.doubt
       PROVE  KeptApart(e, sh, X)
    <2> SUFFICES ASSUME NEW s \in DOMAIN e, NEW u \in DOMAIN e, Claims(e, sh, s),
                        e[s].name \in X, e[u].name \notin X
                 PROVE  e[s].cluster # e[u].cluster
        BY DEF KeptApart
    <2>0. KeptApart(d, sh, Doubted(d, c, t)) /\ KeptApart(d, sh, t \ c.doubt)
        BY DEF Long
    <2>1. CASE s # p /\ u # p
        <3>1. /\ s \in DOMAIN d /\ u \in DOMAIN d /\ e[s] = d[s] /\ e[u] = d[u]
              /\ Claims(d, sh, s)
            BY <1>6, <2>1
        <3>2. CASE d[s].name \in Doubted(d, c, t) /\ d[u].name \notin Doubted(d, c, t)
            BY <2>0, <3>1, <3>2 DEF KeptApart
        <3>3. CASE d[s].name \in t \ c.doubt /\ d[u].name \notin t \ c.doubt
            BY <2>0, <3>1, <3>3 DEF KeptApart
        <3>4. CASE d[s].name \notin Doubted(d, c, t) /\ d[u].name \notin Doubted(d, c, t)
            <4>1. u \in DOMAIN d \ {s}
                BY <3>1
            <4> QED BY <1>8, <3>1, <3>4, <4>1 DEF Owned
        <3> QED BY <1>8, <1>12, <3>1, <3>2, <3>3, <3>4
    <2>2. CASE s = p /\ u # p
        <3>1. /\ u \in DOMAIN d /\ e[s] = v /\ e[u] = d[u] /\ v.size # 0 /\ c.name \notin sh
            BY <1>6, <2>2
        <3>2. c.name \in X
            BY <1>3, <3>1
        <3>3. c.op # "write"
            BY <1>9, <1>12, <3>1, <3>2
        <3>4. c.name \notin t \ c.doubt /\ (d[u].name \notin t => d[u].cluster # v.cluster)
            BY <1>5, <3>1, <3>3
        <3>5. X = t
            BY <1>12, <3>2, <3>4
        <3> QED BY <3>1, <3>4, <3>5
    <2>3. CASE s # p /\ u = p
        <3>1. s \in DOMAIN d /\ e[s] = d[s] /\ Claims(d, sh, s) /\ e[u] = v
            BY <1>6, <2>3
        <3>2. d[s].name \in t \ c.doubt
            BY <1>3, <1>5, <1>12, <3>1
        <3> QED BY <1>5, <3>1, <3>2
    <2> QED BY <2>1, <2>2, <2>3
<1>13. ComingLong(f, e, c, t, sh, U)
    BY DEF ComingLong
<1>14. OwnLong(e, c, sh)
    BY <1>5, <1>6 DEF Long, OwnLong
<1> QED BY <1>10, <1>11, <1>12, <1>13, <1>14 DEF Long

\* A write that nothing has failed of makes the chain as long as it says.
Grown(f, c, sh, q, T) ==
    /\ c.op = "write" /\ ~c.failed /\ c.name \notin sh /\ q = 0
    /\ \A k \in DOMAIN T : T[k].on # "nowhere"
    => \A g \in [Clusters -> Values] :
         Linked(g) /\ Final(f, T, g) => c.size <= Len(Chain(g, c.cluster))

\* Files have the clusters they claim, and keep them.
LongInv ==
    /\ Long(fat, dir, open, call, torn, short, call.todo)
    /\ Grown(fat, call, short, faults, call.todo)

LEMMA GrownNext ==
    ASSUME NEW f, NEW g, NEW c, NEW b, NEW sh, NEW q, NEW r, NEW T, NEW U, Follows(T, U),
           T[1].on # "nowhere",
           \A x \in Clusters :
               g[x] = IF T[1].on = "fat" /\ T[1].at = x THEN T[1].value ELSE f[x],
           b.op = c.op, b.name = c.name, b.failed = c.failed, b.cluster = c.cluster,
           b.size = c.size, r = 0 => q = 0, Grown(f, c, sh, q, T)
    PROVE  Grown(g, b, sh, r, U)
<1> SUFFICES ASSUME b.op = "write", ~b.failed, b.name \notin sh, r = 0,
                    \A k \in DOMAIN U : U[k].on # "nowhere",
                    NEW h \in [Clusters -> Values], Linked(h), Final(g, U, h)
             PROVE  c.size <= Len(Chain(h, c.cluster))
    BY DEF Grown
<1>1. Final(f, T, h)
    BY FinalBack
<1>2. \A k \in DOMAIN T : T[k].on # "nowhere"
    BY EarlierWrites
<1> QED BY <1>1, <1>2 DEF Grown

LEMMA LandLong ==
    ASSUME IInv, LongInv, WriteLands
    PROVE  LongInv'
<1> DEFINE T == call.todo
           U == Tail(T)
           h == T[1]
<1>1. /\ Types /\ call \in Calls /\ Sane(fat, dir, open, call, torn)
      /\ Ready(fat, dir, open, call, torn, T) /\ Sized(open, call)
      /\ Ending(fat, dir, call, torn, T) /\ fat \in [Clusters -> Values]
      /\ call.op = "write" => call.doubt = {}
    BY CallSized DEF IInv, Types
<1>2. /\ T # <<>> /\ Lands(fat, fat', dir, dir', h)
      /\ Typed(fat, dir, T) /\ Entries(dir) /\ Follows(T, U) /\ h \in DeviceWrites
    BY <1>1, LandTypes, TypeShape
<1>3. 1 \in DOMAIN T
    <2> HIDE DEF T, U
    <2> QED BY <1>2, EarlierWrites
<1>4. Long(fat, dir, open, call, torn, short, T) /\ Grown(fat, call, short, faults, T)
    BY DEF LongInv
<1>5. /\ open' = open /\ torn' = torn /\ short' = short /\ faults' = faults
      /\ call' = [call EXCEPT !.todo = U]
    BY DEF WriteLands
<1>6. /\ call'.todo = U /\ call'.op = call.op /\ call'.failed = call.failed
      /\ call'.cluster = call.cluster /\ call'.size = call.size
      /\ call'.doubt = call.doubt /\ call'.name = call.name
    <2> HIDE DEF U
    <2> QED BY <1>1, <1>5 DEF Calls
<1>7. Safe(fat, dir, open, call, torn, {}, Range(T), h)
    <2> HIDE DEF T, U
    <2> QED BY <1>1, <1>2, FirstSafe
<1>8. \A n \in DOMAIN open : open[n].cluster \in Clusters /\ open[n].size \in Nat
    BY <1>1 DEF Sized
<1> HIDE DEF T, U, h
<1>9. CASE h.on = "fat"
    <2>1. Becomes(fat, fat', h.at, h.value) /\ dir' = dir /\ h.at \in Clusters
        BY <1>2, <1>9, WriteShape DEF Lands
    <2>2. Long(fat', dir, open, call, torn, short, U)
        BY <1>2, <1>4, <1>8, <1>9, <2>1, TableLong DEF h
    <2>3. \A x \in Clusters : fat'[x] = IF h.on = "fat" /\ h.at = x THEN h.value ELSE fat[x]
        BY <1>9, <2>1 DEF Becomes
    <2>4. Grown(fat', call', short, faults, U)
        BY <1>2, <1>4, <1>6, <1>9, <2>3, GrownNext DEF h
    <2>5. Long(fat', dir, open, call', torn, short, U)
        BY <2>2, <1>6, SameLong
    <2> QED BY <2>1, <2>4, <2>5, <1>5, <1>6 DEF LongInv
<1>10. ASSUME h.on # "fat", h.on # "nowhere", fat' = fat,
              Long(fat, dir', open, call, torn, short, U)
       PROVE  LongInv'
    <2>1. \A x \in Clusters : fat'[x] = IF h.on = "fat" /\ h.at = x THEN h.value ELSE fat[x]
        BY <1>10
    <2>2. Grown(fat', call', short, faults, U)
        BY <1>2, <1>4, <1>6, <1>10, <2>1, GrownNext DEF h
    <2>3. Long(fat, dir', open, call', torn, short, U)
        BY <1>10, <1>6, SameLong
    <2> QED BY <1>10, <2>2, <2>3, <1>5, <1>6 DEF LongInv
<1>11. CASE Enters(h)
    <2>1. Puts(dir, dir', h.at, h.value) /\ fat' = fat /\ h.on # "fat" /\ h.on # "nowhere"
          /\ h.at \in 0 .. SlotsPerCluster * Len(Chain(fat, Root)) - 1
        BY <1>2, <1>11, Kinds DEF Lands, Enters
    <2>2. CanEnter(fat, dir, call.name, torn, {}, h)
        BY <1>7, <1>11 DEF Safe
    <2>3. Doubted(dir', call, torn) = torn
        BY <1>1, <1>7, <1>11, <2>1, EnterSane
    <2>4. \A k \in DOMAIN U : ~Enters(U[k])
        <3> SUFFICES ASSUME NEW k \in DOMAIN U, Enters(U[k])
                     PROVE  FALSE
            OBVIOUS
        <3>1. k + 1 \in DOMAIN T /\ U[k] = T[k + 1] /\ h \in Before(T, k + 1)
            BY <1>2 DEF Follows, h
        <3>2. CanEnter(fat, dir, call.name, torn, Before(T, k + 1), T[k + 1])
            BY <1>1, <3>1 DEF Ready, Safe
        <3> QED BY <1>11, <3>1, <3>2 DEF CanEnter
    <2>5. Long(fat, dir', open, call, torn, short, U)
        BY <1>1, <1>2, <1>4, <1>8, <1>11, <2>1, <2>2, <2>3, <2>4, EnterLong DEF h
    <2> QED BY <1>10, <2>1, <2>5
<1>12. CASE Clears(h)
    <2>1. Takes(dir, dir', h.at) /\ fat' = fat /\ h.on # "fat" /\ h.on # "nowhere"
        BY <1>2, <1>12, Kinds DEF Lands, Clears
    <2>2. Doubted(dir', call, torn) = Doubted(dir, call, torn)
        BY <1>1, <1>7, <1>12, <2>1, ClearSane
    <2>3. Long(fat, dir', open, call, torn, short, U)
        BY <1>2, <1>4, <1>12, <2>1, <2>2, ClearLong DEF h
    <2> QED BY <1>10, <2>1, <2>3
<1>13. CASE h.on \notin {"fat", "dir"}
    <2>1. fat' = fat /\ dir' = dir /\ h.on # "nowhere" /\ ~Clears(h)
        BY <1>2, <1>13 DEF Lands, Clears
    <2>2. Long(fat, dir, open, call, torn, short, U)
        BY <1>2, <1>4, <2>1, SkipLong DEF h
    <2> QED BY <1>10, <1>13, <2>1, <2>2
<1> QED BY <1>9, <1>11, <1>12, <1>13 DEF Enters, Clears

\* A write or read fails.
LEMMA FailLong ==
    ASSUME IInv, LongInv, WriteFails \/ ReadFails
    PROVE  LongInv'
<1> DEFINE T == call.todo
           U == call'.todo
           V == Tail(T)
           W == Tail(V)
           h == T[1]
<1>1. /\ Types /\ call \in Calls /\ T # <<>>
      /\ \/ U = V /\ call'.failed = call.failed /\ h.onFail = "ignore"
         \/ /\ U = W /\ call'.failed = call.failed /\ h.onFail = "ignore"
            /\ h.on = "fat" /\ ReadFails
         \/ (\A k \in DOMAIN U : U[k].on = "bak") /\ call'.failed
      /\ call'.op = call.op /\ call'.cluster = call.cluster /\ call'.size = call.size
      /\ call'.doubt = call.doubt /\ call'.name = call.name
      /\ UNCHANGED <<fat, dir, open, torn, short>>
      /\ faults' = faults + 1 \/ (faults' = faults /\ Refused(h) /\ WriteFails)
    BY FailShape
<1>2. Follows(T, V) /\ h \in DeviceWrites /\ Head(T) = h /\ V \in Seq(DeviceWrites)
    BY <1>1, TypeShape
<1>3. Long(fat, dir, open, call, torn, short, T) /\ Grown(fat, call, short, faults, T)
      /\ Ready(fat, dir, open, call, torn, T) /\ faults \in Nat
    BY DEF LongInv, IInv, Types
<1>4. 1 \in DOMAIN T
    <2> HIDE DEF T, V
    <2> QED BY <1>2, EarlierWrites
<1>5. h.onFail = "ignore" => ~Clears(h) /\ h.on # "nowhere"
    <2>1. h.onFail = "ignore" => ~Clears(h)
        <3> HIDE DEF T
        <3> QED BY <1>3, <1>4, FirmClears DEF h
    <2> QED BY <2>1, <1>2 DEF DeviceWrites
<1>6. h.onFail = "ignore" => Long(fat, dir, open, call, torn, short, V)
    <2> HIDE DEF T, V
    <2> QED BY <1>2, <1>3, <1>5, SkipLong DEF h
<1>7. ASSUME h.onFail = "ignore", h.on = "fat"
      PROVE  Long(fat, dir, open, call, torn, short, W)
    <2>1. V # <<>> /\ Head(V).on = "bak"
        BY <1>1, <1>2, <1>7, SecondCopy
    <2>2. Follows(V, W) /\ Head(V) = V[1]
        BY <1>2, <2>1, TailFollows
    <2>3. Long(fat, dir, open, call, torn, short, V)
        BY <1>6, <1>7
    <2> HIDE DEF V
    <2>4. ~Clears(V[1])
        BY <2>1, <2>2 DEF Clears
    <2> HIDE DEF W
    <2> QED BY <2>2, <2>3, <2>4, SkipLong DEF W
<1> HIDE DEF T, U, V, W, h
<1>8. Long(fat, dir, open, call', torn, short, U)
    <2>1. CASE (\A k \in DOMAIN U : U[k].on = "bak") /\ call'.failed
        BY <1>1, <1>3, <1>4, <2>1, StopLong
    <2>2. CASE Long(fat, dir, open, call, torn, short, U) /\ call'.failed = call.failed
        BY <1>1, <2>2, SameLong
    <2> QED BY <1>1, <1>6, <1>7, <2>1, <2>2
<1>9. Grown(fat, call', short, faults', U)
    <2>1. CASE faults' = faults + 1
        BY <1>3, <2>1 DEF Grown
    <2>2. CASE call'.failed
        BY <2>2 DEF Grown
    <2>3. CASE faults' = faults /\ Refused(h) /\ U = V /\ call'.failed = call.failed
               /\ h.onFail = "ignore"
        <3>1. h.on # "fat" /\ h.on # "nowhere"
            BY <1>5, <2>3 DEF Refused
        <3>2. \A x \in Clusters : fat[x] = IF h.on = "fat" /\ h.at = x THEN h.value ELSE fat[x]
            BY <3>1
        <3> QED BY <1>1, <1>2, <1>3, <2>3, <3>1, <3>2, GrownNext DEF h
    <2>4. ASSUME ReadFails PROVE faults' = faults + 1
        BY <2>4 DEF ReadFails
    <2> QED BY <1>1, <2>1, <2>2, <2>3, <2>4
<1> QED BY <1>1, <1>8, <1>9 DEF LongInv, U

-----------------------------------------------------------------------------
(* A call ends *)

\* Between two calls no writes are left, and no entry is excused.
Steady(f, d, o, t, sh) ==
    /\ \A s \in DOMAIN d : Claims(d, sh, s) => Headed(f, d[s].cluster) /\ Covers(f, d[s])
    /\ \A n \in DOMAIN o : n \notin sh =>
         /\ Covers(f, o[n])
         /\ \A s \in DOMAIN d : d[s].name = n => d[s].size <= Used(o[n])
    /\ KeptApart(d, sh, t)

LEMMA IdleLong ==
    ASSUME NEW f, NEW d, NEW o, NEW t, NEW sh
    PROVE  Steady(f, d, o, t, sh) <=> Long(f, d, o, Idle, t, sh, <<>>)
<1>1. Idle.op = "idle" /\ Doubted(d, Idle, t) = t /\ t \ Idle.doubt = t
    BY IdleShape
<1>2. DOMAIN <<>> = {}
    BY StandsStill
<1>3. \A n : ~Excused(Idle, <<>>, n)
    BY <1>1 DEF Excused
<1>4. ComingLong(f, d, Idle, t, sh, <<>>) /\ OwnLong(d, Idle, sh)
    BY <1>1, <1>2 DEF ComingLong, OwnLong
<1>5. EntriesLong(f, d, Idle, sh, <<>>) <=>
        \A s \in DOMAIN d : Claims(d, sh, s) => Headed(f, d[s].cluster) /\ Covers(f, d[s])
    BY <1>2, <1>3 DEF EntriesLong
<1>6. OpenLong(f, d, o, Idle, sh, <<>>) <=>
        \A n \in DOMAIN o : n \notin sh =>
            /\ Covers(f, o[n])
            /\ \A s \in DOMAIN d : d[s].name = n => d[s].size <= Used(o[n])
    BY <1>2, <1>3 DEF OpenLong
<1> QED BY <1>1, <1>4, <1>5, <1>6 DEF Long, Steady

LEMMA RestLong ==
    ASSUME IInv, LongInv, call = Idle
    PROVE  Steady(fat, dir, open, torn, short)
BY IdleLong, IdleShape DEF LongInv

LEMMA LongAgain ==
    ASSUME call' = Idle, Steady(fat', dir', open', torn', short')
    PROVE  LongInv'
<1>1. call'.todo = <<>> /\ call'.op # "write"
    BY IdleShape
<1>2. Long(fat', dir', open', Idle, torn', short', <<>>)
    BY IdleLong
<1>3. Grown(fat', call', short', faults', <<>>)
    BY <1>1 DEF Grown
<1> QED BY <1>1, <1>2, <1>3 DEF LongInv

\* A write that ends is as long as its entry says, unless the call finds out
\* that it is not, which a failure brought about.
LEMMA WrittenLong ==
    ASSUME IInv, LongInv, call.todo = <<>>, call.op = "write", ~call.failed
    PROVE  /\ faults = 0 /\ call.name \notin short => ~Missing
           /\ ~Missing => Covers(fat, call)
           /\ \A s \in DOMAIN dir : dir[s].name = call.name =>
                /\ s = call.slot /\ dir[s].cluster = call.cluster
                /\ call.name \notin torn \ call.doubt
                /\ ~Missing /\ call.name \notin short => Covers(fat, dir[s])
                /\ ~Missing /\ dir[s].size = call.size => Covers(fat, dir[s])
<1>1. /\ Grown(fat, call, short, faults, <<>>) /\ OwnLong(dir, call, short)
      /\ call \in Calls /\ Linked(fat) /\ fat \in [Clusters -> Values] /\ NamesApart(dir)
      /\ Entries(dir)
    BY DEF LongInv, Long, IInv, Sane, Types, Entries
<1>2. /\ call.cluster \in Clusters /\ call.slot \in DOMAIN dir
      /\ dir[call.slot].name = call.name /\ dir[call.slot].cluster = call.cluster
      /\ call.name \notin torn \ call.doubt
    BY AtEnd
<1>3. /\ Len(Chain(fat, call.cluster)) \in Nat \ {0} /\ call.size \in Nat
    BY <1>1, <1>2, ChainFacts, CallShape
<1>4. Final(fat, <<>>, fat) /\ DOMAIN <<>> = {}
    BY StandsStill
<1>5. ASSUME faults = 0, call.name \notin short PROVE ~Missing
    <2>1. call.size <= Len(Chain(fat, call.cluster))
        BY <1>1, <1>4, <1>5 DEF Grown
    <2> QED BY <2>1, <1>3 DEF Missing
<1>6. ~Missing => Covers(fat, call)
    BY <1>3 DEF Missing, Covers
<1>7. ASSUME NEW s \in DOMAIN dir, dir[s].name = call.name
      PROVE  /\ s = call.slot /\ dir[s].cluster = call.cluster
             /\ ~Missing /\ call.name \notin short => Covers(fat, dir[s])
             /\ ~Missing /\ dir[s].size = call.size => Covers(fat, dir[s])
    <2>1. s = call.slot /\ dir[s].cluster = call.cluster
        BY <1>1, <1>2, <1>7 DEF NamesApart
    <2>2. ASSUME ~Missing, call.name \notin short PROVE Covers(fat, dir[s])
        <3>1. dir[s].size <= Used(call)
            BY <1>1, <1>7, <2>2 DEF OwnLong
        <3>2. Used(call) <= Len(Chain(fat, call.cluster))
            BY <1>3, <1>6, <2>2 DEF Covers, Used
        <3>3. dir[s].size \in Nat /\ Used(call) \in Nat
            BY <1>1, <1>3, EntrySized, UsedShape DEF Entries
        <3> QED BY <3>1, <3>2, <3>3, <1>3, <2>1 DEF Covers
    <2>3. ASSUME ~Missing, dir[s].size = call.size PROVE Covers(fat, dir[s])
        BY <1>6, <2>1, <2>3 DEF Covers
    <2> QED BY <2>1, <2>2, <2>3
<1> QED BY <1>2, <1>5, <1>6, <1>7

LEMMA CrashLong ==
    ASSUME IInv, LongInv, Crash
    PROVE  LongInv'
<1>1. /\ call' = Idle /\ open' = <<>> /\ torn' = StillTorn /\ UNCHANGED <<fat, dir>>
      /\ short' = IF Missing /\ faults > 0 THEN short \cup {call.name} ELSE short
      /\ faults \in Nat /\ call.todo \in Seq(DeviceWrites)
    BY CallShape DEF Crash, IInv, Types
<1>2. /\ EntriesLong(fat, dir, call, short, call.todo)
      /\ KeptApart(dir, short, torn')
    BY <1>1 DEF LongInv, Long, StillTorn, Exists, Doubted
<1>3. ASSUME NEW s \in DOMAIN dir, Claims(dir, short', s)
      PROVE  Claims(dir, short, s) /\ Headed(fat, dir[s].cluster) /\ Covers(fat, dir[s])
    <2>1. Claims(dir, short, s)
        BY <1>1, <1>3 DEF Claims
    <2>2. /\ Headed(fat, dir[s].cluster)
          /\ Covers(fat, dir[s]) \/ Excused(call, call.todo, dir[s].name)
        BY <1>2, <2>1 DEF EntriesLong
    <2>3. ASSUME Excused(call, call.todo, dir[s].name) PROVE Covers(fat, dir[s])
        <3>0. call.todo # <<>> => 1 \in DOMAIN call.todo
            BY <1>1, TailFollows
        <3>1. call.todo = <<>> /\ call.op = "write" /\ ~call.failed /\ dir[s].name = call.name
            BY <3>0, <2>3 DEF Excused
        <3>2. call.name \notin short /\ call.name \notin short'
            BY <1>3, <2>1, <3>1 DEF Claims
        <3>3. ~Missing
            BY <1>1, <3>1, <3>2, WrittenLong
        <3> QED BY <3>1, <3>2, <3>3, WrittenLong
    <2> QED BY <2>1, <2>2, <2>3
<1>4. KeptApart(dir, short', torn')
    BY <1>2, <1>3 DEF KeptApart
<1>5. Steady(fat, dir, open', torn', short')
    <2>1. DOMAIN open' = {}
        BY <1>1
    <2> QED BY <2>1, <1>3, <1>4 DEF Steady
<1> QED BY <1>1, <1>5, LongAgain

LEMMA ReturnLong ==
    ASSUME IInv, LongInv, Return
    PROVE  LongInv'
<1> DEFINE n == call.name
<1>1. /\ call.todo = <<>> /\ call' = Idle /\ UNCHANGED <<fat, dir, faults>>
      /\ open' = IF call.op \in {"open", "write"} /\ ~call.failed
                 THEN Opened(open, n, call.slot, call.cluster, call.size) ELSE open
      /\ torn' = IF call.failed \/ Missing THEN StillTorn ELSE torn \ call.doubt
      /\ short' = IF call.op # "write" \/ call.failed THEN short
                  ELSE IF Missing /\ faults > 0 THEN short \cup {n}
                  ELSE IF /\ call.slot \in DOMAIN dir /\ dir[call.slot].name = n
                          /\ dir[call.slot].size = call.size /\ ~Missing
                       THEN short \ {n} ELSE short
    BY DEF Return
<1>2. /\ EntriesLong(fat, dir, call, short, <<>>) /\ OpenLong(fat, dir, open, call, short, <<>>)
      /\ OwnLong(dir, call, short) /\ KeptApart(dir, short, torn') /\ faults \in Nat
      /\ call \in Calls /\ call.size \in Nat
    BY <1>1, CallShape DEF LongInv, Long, StillTorn, Exists, Doubted, IInv, Types
<1>3. Owned(fat, dir, torn') /\ torn' \subseteq torn
    BY <1>1, AtEnd
<1>4. call.op = "write" => torn' \subseteq torn \ call.doubt
    BY <1>3 DEF IInv
<1>5. ASSUME call.op = "write", ~call.failed, n \notin short'
      PROVE  ~Missing
    BY <1>1, <1>2, <1>5, WrittenLong
<1>6. ASSUME n \notin short', n \in short
      PROVE  /\ call.op = "write" /\ ~call.failed /\ ~Missing
             /\ \A s \in DOMAIN dir : dir[s].name = n => dir[s].size = call.size
    <2>1. call.op = "write" /\ ~call.failed /\ ~Missing /\ dir[call.slot].size = call.size
        BY <1>1, <1>6
    <2> QED BY <1>1, <2>1, WrittenLong
<1>7. \A m : m \notin short' /\ m # n => m \notin short
    BY <1>1
<1> HIDE DEF n
<1>8. ASSUME NEW s \in DOMAIN dir, Claims(dir, short', s)
      PROVE  /\ Headed(fat, dir[s].cluster) /\ Covers(fat, dir[s])
             /\ Claims(dir, short, s) \/ dir[s].name \notin torn'
    <2>1. CASE dir[s].name \in short
        <3>1. dir[s].name = n /\ n \notin short'
            BY <1>7, <1>8, <2>1 DEF Claims
        <3>2. call.op = "write" /\ ~call.failed /\ ~Missing /\ dir[s].size = call.size
            BY <1>6, <2>1, <3>1
        <3>3. Covers(fat, dir[s]) /\ n \notin torn \ call.doubt
            BY <1>1, <3>1, <3>2, WrittenLong DEF n
        <3>4. n \notin torn'
            BY <1>4, <3>2, <3>3
        <3>5. Headed(fat, dir[s].cluster)
            BY <1>3, <3>1, <3>4 DEF Owned, Headed, Unled
        <3> QED BY <3>1, <3>3, <3>4, <3>5
    <2>2. CASE dir[s].name \notin short
        <3>1. Claims(dir, short, s)
            BY <1>8, <2>2 DEF Claims
        <3>2. /\ Headed(fat, dir[s].cluster)
              /\ Covers(fat, dir[s]) \/ Excused(call, <<>>, dir[s].name)
            BY <1>2, <3>1 DEF EntriesLong
        <3>3. ASSUME Excused(call, <<>>, dir[s].name) PROVE Covers(fat, dir[s])
            <4>1. call.op = "write" /\ ~call.failed /\ dir[s].name = n
                BY <3>3 DEF Excused, n
            <4>2. ~Missing
                BY <1>5, <1>8, <4>1 DEF Claims
            <4> QED BY <1>1, <2>2, <4>1, <4>2, WrittenLong DEF n
        <3> QED BY <3>1, <3>2, <3>3
    <2> QED BY <2>1, <2>2
<1>9. ASSUME NEW m \in DOMAIN open', m \notin short'
      PROVE  /\ Covers(fat, open'[m])
             /\ \A s \in DOMAIN dir : dir[s].name = m => dir[s].size <= Used(open'[m])
    <2>1. CASE m = n /\ call.op \in {"open", "write"} /\ ~call.failed
        <3>1. open'[m].cluster = call.cluster /\ open'[m].size = call.size
            BY <1>1, <2>1 DEF Opened, n
        <3>2. call.cluster \in Clusters
            BY <1>1, <2>1, AtEnd
        <3>3. Covers(fat, call)
            <4>1. CASE call.op = "write"
                BY <1>1, <1>5, <1>9, <2>1, <4>1, WrittenLong
            <4>2. CASE call.op = "open"
                <5>1. call.size = 0
                    BY <1>2, <4>2 DEF OwnLong
                <5> QED BY <3>2, <5>1, ChainFacts DEF Covers
            <4> QED BY <2>1, <4>1, <4>2
        <3>4. ASSUME NEW s \in DOMAIN dir, dir[s].name = m PROVE dir[s].size <= Used(call)
            <4>1. CASE n \in short
                <5>1. dir[s].size = call.size
                    BY <1>6, <1>9, <2>1, <3>4, <4>1
                <5> QED BY <5>1, <1>2 DEF Used
            <4>2. CASE n \notin short
                BY <1>2, <2>1, <3>4, <4>2 DEF OwnLong, n
            <4> QED BY <4>1, <4>2
        <3> QED BY <3>1, <3>3, <3>4 DEF Covers, Used
    <2>2. CASE ~(m = n /\ call.op \in {"open", "write"} /\ ~call.failed)
        <3>1. m \in DOMAIN open /\ open'[m] = open[m]
            BY <1>1, <1>9, <2>2 DEF Opened, n
        <3>2. m \notin short
            BY <1>6, <1>7, <1>9, <2>2
        <3>3. ~Excused(call, <<>>, m)
            BY <2>2 DEF Excused, n
        <3> QED BY <1>2, <3>1, <3>2, <3>3 DEF OpenLong
    <2> QED BY <2>1, <2>2
<1>10. KeptApart(dir, short', torn')
    BY <1>2, <1>8 DEF KeptApart
<1>11. Steady(fat, dir, open', torn', short')
    BY <1>8, <1>9, <1>10 DEF Steady
<1> QED BY <1>1, <1>11, LongAgain

LEMMA OpenExistingLong ==
    ASSUME IInv, LongInv, NEW n \in Names, OpenExisting(n)
    PROVE  LongInv'
<1> DEFINE p == SlotOf(n)
<1>1. /\ call = Idle /\ Exists(n) /\ n \notin DOMAIN open
      /\ open' = Opened(open, n, p, dir[p].cluster, dir[p].size)
      /\ UNCHANGED <<fat, dir, call, torn, short>>
    BY DEF OpenExisting, Sound
<1>2. Steady(fat, dir, open, torn, short) /\ NamesApart(dir) /\ Entries(dir)
    BY <1>1, RestLong, AtStart
<1>3. p \in DOMAIN dir /\ dir[p].name = n
    BY <1>1, SlotShape
<1>4. \A s \in DOMAIN dir : dir[s].name = n => s = p
    BY <1>2, <1>3 DEF NamesApart
<1> HIDE DEF p
<1>5. dir[p].cluster \in Clusters /\ dir[p].size \in Nat
    BY <1>2, <1>3, EntrySized DEF Entries
<1>6. ASSUME NEW m \in DOMAIN open', m \notin short
      PROVE  /\ Covers(fat, open'[m])
             /\ \A s \in DOMAIN dir : dir[s].name = m => dir[s].size <= Used(open'[m])
    <2>1. CASE m = n
        <3>1. open'[m].cluster = dir[p].cluster /\ open'[m].size = dir[p].size
            BY <1>1, <2>1 DEF Opened
        <3>2. Covers(fat, dir[p])
            <4>1. CASE dir[p].size = 0
                BY <4>1, <1>5, ChainFacts DEF Covers
            <4>2. CASE dir[p].size # 0
                BY <4>2, <1>2, <1>3, <1>6, <2>1 DEF Steady, Claims
            <4> QED BY <4>1, <4>2
        <3>3. dir[p].size <= Used(open'[m])
            BY <1>5, <3>1 DEF Used
        <3> QED BY <1>4, <2>1, <3>1, <3>2, <3>3 DEF Covers
    <2>2. CASE m # n
        BY <1>1, <1>2, <1>6, <2>2 DEF Opened, Steady
    <2> QED BY <2>1, <2>2
<1>7. Steady(fat, dir, open', torn, short)
    BY <1>2, <1>6 DEF Steady
<1> QED BY <1>1, <1>7, LongAgain

LEMMA CloseLong ==
    ASSUME IInv, LongInv, NEW n \in DOMAIN open, Close(n)
    PROVE  LongInv'
<1>1. /\ call = Idle /\ open' = [m \in DOMAIN open \ {n} |-> open[m]]
      /\ UNCHANGED <<fat, dir, call, torn, short>>
    BY DEF Close
<1>2. Steady(fat, dir, open, torn, short)
    BY <1>1, RestLong
<1>3. Steady(fat, dir, open', torn, short)
    BY <1>1, <1>2 DEF Steady
<1> QED BY <1>1, <1>3, LongAgain

LEMMA InitLong ==
    ASSUME Init
    PROVE  LongInv
<1>1. DOMAIN dir = {} /\ DOMAIN open = {} /\ call = Idle /\ torn = {}
    BY DEF Init
<1>2. Steady(fat, dir, open, torn, short)
    BY <1>1 DEF Steady, KeptApart
<1>3. Grown(fat, Idle, short, faults, <<>>)
    BY IdleShape DEF Grown
<1> QED BY <1>1, <1>2, <1>3, IdleLong, IdleShape DEF LongInv

-----------------------------------------------------------------------------
(* A call starts *)

\* A write that touches chains of free clusters, the directory's and that of x only.
Meant(x, w) ==
    w.on = "fat" =>
        /\ Links(w) => fat[w.value] = Free
        /\ \/ fat[w.at] = Free
           \/ w.at \in Range(Chain(fat, Root))
           \/ w.at \in Range(Chain(fat, x))

LEMMA Unharmed ==
    ASSUME IInv, call = Idle, NEW x \in Clusters, Unled(fat, x),
           NEW y \in Clusters, Headed(fat, y), y # x, NEW w, Meant(x, w)
    PROVE  \A e : e.cluster = y => Spares(fat, e, w)
<1>1. /\ Linked(fat) /\ Unled(fat, Root) /\ Root \in Clusters
    BY AtStart
<1>2. /\ y # Root /\ fat[y] # Free /\ Unled(fat, y)
    BY DEF Headed
<1> DEFINE S == Range(Chain(fat, y))
<1>3. S \cap Range(Chain(fat, x)) = {} /\ S \cap Range(Chain(fat, Root)) = {}
    BY <1>1, <1>2, ChainsDisjoint
<1>4. \A z \in S : fat[z] # Free
    BY <1>1, <1>2, ChainUsed
<1>5. y \in S /\ \A i \in DOMAIN Chain(fat, y) : Chain(fat, y)[i] \in S
    BY ChainIn DEF Range
<1> HIDE DEF S
<1>6. w.on = "fat" => w.at \notin S /\ (Links(w) => w.value # y)
    BY <1>2, <1>3, <1>4 DEF Meant
<1> QED BY <1>5, <1>6 DEF Spares

\* What holds of a claim holds still when the names that are short change so.
LEMMA StartLong ==
    ASSUME IInv, LongInv, NEW c, Start(c), Sure(c.doubt), Exists(c.name) => c.doubt \subseteq short',
           \A s \in DOMAIN dir : dir[s].name \in short => dir[s].name \in short',
           NEW x \in Clusters, Unled(fat, x), \A k \in DOMAIN c.todo : Meant(x, c.todo[k]),
           \A s \in DOMAIN dir : Claims(dir, short', s) /\ dir[s].cluster = x =>
               \A k \in DOMAIN c.todo :
                   \/ Spares(fat, dir[s], c.todo[k])
                   \/ \E j \in DOMAIN c.todo : j < k /\ Clears(c.todo[j]) /\ c.todo[j].at = s,
           \A n \in DOMAIN open : open[n].cluster = x /\ n \notin short' =>
               \A k \in DOMAIN c.todo : Spares(fat, open[n], c.todo[k]),
           ComingLong(fat, dir, c, OldTorn \cup c.doubt, short', c.todo),
           OwnLong(dir, c, short'), Grown(fat, c, short', faults', c.todo)
    PROVE  LongInv'
<1> DEFINE t == OldTorn \cup c.doubt
<1>1. call = Idle /\ call' = c /\ torn' = t /\ UNCHANGED <<fat, dir, open>>
    BY DEF Start, OldTorn
<1>2. /\ Steady(fat, dir, open, torn, short) /\ Matching(dir, open, torn)
      /\ Owned(fat, dir, OldTorn) /\ Entries(dir)
    BY <1>1, RestLong, AtStart
<1>3. \A s \in DOMAIN dir : dir[s].name \notin OldTorn <=> dir[s].name \notin torn
    BY DEF OldTorn, Exists
<1>4. ASSUME NEW s \in DOMAIN dir, Claims(dir, short', s)
      PROVE  Claims(dir, short, s) /\ Headed(fat, dir[s].cluster) /\ Covers(fat, dir[s])
    <2>1. Claims(dir, short, s)
        BY <1>4 DEF Claims
    <2> QED BY <2>1, <1>2 DEF Steady
<1>5. EntriesLong(fat, dir, c, short', c.todo)
    <2> SUFFICES ASSUME NEW s \in DOMAIN dir, Claims(dir, short', s), NEW k \in DOMAIN c.todo
                 PROVE  \/ Spares(fat, dir[s], c.todo[k])
                        \/ \E j \in DOMAIN c.todo :
                             j < k /\ Clears(c.todo[j]) /\ c.todo[j].at = s
        BY <1>4 DEF EntriesLong
    <2>1. ASSUME dir[s].cluster # x PROVE Spares(fat, dir[s], c.todo[k])
        <3>1. dir[s].cluster \in Clusters
            BY <1>2, EntrySized DEF Entries
        <3> QED BY <3>1, <2>1, <1>1, <1>4, Unharmed
    <2> QED BY <2>1
<1>6. OpenLong(fat, dir, open, c, short', c.todo)
    <2> SUFFICES ASSUME NEW n \in DOMAIN open, n \notin short'
                 PROVE  /\ Covers(fat, open[n])
                        /\ \A k \in DOMAIN c.todo : Spares(fat, open[n], c.todo[k])
                        /\ \A s \in DOMAIN dir : dir[s].name = n => dir[s].size <= Used(open[n])
        BY DEF OpenLong
    <2>1. PICK s \in DOMAIN dir : dir[s].name = n /\ dir[s].cluster = open[n].cluster
                                  /\ n \notin torn
        BY <1>2 DEF Matching
    <2>2. n \notin short
        BY <2>1
    <2>3. Headed(fat, open[n].cluster) /\ open[n].cluster \in Clusters
        BY <1>2, <1>3, <2>1, EntrySized DEF Owned, Headed, Unled, Entries
    <2>4. ASSUME NEW k \in DOMAIN c.todo, open[n].cluster # x
          PROVE  Spares(fat, open[n], c.todo[k])
        BY <2>3, <2>4, <1>1, Unharmed
    <2> QED BY <1>2, <2>2, <2>4 DEF Steady
<1>7. KeptApart(dir, short', t \ c.doubt)
    <2> SUFFICES ASSUME NEW s \in DOMAIN dir, NEW u \in DOMAIN dir, Claims(dir, short', s),
                        dir[s].name \in t \ c.doubt, dir[u].name \notin t \ c.doubt
                 PROVE  dir[s].cluster # dir[u].cluster
        BY DEF KeptApart
    <2>1. dir[s].name \in torn /\ dir[u].name \notin torn
        BY <1>3 DEF Sure
    <2> QED BY <1>2, <1>4, <2>1 DEF Steady, KeptApart
<1>8. ASSUME Exists(c.name) PROVE KeptApart(dir, short', t)
    <2> SUFFICES ASSUME NEW s \in DOMAIN dir, NEW u \in DOMAIN dir, Claims(dir, short', s),
                        dir[s].name \in t, dir[u].name \notin t
                 PROVE  dir[s].cluster # dir[u].cluster
        BY DEF KeptApart
    <2>1. dir[s].name \in torn /\ dir[u].name \notin torn
        BY <1>3, <1>8 DEF Claims
    <2> QED BY <1>2, <1>4, <2>1 DEF Steady, KeptApart
<1>9. KeptApart(dir, short', Doubted(dir, c, t))
    BY <1>7, <1>8 DEF Doubted, Exists
<1>10. Long(fat, dir, open, c, t, short', c.todo)
    BY <1>5, <1>6, <1>7, <1>9 DEF Long
<1> QED BY <1>1, <1>10 DEF LongInv

\* No claim but its own entry's is to the chain of a file that is not torn.
LEMMA OwnAlone ==
    ASSUME IInv, LongInv, call = Idle, NEW p \in DOMAIN dir, dir[p].name \notin OldTorn,
           NEW s \in DOMAIN dir, Claims(dir, short, s), dir[s].cluster = dir[p].cluster
    PROVE  s = p
<1>1. Steady(fat, dir, open, torn, short) /\ Owned(fat, dir, OldTorn)
    BY RestLong, AtStart
<1>2. dir[p].name \notin torn /\ (dir[s].name \notin OldTorn => dir[s].name \notin torn)
    BY DEF OldTorn, Exists
<1>3. dir[s].name \notin torn
    BY <1>1, <1>2 DEF Steady, KeptApart
<1>4. dir[s].name \notin OldTorn
    BY <1>3 DEF OldTorn
<1> QED BY <1>1, <1>4 DEF Owned

LEMMA ResetMeant ==
    ASSUME NEW x, NEW s \in Seq(Clusters), s # <<>>, Range(s) \subseteq Range(Chain(fat, x))
    PROVE  \A w \in Range(Reset(s)) :
               w \in DeviceWrites /\ Meant(x, w) /\ ~Enters(w) /\ ~Clears(w)
<1> DEFINE T == Reset(s)
<1>1. T \in Seq(DeviceWrites)
    BY ResetShape
<1>2. \A w \in Range(T) : /\ ~Links(w) /\ ~Enters(w) /\ ~Clears(w)
                          /\ Marks(w) \/ Frees(w) => w.at \in Range(s)
    BY ResetWrites
<1> HIDE DEF T
<1>3. \A w \in Range(T) : w \in DeviceWrites
    BY <1>1, ElementOfSeq DEF Range
<1>4. \A w \in DeviceWrites : w.on = "fat" => Marks(w) \/ Frees(w) \/ Links(w)
    BY DEF DeviceWrites, Values, Marks, Frees, Links
<1> QED BY <1>2, <1>3, <1>4 DEF Meant, T

LEMMA OpenTruncatedLong ==
    ASSUME IInv, LongInv, NEW n \in Names, OpenTruncated(n)
    PROVE  LongInv'
<1> DEFINE p == SlotOf(n)
           x == dir[p].cluster
<1>1. Exists(n) /\ n \notin torn /\ n \notin DOMAIN open /\ short' = short \cup {n}
    BY DEF OpenTruncated, Sound
<1>2. PICK seen \in Seen(x) :
        Start([Idle EXCEPT !.op = "open", !.name = n, !.slot = p,
                           !.cluster = x, !.doubt = {n},
                           !.got = ToSet(Tail(Chain(fat, x))),
                           !.left = ToSet(Chain(fat, x)) \ ToSet(seen),
                           !.todo = Reset(seen)])
    BY DEF OpenTruncated
<1> DEFINE T == Reset(seen)
           G == ToSet(Tail(Chain(fat, x)))
           L == ToSet(Chain(fat, x)) \ ToSet(seen)
           c == [Idle EXCEPT !.op = "open", !.name = n, !.slot = p, !.cluster = x,
                             !.doubt = {n}, !.got = G, !.left = L, !.todo = T]
<1>3. call = Idle /\ n \notin OldTorn
    BY <1>1, <1>2 DEF Start, OldTorn
<1>4. /\ p \in DOMAIN dir /\ dir[p].name = n
      /\ x \in Clusters /\ Unled(fat, x) /\ \A u \in DOMAIN dir : dir[u].name = n => u = p
      /\ \A u \in DOMAIN dir : u # p /\ dir[u].name \notin OldTorn => dir[u].cluster # x
    BY <1>1, <1>3, SoundShape
<1>5. \A w \in Range(T) : Meant(x, w) /\ ~Enters(w) /\ ~Clears(w)
    <2>1. seen \in Seq(Clusters) /\ seen # <<>> /\ Range(seen) \subseteq Range(Chain(fat, x))
        BY <1>4, SeenShape
    <2> HIDE DEF x
    <2> QED BY <2>1, ResetMeant
<1>6. c.op = "open" /\ c.name = n /\ c.size = 0 /\ c.doubt = {n} /\ c.todo = T
    <2>1. Idle.size = 0
        BY DEF Idle
    <2> HIDE DEF T, G, L, x, p
    <2> QED BY <2>1 DEF Idle
<1>7. Start(c)
    BY <1>2
<1> HIDE DEF c, T
<1>8. \A k \in DOMAIN c.todo : Meant(x, c.todo[k]) /\ ~Enters(c.todo[k])
    BY <1>5, <1>6 DEF Range
<1>9. Sure(c.doubt)
    BY <1>1, <1>6 DEF Sure
<1> HIDE DEF x
<1>10. \A s \in DOMAIN dir : ~(Claims(dir, short', s) /\ dir[s].cluster = x)
    <2> SUFFICES ASSUME NEW s \in DOMAIN dir, Claims(dir, short', s), dir[s].cluster = x
                 PROVE  FALSE
        OBVIOUS
    <2>1. Claims(dir, short, s) /\ dir[s].name # n
        BY <1>1 DEF Claims
    <2>2. s = p
        BY <1>3, <1>4, <2>1, OwnAlone DEF x
    <2> QED BY <1>4, <2>1, <2>2
<1>11. \A m \in DOMAIN open : open[m].cluster # x
    BY <1>3, <1>1, <1>4, AtStart DEF Matching, OldTorn, x
<1>12. ComingLong(fat, dir, c, OldTorn \cup c.doubt, short', c.todo)
    BY <1>8 DEF ComingLong
<1>13. OwnLong(dir, c, short')
    BY <1>1, <1>6 DEF OwnLong
<1>14. Grown(fat, c, short', faults', c.todo)
    BY <1>6 DEF Grown
<1>15. c.doubt \subseteq short' /\ x \in Clusters /\ Unled(fat, x)
       /\ \A s \in DOMAIN dir : dir[s].name \in short => dir[s].name \in short'
    BY <1>1, <1>4, <1>6 DEF x
<1> QED BY <1>7, <1>8, <1>9, <1>10, <1>11, <1>12, <1>13, <1>14, <1>15, StartLong

LEMMA DeleteLong ==
    ASSUME IInv, LongInv, NEW n \in Names, Delete(n)
    PROVE  LongInv'
<1> DEFINE p == SlotOf(n)
           x == dir[p].cluster
           w0 == DeviceWrite("dir", p, NoEntry, "stop")
<1>1. Exists(n) /\ n \notin torn /\ n \notin DOMAIN open /\ short' = short
    BY DEF Delete, Sound
<1>2. PICK seen \in Seen(x) :
        Start([Idle EXCEPT !.op = "delete", !.name = n,
                           !.got = ToSet(Chain(fat, x)),
                           !.left = {x} \cup (ToSet(Chain(fat, x)) \ ToSet(seen)),
                           !.todo = <<w0>> \o Reset(seen)])
    BY DEF Delete
<1> DEFINE A == <<w0>>
           B == Reset(seen)
           T == A \o B
           G == ToSet(Chain(fat, x))
           L == {x} \cup (ToSet(Chain(fat, x)) \ ToSet(seen))
           c == [Idle EXCEPT !.op = "delete", !.name = n, !.got = G, !.left = L, !.todo = T]
<1>3. call = Idle /\ n \notin OldTorn
    BY <1>1, <1>2 DEF Start, OldTorn
<1>4. /\ p \in DOMAIN dir /\ dir[p].name = n /\ p \in Nat
      /\ x \in Clusters /\ Unled(fat, x)
      /\ \A u \in DOMAIN dir : u # p /\ dir[u].name \notin OldTorn => dir[u].cluster # x
    BY <1>1, <1>3, SoundShape
<1>5. seen \in Seq(Clusters) /\ seen # <<>> /\ Range(seen) \subseteq Range(Chain(fat, x))
    BY <1>4, SeenShape
<1>6. c.op = "delete" /\ c.name = n /\ c.doubt = {} /\ c.todo = T
    <2> HIDE DEF T, G, L, x, p
    <2> QED BY DEF Idle
<1>7. Start(c)
    BY <1>2
<1> HIDE DEF c
<1>8. w0 \in DeviceWrites /\ w0.on = "dir" /\ w0.at = p /\ Clears(w0) /\ ~Enters(w0)
    <2> HIDE DEF p
    <2>1. w0 \in DeviceWrites /\ Clears(w0) /\ w0.at = p
        BY <1>4 DEF DeviceWrite, DeviceWrites, Clears
    <2> HIDE DEF w0
    <2> QED BY <2>1 DEF Clears, Enters
<1>9. A \in Seq(DeviceWrites) /\ DOMAIN A = {1} /\ A[1] = w0
    BY <1>8
<1>10. B \in Seq(DeviceWrites) /\ \A k \in DOMAIN B : Meant(x, B[k]) /\ ~Enters(B[k])
    <2>1. B \in Seq(DeviceWrites)
        BY <1>5, ResetShape
    <2>2. \A w \in Range(B) : Meant(x, w) /\ ~Enters(w)
        <3> HIDE DEF x
        <3> QED BY <1>5, ResetMeant
    <2> HIDE DEF B
    <2> QED BY <2>1, <2>2 DEF Range
<1> HIDE DEF A, B
<1>11. /\ 1 \in DOMAIN T /\ T[1] = w0
       /\ \A k \in DOMAIN T : k = 1 \/ (1 < k /\ Meant(x, T[k]) /\ ~Enters(T[k]))
    <2>1. /\ T \in Seq(DeviceWrites)
          /\ \A k \in DOMAIN A : k \in DOMAIN T /\ T[k] = A[k]
          /\ \A j \in DOMAIN B : T[Len(A) + j] = B[j]
          /\ \A k \in DOMAIN T : k \in DOMAIN A \/ \E j \in DOMAIN B : k = Len(A) + j
        <3>1. A \in Seq(DeviceWrites) /\ B \in Seq(DeviceWrites)
            BY <1>9, <1>10
        <3> QED BY <3>1, CatShape
    <2>2. DOMAIN T = 1 .. Len(T) /\ Len(T) \in Nat
        BY <2>1, LenProperties
    <2> HIDE DEF T
    <2>3. \A k \in DOMAIN T : k = 1 \/ 1 < k
        BY <2>2
    <2> QED BY <2>1, <2>3, <1>9, <1>10
<1> HIDE DEF T, w0
<1>12. \A k \in DOMAIN T : Meant(x, T[k]) /\ ~Enters(T[k])
    BY <1>8, <1>11 DEF Meant
<1>13. Sure(c.doubt)
    BY <1>6 DEF Sure
<1> HIDE DEF x
<1>14. ASSUME NEW s \in DOMAIN dir, Claims(dir, short', s), dir[s].cluster = x, NEW k \in DOMAIN T
       PROVE  Spares(fat, dir[s], T[k]) \/ \E j \in DOMAIN T : j < k /\ Clears(T[j]) /\ T[j].at = s
    <2>1. s = p
        BY <1>1, <1>3, <1>4, <1>14, OwnAlone DEF x
    <2>2. CASE k = 1
        BY <1>8, <1>11, <2>2 DEF Spares
    <2>3. CASE k # 1
        BY <1>8, <1>11, <2>1, <2>3
    <2> QED BY <2>2, <2>3
<1>15. \A m \in DOMAIN open : open[m].cluster # x
    BY <1>3, <1>1, <1>4, AtStart DEF Matching, OldTorn, x
<1>16. ComingLong(fat, dir, c, OldTorn \cup c.doubt, short', c.todo)
    BY <1>6, <1>12 DEF ComingLong
<1>17. OwnLong(dir, c, short') /\ Grown(fat, c, short', faults', c.todo)
    BY <1>6 DEF OwnLong, Grown
<1>18. c.doubt \subseteq short' /\ x \in Clusters /\ Unled(fat, x)
       /\ \A s \in DOMAIN dir : dir[s].name \in short => dir[s].name \in short'
    BY <1>1, <1>4, <1>6 DEF x
<1> QED BY <1>6, <1>7, <1>12, <1>13, <1>14, <1>15, <1>16, <1>17, <1>18, StartLong

\* A call that only extends the directory and makes entries.
LEMMA StartAside ==
    ASSUME IInv, LongInv, NEW c, Start(c), Sure(c.doubt), ~Exists(c.name),
           \A s \in DOMAIN dir : dir[s].name \in short => dir[s].name \in short',
           \A k \in DOMAIN c.todo : Meant(Root, c.todo[k]),
           ComingLong(fat, dir, c, OldTorn \cup c.doubt, short', c.todo),
           OwnLong(dir, c, short'), c.op # "write"
    PROVE  LongInv'
<1>1. call = Idle
    BY DEF Start
<1>2. /\ Root \in Clusters /\ Unled(fat, Root) /\ Steady(fat, dir, open, torn, short)
      /\ Owned(fat, dir, OldTorn) /\ Matching(dir, open, torn)
    BY <1>1, AtStart, RestLong
<1>3. \A s \in DOMAIN dir : Claims(dir, short', s) => dir[s].cluster # Root
    BY <1>2 DEF Claims, Steady, Headed
<1>4. \A n \in DOMAIN open : open[n].cluster # Root
    BY <1>2 DEF Matching, Owned, OldTorn
<1>5. Grown(fat, c, short', faults', c.todo)
    BY DEF Grown
<1> QED BY <1>2, <1>3, <1>4, <1>5, StartLong

LEMMA RoomMeant ==
    ASSUME IInv, call = Idle, NEW free, FreeList(free)
    PROVE  \A k \in DOMAIN NewRoom(free) :
               /\ Meant(Root, NewRoom(free)[k])
               /\ ~Enters(NewRoom(free)[k]) /\ ~Clears(NewRoom(free)[k])
<1> DEFINE R == NewRoom(free)
           a == Last(Chain(fat, Root))
<1>1. Extends(free, a, More, R) /\ More \in {0, 1} /\ FreeIn(fat, free)
    BY RoomExtends
<1>2. a \in Range(Chain(fat, Root))
    <2>1. /\ Len(Chain(fat, Root)) \in Nat \ {0} /\ Root \in Clusters
          /\ DOMAIN Chain(fat, Root) = 1 .. Len(Chain(fat, Root))
        BY ChainFacts, AtStart
    <2>2. Len(Chain(fat, Root)) \in DOMAIN Chain(fat, Root)
        BY <2>1
    <2> QED BY <2>2 DEF Last, Range
<1> HIDE DEF R, a
<1>3. ENDOFCHAIN \notin Clusters
    BY Constants
<1> SUFFICES ASSUME NEW k \in DOMAIN R
             PROVE  Meant(Root, R[k]) /\ ~Enters(R[k]) /\ ~Clears(R[k])
    BY DEF R
<1>4. ~Enters(R[k]) /\ ~Clears(R[k])
    BY <1>1 DEF Extends, Enters, Clears
<1>5. ASSUME R[k].on = "fat" PROVE Meant(Root, R[k])
    <2>1. PICK i \in 1 .. More :
            /\ i \in DOMAIN free
            /\ \/ Marks(R[k]) /\ R[k].at = free[i]
               \/ Links(R[k]) /\ R[k].at = Prev(free, a, i) /\ R[k].value = free[i]
        BY <1>1, <1>5 DEF Extends
    <2>2. i = 1
        BY <1>1, <2>1
    <2>3. fat[free[i]] = Free
        BY <1>1, <2>1 DEF FreeIn, Range
    <2> QED BY <1>2, <1>3, <2>1, <2>2, <2>3 DEF Meant, Marks, Links, Prev
<1> QED BY <1>4, <1>5 DEF Meant

LEMMA MoveLong ==
    ASSUME IInv, LongInv, NEW n \in Names, NEW m \in Names, Move(n, m)
    PROVE  LongInv'
<1> DEFINE p == SlotOf(n)
           x == dir[p].cluster
           e == [dir[p] EXCEPT !.name = m]
           D == DeviceWrite("dir", NewSlot, e, "stop")
           w0 == DeviceWrite("dir", p, NoEntry, "stop")
           R == NewRoom(FreeClusters)
           A == R \o <<D>>
           T == A \o <<w0>>
           G == Allocated(A)
           c == [Idle EXCEPT !.op = "move", !.name = m, !.doubt = {n, m}, !.got = G, !.todo = T]
<1>1. /\ Exists(n) /\ n \notin torn /\ ~Exists(m) /\ call = Idle
      /\ short' = IF n \in short THEN short \cup {m} ELSE short \ {m}
    BY DEF Move, Sound, Start
<1>2. n \notin OldTorn
    BY <1>1 DEF OldTorn
<1>3. /\ p \in DOMAIN dir /\ dir[p].name = n /\ p \in Nat
      /\ x \in Clusters /\ x # Root /\ Unled(fat, x)
      /\ \A u \in DOMAIN dir : u # p /\ dir[u].name \notin OldTorn => dir[u].cluster # x
    BY <1>1, <1>2, SoundShape
<1>4. Entries(dir) /\ Steady(fat, dir, open, torn, short)
    BY <1>1, AtStart, RestLong
<1>5. e \in Entry /\ e.name = m /\ e.cluster = x /\ e.size = dir[p].size
    <2> HIDE DEF p
    <2>1. dir[p] \in Entry
        BY <1>3, <1>4 DEF Entries
    <2> QED BY <2>1 DEF Entry
<1>6. FreeList(FreeClusters) /\ NewSlot \in Nat
    BY <1>1, FreeShape, NewSlotShape
<1> HIDE DEF e
<1>7. WriteNew(FreeClusters, e) = A
    BY <1>1, <1>5, <1>6, WriteNewShape
<1>8. Start(c)
    BY <1>7 DEF Move, e
<1>9. c.op = "move" /\ c.name = m /\ c.doubt = {n, m} /\ c.todo = T
    <2> HIDE DEF T, G
    <2> QED BY DEF Idle
<1> HIDE DEF c
<1>10. D \in DeviceWrites /\ D.value = e /\ D.on = "dir"
    BY <1>5, <1>6, EntryShape
<1>11. w0 \in DeviceWrites /\ ~Enters(w0) /\ w0.on = "dir"
    <2> HIDE DEF p
    <2>1. w0 \in DeviceWrites /\ Clears(w0) /\ w0.on = "dir"
        BY <1>3 DEF DeviceWrite, DeviceWrites, Clears
    <2> HIDE DEF w0
    <2> QED BY <2>1 DEF Clears, Enters
<1> HIDE DEF D, w0
<1>12. R \in Seq(DeviceWrites) /\ \A k \in DOMAIN R : Meant(Root, R[k]) /\ ~Enters(R[k])
    BY <1>1, <1>6, RoomExtends, RoomMeant
<1> HIDE DEF R
<1>13. /\ A \in Seq(DeviceWrites)
       /\ \A k \in DOMAIN A : (k \in DOMAIN R /\ A[k] = R[k]) \/ A[k] = D
    BY <1>10, <1>12, DirBehind
<1> HIDE DEF A
<1>14. \A k \in DOMAIN T : (k \in DOMAIN A /\ T[k] = A[k]) \/ T[k] = w0
    BY <1>11, <1>13, DirBehind
<1> HIDE DEF T
<1>15. \A k \in DOMAIN T : Meant(Root, T[k]) /\ (Enters(T[k]) => T[k] = D)
    BY <1>10, <1>11, <1>12, <1>13, <1>14 DEF Meant
<1>16. Sure(c.doubt) /\ ~Exists(c.name)
    BY <1>1, <1>9 DEF Sure, Exists
<1>17. \A s \in DOMAIN dir : dir[s].name \in short <=> dir[s].name \in short'
    BY <1>1 DEF Exists
<1> HIDE DEF x
<1>18. ASSUME NEW s \in DOMAIN dir, Claims(dir, short', s), dir[s].name \in OldTorn
       PROVE  dir[s].cluster # x
    <2>1. Claims(dir, short, s)
        BY <1>17, <1>18 DEF Claims
    <2> QED BY <1>1, <1>2, <1>3, <1>18, <2>1, OwnAlone DEF x
<1>19. ASSUME e.size # 0, m \notin short'
       PROVE  /\ Headed(fat, x) /\ Covers(fat, e)
              /\ \A j \in DOMAIN T : Spares(fat, e, T[j])
    <2>1. Claims(dir, short, p)
        BY <1>1, <1>3, <1>5, <1>19 DEF Claims
    <2>2. Headed(fat, x) /\ Covers(fat, e)
        BY <1>3, <1>4, <1>5, <2>1 DEF Steady, Covers, x
    <2>3. Root \in Clusters /\ Unled(fat, Root) /\ x \in Clusters
        BY <1>1, <1>3, AtStart DEF x
    <2>4. \A j \in DOMAIN T : Spares(fat, e, T[j])
        BY <1>1, <1>3, <1>5, <1>15, <2>2, <2>3, Unharmed DEF x
    <2> QED BY <2>2, <2>4
<1>20. ComingLong(fat, dir, c, OldTorn \cup c.doubt, short', T)
    <2>1. \A u \in DOMAIN dir : dir[u].name \notin OldTorn \cup {n, m} => dir[u].cluster # x
        BY <1>3 DEF x
    <2> QED BY <1>5, <1>9, <1>10, <1>15, <1>18, <1>19, <2>1 DEF ComingLong
<1>21. OwnLong(dir, c, short')
    BY <1>9 DEF OwnLong
<1> QED BY <1>8, <1>9, <1>15, <1>16, <1>17, <1>20, <1>21, StartAside

LEMMA OpenNewLong ==
    ASSUME IInv, LongInv, NEW n \in Names, NEW trunc \in BOOLEAN, OpenNew(n, trunc)
    PROVE  LongInv'
<1> DEFINE x == IF FreeClusters = <<>> THEN Root ELSE FreeClusters[1]
           N == IF trunc THEN {n} ELSE {}
           G == Allocated(Create(n))
           T == IF trunc /\ Create(n) # Full THEN Create(n) \o Reset(<<x>>) ELSE Create(n)
           c == [Idle EXCEPT !.op = "open", !.name = n, !.slot = NewSlot, !.cluster = x,
                             !.got = G, !.doubt = N, !.todo = T]
<1>1. ~Exists(n) /\ Start(c) /\ short' = short \ {n}
    BY DEF OpenNew
<1>2. call = Idle
    BY <1>1 DEF Start
<1>3. c.op = "open" /\ c.name = n /\ c.size = 0 /\ c.doubt = N /\ c.todo = T
    <2>1. Idle.size = 0
        BY DEF Idle
    <2> HIDE DEF T, G, N, x
    <2> QED BY <2>1 DEF Idle
<1> HIDE DEF c
<1>4. Sure(c.doubt) /\ ~Exists(c.name)
    BY <1>1, <1>3 DEF Sure, Exists
<1>5. \A k \in DOMAIN T :
        /\ Meant(Root, T[k])
        /\ Enters(T[k]) => /\ T[k].value.name = n /\ T[k].value.size = 0
                           /\ T[k].value.cluster \in Clusters
                           /\ fat[T[k].value.cluster] = Free
    <2>1. CASE FreeClusters = <<>>
        <3>1. T = Full
            BY <2>1 DEF Create
        <3>2. DOMAIN Full = {1} /\ Full[1].on = "nowhere"
            BY FullShape
        <3> HIDE DEF T
        <3>3. DOMAIN T = {1} /\ T[1].on = "nowhere"
            BY <3>1, <3>2
        <3> QED BY <3>3 DEF Meant, Enters
    <2>2. CASE FreeClusters # <<>>
        <3> DEFINE Z == IF trunc THEN Reset(<<x>>) ELSE <<>>
                   y == FreeClusters[1]
                   u == Tail(FreeClusters)
                   R == NewRoom(u)
                   e == NewEntry(n)
                   D == DeviceWrite("dir", NewSlot, e, "stop")
        <3>1. Create(n) \in Seq(DeviceWrites) /\ Create(n) # Full /\ NewSlot \in Nat /\ e \in Entry
            BY <1>2, <2>2, CreateShape, NewSlotShape
        <3>2. Z = <<>> \/ Z = Reset(<<FreeClusters[1]>>)
            BY <2>2
        <3>3. T = Create(n) \o Z
            <4>1. Create(n) \o <<>> = Create(n)
                BY <3>1
            <4> QED BY <3>1, <4>1
        <3> HIDE DEF T, G, x, Z
        <3>4. FreeList(u) /\ y \in Clusters /\ fat[y] = Free
            BY <2>2, FreeShape
        <3>5. \A k \in DOMAIN T :
                \/ T[k].on \notin {"fat", "dir"}
                \/ T[k].on = "fat" /\ T[k].at = y /\ ~Links(T[k])
                \/ T[k] \in Range(R)
                \/ T[k] = D
            BY <1>2, <2>2, <3>2, <3>3, NewEnds
        <3>6. e.name = n /\ e.size = 0 /\ e.cluster = y
            BY DEF NewEntry
        <3> HIDE DEF e
        <3>7. D.on = "dir" /\ D.value = e
            BY <3>1, EntryShape
        <3>8. \A w \in Range(R) : Meant(Root, w) /\ ~Enters(w)
            BY <1>2, <3>4, RoomMeant DEF Range
        <3> HIDE DEF D, R, y
        <3> QED BY <3>4, <3>5, <3>6, <3>7, <3>8 DEF Meant, Enters
    <2> QED BY <2>1, <2>2
<1> HIDE DEF T
<1>6. \A s \in DOMAIN dir : dir[s].name \in short <=> dir[s].name \in short'
    BY <1>1 DEF Exists
<1>7. Steady(fat, dir, open, torn, short)
    BY <1>2, RestLong
<1>8. \A s \in DOMAIN dir : Claims(dir, short', s) => fat[dir[s].cluster] # Free
    BY <1>6, <1>7 DEF Steady, Claims, Headed
<1>9. n \in OldTorn \cup c.doubt \/ c.doubt = {}
    BY <1>3
<1>10. Used(c) \in Nat \ {0}
    BY <1>3, UsedShape
<1>11. ComingLong(fat, dir, c, OldTorn \cup c.doubt, short', T)
    <2>1. 0 <= Used(c)
        BY <1>10
    <2> QED BY <1>3, <1>5, <1>8, <1>9, <2>1 DEF ComingLong
<1>12. OwnLong(dir, c, short')
    BY <1>1, <1>3 DEF OwnLong, Exists
<1> QED BY <1>1, <1>3, <1>4, <1>5, <1>6, <1>11, <1>12, StartAside

\* Writes that extend a chain behind its p-th cluster spare the first p.
LEMMA ExtendsMeant ==
    ASSUME IInv, call = Idle, NEW x \in Clusters, Unled(fat, x), fat[x] # Free,
           NEW free, FreeIn(fat, free), NEW m \in Nat, NEW p \in Nat \ {0}, NEW a,
           a = ENDOFCHAIN \/ Place(fat, x, p, a),
           NEW A \in Seq(DeviceWrites), Extends(free, a, m, A)
    PROVE  \A k \in DOMAIN A :
               /\ Meant(x, A[k]) /\ A[k].on # "dir"
               /\ \A e : e.cluster = x /\ e.size \in Nat /\ e.size <= p => Spares(fat, e, A[k])
<1>1. Linked(fat) /\ ENDOFCHAIN \notin Clusters
    BY AtStart, Constants
<1>2. /\ Len(Chain(fat, x)) \in Nat \ {0} /\ DOMAIN Chain(fat, x) = 1 .. Len(Chain(fat, x))
      /\ x \in Range(Chain(fat, x))
    BY ChainFacts, ChainIn
<1>3. \A z \in Range(Chain(fat, x)) : fat[z] # Free
    BY <1>1, ChainUsed
<1>4. a \in Clusters => p \in DOMAIN Chain(fat, x) /\ Chain(fat, x)[p] = a
    BY <1>1, <1>2 DEF Place
<1>5. \A i \in DOMAIN Chain(fat, x) : Chain(fat, x)[i] = Chain(fat, x)[p] /\ a \in Clusters => i = p
    BY <1>1, <1>2, <1>4, ChainDistinct
<1> SUFFICES ASSUME NEW k \in DOMAIN A, A[k].on = "fat"
             PROVE  /\ Meant(x, A[k])
                    /\ \A e : e.cluster = x /\ e.size \in Nat /\ e.size <= p =>
                         Spares(fat, e, A[k])
    BY DEF Extends, Meant, Spares
<1>6. A[k].at \in Clusters
    <2>1. A[k] \in DeviceWrites
        BY ElementOfSeq, LenProperties
    <2> QED BY <2>1, WriteShape
<1>7. PICK i \in 1 .. m :
        /\ i \in DOMAIN free
        /\ \/ Marks(A[k]) /\ A[k].at = free[i]
           \/ Links(A[k]) /\ A[k].at = Prev(free, a, i) /\ A[k].value = free[i]
    BY DEF Extends
<1>8. /\ fat[free[i]] = Free
      /\ i # 1 => fat[Prev(free, a, i)] = Free
    <2>1. \A j \in DOMAIN free : fat[free[j]] = Free
        BY DEF FreeIn, Range
    <2>2. i # 1 => i - 1 \in DOMAIN free
        BY <1>7 DEF FreeIn
    <2> QED BY <1>7, <2>1, <2>2 DEF Prev
<1>9. /\ ~Frees(A[k]) /\ (Links(A[k]) => fat[A[k].value] = Free)
      /\ fat[A[k].at] = Free \/ A[k].at = a
    BY <1>1, <1>7, <1>8, Constants DEF Marks, Frees, Links, Prev
<1>10. Meant(x, A[k])
    BY <1>4, <1>6, <1>9 DEF Meant, Range
<1>11. ASSUME NEW e, e.cluster = x, e.size \in Nat, e.size <= p
       PROVE  Spares(fat, e, A[k])
    <2>1. ASSUME NEW j \in 1 .. e.size - 1, j \in DOMAIN Chain(fat, x)
          PROVE  A[k].at # Chain(fat, x)[j]
        <3>1. j # p
            BY <1>11, <2>1
        <3>2. fat[Chain(fat, x)[j]] # Free
            BY <1>3, <2>1 DEF Range
        <3>3. CASE A[k].at = a
            BY <1>4, <1>5, <1>6, <2>1, <3>1, <3>3
        <3> QED BY <1>9, <3>2, <3>3
    <2>2. Links(A[k]) => A[k].value # x
        BY <1>9
    <2> QED BY <1>9, <1>11, <2>1, <2>2 DEF Spares
<1> QED BY <1>10, <1>11

\* When they have all landed the chain is as long as the file.
LEMMA ExtendsLong ==
    ASSUME IInv, call = Idle, NEW x \in Clusters, Unled(fat, x), fat[x] # Free,
           NEW free, FreeIn(fat, free), NEW m \in Nat, NEW p \in Nat \ {0},
           p <= Len(Chain(fat, x)), NEW a, Place(fat, x, p, a),
           NEW A \in Seq(DeviceWrites), Extends(free, a, m, A),
           NEW D \in DeviceWrites, D.on = "dir",
           NEW g, Linked(g), Final(fat, A \o <<D>>, g),
           \A k \in DOMAIN (A \o <<D>>) : (A \o <<D>>)[k].on # "nowhere"
    PROVE  p + m <= Len(Chain(g, x))
<1> DEFINE T == A \o <<D>>
<1>1. /\ DOMAIN T \subseteq Nat
      /\ \A k \in DOMAIN T : (k \in DOMAIN A /\ T[k] = A[k]) \/ T[k] = D
      /\ \A k \in DOMAIN A : k \in DOMAIN T /\ T[k] = A[k]
      /\ \A y, v : LastWrite(A, y, v) => LastWrite(T, y, v)
    BY DirBehind
<1>2. Final(fat, T, g) /\ \A k \in DOMAIN T : T[k].on # "nowhere"
    OBVIOUS
<1> HIDE DEF T
<1>3. m = 0 \/ m \in DOMAIN free
    BY <1>1, <1>2 DEF Extends
<1>4. Growth(fat, g, free, a, m)
    <2>1. ASSUME NEW y \in Clusters, \A k \in DOMAIN A : A[k].on = "fat" => A[k].at # y
          PROVE  g[y] = fat[y]
        <3>1. \A k \in DOMAIN T : T[k].on = "fat" => T[k].at # y
            BY <1>1, <2>1
        <3> QED BY <3>1, <1>1, <1>2, FinalWrites
    <2>2. free \in Seq(Clusters)
        BY DEF FreeIn
    <2>3. /\ DOMAIN T \subseteq Nat /\ Final(fat, T, g)
          /\ \A y, v : LastWrite(A, y, v) => LastWrite(T, y, v)
        BY <1>1, <1>2
    <2> QED BY <1>3, <2>1, <2>2, <2>3, ExtendsGrow
<1>5. /\ p \in 1 .. Len(Chain(fat, x)) /\ Chain(fat, x)[p] = a
      /\ Len(Chain(fat, x)) \in Nat /\ Linked(fat)
    <2>1. Len(Chain(fat, x)) \in Nat /\ Linked(fat)
        BY ChainFacts, AtStart
    <2> QED BY <2>1 DEF Place
<1>6. CASE m = 0
    <2>1. Chain(g, x) = Chain(fat, x)
        BY <1>4, <1>5, <1>6, GrowthBeside
    <2> QED BY <1>5, <1>6, <2>1
<1>7. CASE m \in DOMAIN free
    <2>1. Len(Chain(g, x)) = p + m
        BY <1>4, <1>5, <1>7, GrowthChain
    <2>2. p + m \in Nat
        OBVIOUS
    <2> QED BY <2>1, <2>2
<1> QED BY <1>3, <1>6, <1>7

LEMMA WriteLong ==
    ASSUME IInv, LongInv, NEW n \in DOMAIN open, NEW size \in 1 .. MaxSize, Write(n, size)
    PROVE  LongInv'
<1> DEFINE h == open[n]
           s == h.slot
           x == h.cluster
           p == IF h.size = 0 THEN 1 ELSE h.size
           m == IF size > p THEN size - p ELSE 0
           e == [name |-> n, cluster |-> x, size |-> size]
           D == DeviceWrite("dir", s, e, "ignore")
<1>1. PICK seen \in Seen(x) :
        LET todo == Extend(FreeClusters, LastOf(seen, p), m) IN
        /\ faults' = faults + ReadFaults(x, seen)
        /\ Start([Idle EXCEPT !.op = "write", !.name = n, !.slot = s,
                              !.cluster = x, !.size = size,
                              !.got = Allocated(todo), !.missed = seen # Chain(fat, x),
                              !.todo = todo \o <<D>>])
    BY DEF Write
<1> DEFINE a == LastOf(seen, p)
           A == Extend(FreeClusters, a, m)
           T == A \o <<D>>
           G == Allocated(A)
           c == [Idle EXCEPT !.op = "write", !.name = n, !.slot = s, !.cluster = x,
                             !.size = size, !.got = G, !.missed = seen # Chain(fat, x), !.todo = T]
<1>2. Start(c) /\ size > h.size /\ short' = short
    BY <1>1 DEF Write
<1>3. call = Idle /\ faults \in Nat
    BY <1>2 DEF Start, IInv, Types
<1>4. /\ s \in DOMAIN dir /\ s \in Nat /\ dir[s].name = n /\ dir[s].cluster = x
      /\ n \in Names /\ n \notin OldTorn
      /\ x \in Clusters /\ fat[x] # Free /\ x # Root /\ Unled(fat, x) /\ h.size \in Nat
      /\ \A u \in DOMAIN dir : u # s /\ dir[u].name \notin OldTorn => dir[u].cluster # x
    BY <1>3, OpenHeads
<1>5. /\ p \in Nat \ {0} /\ m \in Nat /\ size = p + m /\ size \in 0 .. MaxSize
      /\ p = Used(h) /\ h.size <= p /\ size # 0 /\ p <= size
    BY <1>2, <1>4, BoundAssumption DEF Used
<1>6. e \in Entry /\ e.cluster = x /\ e.size = size /\ e.name = n
    BY <1>4, <1>5 DEF Entry
<1> HIDE DEF e
<1>7. D \in DeviceWrites /\ Enters(D) /\ D.value = e /\ D.on = "dir"
    BY <1>4, <1>6, EntryShape
<1> HIDE DEF D
<1>8. /\ c.op = "write" /\ c.name = n /\ c.cluster = x /\ c.size = size
      /\ c.doubt = {} /\ c.todo = T
    <2> HIDE DEF T, G, x, s
    <2> QED BY DEF Idle
<1> HIDE DEF c
<1>9. /\ a = ENDOFCHAIN \/ Place(fat, x, p, a)
      /\ seen = Chain(fat, x) => Place(fat, x, p, a)
    <2> HIDE DEF x, p
    <2> QED BY <1>4, <1>5, LastPlace
<1>10. faults' = 0 => Place(fat, x, p, a)
    <2>1. faults' = 0 => ReadFaults(x, seen) = 0
        BY <1>1, <1>3 DEF ReadFaults
    <2> QED BY <1>9, <2>1 DEF ReadFaults
<1> HIDE DEF a
<1>11. /\ Linked(fat) /\ FreeList(FreeClusters) /\ FreeIn(fat, FreeClusters)
       /\ Steady(fat, dir, open, torn, short) /\ Matching(dir, open, torn)
    BY <1>3, AtStart, RestLong, FreeShape DEF FreeList, FreeIn
<1>12. a \notin Range(FreeClusters)
    <2>1. CASE a = ENDOFCHAIN
        BY <1>11, <2>1, Constants DEF FreeIn
    <2>2. CASE Place(fat, x, p, a) /\ a # ENDOFCHAIN
        <3> HIDE DEF x, p
        <3>1. p \in DOMAIN Chain(fat, x) /\ Chain(fat, x)[p] = a
            BY <1>4, <2>2, ChainFacts DEF Place
        <3>2. fat[a] # Free
            BY <1>4, <1>11, <3>1, ChainUsed DEF Range
        <3> QED BY <1>11, <3>2 DEF FreeIn
    <2> QED BY <1>9, <2>1, <2>2
<1>13. A \in Seq(DeviceWrites) /\ Extends(FreeClusters, a, m, A)
    <2> HIDE DEF m
    <2>1. Grows(Range(FreeClusters), a, A) /\ A \in Seq(DeviceWrites)
        BY <1>5, <1>11, <1>12, ExtendShape DEF FreeList
    <2> QED BY <2>1, <1>5, <1>11, <1>12, ExtendEnds DEF FreeIn
<1> HIDE DEF A, x, p, m, s, h
<1>14. /\ Len(A) \in Nat /\ \A k \in DOMAIN T : k \in DOMAIN A \/ k = Len(A) + 1
       /\ \A k \in DOMAIN A : T[k] = A[k] /\ k <= Len(A) /\ k \in Nat
       /\ T[Len(A) + 1] = D
    <2>1. DOMAIN A \subseteq Nat
        BY <1>13, LenProperties
    <2> QED BY <1>7, <1>13, <2>1, DirBehind
<1>15. \A k \in DOMAIN T :
         /\ Meant(x, T[k]) /\ (Enters(T[k]) => k = Len(A) + 1 /\ T[k] = D)
         /\ \A f : f.cluster = x /\ f.size \in Nat /\ f.size <= p => Spares(fat, f, T[k])
    <2>1. \A k \in DOMAIN A :
            /\ Meant(x, A[k]) /\ A[k].on # "dir"
            /\ \A f : f.cluster = x /\ f.size \in Nat /\ f.size <= p => Spares(fat, f, A[k])
        BY <1>3, <1>4, <1>5, <1>9, <1>11, <1>13, ExtendsMeant
    <2>2. Meant(x, D) /\ \A f : Spares(fat, f, D)
        BY <1>7 DEF Meant, Spares
    <2> HIDE DEF T
    <2> QED BY <1>14, <2>1, <2>2 DEF Enters
<1>16. \A k, j \in DOMAIN T : k = Len(A) + 1 => j <= k
    BY <1>14
<1>17. /\ x \in Clusters
       /\ \A u \in DOMAIN dir : dir[u].size \in Nat
    BY <1>3, <1>4, AtStart, EntrySized DEF Entries
<1>18. ASSUME NEW u \in DOMAIN dir, Claims(dir, short, u), dir[u].cluster = x
       PROVE  u = s
    BY <1>3, <1>4, <1>18, OwnAlone
<1>19. n \notin short => /\ dir[s].size <= p /\ Covers(fat, h)
                         /\ \A u \in DOMAIN dir : dir[u].name = n => dir[u].size <= p
    BY <1>4, <1>5, <1>11 DEF Steady, h
<1>20. \A u \in DOMAIN dir : Claims(dir, short', u) /\ dir[u].cluster = x =>
         \A k \in DOMAIN T : Spares(fat, dir[u], T[k])
    <2> SUFFICES ASSUME NEW u \in DOMAIN dir, Claims(dir, short, u), dir[u].cluster = x,
                        NEW k \in DOMAIN T
                 PROVE  Spares(fat, dir[u], T[k])
        BY <1>2
    <2>1. dir[u].size <= p
        BY <1>4, <1>18, <1>19 DEF Claims
    <2> QED BY <1>15, <1>17, <2>1
<1>21. \A o \in DOMAIN open : open[o].cluster = x /\ o \notin short' =>
         \A k \in DOMAIN T : Spares(fat, open[o], T[k])
    <2> SUFFICES ASSUME NEW o \in DOMAIN open, open[o].cluster = x
                 PROVE  o = n
        BY <1>4, <1>5, <1>15 DEF h
    <2>1. PICK u \in DOMAIN dir : dir[u].name = o /\ dir[u].cluster = x /\ o \notin torn
        BY <1>11 DEF Matching
    <2>2. o \notin OldTorn
        BY <2>1 DEF OldTorn
    <2> QED BY <1>4, <2>1, <2>2
<1>22. Used(c) = size
    BY <1>5, <1>8 DEF Used
<1>23. ComingLong(fat, dir, c, OldTorn \cup c.doubt, short', T)
    <2>1. ASSUME NEW u \in DOMAIN dir, Claims(dir, short', u), dir[u].name \in OldTorn
          PROVE  dir[u].cluster # x
        BY <1>2, <1>4, <1>18, <2>1
    <2>2. size <= size
        BY <1>5
    <2> HIDE DEF T
    <2> QED BY <1>6, <1>7, <1>8, <1>15, <1>16, <1>22, <2>1, <2>2 DEF ComingLong
<1>24. OwnLong(dir, c, short')
    <2>1. \A u \in DOMAIN dir : dir[u].size <= p => dir[u].size <= size
        BY <1>5, <1>17
    <2> QED BY <1>2, <1>8, <1>19, <1>22, <2>1 DEF OwnLong
<1>25. Grown(fat, c, short', faults', T)
    <2> SUFFICES ASSUME n \notin short, faults' = 0,
                        \A k \in DOMAIN T : T[k].on # "nowhere",
                        NEW g \in [Clusters -> Values], Linked(g), Final(fat, T, g)
                 PROVE  size <= Len(Chain(g, x))
        BY <1>2, <1>8 DEF Grown
    <2>1. p <= Len(Chain(fat, x))
        <3>1. h.size <= Len(Chain(fat, x)) /\ Len(Chain(fat, x)) \in Nat \ {0}
            BY <1>4, <1>19, ChainFacts DEF Covers, x
        <3> QED BY <1>5, <3>1 DEF Used
    <2>2. p + m <= Len(Chain(g, x))
        BY <1>3, <1>4, <1>5, <1>7, <1>10, <1>11, <1>13, <2>1, ExtendsLong
    <2> QED BY <1>5, <2>2
<1>26. Sure(c.doubt) /\ c.doubt = {}
       /\ \A u \in DOMAIN dir : dir[u].name \in short => dir[u].name \in short'
    BY <1>2, <1>8 DEF Sure
<1> HIDE DEF T
<1> QED BY <1>2, <1>4, <1>8, <1>15, <1>20, <1>21, <1>23, <1>24, <1>25, <1>26, StartLong

\* A call that has gone astray did so after a failure, in a file that is known
\* to be short or torn, or where the directory lacks a cluster.
Drifted ==
    /\ Adrift
    /\ \/ faults > 0
       \/ call.name \in short \cup torn
       \/ call.slot \div SlotsPerCluster >= Len(Chain(fat, Root))

LEMMA OverrunsWhen ==
    ASSUME IInv, NEW c, NEW k, Overruns(c, k)
    PROVE  faults' > 0 \/ (Len(Chain(fat, c)) < k /\ faults' = faults)
<1>1. faults \in Nat
    BY BoundAssumption DEF IInv, Types
<1> QED BY <1>1 DEF Overruns

LEMMA StraysDrifted ==
    ASSUME IInv, LongInv, Strays
    PROVE  Drifted'
<1>1. /\ Adrift' /\ fat' = fat /\ torn' = torn /\ short' = short
    BY StraysAdrift
<1> SUFFICES ASSUME ~(faults' > 0)
             PROVE  \/ call'.name \in short \cup torn
                    \/ call'.slot \div SlotsPerCluster >= Len(Chain(fat, Root))
    BY <1>1 DEF Drifted
<1>2. ASSUME NEW n, NEW s, GoAstray(n, s)
      PROVE  call'.name = n /\ call'.slot = s
    BY <1>2 DEF GoAstray, Idle
<1>3. ASSUME NEW n \in DOMAIN open, WriteStrays(n)
      PROVE  n \in short
    <2>1. Len(Chain(fat, open[n].cluster)) < open[n].size
        BY <1>3, OverrunsWhen DEF WriteStrays
    <2>2. open[n].cluster \in Clusters /\ open[n].size \in 0 .. MaxSize
        BY DEF IInv, Types
    <2>3. Len(Chain(fat, open[n].cluster)) \in Nat /\ open[n].size \in Nat
        BY <2>2, ChainFacts, BoundAssumption
    <2>4. n \notin short => Covers(fat, open[n])
        BY DEF LongInv, Long, OpenLong
    <2> QED BY <2>1, <2>3, <2>4 DEF Covers
<1>4. CASE \E n \in DOMAIN open : WriteStrays(n)
    <2>1. PICK n \in DOMAIN open : WriteStrays(n)
        BY <1>4
    <2>2. n \in short /\ GoAstray(n, open[n].slot)
        BY <2>1, <1>3 DEF WriteStrays
    <2> QED BY <2>2, <1>2
<1>5. CASE DataStrays
    <2>1. /\ call.op = "write" /\ ~call.failed /\ call.todo = <<>>
          /\ Len(Chain(fat, call.cluster)) < call.size /\ faults' = faults
          /\ GoAstray(call.name, call.slot)
        BY <1>5, OverrunsWhen DEF DataStrays
    <2>2. call'.name = call.name
        BY <2>1, <1>2
    <2>3. faults = 0
        <3>1. faults \in Nat
            BY BoundAssumption DEF IInv, Types
        <3> QED BY <2>1, <3>1
    <2>4. DOMAIN call.todo = {}
        BY <2>1
    <2>5. fat \in [Clusters -> Values] /\ Linked(fat)
        BY DEF IInv, Types, Sane
    <2>6. Final(fat, call.todo, fat)
        BY <2>4 DEF Final
    <2>7. call.size \in Nat /\ Len(Chain(fat, call.cluster)) \in Nat
        <3>1. call.size \in 0 .. MaxSize /\ call \in Calls
            BY DEF IInv, Calls
        <3>2. call.cluster \in Clusters
            BY <2>1 DEF IInv, Ending, WillMatch
        <3> QED BY <3>1, <3>2, ChainFacts, BoundAssumption
    <2>8. call.name \notin short => call.size <= Len(Chain(fat, call.cluster))
        BY <2>1, <2>3, <2>4, <2>5, <2>6 DEF LongInv, Grown
    <2> QED BY <2>1, <2>2, <2>7, <2>8
<1>6. CASE EntryStrays
    <2> DEFINE w == Head(call.todo)
    <2>1. /\ call.todo # <<>> /\ w.on = "dir" /\ GoAstray(call.name, w.at)
          /\ Len(Chain(fat, Root)) < w.at \div SlotsPerCluster + 1
        BY <1>6, OverrunsWhen DEF EntryStrays
    <2>2. w \in DeviceWrites
        <3>1. call.todo \in Seq(DeviceWrites)
            BY DEF IInv, Calls
        <3> QED BY <2>1, <3>1
    <2>3. w.at \in Nat
        BY <2>1, <2>2 DEF DeviceWrites
    <2>4. Len(Chain(fat, Root)) \in Nat
        BY ChainFacts, Constants
    <2>5. call'.slot = w.at
        BY <2>1, <1>2
    <2> HIDE DEF w
    <2>6. w.at \div SlotsPerCluster \in Int
        BY <2>3, BoundAssumption
    <2> QED BY <2>1, <2>4, <2>5, <2>6
<1>7. CASE \E n \in Names : TornUsed(n)
    <2>1. PICK n \in Names : TornUsed(n)
        BY <1>7
    <2> QED BY <2>1, <1>2 DEF TornUsed
<1> QED BY <1>4, <1>5, <1>6, <1>7 DEF Strays

\* Entries and open files have the clusters they claim in every state, or a
\* call has gone astray.
THEOREM LengthsFollowed == Spec => []((IInv /\ LongInv) \/ Drifted)
<1>1. Init => IInv /\ LongInv
    BY InitHolds, InitLong
<1>2. IInv /\ LongInv /\ [Next]_vars => (IInv /\ LongInv)' \/ Drifted'
    <2> SUFFICES ASSUME IInv, LongInv, [Next]_vars, ~Strays PROVE LongInv'
        BY StraysDrifted, StepHolds
    <2>1. ASSUME NEW n \in Names, OpenExisting(n) \/ OpenTruncated(n) \/ Delete(n)
          PROVE  LongInv'
        BY <2>1, OpenExistingLong, OpenTruncatedLong, DeleteLong
    <2>2. ASSUME NEW n \in Names, NEW trunc \in BOOLEAN, OpenNew(n, trunc)
          PROVE  LongInv'
        BY <2>2, OpenNewLong
    <2>3. ASSUME NEW n \in DOMAIN open, NEW size \in 1 .. MaxSize, Write(n, size)
          PROVE  LongInv'
        BY <2>3, WriteLong
    <2>4. ASSUME NEW n \in Names, NEW m \in Names, Move(n, m) PROVE LongInv'
        BY <2>4, MoveLong
    <2>5. ASSUME NEW n \in DOMAIN open, Close(n) PROVE LongInv'
        BY <2>5, CloseLong
    <2>6. CASE WriteLands
        BY <2>6, LandLong
    <2>7. CASE WriteFails \/ ReadFails
        BY <2>7, FailLong
    <2>8. CASE Return
        BY <2>8, ReturnLong
    <2>9. CASE Crash
        BY <2>9, CrashLong
    <2>10. CASE UNCHANGED vars
        BY <2>10 DEF vars, LongInv
    <2> QED BY <2>1, <2>2, <2>3, <2>4, <2>5, <2>6, <2>7, <2>8, <2>9, <2>10 DEF Next, Strays
<1>3. Drifted /\ [Next]_vars => Drifted'
    BY AdriftStays DEF Drifted, Adrift, Astray, vars
<1> QED BY <1>1, <1>2, <1>3, PTL DEF Spec

\* A file has the clusters its size claims, whatever fails and wherever the
\* machine stops: extendFAT32File links clusters before fwrite writes the new
\* size, and no write of any call cuts a chain that a size still counts on.
\* And no call goes astray but in a file or directory that is known to lack
\* clusters, in a torn file, or after a failure.
THEOREM SizesStayCovered == Spec => []SizeCovered
<1>1. IInv /\ LongInv => SizeCovered
    <2> SUFFICES ASSUME IInv, LongInv, NEW s \in DOMAIN dir, dir[s].name \notin short,
                        ~(call.op = "write" /\ call.todo = <<>> /\ call.name = dir[s].name)
                 PROVE  dir[s].size <= Len(Chain(fat, dir[s].cluster))
        BY NotAdrift DEF SizeCovered
    <2>1. /\ dir[s].cluster \in Clusters /\ dir[s].size \in Nat
          /\ call.todo \in Seq(DeviceWrites)
        BY EntrySized, CallShape DEF IInv, Types
    <2>2. CASE dir[s].size = 0
        BY <2>1, <2>2, ChainFacts
    <2>3. CASE dir[s].size # 0
        <3>1. Covers(fat, dir[s]) \/ Excused(call, call.todo, dir[s].name)
            BY <2>3 DEF LongInv, Long, EntriesLong, Claims
        <3>2. call.todo # <<>> => 1 \in DOMAIN call.todo
            BY <2>1, TailFollows
        <3> QED BY <3>1, <3>2 DEF Covers, Excused
    <2> QED BY <2>2, <2>3
<1>2. Drifted => SizeCovered
    BY DEF Drifted, Adrift, SizeCovered
<1> QED BY <1>1, <1>2, LengthsFollowed, PTL
=============================================================================
