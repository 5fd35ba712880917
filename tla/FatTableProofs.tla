---------------------------- MODULE FatTableProofs ----------------------------
(***************************************************************************)
(* No two files share a cluster, and a call changes no other file's chain, *)
(* whatever fails and wherever the machine stops: for every table, every   *)
(* directory, every number of faults.                                      *)
(*                                                                         *)
(* The invariant looks at the writes a call has still to do.  Each kind of *)
(* write (a mark, a free, a link in the table; an entry made or cleared in *)
(* the directory) is safe under a condition on the device; the condition   *)
(* holds of every write of the call, given those that come before it and   *)
(* that the call does not outlive when they fail.  How far the second copy *)
(* of the table is behind the first is an invariant of its own (Trailing). *)
(***************************************************************************)
EXTENDS FatTable, SequenceTheorems, FiniteSetTheorems, WellFoundedInduction, TLAPS
-----------------------------------------------------------------------------
(* Numbers and sequences *)

\* A set of natural numbers has a least one.
LEMMA LeastOfNats ==
    ASSUME NEW s, s \subseteq Nat, s # {}
    PROVE  \E i \in s : \A j \in s : i <= j
<1>1. \E i \in s : \A j \in s : ~(<<j, i>> \in OpToRel(<, Nat))
    BY NatLessThanWellFounded, WFMin
<1>2. PICK i \in s : \A j \in s : ~(<<j, i>> \in OpToRel(<, Nat))
    BY <1>1
<1>3. \A j \in s : ~(j < i)
    BY <1>2 DEF OpToRel
<1> QED BY <1>3

LEMMA Constants ==
    /\ Clusters \subseteq Nat /\ IsFiniteSet(Clusters) /\ Root \in Clusters
    /\ Cardinality(Clusters) \in Nat \ {0}
    /\ Free \notin Clusters /\ ENDOFCHAIN \notin Clusters /\ Free # ENDOFCHAIN
    /\ \A c \in Clusters : c < ENDOFCHAIN
<1>1. IsFiniteSet(Clusters) /\ Root \in Clusters
    BY ClusterAssumption
<1>2. \A c \in Clusters : c \in Nat /\ 2 <= c /\ c < ENDOFCHAIN
    <2>1. ENDOFCHAIN \in Nat
        BY SMT DEF ENDOFCHAIN
    <2> QED BY <2>1, ClusterAssumption
<1>3. Free \notin Clusters /\ ENDOFCHAIN \notin Clusters /\ Free # ENDOFCHAIN
    BY SMT, <1>2 DEF Free, ENDOFCHAIN
<1>4. Cardinality(Clusters) \in Nat /\ Cardinality(Clusters) # 0
    BY <1>1, FS_CardinalityType, FS_EmptySet
<1> QED BY <1>1, <1>2, <1>3, <1>4

-----------------------------------------------------------------------------
(* Chains *)

\* The walk that Chain takes is a function: each step follows from the last.
WalkStep(f, c, N, g) ==
    [k \in 0 .. N |-> IF k = 0 THEN c
                      ELSE IF g[k - 1] \in Clusters THEN f[g[k - 1]] ELSE ENDOFCHAIN]

LEMMA WalkExists ==
    ASSUME NEW f, NEW c, NEW N \in Nat
    PROVE  \E g : g = WalkStep(f, c, N, g)
<1> DEFINE Walk(m, g) == g = WalkStep(f, c, m, g)
           bad == {m \in Nat : ~ \E g : Walk(m, g)}
<1> SUFFICES ASSUME bad # {} PROVE FALSE
    OBVIOUS
<1>1. PICK m \in bad : \A j \in bad : m <= j
    <2> HIDE DEF Walk
    <2> QED BY LeastOfNats
<1>2. m # 0
    <2>1. Walk(0, [k \in 0 .. 0 |-> c])
        BY DEF WalkStep
    <2> QED BY <2>1
<1>3. m \in Nat /\ m - 1 \in Nat /\ m - 1 \notin bad
    <2> HIDE DEF Walk
    <2> QED BY <1>1, <1>2
<1>4. PICK g : Walk(m - 1, g)
    <2> HIDE DEF Walk
    <2> QED BY <1>3
<1> DEFINE last == IF g[m - 1] \in Clusters THEN f[g[m - 1]] ELSE ENDOFCHAIN
           h == [k \in 0 .. m |-> IF k = m THEN last ELSE g[k]]
<1>5. \A k \in 0 .. m - 1 : h[k] = g[k]
    BY <1>3
<1>8. \A k \in 0 .. m - 1 : g[k] = IF k = 0 THEN c
                         ELSE IF g[k - 1] \in Clusters THEN f[g[k - 1]]
                         ELSE ENDOFCHAIN
    BY <1>3, <1>4 DEF WalkStep
<1> HIDE DEF h
<1>6. \A k \in 0 .. m : h[k] = IF k = 0 THEN c
                         ELSE IF h[k - 1] \in Clusters THEN f[h[k - 1]]
                         ELSE ENDOFCHAIN
    <2> TAKE k \in 0 .. m
    <2>1. CASE k = m
        BY <2>1, <1>2, <1>3, <1>5 DEF h
    <2>2. CASE k # m
        <3>1. k \in 0 .. m - 1 /\ (k # 0 => k - 1 \in 0 .. m - 1)
            BY <2>2, <1>3
        <3>2. h[k] = g[k] /\ (k # 0 => h[k - 1] = g[k - 1])
            BY <3>1, <1>5
        <3> QED BY <3>1, <3>2, <1>8
    <2> QED BY <2>1, <2>2
<1>7. Walk(m, h)
    BY <1>6 DEF h, WalkStep
<1> QED BY <1>1, <1>7

\* What a chain is: it starts at c, goes where the table says, and ends where
\* that is no cluster, or when every cluster could have been visited.
LEMMA ChainShape ==
    ASSUME NEW f, NEW c \in Clusters
    PROVE  /\ Chain(f, c) \in Seq(Clusters)
           /\ DOMAIN Chain(f, c) = 1 .. Len(Chain(f, c))
           /\ Len(Chain(f, c)) \in 1 .. Cardinality(Clusters)
           /\ Chain(f, c)[1] = c
           /\ \A i \in 1 .. Len(Chain(f, c)) - 1 :
                Chain(f, c)[i + 1] = f[Chain(f, c)[i]]
           /\ Len(Chain(f, c)) < Cardinality(Clusters) =>
                f[Chain(f, c)[Len(Chain(f, c))]] \notin Clusters
<1> DEFINE N == Cardinality(Clusters)
           at == CHOOSE g : g = WalkStep(f, c, N, g)
           ends == {k \in DOMAIN at : at[k] \notin Clusters}
           n == IF ends = {} THEN N ELSE CHOOSE k \in ends : \A j \in ends : k <= j
           s == [k \in 1 .. n |-> at[k - 1]]
<1>1. N \in Nat \ {0}
    BY Constants
<1>2. at = WalkStep(f, c, N, at)
    BY <1>1, WalkExists
<1>3. Chain(f, c) = s
    BY DEF Chain, WalkStep
<1> HIDE DEF at
<1>4. DOMAIN at = 0 .. N /\ at[0] = c
    BY <1>1, <1>2 DEF WalkStep
<1>5. \A k \in 1 .. N : at[k] = IF at[k - 1] \in Clusters THEN f[at[k - 1]] ELSE ENDOFCHAIN
    BY <1>1, <1>2 DEF WalkStep
<1>6. n \in 1 .. N /\ (\A j \in 0 .. n - 1 : at[j] \in Clusters)
      /\ (n < N => at[n] \notin Clusters)
    <2>1. CASE ends = {}
        BY <1>1, <1>4, <2>1
    <2>2. CASE ends # {}
        <3>1. ends \subseteq Nat /\ 0 \notin ends /\ ends \subseteq 0 .. N
            BY <1>1, <1>4
        <3>2. \E k \in ends : \A j \in ends : k <= j
            <4> HIDE DEF ends
            <4> QED BY <2>2, <3>1, LeastOfNats
        <3>3. n \in ends /\ \A j \in ends : n <= j
            <4> HIDE DEF ends
            <4> QED BY <2>2, <3>2
        <3>4. \A j \in 0 .. n - 1 : j \notin ends /\ j \in 0 .. N
            <4> HIDE DEF n, ends
            <4> QED BY <3>1, <3>3, <1>1
        <3> HIDE DEF n
        <3> QED BY <3>1, <3>3, <3>4, <1>1, <1>4
    <2> QED BY <2>1, <2>2
<1> HIDE DEF n
<1>7. Len(s) = n /\ DOMAIN s = 1 .. n /\ s \in Seq(Clusters)
    BY <1>6, <1>1
<1>8. s[1] = c
    BY <1>4, <1>6, <1>1
<1>9. \A i \in 1 .. n - 1 : s[i + 1] = f[s[i]]
    BY <1>5, <1>6, <1>1
<1>10. n < N => f[s[n]] \notin Clusters
    BY <1>5, <1>6, <1>1, Constants
<1> HIDE DEF s
<1> QED BY <1>3, <1>6, <1>7, <1>8, <1>9, <1>10, <1>1

\* A chain visits what leads to a cluster before it; so its members, but the
\* first, are led to.
LEMMA ChainLed ==
    ASSUME NEW f, NEW c \in Clusters, NEW x \in Range(Chain(f, c)), x # c
    PROVE  \E y \in Range(Chain(f, c)) : y \in Clusters /\ f[y] = x
<1> DEFINE s == Chain(f, c)
<1>1. PICK i \in 1 .. Len(s) : x = s[i]
    BY ChainShape DEF Range
<1>2. i - 1 \in 1 .. Len(s) /\ i - 1 \in 1 .. Len(s) - 1 /\ s[1] = c
    BY <1>1, ChainShape, Constants
<1>3. s[(i - 1) + 1] = f[s[i - 1]] /\ s[i - 1] \in Clusters
    BY <1>2, ChainShape, ElementOfSeq
<1>4. s[i - 1] \in Range(s)
    BY <1>2, ChainShape DEF Range
<1> QED BY <1>1, <1>2, <1>3, <1>4

LEMMA ChainIn ==
    ASSUME NEW f, NEW c \in Clusters
    PROVE  Range(Chain(f, c)) \subseteq Clusters /\ c \in Range(Chain(f, c))
<1>1. \A i \in 1 .. Len(Chain(f, c)) : Chain(f, c)[i] \in Clusters
    BY ChainShape, ElementOfSeq
<1>2. 1 \in 1 .. Len(Chain(f, c))
    BY ChainShape, Constants
<1> QED BY <1>1, <1>2, ChainShape DEF Range

\* Two tables that agree on a chain, but for its end, have the same chain as
\* far as both go.
LEMMA ChainsAgree ==
    ASSUME NEW f, NEW g, NEW c \in Clusters,
           \A x \in Range(Chain(f, c)) : f[x] \in Clusters => g[x] = f[x]
    PROVE  /\ \A i \in 1 .. Len(Chain(f, c)) : Chain(g, c)[i] = Chain(f, c)[i]
           /\ Len(Chain(f, c)) <= Len(Chain(g, c))
<1> DEFINE s == Chain(f, c)
           u == Chain(g, c)
           bad == {i \in 1 .. Len(s) : i > Len(u) \/ u[i] # s[i]}
<1>1. /\ s \in Seq(Clusters) /\ u \in Seq(Clusters)
      /\ DOMAIN s = 1 .. Len(s) /\ DOMAIN u = 1 .. Len(u)
      /\ Len(s) \in Nat \ {0} /\ Len(u) \in Nat \ {0}
      /\ Len(s) <= Cardinality(Clusters) /\ Len(u) <= Cardinality(Clusters)
      /\ s[1] = c /\ u[1] = c
      /\ \A i \in 1 .. Len(s) - 1 : s[i + 1] = f[s[i]]
      /\ \A i \in 1 .. Len(u) - 1 : u[i + 1] = g[u[i]]
      /\ Len(u) < Cardinality(Clusters) => g[u[Len(u)]] \notin Clusters
      /\ Cardinality(Clusters) \in Nat
    BY ChainShape, Constants
<1>2. \A i \in 1 .. Len(s) : s[i] \in Clusters /\ s[i] \in Range(s)
    BY <1>1, ElementOfSeq DEF Range
<1>3. \A i \in 1 .. Len(s) - 1 : i + 1 \in 1 .. Len(s) /\ i \in 1 .. Len(s)
                                 /\ f[s[i]] \in Clusters
    BY <1>1, <1>2
<1>4. bad = {}
    <2> SUFFICES ASSUME bad # {} PROVE FALSE
        OBVIOUS
    <2>1. bad \subseteq Nat
        BY <1>1
    <2>2. PICK i \in bad : \A j \in bad : i <= j
        <3> HIDE DEF bad
        <3> QED BY <2>1, LeastOfNats
    <2> HIDE DEF s, u
    <2>3. i # 1 /\ i \in 1 .. Len(s)
        BY <1>1, <2>2
    <2>4. i - 1 \in 1 .. Len(s) - 1 /\ i - 1 \notin bad /\ i - 1 \in 1 .. Len(s)
        <3>1. i - 1 \notin bad
            <4> HIDE DEF bad
            <4> QED BY <2>1, <2>2
        <3> QED BY <3>1, <2>3, <1>1
    <2>5. i - 1 <= Len(u) /\ u[i - 1] = s[i - 1]
        BY <2>4
    <2>6. g[s[i - 1]] = f[s[i - 1]] /\ f[s[i - 1]] \in Clusters /\ s[i] = f[s[i - 1]]
        <3>1. s[i - 1] \in Range(s) /\ f[s[i - 1]] \in Clusters
            BY <2>4, <1>2, <1>3
        <3>2. s[(i - 1) + 1] = f[s[i - 1]]
            BY <2>4, <1>1
        <3> QED BY <3>1, <3>2, <2>3 DEF s
    <2>7. i - 1 < Len(u)
        <3> SUFFICES ASSUME i - 1 = Len(u) PROVE FALSE
            BY <2>5, <1>1, <2>3
        <3> QED BY <2>3, <2>5, <2>6, <1>1
    <2>8. i \in 1 .. Len(u) /\ i - 1 \in 1 .. Len(u) - 1
        BY <2>7, <2>3, <2>4, <1>1
    <2>9. u[(i - 1) + 1] = g[u[i - 1]]
        BY <2>8, <1>1
    <2> QED BY <2>2, <2>3, <2>5, <2>6, <2>8, <2>9
<1>5. \A i \in 1 .. Len(s) : i <= Len(u) /\ u[i] = s[i]
    <2> HIDE DEF s, u
    <2> QED BY <1>4, <1>1
<1>6. Len(s) <= Len(u)
    BY <1>5, <1>1
<1> QED BY <1>5, <1>6

\* A change that touches a chain nowhere, or only the mark at its end, leaves it.
LEMMA ChainSame ==
    ASSUME NEW f, NEW g, NEW c \in Clusters,
           \A x \in Range(Chain(f, c)) :
               g[x] = f[x] \/ (f[x] \notin Clusters /\ g[x] \notin Clusters)
    PROVE  Chain(g, c) = Chain(f, c)
<1> DEFINE s == Chain(f, c)
           u == Chain(g, c)
<1>1. (\A i \in 1 .. Len(s) : u[i] = s[i]) /\ Len(s) <= Len(u)
    BY ChainsAgree
<1>2. /\ s \in Seq(Clusters) /\ u \in Seq(Clusters)
      /\ DOMAIN s = 1 .. Len(s)
      /\ Len(s) \in Nat \ {0} /\ Len(u) \in Nat \ {0}
      /\ Len(u) <= Cardinality(Clusters)
      /\ \A i \in 1 .. Len(u) - 1 : u[i + 1] = g[u[i]]
      /\ Len(s) < Cardinality(Clusters) => f[s[Len(s)]] \notin Clusters
      /\ Cardinality(Clusters) \in Nat
    BY ChainShape, Constants
<1>3. Len(u) = Len(s)
    <2> SUFFICES ASSUME Len(s) < Len(u) PROVE FALSE
        BY <1>1, <1>2
    <2>1. Len(s) \in 1 .. Len(u) - 1 /\ Len(s) + 1 \in 1 .. Len(u) /\ Len(s) \in 1 .. Len(s)
        BY <1>2
    <2>2. g[s[Len(s)]] \in Clusters
        BY <2>1, <1>1, <1>2, ElementOfSeq
    <2>3. f[s[Len(s)]] \notin Clusters /\ s[Len(s)] \in Range(s)
        BY <2>1, <1>2 DEF Range
    <2> QED BY <2>2, <2>3
<1> HIDE DEF s, u
<1>4. u = s
    BY <1>1, <1>2, <1>3, SeqEqual
<1> QED BY <1>4 DEF s, u

\* Linking v, which leads nowhere, behind the end of a chain adds v to it.
LEMMA ChainGrows ==
    ASSUME NEW f, NEW g, NEW c \in Clusters, NEW x \in Clusters, NEW v \in Clusters,
           \A y \in Clusters : g[y] = IF y = x THEN v ELSE f[y],
           x \notin Range(Chain(f, c)) \/ f[x] \notin Clusters,
           f[v] \notin Clusters, x # v
    PROVE  /\ Len(Chain(f, c)) <= Len(Chain(g, c))
           /\ Range(Chain(g, c)) \subseteq Range(Chain(f, c)) \cup {v}
<1> DEFINE s == Chain(f, c)
           u == Chain(g, c)
<1>1. (\A i \in 1 .. Len(s) : u[i] = s[i]) /\ Len(s) <= Len(u)
    <2>1. \A y \in Range(s) : f[y] \in Clusters => g[y] = f[y]
        BY ChainIn
    <2> QED BY <2>1, ChainsAgree
<1>2. /\ s \in Seq(Clusters) /\ u \in Seq(Clusters)
      /\ DOMAIN s = 1 .. Len(s) /\ DOMAIN u = 1 .. Len(u)
      /\ Len(s) \in Nat \ {0} /\ Len(u) \in Nat \ {0}
      /\ Len(u) <= Cardinality(Clusters)
      /\ \A i \in 1 .. Len(u) - 1 : u[i + 1] = g[u[i]]
      /\ Len(s) < Cardinality(Clusters) => f[s[Len(s)]] \notin Clusters
      /\ Cardinality(Clusters) \in Nat
    BY ChainShape, Constants
<1>3. \A i \in 1 .. Len(u) : u[i] \in Clusters
    BY <1>2, ElementOfSeq
<1>4. Len(s) < Len(u) => u[Len(s) + 1] = v /\ Len(u) = Len(s) + 1
    <2> SUFFICES ASSUME Len(s) < Len(u) PROVE u[Len(s) + 1] = v /\ Len(u) = Len(s) + 1
        OBVIOUS
    <2>1. Len(s) \in 1 .. Len(u) - 1 /\ Len(s) + 1 \in 1 .. Len(u) /\ Len(s) \in 1 .. Len(s)
        BY <1>2
    <2>2. u[Len(s) + 1] = g[s[Len(s)]] /\ s[Len(s)] \in Clusters /\ u[Len(s) + 1] \in Clusters
        BY <2>1, <1>1, <1>2, <1>3, ElementOfSeq
    <2>3. f[s[Len(s)]] \notin Clusters
        BY <1>2
    <2>4. s[Len(s)] = x /\ u[Len(s) + 1] = v
        BY <2>2, <2>3
    <2>5. Len(u) = Len(s) + 1
        <3>0. Len(s) \in Nat /\ Len(u) \in Nat /\ Len(s) < Len(u)
            BY <1>2
        <3> SUFFICES ASSUME Len(s) + 1 < Len(u) PROVE FALSE
            BY <3>0
        <3>1. Len(s) + 1 \in 1 .. Len(u) - 1 /\ (Len(s) + 1) + 1 \in 1 .. Len(u)
            BY <1>2
        <3>2. u[(Len(s) + 1) + 1] = g[v] /\ g[v] = f[v]
            BY <3>1, <2>4, <1>2
        <3> QED BY <3>1, <3>2, <1>3
    <2> QED BY <2>4, <2>5
<1>5. \A i \in 1 .. Len(u) : u[i] \in Range(s) \cup {v}
    <2> TAKE i \in 1 .. Len(u)
    <2>1. CASE i \in 1 .. Len(s)
        <3>1. u[i] = s[i] /\ s[i] \in Range(s)
            BY <2>1, <1>1, <1>2 DEF Range
        <3> QED BY <3>1
    <2>2. CASE i > Len(s)
        <3>1. Len(s) < Len(u) /\ i \in Nat /\ i <= Len(u)
            BY <2>2, <1>2
        <3>2. i = Len(s) + 1
            BY <3>1, <2>2, <1>2, <1>4
        <3> QED BY <3>1, <3>2, <1>4
    <2> QED BY <2>1, <2>2, <1>2
<1> HIDE DEF s, u
<1>6. Range(u) \subseteq Range(s) \cup {v}
    BY <1>5, <1>2 DEF Range
<1> QED BY <1>1, <1>6 DEF s, u

Linked(f) ==
    \A c \in Clusters :
        f[c] \in Clusters =>
            /\ f[f[c]] # Free
            /\ f[c] # Root
            /\ \A d \in Clusters \ {c} : f[d] # f[c]

\* No cluster leads to c.
Unled(f, c) == \A x \in Clusters : f[x] # c

\* Chains of two clusters that nothing leads to have no cluster in common.
LEMMA ChainsDisjoint ==
    ASSUME NEW f, NEW a \in Clusters, NEW b \in Clusters,
           Linked(f), Unled(f, a), Unled(f, b), a # b
    PROVE  Range(Chain(f, a)) \cap Range(Chain(f, b)) = {}
<1> DEFINE s == Chain(f, a)
           u == Chain(f, b)
           bad == {i \in 1 .. Len(s) : s[i] \in Range(u)}
<1>1. /\ DOMAIN s = 1 .. Len(s) /\ Len(s) \in Nat \ {0} /\ s[1] = a
      /\ \A i \in 1 .. Len(s) - 1 : s[i + 1] = f[s[i]]
      /\ \A i \in 1 .. Len(s) : s[i] \in Clusters
    BY ChainShape, Constants, ElementOfSeq
<1>2. bad = {}
    <2> SUFFICES ASSUME bad # {} PROVE FALSE
        OBVIOUS
    <2>1. bad \subseteq Nat
        BY <1>1
    <2>2. PICK i \in bad : \A j \in bad : i <= j
        <3> HIDE DEF bad
        <3> QED BY <2>1, LeastOfNats
    <2>3. CASE s[i] = b
        <3>1. i # 1
            BY <2>3, <1>1
        <3>2. i - 1 \in 1 .. Len(s) - 1 /\ i - 1 \in 1 .. Len(s)
            BY <3>1, <2>2, <1>1
        <3>3. s[(i - 1) + 1] = f[s[i - 1]] /\ s[i - 1] \in Clusters
            BY <3>2, <1>1
        <3> QED BY <3>2, <3>3, <2>2, <2>3, <1>1 DEF Unled
    <2>4. CASE s[i] # b
        <3>1. PICK y \in Range(u) : y \in Clusters /\ f[y] = s[i]
            BY <2>2, <2>4, ChainLed
        <3>2. i # 1
            BY <3>1, <1>1 DEF Unled
        <3>3. i - 1 \in 1 .. Len(s) - 1 /\ i - 1 \in 1 .. Len(s)
            BY <3>2, <2>2, <1>1
        <3>4. s[(i - 1) + 1] = f[s[i - 1]] /\ s[i - 1] \in Clusters /\ s[i] \in Clusters
              /\ (i - 1) + 1 = i
            BY <3>3, <2>2, <1>1
        <3>5. s[i - 1] = y
            BY <3>1, <3>4 DEF Linked
        <3>6. i - 1 \in bad
            BY <3>5, <3>3, <3>1
        <3> HIDE DEF bad
        <3> QED BY <3>6, <2>2, <3>3, <2>1
    <2> QED BY <2>3, <2>4
<1> HIDE DEF s, u
<1>3. \A x \in Range(s) : x \notin Range(u)
    BY <1>1, <1>2 DEF Range
<1> QED BY <1>3 DEF s, u

\* A chain of a cluster that nothing leads to visits no cluster twice.
LEMMA ChainDistinct ==
    ASSUME NEW f, NEW a \in Clusters, Linked(f), Unled(f, a)
    PROVE  \A i \in 1 .. Len(Chain(f, a)), j \in 1 .. Len(Chain(f, a)) :
               Chain(f, a)[i] = Chain(f, a)[j] => i = j
<1> DEFINE s == Chain(f, a)
           bad == {i \in 1 .. Len(s) : \E j \in 1 .. Len(s) : i < j /\ s[i] = s[j]}
<1>1. /\ DOMAIN s = 1 .. Len(s) /\ Len(s) \in Nat \ {0} /\ s[1] = a
      /\ \A i \in 1 .. Len(s) - 1 : s[i + 1] = f[s[i]]
      /\ \A i \in 1 .. Len(s) : s[i] \in Clusters
    BY ChainShape, Constants, ElementOfSeq
<1> HIDE DEF s
<1>2. bad = {}
    <2> SUFFICES ASSUME bad # {} PROVE FALSE
        OBVIOUS
    <2>1. bad \subseteq Nat
        BY <1>1
    <2>2. PICK i \in bad : \A j \in bad : i <= j
        <3> HIDE DEF bad
        <3> QED BY <2>1, LeastOfNats
    <2>3. PICK j \in 1 .. Len(s) : i < j /\ s[i] = s[j]
        BY <2>2
    <2>4. /\ i \in 1 .. Len(s) /\ j - 1 \in 1 .. Len(s) - 1 /\ j - 1 \in 1 .. Len(s)
          /\ (j - 1) + 1 = j
        BY <2>2, <2>3, <1>1
    <2>5. s[j] = f[s[j - 1]] /\ s[j - 1] \in Clusters /\ s[j] \in Clusters
        BY <2>4, <1>1
    <2>6. i # 1
        BY <2>3, <2>5, <1>1 DEF Unled
    <2>7. i - 1 \in 1 .. Len(s) - 1 /\ i - 1 \in 1 .. Len(s) /\ (i - 1) + 1 = i
        BY <2>4, <2>6, <1>1
    <2>8. s[i] = f[s[i - 1]] /\ s[i - 1] \in Clusters
        BY <2>7, <1>1
    <2>9. s[i - 1] = s[j - 1]
        BY <2>3, <2>5, <2>8 DEF Linked
    <2>10. i - 1 < j - 1
        BY <2>3, <2>4
    <2>11. i - 1 \in bad
        BY <2>9, <2>10, <2>7, <2>4
    <2> HIDE DEF bad
    <2> QED BY <2>11, <2>2, <2>1, <2>7
<1> QED BY <1>1, <1>2 DEF s

\* In a chain that starts at a cluster in use every cluster is in use.
LEMMA ChainUsed ==
    ASSUME NEW f, NEW a \in Clusters, Linked(f), f[a] # Free
    PROVE  \A x \in Range(Chain(f, a)) : f[x] # Free
BY ChainLed, ChainIn DEF Linked

\* When some cluster is free, such a chain ends where the table has a mark.
LEMMA ChainEnds ==
    ASSUME NEW f, NEW a \in Clusters, NEW x \in Clusters,
           Linked(f), Unled(f, a), f[a] # Free, f[x] = Free
    PROVE  f[Chain(f, a)[Len(Chain(f, a))]] \notin Clusters
<1> DEFINE s == Chain(f, a)
<1>1. /\ DOMAIN s = 1 .. Len(s) /\ Len(s) \in 1 .. Cardinality(Clusters)
      /\ Len(s) < Cardinality(Clusters) => f[s[Len(s)]] \notin Clusters
      /\ \A i \in 1 .. Len(s) : s[i] \in Clusters
      /\ s \in Seq(Clusters)
    BY ChainShape, ElementOfSeq
<1>2. x \notin Range(s)
    BY ChainUsed
<1>3. s \in Injection(1 .. Len(s), Clusters \ {x})
    <2>1. \A i \in 1 .. Len(s) : s[i] \in Clusters \ {x}
        BY <1>1, <1>2 DEF Range
    <2>2. s \in [1 .. Len(s) -> Clusters \ {x}]
        <3> HIDE DEF s
        <3> QED BY <1>1, <2>1
    <2>3. \A i, j \in 1 .. Len(s) : s[i] = s[j] => i = j
        BY ChainDistinct
    <2> HIDE DEF s
    <2> QED BY <2>2, <2>3 DEF Injection, IsInjective
<1>4. IsFiniteSet(Clusters \ {x}) /\ Cardinality(Clusters \ {x}) = Cardinality(Clusters) - 1
    BY Constants, FS_RemoveElement
<1>5. Cardinality(1 .. Len(s)) <= Cardinality(Clusters \ {x})
    <2> HIDE DEF s
    <2> QED BY <1>3, <1>4, FS_Injection
<1>6. Len(s) \in Nat /\ Len(s) >= 1 /\ Cardinality(1 .. Len(s)) = Len(s)
    <2>1. Len(s) \in Nat /\ Len(s) >= 1
        BY <1>1, Constants
    <2> HIDE DEF s
    <2> QED BY <2>1, FS_Interval
<1> HIDE DEF s
<1>7. Len(s) < Cardinality(Clusters)
    BY <1>4, <1>5, <1>6, Constants
<1> QED BY <1>1, <1>7 DEF s

-----------------------------------------------------------------------------
(* Sequences of sequences, and sets put in order *)

FlatStep(seqs, N, g) ==
    [i \in 1 .. N |-> IF i = 1 THEN seqs[i] ELSE g[i - 1] \o seqs[i]]

LEMMA FlatExists ==
    ASSUME NEW seqs, NEW N \in Nat
    PROVE  \E g : g = FlatStep(seqs, N, g)
<1> DEFINE Flat(m, g) == g = FlatStep(seqs, m, g)
           bad == {m \in Nat : ~ \E g : Flat(m, g)}
<1> SUFFICES ASSUME bad # {} PROVE FALSE
    OBVIOUS
<1>1. PICK m \in bad : \A j \in bad : m <= j
    <2> HIDE DEF Flat
    <2> QED BY LeastOfNats
<1>2. m # 0
    <2>1. Flat(0, [i \in 1 .. 0 |-> <<>>])
        BY DEF FlatStep
    <2> QED BY <2>1
<1>3. m \in Nat \ {0} /\ m - 1 \in Nat /\ m - 1 \notin bad
    <2> HIDE DEF Flat
    <2> QED BY <1>1, <1>2
<1>4. PICK g : Flat(m - 1, g)
    <2> HIDE DEF Flat
    <2> QED BY <1>3
<1> DEFINE h == [i \in 1 .. m |-> IF i < m THEN g[i]
                                 ELSE IF i = 1 THEN seqs[i] ELSE g[i - 1] \o seqs[i]]
<1>5. \A i \in 1 .. m - 1 : h[i] = g[i]
    BY <1>3
<1>6. \A i \in 1 .. m - 1 : g[i] = IF i = 1 THEN seqs[i] ELSE g[i - 1] \o seqs[i]
    BY <1>3, <1>4 DEF FlatStep
<1>7. h[m] = IF m = 1 THEN seqs[m] ELSE g[m - 1] \o seqs[m]
    BY <1>3
<1>8. DOMAIN h = 1 .. m /\ h = [i \in 1 .. m |-> h[i]]
    OBVIOUS
<1> HIDE DEF h
<1>9. \A i \in 1 .. m : h[i] = IF i = 1 THEN seqs[i] ELSE h[i - 1] \o seqs[i]
    <2> TAKE i \in 1 .. m
    <2>1. i = 1 \/ i - 1 \in 1 .. m - 1
        BY <1>3
    <2>2. CASE i = m
        BY <2>1, <2>2, <1>3, <1>5, <1>7
    <2>3. CASE i # m
        <3>1. i \in 1 .. m - 1
            BY <2>3, <1>3
        <3> QED BY <2>1, <3>1, <1>5, <1>6
    <2> QED BY <2>2, <2>3
<1>10. Flat(m, h)
    BY <1>8, <1>9 DEF FlatStep
<1> QED BY <1>1, <1>10

\* F is the first m of seqs one behind the other, st[i] what comes before the
\* i-th of them.
Offsets(seqs, m, F, st) ==
    /\ st \in [1 .. m + 1 -> Nat] /\ st[1] = 0
    /\ \A i \in 1 .. m : st[i + 1] = st[i] + Len(seqs[i])
    /\ Len(F) = st[m + 1]
    /\ \A i \in 1 .. m : \A j \in 1 .. Len(seqs[i]) :
         st[i] + j \in 1 .. Len(F) /\ F[st[i] + j] = seqs[i][j]
    /\ \A k \in 1 .. Len(F) :
         \E i \in 1 .. m : \E j \in 1 .. Len(seqs[i]) : k = st[i] + j

LEMMA OffsetsOne ==
    ASSUME NEW S, NEW seqs, seqs[1] \in Seq(S)
    PROVE  \E st : Offsets(seqs, 1, seqs[1], st)
<1> DEFINE st == [i \in 1 .. 2 |-> IF i = 1 THEN 0 ELSE Len(seqs[1])]
<1>1. Len(seqs[1]) \in Nat
    OBVIOUS
<1>2. /\ st \in [1 .. 1 + 1 -> Nat] /\ st[1] = 0 /\ st[2] = Len(seqs[1]) /\ 1 .. 1 = {1}
    BY <1>1
<1> HIDE DEF st
<1>3. \A k \in 1 .. Len(seqs[1]) : k = st[1] + k
    BY <1>2, <1>1
<1>4. Offsets(seqs, 1, seqs[1], st)
    BY <1>1, <1>2, <1>3 DEF Offsets
<1> QED BY <1>4

LEMMA OffsetsNext ==
    ASSUME NEW S, NEW seqs, NEW m \in Nat \ {0}, seqs[m + 1] \in Seq(S),
           NEW F \in Seq(S), NEW st, Offsets(seqs, m, F, st)
    PROVE  \E su : Offsets(seqs, m + 1, F \o seqs[m + 1], su)
<1> DEFINE n == Len(seqs[m + 1])
           G == F \o seqs[m + 1]
           su == [i \in 1 .. m + 2 |-> IF i <= m + 1 THEN st[i] ELSE st[m + 1] + n]
<1>1. n \in Nat /\ Len(F) \in Nat
    OBVIOUS
<1>2. G \in Seq(S) /\ Len(G) = Len(F) + n
      /\ (\A k \in 1 .. Len(F) : G[k] = F[k])
      /\ (\A j \in 1 .. n : G[Len(F) + j] = seqs[m + 1][j])
    <2>1. /\ G \in Seq(S) /\ Len(G) = Len(F) + n
          /\ \A i \in 1 .. Len(F) + n : G[i] = IF i <= Len(F) THEN F[i]
                                               ELSE seqs[m + 1][i - Len(F)]
        BY ConcatProperties
    <2>2. \A k \in 1 .. Len(F) : k \in 1 .. Len(F) + n /\ k <= Len(F)
        BY <1>1
    <2>3. \A j \in 1 .. n : Len(F) + j \in 1 .. Len(F) + n /\ ~(Len(F) + j <= Len(F))
                            /\ (Len(F) + j) - Len(F) = j
        BY <1>1
    <2> HIDE DEF G, n
    <2> QED BY <2>1, <2>2, <2>3
<1> HIDE DEF G
<1>3. /\ st \in [1 .. m + 1 -> Nat] /\ st[1] = 0 /\ Len(F) = st[m + 1]
      /\ \A i \in 1 .. m : st[i + 1] = st[i] + Len(seqs[i])
    BY DEF Offsets
<1>4. /\ su \in [1 .. (m + 1) + 1 -> Nat] /\ su[1] = 0
      /\ \A i \in 1 .. m + 1 : su[i] = st[i]
      /\ su[m + 2] = Len(F) + n
    BY <1>1, <1>3
<1> HIDE DEF su
<1>5. \A i \in 1 .. m + 1 : su[i + 1] = su[i] + Len(seqs[i])
    <2> TAKE i \in 1 .. m + 1
    <2>1. CASE i = m + 1
        BY <2>1, <1>3, <1>4
    <2>2. CASE i \in 1 .. m
        BY <2>2, <1>3, <1>4
    <2> QED BY <2>1, <2>2
<1>6. ASSUME NEW i \in 1 .. m + 1, NEW j \in 1 .. Len(seqs[i])
      PROVE  su[i] + j \in 1 .. Len(G) /\ G[su[i] + j] = seqs[i][j]
    <2>1. CASE i = m + 1
        <3>1. su[i] = Len(F) /\ j \in 1 .. n
            BY <2>1, <1>3, <1>4
        <3> QED BY <3>1, <2>1, <1>2, <1>1
    <2>2. CASE i \in 1 .. m
        <3>1. su[i] = st[i] /\ st[i] + j \in 1 .. Len(F) /\ F[st[i] + j] = seqs[i][j]
            BY <2>2, <1>4 DEF Offsets
        <3> HIDE DEF n
        <3> QED BY <3>1, <1>1, <1>2
    <2> QED BY <2>1, <2>2
<1>7. ASSUME NEW k \in 1 .. Len(G)
      PROVE  \E i \in 1 .. m + 1 : \E j \in 1 .. Len(seqs[i]) : k = su[i] + j
    <2>1. CASE k \in 1 .. Len(F)
        <3>1. PICK i \in 1 .. m : \E j \in 1 .. Len(seqs[i]) : k = st[i] + j
            BY <2>1 DEF Offsets
        <3>2. i \in 1 .. m + 1 /\ su[i] = st[i]
            BY <1>4
        <3> QED BY <3>1, <3>2
    <2>2. CASE k > Len(F)
        <3>1. k - Len(F) \in 1 .. n /\ k = Len(F) + (k - Len(F))
            <4> HIDE DEF n
            <4> QED BY <2>2, <1>1, <1>2
        <3>2. su[m + 1] = Len(F) /\ m + 1 \in 1 .. m + 1
            BY <1>3, <1>4
        <3> QED BY <3>1, <3>2
    <2> QED BY <2>1, <2>2, <1>1
<1>8. Len(G) = su[(m + 1) + 1]
    <2>1. (m + 1) + 1 = m + 2
        OBVIOUS
    <2> QED BY <2>1, <1>2, <1>4
<1>9. Offsets(seqs, m + 1, G, su)
    BY <1>4, <1>5, <1>6, <1>7, <1>8 DEF Offsets
<1> QED BY <1>9 DEF G

LEMMA Flattened ==
    ASSUME NEW S, NEW seqs \in Seq(Seq(S)), seqs # <<>>
    PROVE  /\ FlattenSeq(seqs) \in Seq(S)
           /\ \E st : Offsets(seqs, Len(seqs), FlattenSeq(seqs), st)
<1> DEFINE n == Len(seqs)
           flat == CHOOSE g : g = FlatStep(seqs, n, g)
           bad == {m \in 1 .. n : ~ (/\ flat[m] \in Seq(S)
                                     /\ \E st : Offsets(seqs, m, flat[m], st))}
<1>1. n \in Nat \ {0}
    BY EmptySeq
<1>2. flat = FlatStep(seqs, n, flat)
    BY <1>1, FlatExists
<1>3. FlattenSeq(seqs) = flat[n]
    BY <1>1 DEF FlattenSeq, FlatStep
<1>4. \A i \in 1 .. n : seqs[i] \in Seq(S)
    BY ElementOfSeq
<1> HIDE DEF flat
<1>5. \A i \in 1 .. n : flat[i] = IF i = 1 THEN seqs[i] ELSE flat[i - 1] \o seqs[i]
    BY <1>1, <1>2 DEF FlatStep
<1>6. bad = {}
    <2> SUFFICES ASSUME bad # {} PROVE FALSE
        OBVIOUS
    <2>1. PICK m \in bad : \A j \in bad : m <= j
        <3>1. bad \subseteq Nat
            BY <1>1
        <3> HIDE DEF bad
        <3> QED BY <3>1, LeastOfNats
    <2>2. m # 1
        <3> SUFFICES ASSUME m = 1 PROVE FALSE
            OBVIOUS
        <3>1. flat[1] = seqs[1] /\ seqs[1] \in Seq(S)
            BY <1>1, <1>4, <1>5
        <3>2. \E st : Offsets(seqs, 1, flat[1], st)
            BY <3>1, OffsetsOne
        <3> QED BY <3>1, <3>2, <2>1
    <2>3. m \in 1 .. n /\ m - 1 \in 1 .. n /\ m - 1 \in Nat \ {0} /\ m - 1 \notin bad
          /\ (m - 1) + 1 = m
        <3>1. m \in 1 .. n /\ m - 1 \in 1 .. n /\ m - 1 \in Nat \ {0} /\ (m - 1) + 1 = m
            BY <2>1, <2>2, <1>1
        <3> HIDE DEF bad
        <3> QED BY <3>1, <2>1
    <2>4. PICK st : Offsets(seqs, m - 1, flat[m - 1], st)
        BY <2>3
    <2>5. flat[m - 1] \in Seq(S)
        BY <2>3
    <2>6. \E su : Offsets(seqs, (m - 1) + 1, flat[m - 1] \o seqs[(m - 1) + 1], su)
        BY <2>3, <2>4, <2>5, <1>4, OffsetsNext
    <2>7. flat[m] = flat[m - 1] \o seqs[m] /\ flat[m] \in Seq(S)
        <3>1. flat[m] = flat[m - 1] \o seqs[m] /\ seqs[m] \in Seq(S)
            BY <2>2, <2>3, <1>4, <1>5
        <3>2. flat[m - 1] \o seqs[m] \in Seq(S)
            BY <3>1, <2>5, ConcatProperties
        <3> QED BY <3>1, <3>2
    <2> QED BY <2>1, <2>3, <2>6, <2>7
<1>7. n \in 1 .. n
    BY <1>1
<1> QED BY <1>3, <1>6, <1>7

\* In a finite set of clusters there is one with any number below it.
LEMMA RankExists ==
    ASSUME NEW F, F \subseteq Clusters, NEW i \in Nat, i < Cardinality(F)
    PROVE  \E c \in F : Cardinality({d \in F : d < c}) = i
<1> DEFINE Below(c) == {d \in F : d < c}
           bad == {k \in Nat : k < Cardinality(F) /\ ~ \E c \in F : Cardinality(Below(c)) = k}
<1>1. IsFiniteSet(F) /\ Cardinality(F) \in Nat /\ F \subseteq Nat
    BY Constants, FS_Subset, FS_CardinalityType
<1>2. \A c : IsFiniteSet(Below(c)) /\ Cardinality(Below(c)) \in Nat
    <2> TAKE c
    <2>1. Below(c) \in SUBSET F
        OBVIOUS
    <2> HIDE DEF Below
    <2> QED BY <2>1, <1>1, FS_Subset, FS_CardinalityType
<1>3. bad = {}
    <2> SUFFICES ASSUME bad # {} PROVE FALSE
        OBVIOUS
    <2>1. PICK k \in bad : \A j \in bad : k <= j
        <3> HIDE DEF Below
        <3> QED BY LeastOfNats
    <2>2. k \in Nat /\ k < Cardinality(F) /\ \A c \in F : Cardinality(Below(c)) # k
        <3> HIDE DEF Below
        <3> QED BY <2>1
    <2>3. k # 0
        <3> SUFFICES ASSUME k = 0 PROVE FALSE
            OBVIOUS
        <3>1. F # {}
            BY <2>2, <1>1, FS_EmptySet
        <3>2. PICK c \in F : \A d \in F : c <= d
            BY <1>1, <3>1, LeastOfNats
        <3>3. Below(c) = {}
            <4>1. \A d \in F : d \in Nat /\ c \in Nat /\ c <= d
                BY <3>2, <1>1
            <4>2. \A d \in F : ~(d < c)
                BY <4>1
            <4> QED BY <4>2
        <3> QED BY <3>3, <2>2, FS_EmptySet
    <2>4. k - 1 \in Nat /\ k - 1 < Cardinality(F) /\ k - 1 \notin bad
        <3> HIDE DEF bad
        <3> QED BY <2>1, <2>2, <2>3, <1>1
    <2>5. PICK c \in F : Cardinality(Below(c)) = k - 1
        <3> HIDE DEF Below
        <3> QED BY <2>4
    <2> DEFINE A == Below(c) \cup {c}
               B == F \ A
    <2>6. c \notin Below(c) /\ c \in Nat
        BY <1>1
    <2>7. IsFiniteSet(A) /\ Cardinality(A) = k
        <3> HIDE DEF Below
        <3> QED BY <2>5, <2>6, <2>4, <1>2, FS_AddElement
    <2>8. A \subseteq F /\ A # F
        <3>1. Cardinality(A) # Cardinality(F)
            BY <2>7, <2>2, <1>1
        <3> QED BY <3>1
    <2>9. PICK e \in B : \A d \in B : e <= d
        <3>1. B # {} /\ B \subseteq Nat
            BY <2>8, <1>1
        <3> HIDE DEF B
        <3> QED BY <3>1, LeastOfNats
    <2>10. Below(e) = A
        <3>1. \A d \in F : d < e <=> d \in A
            <4> TAKE d \in F
            <4>1. d \in Nat /\ e \in Nat /\ e \in F /\ e \notin A
                BY <2>9, <1>1
            <4>2. ASSUME d \in A PROVE d < e
                BY <4>1, <4>2, <2>6
            <4>3. ASSUME d \notin A PROVE e <= d
                BY <4>3, <2>9
            <4> QED BY <4>1, <4>2, <4>3
        <3> QED BY <3>1, <2>8
    <2> HIDE DEF Below, A
    <2> QED BY <2>2, <2>7, <2>9, <2>10
<1> QED BY <1>3

\* Ascending lists the members of a set of clusters, each once.
LEMMA AscendingShape ==
    ASSUME NEW F, F \subseteq Clusters
    PROVE  /\ Ascending(F) \in Seq(F) /\ Len(Ascending(F)) = Cardinality(F)
           /\ DOMAIN Ascending(F) = 1 .. Len(Ascending(F))
           /\ Cardinality(F) \in Nat
           /\ \A i, j \in 1 .. Len(Ascending(F)) :
                Ascending(F)[i] = Ascending(F)[j] => i = j
<1> DEFINE Below(c) == {d \in F : d < c}
           n == Cardinality(F)
           s == [i \in 1 .. n |-> CHOOSE c \in F : Cardinality(Below(c)) = i - 1]
<1>1. IsFiniteSet(F) /\ n \in Nat
    BY Constants, FS_Subset, FS_CardinalityType
<1>2. Ascending(F) = s
    BY DEF Ascending
<1>3. ASSUME NEW i \in 1 .. n PROVE s[i] \in F /\ Cardinality(Below(s[i])) = i - 1
    <2>1. i - 1 \in Nat /\ i - 1 < Cardinality(F)
        BY <1>1
    <2>2. \E c \in F : Cardinality(Below(c)) = i - 1
        BY <2>1, RankExists
    <2> HIDE DEF Below, n
    <2> QED BY <2>2
<1> HIDE DEF Below
<1>4. Len(s) = n /\ DOMAIN s = 1 .. n
    BY <1>1
<1>5. s \in Seq(F)
    <2>1. s \in [1 .. n -> F]
        BY <1>3
    <2> HIDE DEF s
    <2> QED BY <2>1, <1>1
<1> HIDE DEF s
<1>6. \A i, j \in 1 .. n : s[i] = s[j] => i = j
    <2> HIDE DEF n
    <2> QED BY <1>3, <1>1
<1> QED BY <1>1, <1>2, <1>4, <1>5, <1>6

(* Kinds of writes *)

DeviceWrites ==
    [on : {"fat"}, at : Clusters, value : Values, onFail : {"stop", "finish", "ignore"}]
    \cup [on : {"bak"}, at : Clusters, value : Values, onFail : {"stop", "ignore"}]
    \cup [on : {"zero"}, at : Clusters, value : {Free}, onFail : {"stop"}]
    \cup [on : {"nowhere"}, at : {0}, value : {Free}, onFail : {"stop"}]
    \cup [on : {"dir"}, at : Nat, value : Entry \cup {NoEntry},
          onFail : {"stop", "ignore"}]

Firm(w)   == w.onFail # "ignore"
Marks(w)  == w.on = "fat" /\ w.value = ENDOFCHAIN
Frees(w)  == w.on = "fat" /\ w.value = Free
Links(w)  == w.on = "fat" /\ w.value \in Clusters
Enters(w) == w.on = "dir" /\ w.value # NoEntry
Clears(w) == w.on = "dir" /\ w.value = NoEntry

Calls ==
    [op : {"idle", "open", "write", "delete", "move"},
     name : Names \cup {"none"}, slot : Nat, cluster : Clusters \cup {0},
     size : 0 .. MaxSize, doubt : SUBSET Names, got : SUBSET Clusters,
     left : SUBSET Clusters, todo : Seq(DeviceWrites), failed : BOOLEAN,
     missed : BOOLEAN]

\* The writes before the k-th.
Before(T, k) == {T[j] : j \in 1 .. k - 1}

\* A write of the first copy goes with one of the second.
Paired(T) ==
    \A k \in DOMAIN T :
        /\ T[k].on = "fat" =>
             /\ k + 1 \in DOMAIN T /\ T[k + 1].on = "bak"
             /\ T[k + 1].at = T[k].at /\ T[k + 1].value = T[k].value
        /\ T[k].on = "bak" /\ k # 1 => T[k - 1].on = "fat"

(* What makes a write w safe on a table f and a directory d, when the writes *)
(* B of its call come before it and R are all that are left.  X are the names *)
(* whose chain nothing is known of if the call fails, t the torn ones, n the  *)
(* call's own, o the open files.                                              *)

\* A cluster is marked when it leads nowhere, or has been freed before.
CanMark(f, B, w) ==
    /\ f[w.at] \notin Clusters \/ \E p \in B : Frees(p) /\ Firm(p) /\ p.at = w.at
    /\ \A p \in B : Links(p) => p.at # w.at

\* A cluster is freed after what leads to it: the cluster before it, and its
\* entry, unless that one's chain is in doubt.
CanFree(f, d, X, t, B, R, w) ==
    /\ w.at # Root
    /\ \A x \in Clusters : f[x] = w.at => \E p \in B : Frees(p) /\ Firm(p) /\ p.at = x
    /\ \A s \in DOMAIN d : d[s].cluster = w.at /\ d[s].name \notin X =>
         \E p \in B : Clears(p) /\ p.at = s
    /\ \A p \in R :
         /\ Links(p) => p.value # w.at
         /\ Enters(p) /\ p.value.cluster = w.at => p.value.name \in t

\* A cluster is linked once, after it was marked, and heads no file.
CanLink(f, d, X, B, R, w) ==
    /\ w.value # Root /\ w.value # w.at
    /\ \A x \in Clusters : f[x] # w.value
    /\ f[w.value] = ENDOFCHAIN \/ \E p \in B : Marks(p) /\ Firm(p) /\ p.at = w.value
    /\ \A p \in B :
         /\ Links(p) => p.value # w.value /\ p.at # w.at
         /\ p.on = "fat" /\ p.at = w.value => Marks(p)
    /\ \A s \in DOMAIN d : d[s].name \notin X => d[s].cluster # w.value
    /\ \A p \in R : Enters(p) => p.value.cluster # w.value

\* The link goes into the call's own chain, or extends the directory's.
Aside(f, d, n, t, w) ==
    /\ w.at \notin Range(Chain(f, Root)) \/ f[w.at] \notin Clusters
    /\ \A s \in DOMAIN d :
         d[s].name \notin {n} \cup t => w.at \notin Range(Chain(f, d[s].cluster))

\* An entry is made for a name that has none, or changes the one it has; the
\* cluster of a new one is marked before.
CanEnter(f, d, n, t, B, w) ==
    /\ w.value \in Entry /\ w.value.name = n
    /\ IF w.at \in DOMAIN d THEN d[w.at].name = n /\ d[w.at].cluster = w.value.cluster
       ELSE \A s \in DOMAIN d : d[s].name # n
    /\ \A p \in B : ~Enters(p)
    /\ n \notin t =>
         /\ w.value.cluster # Root
         /\ \A x \in Clusters : f[x] # w.value.cluster
         /\ \/ f[w.value.cluster] # Free
            \/ \E p \in B : Marks(p) /\ Firm(p) /\ p.at = w.value.cluster
         /\ \A s \in DOMAIN d :
              d[s].name \notin t /\ d[s].cluster = w.value.cluster => s = w.at

\* No entry of an open file is cleared.
CanClear(d, o, c, R, w) ==
    /\ w.onFail = "stop" /\ c.op \notin {"open", "write"}
    /\ w.at \in DOMAIN d =>
         d[w.at].name \notin DOMAIN o /\ (d[w.at].name = c.name => c.doubt = {})
    /\ \A p \in R : Enters(p) => p.at # w.at

\* The names whose chain nothing is known of when the call c fails.
Doubted(d, c, t) ==
    IF \E s \in DOMAIN d : d[s].name = c.name THEN t ELSE t \ c.doubt

Safe(f, d, o, c, t, B, R, w) ==
    /\ Marks(w) => CanMark(f, B, w)
    /\ Frees(w) => CanFree(f, d, Doubted(d, c, t), t, B, R, w)
    /\ Links(w) => CanLink(f, d, Doubted(d, c, t), B, R, w) /\ Aside(f, d, c.name, t, w)
    /\ Enters(w) => CanEnter(f, d, c.name, t, B, w)
    /\ Clears(w) => CanClear(d, o, c, R, w)

(* What the directory will be when no write fails *)

\* c will be a file's first cluster: marked, and reached by nothing else.
Held(f, T, c) ==
    /\ c # Root
    /\ \A x \in Clusters : f[x] # c
    /\ \A k \in DOMAIN T : Links(T[k]) => T[k].value # c
    /\ \/ f[c] # Free /\ \A k \in DOMAIN T : Frees(T[k]) => T[k].at # c
       \/ \E k \in DOMAIN T :
            /\ Marks(T[k]) /\ Firm(T[k]) /\ T[k].at = c
            /\ \A j \in DOMAIN T : Frees(T[j]) /\ T[j].at = c => j < k

Cleared(T, s) == \E k \in DOMAIN T : Clears(T[k]) /\ T[k].at = s

WillBeOwned(f, d, X, T) ==
    /\ \A s \in DOMAIN d : d[s].name \notin X =>
         Held(f, T, d[s].cluster) \/ Cleared(T, s)
    /\ \A s \in DOMAIN d, u \in DOMAIN d :
         s # u /\ d[s].name \notin X /\ d[u].name \notin X
         /\ d[s].cluster = d[u].cluster => Cleared(T, s) \/ Cleared(T, u)
    /\ \A k \in DOMAIN T : Enters(T[k]) /\ T[k].value.name \notin X =>
         /\ Held(f, T, T[k].value.cluster)
         /\ \A s \in DOMAIN d :
              s # T[k].at /\ d[s].name \notin X /\ d[s].cluster = T[k].value.cluster
              => Cleared(T, s)

\* The entry that an open or written file is to have is there, or will be.
WillMatch(d, c, T) ==
    c.op \in {"open", "write"} =>
        /\ c.name \in Names /\ c.cluster \in Clusters
        /\ \/ c.slot \in DOMAIN d /\ d[c.slot].name = c.name
              /\ d[c.slot].cluster = c.cluster
           \/ \E k \in DOMAIN T :
                /\ Enters(T[k]) /\ Firm(T[k]) /\ T[k].at = c.slot
                /\ T[k].value.name = c.name /\ T[k].value.cluster = c.cluster
           \/ \E k \in DOMAIN T : T[k].on = "nowhere"

(* The invariant *)

\* TypeOK, of a call that is not astray.
Types ==
    /\ fat \in [Clusters -> Values] /\ bak \in [Clusters -> Values]
    /\ DOMAIN dir \subseteq Nat
    /\ \A s \in DOMAIN dir : dir[s] \in Entry
    /\ DOMAIN open \subseteq Names
    /\ \A n \in DOMAIN open : open[n].cluster \in Clusters /\ open[n].size \in 0 .. MaxSize
    /\ faults \in 0 .. MaxFaults
    /\ lost \subseteq Clusters /\ torn \subseteq Names /\ short \subseteq Names

Owned(f, d, X) ==
    \A s \in DOMAIN d :
        d[s].name \notin X =>
            /\ f[d[s].cluster] # Free
            /\ d[s].cluster # Root
            /\ \A c \in Clusters : f[c] # d[s].cluster
            /\ \A t \in DOMAIN d \ {s} :
                 d[t].name \notin X => d[t].cluster # d[s].cluster

NamesApart(d) ==
    \A s \in DOMAIN d, t \in DOMAIN d : d[s].name = d[t].name => s = t

Matching(d, o, t) ==
    \A n \in DOMAIN o :
        /\ n \notin t /\ o[n].slot \in DOMAIN d
        /\ d[o[n].slot].name = n /\ d[o[n].slot].cluster = o[n].cluster

Ready(f, d, o, c, t, T) ==
    /\ Paired(T)
    /\ \A k \in DOMAIN T : Safe(f, d, o, c, t, Before(T, k), Range(T), T[k])

Sane(f, d, o, c, t) ==
    /\ Linked(f)
    /\ f[Root] # Free
    /\ Owned(f, d, Doubted(d, c, t))
    /\ NamesApart(d)
    /\ Matching(d, o, t)
    /\ DOMAIN d \subseteq 0 .. SlotsPerCluster * Len(Chain(f, Root)) - 1

Ending(f, d, c, t, T) ==
    IF c.failed THEN \A k \in DOMAIN T : T[k].on = "bak"
    ELSE /\ WillBeOwned(f, d, t \ c.doubt, T)
         /\ WillMatch(d, c, T)
         /\ c.op \in {"open", "write"} => c.name \notin t \ c.doubt

IInv ==
    /\ Types
    /\ call \in Calls
    /\ call.op = "write" => call.doubt = {}
    /\ Sane(fat, dir, open, call, torn)
    /\ Ready(fat, dir, open, call, torn, call.todo)
    /\ Ending(fat, dir, call, torn, call.todo)

-----------------------------------------------------------------------------
(* A call without its first write *)

\* U is T without its first write.
Follows(T, U) ==
    /\ DOMAIN U = 1 .. Len(U) /\ Len(U) \in Nat
    /\ DOMAIN T = 1 .. Len(U) + 1
    /\ \A k \in DOMAIN U :
         /\ k \in Nat /\ k + 1 \in DOMAIN T /\ U[k] = T[k + 1] /\ k + 1 # 1
         /\ Before(T, k + 1) = {T[1]} \cup Before(U, k)
    /\ \A j \in DOMAIN T : j # 1 =>
         j - 1 \in DOMAIN U /\ U[j - 1] = T[j] /\ (j - 1) + 1 = j
    /\ Range(T) = {T[1]} \cup Range(U)

LEMMA TailFollows ==
    ASSUME NEW S, NEW T \in Seq(S), T # <<>>
    PROVE  Follows(T, Tail(T)) /\ Head(T) = T[1] /\ 1 \in DOMAIN T
<1>1. /\ Tail(T) \in Seq(S) /\ Len(Tail(T)) = Len(T) - 1
      /\ \A i \in 1 .. Len(Tail(T)) : Tail(T)[i] = T[i + 1]
    BY HeadTailProperties
<1>2. Len(T) \in Nat \ {0} /\ DOMAIN T = 1 .. Len(T)
    BY EmptySeq
<1>3. DOMAIN Tail(T) = 1 .. Len(Tail(T)) /\ Len(Tail(T)) \in Nat
      /\ Len(Tail(T)) + 1 = Len(T)
    BY <1>1, <1>2
<1>4. Head(T) = T[1]
    OBVIOUS
<1> DEFINE U == Tail(T)
<1>5. \A k \in 1 .. Len(U) : k \in Nat /\ k + 1 \in DOMAIN T /\ U[k] = T[k + 1] /\ k + 1 # 1
    BY <1>1, <1>2, <1>3
<1>6. ASSUME NEW k \in 1 .. Len(U), NEW j \in 1 .. k - 1
      PROVE  j + 1 \in 1 .. (k + 1) - 1 /\ U[j] = T[j + 1]
    <2>1. j \in 1 .. Len(U)
        BY <1>3
    <2> HIDE DEF U
    <2> QED BY <1>5, <2>1, <1>3
<1>7. \A j \in DOMAIN T : j # 1 => j - 1 \in 1 .. Len(U) /\ U[j - 1] = T[j]
                                   /\ (j - 1) + 1 = j
    <2> TAKE j \in DOMAIN T
    <2> SUFFICES ASSUME j # 1
                 PROVE  j - 1 \in 1 .. Len(U) /\ U[j - 1] = T[j] /\ (j - 1) + 1 = j
        OBVIOUS
    <2>1. j - 1 \in 1 .. Len(U) /\ (j - 1) + 1 = j
        BY <1>2, <1>3
    <2> HIDE DEF U
    <2> QED BY <2>1, <1>5
<1>8. ASSUME NEW k \in 1 .. Len(U), NEW j \in 1 .. (k + 1) - 1, j # 1
      PROVE  j - 1 \in 1 .. k - 1 /\ U[j - 1] = T[j]
    <2>1. j \in DOMAIN T /\ j - 1 \in 1 .. k - 1
        BY <1>2, <1>3, <1>8
    <2> HIDE DEF U
    <2> QED BY <2>1, <1>7, <1>8
<1>10. ASSUME NEW k \in 1 .. Len(U) PROVE Before(T, k + 1) = {T[1]} \cup Before(U, k)
    <2>1. \A w \in Before(U, k) : w \in Before(T, k + 1)
        <3> HIDE DEF U
        <3> QED BY <1>6 DEF Before
    <2>2. \A w \in Before(T, k + 1) : w = T[1] \/ w \in Before(U, k)
        <3> HIDE DEF U
        <3> QED BY <1>8 DEF Before
    <2>3. 1 \in 1 .. (k + 1) - 1
        BY <1>3
    <2>4. T[1] \in Before(T, k + 1)
        BY <2>3 DEF Before
    <2> HIDE DEF U
    <2> QED BY <2>1, <2>2, <2>4
<1> HIDE DEF U
<1>11. Range(T) = {T[1]} \cup Range(U)
    <2>1. \A w \in Range(T) : w = T[1] \/ w \in Range(U)
        <3> HIDE DEF U
        <3> QED BY <1>3, <1>7 DEF Range, U
    <2>2. \A w \in Range(U) : w \in Range(T)
        <3> HIDE DEF U
        <3> QED BY <1>3, <1>5 DEF Range, U
    <2>3. T[1] \in Range(T)
        BY <1>2 DEF Range
    <2> HIDE DEF U
    <2> QED BY <2>1, <2>2, <2>3 DEF U
<1>9. Follows(T, U)
    BY <1>2, <1>3, <1>5, <1>7, <1>10, <1>11 DEF Follows, U
<1> QED BY <1>2, <1>4, <1>9 DEF U

-----------------------------------------------------------------------------
(* Writes that change neither table nor directory: of the second copy, of a  *)
(* cluster's contents, and those that fail and are ignored                   *)

Skips(w) == w.on # "nowhere" /\ (w.on \in {"fat", "dir"} => ~Firm(w))

\* The clearing of an entry is never ignored.
LEMMA FirmClears ==
    ASSUME NEW f, NEW d, NEW o, NEW c, NEW t, NEW T, Ready(f, d, o, c, t, T)
    PROVE  \A k \in DOMAIN T : Clears(T[k]) => Firm(T[k]) /\ T[k].onFail = "stop"
BY DEF Ready, Safe, CanClear, Firm

LEMMA EarlierWrites ==
    ASSUME NEW T, NEW U, Follows(T, U)
    PROVE  /\ 1 \in DOMAIN T
           /\ \A k \in DOMAIN T : T[k] = T[1] \/ \E i \in DOMAIN U : U[i] = T[k]
           /\ \A i \in DOMAIN U : \E k \in DOMAIN T : T[k] = U[i]
BY DEF Follows

\* A write is as safe without one before it that is of no kind.
LEMMA PlainSafe ==
    ASSUME NEW f, NEW d, NEW o, NEW c, NEW t, NEW B, NEW R, NEW h, NEW w,
           ~(Marks(h) /\ Firm(h)), ~(Frees(h) /\ Firm(h)), ~Clears(h),
           Safe(f, d, o, c, t, {h} \cup B, {h} \cup R, w)
    PROVE  Safe(f, d, o, c, t, B, R, w)
<1> DEFINE X == Doubted(d, c, t)
<1> HIDE DEF X
<1>1. Marks(w) => CanMark(f, B, w)
    BY DEF Safe, CanMark
<1>2. Frees(w) => CanFree(f, d, X, t, B, R, w)
    BY DEF Safe, CanFree, X
<1>3. Links(w) => CanLink(f, d, X, B, R, w) /\ Aside(f, d, c.name, t, w)
    BY DEF Safe, CanLink, X
<1>4. Enters(w) => CanEnter(f, d, c.name, t, B, w)
    BY DEF Safe, CanEnter
<1>5. Clears(w) => CanClear(d, o, c, R, w)
    BY DEF Safe, CanClear
<1> QED BY <1>1, <1>2, <1>3, <1>4, <1>5 DEF Safe, X

LEMMA SkipReady ==
    ASSUME NEW f, NEW d, NEW o, NEW c, NEW t, NEW T, NEW U, Follows(T, U),
           Ready(f, d, o, c, t, T), Skips(T[1])
    PROVE  Ready(f, d, o, c, t, U)
<1>1. Paired(U)
    BY DEF Ready, Paired, Follows
<1>2. ~(Marks(T[1]) /\ Firm(T[1])) /\ ~(Frees(T[1]) /\ Firm(T[1])) /\ ~Clears(T[1])
    BY FirmClears, EarlierWrites DEF Skips, Marks, Frees, Clears, Firm
<1>3. \A k \in DOMAIN U :
        Safe(f, d, o, c, t, {T[1]} \cup Before(U, k), {T[1]} \cup Range(U), U[k])
    BY DEF Ready, Follows
<1>4. \A k \in DOMAIN U : Safe(f, d, o, c, t, Before(U, k), Range(U), U[k])
    BY <1>2, <1>3, PlainSafe
<1> QED BY <1>1, <1>4 DEF Ready

Typed(f, d, T) ==
    /\ f \in [Clusters -> Values]
    /\ DOMAIN d \subseteq Nat /\ \A s \in DOMAIN d : d[s] \in Entry
    /\ \A k \in DOMAIN T : T[k] \in DeviceWrites

\* The table g is f but for v at c.
Becomes(f, g, c, v) == \A x \in Clusters : g[x] = IF x = c THEN v ELSE f[x]

\* The directory e is d with the entry v in slot s; and without what is in s.
Puts(d, e, s, v) ==
    DOMAIN e = DOMAIN d \cup {s} /\ e[s] = v /\ \A u \in DOMAIN d : u # s => e[u] = d[u]
Takes(d, e, s) == DOMAIN e = DOMAIN d \ {s} /\ \A u \in DOMAIN e : e[u] = d[u]

\* What a change of the table leaves alone.
SameChains(f, g)     == \A y \in Clusters : Chain(g, y) = Chain(f, y)
SameButFrom(f, g, x) == \A y \in Clusters : y # x => Chain(g, y) = Chain(f, y)
SameWithout(f, g, x) ==
    \A y \in Clusters : x \notin Range(Chain(f, y)) => Chain(g, y) = Chain(f, y)

Entries(d) == \A s \in DOMAIN d : d[s] \in Entry

LEMMA WriteShape ==
    ASSUME NEW w \in DeviceWrites
    PROVE  /\ w.on \in {"fat", "bak", "zero"} => w.at \in Clusters
           /\ w.on \in {"fat", "bak"} => w.value \in Values
           /\ w.on = "fat" => Marks(w) \/ Frees(w) \/ Links(w)
           /\ Marks(w) \/ Frees(w) \/ Links(w) => w.at \in Clusters
           /\ Links(w) => w.value \in Clusters
           /\ w.on = "dir" => w.at \in Nat /\ (Clears(w) \/ w.value \in Entry)
           /\ Enters(w) =>
                w.value.cluster \in Clusters /\ w.value.name \in Names /\ w.value \in Entry
           /\ w.on \in {"fat", "bak", "zero", "dir", "nowhere"}
<1>1. /\ w.on \in {"fat", "bak", "zero"} => w.at \in Clusters
      /\ w.on \in {"fat", "bak"} => w.value \in Values
      /\ w.on = "dir" => w.at \in Nat /\ w.value \in Entry \cup {NoEntry}
      /\ w.on \in {"fat", "bak", "zero", "dir", "nowhere"}
    BY DEF DeviceWrites
<1> QED BY <1>1 DEF Marks, Frees, Links, Enters, Clears, Values, Entry

\* No write is of two kinds.
LEMMA Kinds ==
    ASSUME NEW w
    PROVE  /\ Marks(w) => ~Frees(w) /\ ~Links(w) /\ ~Enters(w) /\ ~Clears(w)
           /\ Frees(w) => ~Marks(w) /\ ~Links(w) /\ ~Enters(w) /\ ~Clears(w)
           /\ Links(w) => ~Frees(w) /\ ~Marks(w) /\ ~Enters(w) /\ ~Clears(w)
           /\ Enters(w) => ~Frees(w) /\ ~Links(w) /\ ~Marks(w) /\ ~Clears(w)
           /\ Clears(w) => ~Frees(w) /\ ~Links(w) /\ ~Marks(w) /\ ~Enters(w)
           /\ Marks(w) \/ Frees(w) \/ Links(w) => w.on = "fat" /\ w.on # "nowhere"
           /\ Enters(w) \/ Clears(w) => w.on = "dir"
BY Constants DEF Marks, Frees, Links, Enters, Clears

LEMMA BeforeFirst ==
    ASSUME NEW T PROVE Before(T, 1) = {}
BY DEF Before

-----------------------------------------------------------------------------
(* What will be when no write fails, after the first write, which leaves the  *)
(* directory alone                                                           *)

\* The first write h, by which f becomes g, frees nothing but what it frees,
\* and links nothing but what it links.
Leads(f, g, h) ==
    \A x \in Clusters :
        /\ f[x] # Free /\ ~(Frees(h) /\ h.at = x) => g[x] # Free
        /\ Marks(h) /\ Firm(h) /\ h.at = x => g[x] # Free
        /\ (\A y \in Clusters : f[y] # x) /\ ~(Links(h) /\ h.value = x) =>
             \A y \in Clusters : g[y] # x

LEMMA HeldStays ==
    ASSUME NEW f, NEW g, NEW T, NEW U, Follows(T, U), Leads(f, g, T[1]),
           NEW x \in Clusters, Held(f, T, x)
    PROVE  Held(g, U, x)
<1>1. /\ x # Root
      /\ \A k \in DOMAIN U : Links(U[k]) => U[k].value # x
    BY EarlierWrites DEF Held
<1>2. \A y \in Clusters : g[y] # x
    BY EarlierWrites DEF Held, Leads
<1>3. ASSUME f[x] # Free, \A k \in DOMAIN T : Frees(T[k]) => T[k].at # x
      PROVE  g[x] # Free /\ \A k \in DOMAIN U : Frees(U[k]) => U[k].at # x
    BY <1>3, EarlierWrites DEF Leads
<1>4. ASSUME NEW k \in DOMAIN T, Marks(T[k]), Firm(T[k]), T[k].at = x,
             \A j \in DOMAIN T : Frees(T[j]) /\ T[j].at = x => j < k
      PROVE  \/ g[x] # Free /\ \A i \in DOMAIN U : Frees(U[i]) => U[i].at # x
             \/ \E i \in DOMAIN U :
                  /\ Marks(U[i]) /\ Firm(U[i]) /\ U[i].at = x
                  /\ \A j \in DOMAIN U : Frees(U[j]) /\ U[j].at = x => j < i
    <2>1. CASE k = 1
        <3>1. g[x] # Free
            BY <2>1, <1>4 DEF Leads
        <3>2. \A j \in DOMAIN T : Frees(T[j]) => T[j].at # x
            <4>1. \A j \in DOMAIN T : j \in Nat /\ ~(j < 1)
                BY DEF Follows
            <4> QED BY <2>1, <1>4, <4>1
        <3> QED BY <3>1, <3>2, EarlierWrites
    <2>2. CASE k # 1
        <3>1. k - 1 \in DOMAIN U /\ U[k - 1] = T[k]
            BY <2>2 DEF Follows
        <3>2. ASSUME NEW j \in DOMAIN U, Frees(U[j]), U[j].at = x PROVE j < k - 1
            <4>1. j + 1 \in DOMAIN T /\ U[j] = T[j + 1] /\ j \in Nat /\ k \in Nat
                BY DEF Follows
            <4>2. j + 1 < k
                BY <4>1, <3>2, <1>4
            <4> QED BY <4>1, <4>2
        <3> QED BY <3>1, <3>2, <1>4
    <2> QED BY <2>1, <2>2
<1> QED BY <1>1, <1>2, <1>3, <1>4 DEF Held

LEMMA TableEnding ==
    ASSUME NEW f, NEW g, NEW d, NEW c, NEW t, NEW T, NEW U, Follows(T, U), Typed(f, d, T),
           Ending(f, d, c, t, T), Leads(f, g, T[1]),
           ~Clears(T[1]), ~(Enters(T[1]) /\ Firm(T[1])), T[1].on # "nowhere"
    PROVE  Ending(g, d, c, t, U)
<1> DEFINE X == t \ c.doubt
<1> HIDE DEF X
<1>1. CASE c.failed
    BY <1>1, EarlierWrites DEF Ending
<1>2. CASE ~c.failed
    <2>1. \A s : Cleared(T, s) => Cleared(U, s)
        BY EarlierWrites DEF Cleared
    <2>2. WillBeOwned(f, d, X, T) /\ WillMatch(d, c, T)
          /\ (c.op \in {"open", "write"} => c.name \notin X)
        BY <1>2 DEF Ending, X
    <2>3. WillBeOwned(g, d, X, U)
        <3>1. \A s \in DOMAIN d : d[s].cluster \in Clusters
            BY DEF Typed, Entry
        <3>2. \A k \in DOMAIN U : Enters(U[k]) => U[k].value.cluster \in Clusters
            BY WriteShape, EarlierWrites DEF Typed
        <3>3. \A x \in Clusters : Held(f, T, x) => Held(g, U, x)
            BY HeldStays
        <3> QED BY <2>1, <2>2, <3>1, <3>2, <3>3, EarlierWrites DEF WillBeOwned
    <2>4. WillMatch(d, c, U)
        BY <2>2, EarlierWrites DEF WillMatch
    <2> QED BY <1>2, <2>2, <2>3, <2>4 DEF Ending, X
<1> QED BY <1>1, <1>2

-----------------------------------------------------------------------------
(* A mark lands *)

\* The first write of a call is safe with nothing before it.
LEMMA FirstSafe ==
    ASSUME NEW f, NEW d, NEW o, NEW c, NEW t, NEW T, 1 \in DOMAIN T,
           Ready(f, d, o, c, t, T)
    PROVE  Safe(f, d, o, c, t, {}, Range(T), T[1])
BY BeforeFirst DEF Ready

LEMMA MarkSane ==
    ASSUME NEW f, NEW g, NEW d, NEW o, NEW c, NEW t, NEW R, NEW h,
           f \in [Clusters -> Values], Entries(d),
           Sane(f, d, o, c, t), Safe(f, d, o, c, t, {}, R, h), Marks(h),
           Becomes(f, g, h.at, ENDOFCHAIN)
    PROVE  Sane(g, d, o, c, t) /\ SameChains(f, g)
<1> USE DEF SameChains, Becomes, Entries
<1> DEFINE X == Doubted(d, c, t)
<1> HIDE DEF X
<1>1. f[h.at] \notin Clusters
    BY DEF Safe, CanMark
<1>2. Linked(g)
    BY Constants DEF Sane, Linked
<1>3. g[Root] # Free
    BY Constants DEF Sane
<1>4. Owned(g, d, X)
    <2>1. Owned(f, d, X)
        BY DEF Sane, X
    <2>2. \A s \in DOMAIN d : d[s].cluster \in Clusters
        BY DEF Entry
    <2> SUFFICES ASSUME NEW s \in DOMAIN d, d[s].name \notin X
                 PROVE  /\ g[d[s].cluster] # Free
                        /\ d[s].cluster # Root
                        /\ \A x \in Clusters : g[x] # d[s].cluster
                        /\ \A u \in DOMAIN d \ {s} :
                             d[u].name \notin X => d[u].cluster # d[s].cluster
        BY DEF Owned
    <2>3. /\ f[d[s].cluster] # Free
          /\ d[s].cluster # Root
          /\ \A x \in Clusters : f[x] # d[s].cluster
          /\ \A u \in DOMAIN d \ {s} : d[u].name \notin X => d[u].cluster # d[s].cluster
        BY <2>1 DEF Owned
    <2> QED BY <2>2, <2>3, Constants
<1>5. \A y \in Clusters : Chain(g, y) = Chain(f, y)
    <2> TAKE y \in Clusters
    <2>1. \A x \in Range(Chain(f, y)) :
            g[x] = f[x] \/ (f[x] \notin Clusters /\ g[x] \notin Clusters)
        BY <1>1, ChainIn, Constants
    <2> QED BY <2>1, ChainSame
<1> QED BY <1>2, <1>3, <1>4, <1>5, Constants DEF Sane, X

LEMMA MarkReady ==
    ASSUME NEW f, NEW g, NEW d, NEW o, NEW c, NEW t, NEW B, NEW R, NEW h, NEW w,
           f \in [Clusters -> Values], Entries(d),
           w \in DeviceWrites, Marks(h), h.at \in Clusters,
           Becomes(f, g, h.at, ENDOFCHAIN),
           SameChains(f, g),
           Safe(f, d, o, c, t, {h} \cup B, {h} \cup R, w)
    PROVE  Safe(g, d, o, c, t, B, R, w)
<1> USE DEF SameChains, Becomes, Entries
<1> DEFINE X == Doubted(d, c, t)
<1> HIDE DEF X
<1>1. /\ ~Frees(h) /\ ~Links(h) /\ ~Enters(h) /\ ~Clears(h)
      /\ ENDOFCHAIN \notin Clusters /\ ENDOFCHAIN # Free /\ Root \in Clusters
    BY Constants, Kinds
<1>2. /\ Marks(w) \/ Frees(w) \/ Links(w) => w.at \in Clusters
      /\ Links(w) => w.value \in Clusters
      /\ Enters(w) => w.value.cluster \in Clusters
    BY WriteShape
<1>3. \A s \in DOMAIN d : d[s].cluster \in Clusters
    BY DEF Entry
<1>4. Marks(w) => CanMark(g, B, w)
    BY <1>1, <1>2 DEF Safe, CanMark
<1>5. Frees(w) => CanFree(g, d, X, t, B, R, w)
    BY <1>1, <1>2 DEF Safe, CanFree, X
<1>6. Links(w) => CanLink(g, d, X, B, R, w)
    BY <1>1, <1>2 DEF Safe, CanLink, X
<1>7. Links(w) => Aside(g, d, c.name, t, w)
    BY <1>1, <1>2, <1>3 DEF Safe, Aside
<1>8. Enters(w) => CanEnter(g, d, c.name, t, B, w)
    BY <1>1, <1>2 DEF Safe, CanEnter
<1>9. Clears(w) => CanClear(d, o, c, R, w)
    BY DEF Safe, CanClear
<1> QED BY <1>4, <1>5, <1>6, <1>7, <1>8, <1>9 DEF Safe, X

-----------------------------------------------------------------------------
(* A cluster is freed *)

LEMMA FreeSane ==
    ASSUME NEW f, NEW g, NEW d, NEW o, NEW c, NEW t, NEW R, NEW h,
           f \in [Clusters -> Values], Entries(d),
           Sane(f, d, o, c, t), Safe(f, d, o, c, t, {}, R, h), Frees(h),
           Becomes(f, g, h.at, Free)
    PROVE  /\ Sane(g, d, o, c, t)
           /\ SameButFrom(f, g, h.at)
<1> USE DEF SameButFrom, Becomes, Entries
<1> DEFINE X == Doubted(d, c, t)
<1> HIDE DEF X
<1>1. /\ h.at # Root /\ \A x \in Clusters : f[x] # h.at
      /\ \A s \in DOMAIN d : d[s].cluster = h.at => d[s].name \in X
    BY DEF Safe, CanFree, X
<1>2. Linked(g)
    BY <1>1, Constants DEF Sane, Linked
<1>3. g[Root] # Free
    BY <1>1, Constants DEF Sane
<1>4. Owned(g, d, X)
    <2>1. Owned(f, d, X)
        BY DEF Sane, X
    <2>2. \A s \in DOMAIN d : d[s].cluster \in Clusters
        BY DEF Entry
    <2> SUFFICES ASSUME NEW s \in DOMAIN d, d[s].name \notin X
                 PROVE  /\ g[d[s].cluster] # Free
                        /\ d[s].cluster # Root
                        /\ \A x \in Clusters : g[x] # d[s].cluster
                        /\ \A u \in DOMAIN d \ {s} :
                             d[u].name \notin X => d[u].cluster # d[s].cluster
        BY DEF Owned
    <2>3. /\ f[d[s].cluster] # Free
          /\ d[s].cluster # Root
          /\ \A x \in Clusters : f[x] # d[s].cluster
          /\ \A u \in DOMAIN d \ {s} : d[u].name \notin X => d[u].cluster # d[s].cluster
        BY <2>1 DEF Owned
    <2> QED BY <1>1, <2>2, <2>3, Constants
<1>5. \A y \in Clusters : y # h.at => Chain(g, y) = Chain(f, y)
    <2> SUFFICES ASSUME NEW y \in Clusters, y # h.at PROVE Chain(g, y) = Chain(f, y)
        OBVIOUS
    <2>1. h.at \notin Range(Chain(f, y))
        BY <1>1, ChainLed
    <2>2. \A x \in Range(Chain(f, y)) : g[x] = f[x]
        BY <2>1, ChainIn
    <2> QED BY <2>2, ChainSame
<1> QED BY <1>1, <1>2, <1>3, <1>4, <1>5, Constants DEF Sane, X

LEMMA FreeReady ==
    ASSUME NEW f, NEW g, NEW d, NEW o, NEW c, NEW t, NEW B, NEW R, NEW h, NEW w,
           f \in [Clusters -> Values], Entries(d),
           w \in DeviceWrites, Frees(h), h.at \in Clusters, h.at # Root,
           CanFree(f, d, Doubted(d, c, t), t, {}, {h} \cup R, h), w \in R,
           Becomes(f, g, h.at, Free),
           SameButFrom(f, g, h.at),
           Safe(f, d, o, c, t, {h} \cup B, {h} \cup R, w)
    PROVE  Safe(g, d, o, c, t, B, R, w)
<1> USE DEF SameButFrom, Becomes, Entries
<1> DEFINE X == Doubted(d, c, t)
<1> HIDE DEF X
<1>1. /\ ~Marks(h) /\ ~Links(h) /\ ~Enters(h) /\ ~Clears(h) /\ h.on = "fat"
      /\ Free \notin Clusters /\ ENDOFCHAIN # Free /\ Root \in Clusters
    BY Constants, Kinds
<1>2. /\ Marks(w) \/ Frees(w) \/ Links(w) => w.at \in Clusters
      /\ Links(w) => w.value \in Clusters
      /\ Enters(w) => w.value.cluster \in Clusters
    BY WriteShape
<1>3. \A s \in DOMAIN d : d[s].cluster \in Clusters
    BY DEF Entry
<1>4. Marks(w) => CanMark(g, B, w)
    BY <1>1, <1>2 DEF Safe, CanMark
<1>5. Frees(w) => CanFree(g, d, X, t, B, R, w)
    BY <1>1, <1>2 DEF Safe, CanFree, X
<1>6. Links(w) => CanLink(g, d, X, B, R, w)
    BY <1>1, <1>2 DEF Safe, CanLink, X
<1>7. Links(w) => Aside(g, d, c.name, t, w)
    <2>1. \A s \in DOMAIN d : d[s].cluster = h.at => d[s].name \in X
        BY DEF CanFree, X
    <2>2. X \subseteq t
        BY DEF X, Doubted
    <2> SUFFICES ASSUME Links(w) PROVE Aside(g, d, c.name, t, w)
        OBVIOUS
    <2>3. \A s \in DOMAIN d : d[s].name \notin {c.name} \cup t =>
            Chain(g, d[s].cluster) = Chain(f, d[s].cluster)
        BY <2>1, <2>2, <1>3
    <2> QED BY <1>1, <1>2, <2>3 DEF Safe, Aside
<1>8. Enters(w) => CanEnter(g, d, c.name, t, B, w)
    <2> SUFFICES ASSUME Enters(w) PROVE CanEnter(g, d, c.name, t, B, w)
        OBVIOUS
    <2>1. w.value.name = c.name
        BY DEF Safe, CanEnter
    <2>2. w.value.cluster = h.at => c.name \in t
        BY <2>1 DEF CanFree
    <2> QED BY <1>1, <1>2, <2>2 DEF Safe, CanEnter
<1>9. Clears(w) => CanClear(d, o, c, R, w)
    BY DEF Safe, CanClear
<1> QED BY <1>4, <1>5, <1>6, <1>7, <1>8, <1>9 DEF Safe, X

-----------------------------------------------------------------------------
(* A cluster is linked *)

LEMMA LinkSane ==
    ASSUME NEW f, NEW g, NEW d, NEW o, NEW c, NEW t, NEW R, NEW h,
           f \in [Clusters -> Values], Entries(d),
           Sane(f, d, o, c, t), Safe(f, d, o, c, t, {}, R, h), Links(h), h.at \in Clusters,
           Becomes(f, g, h.at, h.value)
    PROVE  /\ Sane(g, d, o, c, t)
           /\ SameWithout(f, g, h.at)
           /\ Range(Chain(g, Root)) \subseteq Range(Chain(f, Root)) \cup {h.value}
           /\ f[h.value] = ENDOFCHAIN /\ h.value # h.at /\ h.value \in Clusters
<1> USE DEF SameWithout, Becomes, Entries
<1> DEFINE X == Doubted(d, c, t)
           v == h.value
<1> HIDE DEF X
<1>1. /\ v # Root /\ v # h.at /\ f[v] = ENDOFCHAIN /\ \A x \in Clusters : f[x] # v
      /\ \A s \in DOMAIN d : d[s].cluster = v => d[s].name \in X
      /\ v \in Clusters
    BY DEF Safe, CanLink, Links, X
<1>2. Linked(g)
    <2>1. \A x \in Clusters : f[x] \in Clusters =>
            f[f[x]] # Free /\ f[x] # Root /\ \A y \in Clusters \ {x} : f[y] # f[x]
        BY DEF Sane, Linked
    <2> HIDE DEF v
    <2> SUFFICES ASSUME NEW x \in Clusters, g[x] \in Clusters
                 PROVE  g[g[x]] # Free /\ g[x] # Root /\ \A y \in Clusters \ {x} : g[y] # g[x]
        BY DEF Linked
    <2>2. \A y \in Clusters : g[y] = IF y = h.at THEN v ELSE f[y]
        BY DEF v
    <2>3. CASE x = h.at
        BY <2>2, <2>3, <1>1, Constants
    <2>4. CASE x # h.at
        <3>1. g[x] = f[x] /\ f[x] \in Clusters
            BY <2>2, <2>4
        <3>2. g[f[x]] # Free
            BY <3>1, <2>1, <2>2, <1>1, Constants
        <3>3. \A y \in Clusters \ {x} : g[y] # f[x]
            BY <3>1, <2>1, <2>2, <1>1
        <3> QED BY <3>1, <3>2, <3>3, <2>1
    <2> QED BY <2>3, <2>4
<1>3. g[Root] # Free
    BY <1>1, Constants DEF Sane
<1>4. Owned(g, d, X)
    <2>1. Owned(f, d, X)
        BY DEF Sane, X
    <2>2. \A s \in DOMAIN d : d[s].cluster \in Clusters
        BY DEF Entry
    <2> SUFFICES ASSUME NEW s \in DOMAIN d, d[s].name \notin X
                 PROVE  /\ g[d[s].cluster] # Free
                        /\ d[s].cluster # Root
                        /\ \A x \in Clusters : g[x] # d[s].cluster
                        /\ \A u \in DOMAIN d \ {s} :
                             d[u].name \notin X => d[u].cluster # d[s].cluster
        BY DEF Owned
    <2>3. /\ f[d[s].cluster] # Free
          /\ d[s].cluster # Root
          /\ \A x \in Clusters : f[x] # d[s].cluster
          /\ \A u \in DOMAIN d \ {s} : d[u].name \notin X => d[u].cluster # d[s].cluster
        BY <2>1 DEF Owned
    <2> QED BY <1>1, <2>2, <2>3, Constants
<1>5. \A y \in Clusters : h.at \notin Range(Chain(f, y)) => Chain(g, y) = Chain(f, y)
    <2> SUFFICES ASSUME NEW y \in Clusters, h.at \notin Range(Chain(f, y))
                 PROVE  Chain(g, y) = Chain(f, y)
        OBVIOUS
    <2>1. \A x \in Range(Chain(f, y)) : g[x] = f[x]
        BY ChainIn
    <2> QED BY <2>1, ChainSame
<1>6. /\ Len(Chain(f, Root)) <= Len(Chain(g, Root))
      /\ Range(Chain(g, Root)) \subseteq Range(Chain(f, Root)) \cup {v}
    <2>1. h.at \notin Range(Chain(f, Root)) \/ f[h.at] \notin Clusters
        BY DEF Safe, Aside
    <2>2. f[v] \notin Clusters /\ Root \in Clusters
        BY <1>1, Constants
    <2> HIDE DEF v
    <2>3. \A y \in Clusters : g[y] = IF y = h.at THEN v ELSE f[y]
        BY DEF v
    <2> QED BY <1>1, <2>1, <2>2, <2>3, ChainGrows
<1>7. DOMAIN d \subseteq 0 .. SlotsPerCluster * Len(Chain(g, Root)) - 1
    <2> DEFINE m == Len(Chain(f, Root))
               n == Len(Chain(g, Root))
    <2>1. m \in Nat /\ n \in Nat /\ m <= n /\ SlotsPerCluster \in Nat
        BY <1>6, ChainShape, Constants, BoundAssumption
    <2>2. DOMAIN d \subseteq 0 .. SlotsPerCluster * m - 1
        BY DEF Sane
    <2> HIDE DEF m, n
    <2>3. SlotsPerCluster * m <= SlotsPerCluster * n
          /\ SlotsPerCluster * m \in Nat /\ SlotsPerCluster * n \in Nat
        BY <2>1
    <2> QED BY <2>2, <2>3 DEF m, n
<1> QED BY <1>1, <1>2, <1>3, <1>4, <1>5, <1>6, <1>7 DEF Sane, X

LEMMA LinkReady ==
    ASSUME NEW f, NEW g, NEW d, NEW o, NEW c, NEW t, NEW B, NEW R, NEW h, NEW w,
           f \in [Clusters -> Values], Entries(d),
           w \in DeviceWrites, Links(h), h.at \in Clusters, w \in R,
           CanLink(f, d, Doubted(d, c, t), {}, {h} \cup R, h),
           Aside(f, d, c.name, t, h),
           Becomes(f, g, h.at, h.value),
           SameWithout(f, g, h.at),
           Range(Chain(g, Root)) \subseteq Range(Chain(f, Root)) \cup {h.value},
           Safe(f, d, o, c, t, {h} \cup B, {h} \cup R, w)
    PROVE  Safe(g, d, o, c, t, B, R, w)
<1> USE DEF SameWithout, Becomes, Entries
<1> DEFINE X == Doubted(d, c, t)
<1> HIDE DEF X
<1>1. /\ ~Marks(h) /\ ~Frees(h) /\ ~Enters(h) /\ ~Clears(h) /\ h.on = "fat"
      /\ ENDOFCHAIN \notin Clusters /\ Free \notin Clusters /\ ENDOFCHAIN # Free
      /\ Root \in Clusters /\ h.value \in Clusters
    BY Constants, Kinds DEF Links
<1>2. /\ Marks(w) \/ Frees(w) \/ Links(w) => w.at \in Clusters
      /\ Links(w) => w.value \in Clusters
      /\ Enters(w) => w.value.cluster \in Clusters
    BY WriteShape
<1>3. \A s \in DOMAIN d : d[s].cluster \in Clusters
    BY DEF Entry
<1>4. Marks(w) => CanMark(g, B, w)
    BY <1>1, <1>2 DEF Safe, CanMark
<1>5. Frees(w) => CanFree(g, d, X, t, B, R, w)
    BY <1>1, <1>2 DEF Safe, CanFree, X
<1>6. Links(w) => CanLink(g, d, X, B, R, w)
    <2>1. f[h.value] = ENDOFCHAIN /\ h.value # h.at
        BY DEF CanLink
    <2> QED BY <1>1, <1>2, <2>1 DEF Safe, CanLink, X
<1>7. Links(w) => Aside(g, d, c.name, t, w)
    <2> SUFFICES ASSUME Links(w) PROVE Aside(g, d, c.name, t, w)
        OBVIOUS
    <2>1. f[h.value] = ENDOFCHAIN /\ h.value # h.at
        BY DEF CanLink
    <2>2. \A s \in DOMAIN d : d[s].name \notin {c.name} \cup t =>
            w.at \notin Range(Chain(g, d[s].cluster))
        BY <1>3 DEF Safe, Aside
    <2>3. w.at # h.at /\ (w.at \notin Range(Chain(f, Root)) \/ f[w.at] \notin Clusters)
        BY DEF Safe, CanLink, Aside
    <2>4. w.at \notin Range(Chain(g, Root)) \/ g[w.at] \notin Clusters
        BY <1>1, <1>2, <2>1, <2>3
    <2> QED BY <2>2, <2>4 DEF Aside
<1>8. Enters(w) => CanEnter(g, d, c.name, t, B, w)
    <2> SUFFICES ASSUME Enters(w) PROVE CanEnter(g, d, c.name, t, B, w)
        OBVIOUS
    <2>1. w.value.cluster # h.value
        BY DEF CanLink
    <2> QED BY <1>1, <1>2, <2>1 DEF Safe, CanEnter
<1>9. Clears(w) => CanClear(d, o, c, R, w)
    BY DEF Safe, CanClear
<1> QED BY <1>4, <1>5, <1>6, <1>7, <1>8, <1>9 DEF Safe, X

-----------------------------------------------------------------------------
(* An entry is written *)

LEMMA EnterSane ==
    ASSUME NEW f, NEW d, NEW e, NEW o, NEW c, NEW t, NEW R, NEW h,
           Sane(f, d, o, c, t), Safe(f, d, o, c, t, {}, R, h), Enters(h),
           h.at \in 0 .. SlotsPerCluster * Len(Chain(f, Root)) - 1,
           Puts(d, e, h.at, h.value)
    PROVE  Sane(f, e, o, c, t) /\ Doubted(e, c, t) = t
<1> USE DEF Puts
<1>1. CanEnter(f, d, c.name, t, {}, h)
    BY DEF Safe
<1>2. Doubted(e, c, t) = t /\ Doubted(d, c, t) \subseteq t
    BY <1>1 DEF Doubted, CanEnter
<1>3. Owned(f, e, t)
    <2>1. \A s \in DOMAIN d : d[s].name \notin t =>
            /\ f[d[s].cluster] # Free /\ d[s].cluster # Root
            /\ \A x \in Clusters : f[x] # d[s].cluster
            /\ \A u \in DOMAIN d \ {s} : d[u].name \notin t => d[u].cluster # d[s].cluster
        BY <1>2 DEF Sane, Owned
    <2>2. e[h.at].name \notin t =>
            /\ f[e[h.at].cluster] # Free /\ e[h.at].cluster # Root
            /\ \A x \in Clusters : f[x] # e[h.at].cluster
            /\ \A u \in DOMAIN d :
                 d[u].name \notin t /\ d[u].cluster = e[h.at].cluster => u = h.at
        BY <1>1 DEF CanEnter
    <2> QED BY <2>1, <2>2 DEF Owned
<1>4. NamesApart(e)
    <2>1. \A s \in DOMAIN d, u \in DOMAIN d : d[s].name = d[u].name => s = u
        BY DEF Sane, NamesApart
    <2>2. e[h.at].name = c.name /\ \A s \in DOMAIN d : d[s].name = c.name => s = h.at
        BY <1>1, <2>1 DEF CanEnter
    <2> QED BY <2>1, <2>2 DEF NamesApart
<1>5. Matching(e, o, t)
    BY <1>1 DEF Sane, Matching, CanEnter
<1>6. DOMAIN e \subseteq 0 .. SlotsPerCluster * Len(Chain(f, Root)) - 1
    BY DEF Sane
<1> QED BY <1>2, <1>3, <1>4, <1>5, <1>6 DEF Sane

LEMMA EnterReady ==
    ASSUME NEW f, NEW d, NEW e, NEW o, NEW c, NEW t, NEW B, NEW R, NEW h, NEW w,
           CanEnter(f, d, c.name, t, {}, h), Enters(h), w \in R,
           Puts(d, e, h.at, h.value),
           Doubted(e, c, t) = t,
           Safe(f, d, o, c, t, {h} \cup B, {h} \cup R, w)
    PROVE  Safe(f, e, o, c, t, B, R, w)
<1> USE DEF Puts
<1>1. ~Marks(h) /\ ~Frees(h) /\ ~Links(h) /\ ~Clears(h) /\ h.on = "dir"
    BY Kinds
<1>2. Doubted(d, c, t) \subseteq t
    BY DEF Doubted
<1>3. Marks(w) => CanMark(f, B, w)
    BY <1>1 DEF Safe, CanMark
<1>4. Frees(w) => CanFree(f, e, t, t, B, R, w)
    BY <1>1, <1>2 DEF Safe, CanFree
<1>5. Links(w) => CanLink(f, e, t, B, R, w)
    BY <1>1, <1>2 DEF Safe, CanLink
<1>6. Links(w) => Aside(f, e, c.name, t, w)
    BY <1>1 DEF Safe, Aside, CanEnter
<1>7. ~Enters(w)
    BY DEF Safe, CanEnter
<1>8. Clears(w) => CanClear(e, o, c, R, w)
    BY DEF Safe, CanClear
<1> QED BY <1>3, <1>4, <1>5, <1>6, <1>7, <1>8 DEF Safe

LEMMA EnterEnding ==
    ASSUME NEW f, NEW d, NEW e, NEW o, NEW c, NEW t, NEW T, NEW U, Follows(T, U),
           Typed(f, d, T), Ready(f, d, o, c, t, T), Ending(f, d, c, t, T), Enters(T[1]),
           Puts(d, e, T[1].at, T[1].value)
    PROVE  Ending(f, e, c, t, U)
<1> USE DEF Puts
<1> DEFINE X == t \ c.doubt
           h == T[1]
<1> HIDE DEF X
<1>1. ~c.failed
    BY EarlierWrites DEF Ending, Enters
<1>2. WillBeOwned(f, d, X, T) /\ WillMatch(d, c, T)
      /\ (c.op \in {"open", "write"} => c.name \notin X)
    BY <1>1 DEF Ending, X
<1>3. CanEnter(f, d, c.name, t, {}, h)
    BY EarlierWrites, FirstSafe DEF Safe
<1>4. \A k \in DOMAIN U : ~Enters(U[k])
    <2> TAKE k \in DOMAIN U
    <2>1. Safe(f, d, o, c, t, {h} \cup Before(U, k), Range(T), U[k])
        BY DEF Ready, Follows
    <2> QED BY <2>1 DEF Safe, CanEnter
<1>5. \A s : Cleared(T, s) => Cleared(U, s)
    BY EarlierWrites, Kinds DEF Cleared
<1>6. \A x \in Clusters : Held(f, T, x) => Held(f, U, x)
    <2>1. Leads(f, f, h)
        BY Kinds DEF Leads
    <2> QED BY <2>1, HeldStays
<1>7. h.value.cluster \in Clusters /\ h.value.name = c.name
      /\ \A s \in DOMAIN d : d[s].cluster \in Clusters
    BY <1>3 DEF CanEnter, Typed, Entry
<1>8. WillBeOwned(f, e, X, U)
    <2>1. ASSUME NEW s \in DOMAIN e, e[s].name \notin X
          PROVE  Held(f, U, e[s].cluster) \/ Cleared(U, s)
        <3>1. CASE s = h.at
            BY <3>1, <2>1, <1>2, <1>6, <1>7, EarlierWrites DEF WillBeOwned
        <3>2. CASE s # h.at
            BY <3>2, <2>1, <1>2, <1>5, <1>6, <1>7 DEF WillBeOwned
        <3> QED BY <3>1, <3>2
    <2>2. ASSUME NEW s \in DOMAIN d, s # h.at, d[s].name \notin X, h.value.name \notin X,
                 d[s].cluster = h.value.cluster
          PROVE  Cleared(U, s)
        BY <2>2, <1>2, <1>5, EarlierWrites DEF WillBeOwned
    <2>3. ASSUME NEW s \in DOMAIN e, NEW u \in DOMAIN e, s # u, e[s].name \notin X,
                 e[u].name \notin X, e[s].cluster = e[u].cluster
          PROVE  Cleared(U, s) \/ Cleared(U, u)
        <3>1. CASE s = h.at
            BY <3>1, <2>3, <2>2
        <3>2. CASE u = h.at
            BY <3>2, <2>3, <2>2
        <3>3. CASE s # h.at /\ u # h.at
            BY <3>3, <2>3, <1>2, <1>5 DEF WillBeOwned
        <3> QED BY <3>1, <3>2, <3>3
    <2> QED BY <2>1, <2>3, <1>4 DEF WillBeOwned
<1>9. WillMatch(e, c, U)
    <2> SUFFICES ASSUME c.op \in {"open", "write"}
                 PROVE  /\ c.name \in Names /\ c.cluster \in Clusters
                        /\ \/ c.slot \in DOMAIN e /\ e[c.slot].name = c.name
                              /\ e[c.slot].cluster = c.cluster
                           \/ \E k \in DOMAIN U :
                                /\ Enters(U[k]) /\ Firm(U[k]) /\ U[k].at = c.slot
                                /\ U[k].value.name = c.name
                                /\ U[k].value.cluster = c.cluster
                           \/ \E k \in DOMAIN U : U[k].on = "nowhere"
        BY DEF WillMatch
    <2>1. CASE c.slot \in DOMAIN d /\ d[c.slot].name = c.name
               /\ d[c.slot].cluster = c.cluster
        <3>1. CASE c.slot = h.at
            BY <2>1, <3>1, <1>2, <1>3 DEF WillMatch, CanEnter
        <3>2. CASE c.slot # h.at
            BY <2>1, <3>2, <1>2 DEF WillMatch
        <3> QED BY <3>1, <3>2
    <2>2. ASSUME NEW k \in DOMAIN T, Enters(T[k]), T[k].at = c.slot,
                 T[k].value.name = c.name, T[k].value.cluster = c.cluster
          PROVE  c.slot \in DOMAIN e /\ e[c.slot].name = c.name
                 /\ e[c.slot].cluster = c.cluster
        BY <2>2, <1>4, EarlierWrites
    <2>3. ASSUME NEW k \in DOMAIN T, T[k].on = "nowhere"
          PROVE  \E i \in DOMAIN U : U[i].on = "nowhere"
        BY <2>3, EarlierWrites DEF Enters
    <2> QED BY <2>1, <2>2, <2>3, <1>2 DEF WillMatch
<1> QED BY <1>1, <1>2, <1>8, <1>9 DEF Ending, X

-----------------------------------------------------------------------------
(* An entry is cleared *)

LEMMA ClearSane ==
    ASSUME NEW f, NEW d, NEW e, NEW o, NEW c, NEW t, NEW R, NEW h,
           Sane(f, d, o, c, t), Safe(f, d, o, c, t, {}, R, h), Clears(h),
           Takes(d, e, h.at)
    PROVE  Sane(f, e, o, c, t) /\ Doubted(e, c, t) = Doubted(d, c, t)
<1> USE DEF Takes
<1>1. CanClear(d, o, c, R, h)
    BY DEF Safe
<1>2. Doubted(e, c, t) = Doubted(d, c, t)
    BY <1>1 DEF Doubted, CanClear
<1>3. Owned(f, e, Doubted(d, c, t))
    BY DEF Sane, Owned
<1>4. NamesApart(e)
    BY DEF Sane, NamesApart
<1>5. Matching(e, o, t)
    BY <1>1 DEF Sane, Matching, CanClear
<1> QED BY <1>2, <1>3, <1>4, <1>5 DEF Sane

LEMMA ClearReady ==
    ASSUME NEW f, NEW d, NEW e, NEW o, NEW c, NEW t, NEW B, NEW R, NEW h, NEW w,
           CanClear(d, o, c, {h} \cup R, h), Clears(h), w \in R,
           Takes(d, e, h.at),
           Doubted(e, c, t) = Doubted(d, c, t),
           Safe(f, d, o, c, t, {h} \cup B, {h} \cup R, w)
    PROVE  Safe(f, e, o, c, t, B, R, w)
<1> USE DEF Takes
<1> DEFINE X == Doubted(d, c, t)
<1> HIDE DEF X
<1>1. ~Marks(h) /\ ~Frees(h) /\ ~Links(h) /\ ~Enters(h) /\ h.on = "dir"
    BY Kinds
<1>3. Marks(w) => CanMark(f, B, w)
    BY <1>1 DEF Safe, CanMark
<1>4. Frees(w) => CanFree(f, e, X, t, B, R, w)
    BY <1>1 DEF Safe, CanFree, X
<1>5. Links(w) => CanLink(f, e, X, B, R, w)
    BY <1>1 DEF Safe, CanLink, X
<1>6. Links(w) => Aside(f, e, c.name, t, w)
    BY <1>1 DEF Safe, Aside
<1>7. Enters(w) => CanEnter(f, e, c.name, t, B, w)
    <2> SUFFICES ASSUME Enters(w) PROVE CanEnter(f, e, c.name, t, B, w)
        OBVIOUS
    <2>1. w.at # h.at
        BY DEF CanClear
    <2> QED BY <1>1, <2>1 DEF Safe, CanEnter
<1>8. Clears(w) => CanClear(e, o, c, R, w)
    BY DEF Safe, CanClear
<1> QED BY <1>3, <1>4, <1>5, <1>6, <1>7, <1>8 DEF Safe, X

LEMMA ClearEnding ==
    ASSUME NEW f, NEW d, NEW e, NEW o, NEW c, NEW t, NEW T, NEW U, Follows(T, U),
           Typed(f, d, T), Ready(f, d, o, c, t, T), Ending(f, d, c, t, T), Clears(T[1]),
           Takes(d, e, T[1].at)
    PROVE  Ending(f, e, c, t, U)
<1> USE DEF Takes
<1> DEFINE X == t \ c.doubt
           h == T[1]
<1> HIDE DEF X
<1>1. ~c.failed
    BY EarlierWrites DEF Ending, Clears
<1>2. WillBeOwned(f, d, X, T) /\ (c.op \in {"open", "write"} => c.name \notin X)
    BY <1>1 DEF Ending, X
<1>3. c.op \notin {"open", "write"}
    BY EarlierWrites, FirstSafe DEF Safe, CanClear
<1>4. \A s : s # h.at /\ Cleared(T, s) => Cleared(U, s)
    BY EarlierWrites DEF Cleared
<1>5. \A x \in Clusters : Held(f, T, x) => Held(f, U, x)
    <2>1. Leads(f, f, h)
        BY Kinds DEF Leads
    <2> QED BY <2>1, HeldStays
<1>6. /\ \A s \in DOMAIN d : d[s].cluster \in Clusters
      /\ \A k \in DOMAIN U : Enters(U[k]) => U[k].value.cluster \in Clusters
    BY WriteShape, EarlierWrites DEF Typed, Entry
<1>7. WillBeOwned(f, e, X, U)
    <2>1. \A s \in DOMAIN e : e[s].name \notin X => Held(f, U, e[s].cluster) \/ Cleared(U, s)
        BY <1>2, <1>4, <1>5, <1>6 DEF WillBeOwned
    <2>2. \A s \in DOMAIN e, u \in DOMAIN e :
            s # u /\ e[s].name \notin X /\ e[u].name \notin X /\ e[s].cluster = e[u].cluster
            => Cleared(U, s) \/ Cleared(U, u)
        BY <1>2, <1>4 DEF WillBeOwned
    <2>3. ASSUME NEW k \in DOMAIN U, Enters(U[k]), U[k].value.name \notin X
          PROVE  /\ Held(f, U, U[k].value.cluster)
                 /\ \A s \in DOMAIN e :
                      s # U[k].at /\ e[s].name \notin X /\ e[s].cluster = U[k].value.cluster
                      => Cleared(U, s)
        <3>1. PICK i \in DOMAIN T : T[i] = U[k]
            BY EarlierWrites
        <3> QED BY <3>1, <2>3, <1>2, <1>4, <1>5, <1>6 DEF WillBeOwned
    <2> QED BY <2>1, <2>2, <2>3 DEF WillBeOwned
<1> QED BY <1>1, <1>2, <1>3, <1>7 DEF Ending, WillMatch, X

-----------------------------------------------------------------------------
(* The first write of a call lands *)

\* g and e are table and directory after h lands on f and d.
Lands(f, g, d, e, h) ==
    /\ h.on # "nowhere"
    /\ h.on # "fat" => g = f
    /\ h.on = "fat" => Becomes(f, g, h.at, h.value)
    /\ h.on # "dir" => e = d
    /\ Enters(h) =>
         /\ h.at \in 0 .. SlotsPerCluster * Len(Chain(f, Root)) - 1
         /\ Puts(d, e, h.at, h.value)
    /\ Clears(h) => Takes(d, e, h.at)

LEMMA LandSane ==
    ASSUME NEW f, NEW g, NEW d, NEW e, NEW o, NEW c, NEW t, NEW R, NEW h,
           f \in [Clusters -> Values], Entries(d),
           h \in DeviceWrites, Lands(f, g, d, e, h),
           Sane(f, d, o, c, t), Safe(f, d, o, c, t, {}, R, h)
    PROVE  /\ Sane(g, e, o, c, t)
           /\ \A s \in DOMAIN d :
                d[s].name \in {c.name} \cup t \/ Chain(g, d[s].cluster) = Chain(f, d[s].cluster)
<1>0. \A s \in DOMAIN d : d[s].cluster \in Clusters
    BY DEF Entries, Entry
<1>1. CASE Marks(h)
    <2>1. e = d /\ Becomes(f, g, h.at, ENDOFCHAIN)
        BY <1>1 DEF Lands, Marks
    <2>2. Sane(g, d, o, c, t) /\ SameChains(f, g)
        BY <1>1, <2>1, MarkSane
    <2> QED BY <1>0, <2>1, <2>2 DEF SameChains
<1>2. CASE Frees(h)
    <2>1. e = d /\ Becomes(f, g, h.at, Free)
        BY <1>2 DEF Lands, Frees
    <2>2. Sane(g, d, o, c, t) /\ SameButFrom(f, g, h.at)
        BY <1>2, <2>1, FreeSane
    <2>3. \A s \in DOMAIN d : d[s].cluster = h.at => d[s].name \in t
        BY <1>2 DEF Safe, CanFree, Doubted
    <2> QED BY <1>0, <2>1, <2>2, <2>3 DEF SameButFrom
<1>3. CASE Links(h)
    <2>1. e = d /\ h.at \in Clusters
          /\ Becomes(f, g, h.at, h.value)
        BY <1>3, WriteShape DEF Lands, Links
    <2>2. /\ Sane(g, d, o, c, t)
          /\ SameWithout(f, g, h.at)
        BY <1>3, <2>1, LinkSane
    <2>3. \A s \in DOMAIN d :
            d[s].name \notin {c.name} \cup t => h.at \notin Range(Chain(f, d[s].cluster))
        BY <1>3 DEF Safe, Aside
    <2> QED BY <1>0, <2>1, <2>2, <2>3 DEF SameWithout
<1>4. CASE Enters(h)
    <2>1. g = f /\ h.at \in 0 .. SlotsPerCluster * Len(Chain(f, Root)) - 1
          /\ Puts(d, e, h.at, h.value)
        BY <1>4 DEF Lands, Enters
    <2> QED BY <1>4, <2>1, EnterSane
<1>5. CASE Clears(h)
    <2>1. g = f /\ Takes(d, e, h.at)
        BY <1>5 DEF Lands, Clears
    <2> QED BY <1>5, <2>1, ClearSane
<1>6. CASE h.on \in {"bak", "zero"}
    BY <1>6 DEF Lands
<1> QED BY <1>1, <1>2, <1>3, <1>4, <1>5, <1>6, WriteShape DEF Lands, Enters, Clears

LEMMA LandReady ==
    ASSUME NEW f, NEW g, NEW d, NEW e, NEW o, NEW c, NEW t, NEW T, NEW U,
           Follows(T, U), Typed(f, d, T), Lands(f, g, d, e, T[1]),
           Sane(f, d, o, c, t), Ready(f, d, o, c, t, T)
    PROVE  Ready(g, e, o, c, t, U)
<1> DEFINE h == T[1]
<1>0. h \in DeviceWrites /\ f \in [Clusters -> Values] /\ Entries(d)
    BY DEF Typed, Follows, Entries
<1>1. Safe(f, d, o, c, t, {}, {h} \cup Range(U), h)
    <2>1. 1 \in DOMAIN T /\ Range(T) = {T[1]} \cup Range(U)
        BY DEF Follows
    <2>2. Safe(f, d, o, c, t, {}, Range(T), T[1])
        BY <2>1, FirstSafe
    <2> QED BY <2>1, <2>2
<1>2. Paired(U)
    BY DEF Ready, Paired, Follows
<1>3. ASSUME NEW B, NEW w \in Range(U), w \in DeviceWrites,
             Safe(f, d, o, c, t, {h} \cup B, {h} \cup Range(U), w)
      PROVE  Safe(g, e, o, c, t, B, Range(U), w)
    <2> DEFINE R == Range(U)
    <2>0. Lands(f, g, d, e, h)
        OBVIOUS
    <2> HIDE DEF R, h
    <2>1. CASE Marks(h)
        <3>1. e = d /\ h.at \in Clusters
              /\ Becomes(f, g, h.at, ENDOFCHAIN)
            BY <1>0, <2>0, <2>1, WriteShape DEF Lands, Marks
        <3>2. SameChains(f, g)
            BY <1>0, <1>1, <2>1, <3>1, MarkSane DEF R
        <3> QED BY <1>0, <1>3, <2>1, <3>1, <3>2, MarkReady DEF R
    <2>2. CASE Frees(h)
        <3>1. e = d /\ h.at \in Clusters
              /\ Becomes(f, g, h.at, Free)
            BY <1>0, <2>0, <2>2, WriteShape DEF Lands, Frees
        <3>2. SameButFrom(f, g, h.at)
            BY <1>0, <1>1, <2>2, <3>1, FreeSane DEF R
        <3>3. h.at # Root /\ CanFree(f, d, Doubted(d, c, t), t, {}, {h} \cup R, h)
            BY <1>1, <2>2 DEF Safe, CanFree, R
        <3> QED BY <1>0, <1>3, <2>2, <3>1, <3>2, <3>3, FreeReady DEF R
    <2>3. CASE Links(h)
        <3>1. e = d /\ h.at \in Clusters
              /\ Becomes(f, g, h.at, h.value)
            BY <1>0, <2>0, <2>3, WriteShape DEF Lands, Links
        <3>2. /\ SameWithout(f, g, h.at)
              /\ Range(Chain(g, Root)) \subseteq Range(Chain(f, Root)) \cup {h.value}
            BY <1>0, <1>1, <2>3, <3>1, LinkSane DEF R
        <3>3. CanLink(f, d, Doubted(d, c, t), {}, {h} \cup R, h) /\ Aside(f, d, c.name, t, h)
            BY <1>1, <2>3 DEF Safe, R
        <3> QED BY <1>0, <1>3, <2>3, <3>1, <3>2, <3>3, LinkReady DEF R
    <2>4. CASE Enters(h)
        <3>1. g = f /\ h.at \in 0 .. SlotsPerCluster * Len(Chain(f, Root)) - 1
              /\ Puts(d, e, h.at, h.value)
            BY <2>0, <2>4 DEF Lands, Enters
        <3>2. Sane(f, e, o, c, t) /\ Doubted(e, c, t) = t
            BY <1>1, <2>4, <3>1, EnterSane DEF R
        <3>3. CanEnter(f, d, c.name, t, {}, h)
            BY <1>1, <2>4 DEF Safe
        <3> QED BY <1>3, <2>4, <3>1, <3>2, <3>3, EnterReady DEF R
    <2>5. CASE Clears(h)
        <3>1. g = f /\ Takes(d, e, h.at)
            BY <2>0, <2>5 DEF Lands, Clears
        <3>2. Doubted(e, c, t) = Doubted(d, c, t)
            BY <1>1, <2>5, <3>1, ClearSane DEF R
        <3>3. CanClear(d, o, c, {h} \cup R, h)
            BY <1>1, <2>5 DEF Safe, R
        <3> QED BY <1>3, <2>5, <3>1, <3>2, <3>3, ClearReady DEF R
    <2>6. CASE h.on \in {"bak", "zero"}
        <3>1. g = f /\ e = d /\ ~Marks(h) /\ ~Frees(h) /\ ~Links(h) /\ ~Enters(h) /\ ~Clears(h)
            BY <2>0, <2>6 DEF Lands, Marks, Frees, Links, Enters, Clears
        <3> QED BY <1>3, <3>1, PlainSafe DEF R
    <2> QED BY <1>0, <2>0, <2>1, <2>2, <2>3, <2>4, <2>5, <2>6, WriteShape
            DEF Enters, Clears, Lands
<1>4. \A k \in DOMAIN U :
        /\ U[k] \in Range(U) /\ U[k] \in DeviceWrites
        /\ Safe(f, d, o, c, t, {h} \cup Before(U, k), {h} \cup Range(U), U[k])
    BY DEF Ready, Follows, Range, Typed
<1> HIDE DEF h
<1> QED BY <1>2, <1>3, <1>4 DEF Ready

LEMMA LandEnding ==
    ASSUME NEW f, NEW g, NEW d, NEW e, NEW o, NEW c, NEW t, NEW T, NEW U,
           Follows(T, U), Typed(f, d, T), Lands(f, g, d, e, T[1]),
           Sane(f, d, o, c, t), Ready(f, d, o, c, t, T), Ending(f, d, c, t, T)
    PROVE  Ending(g, e, c, t, U)
<1> DEFINE h == T[1]
<1>0. h \in DeviceWrites
    BY DEF Typed, Follows
<1>1. CASE h.on # "dir"
    <2>1. e = d /\ ~Clears(h) /\ ~Enters(h) /\ h.on # "nowhere"
        BY <1>1 DEF Lands, Clears, Enters
    <2>2. Leads(f, g, h)
        <3>0. Lands(f, g, d, e, h)
            OBVIOUS
        <3> HIDE DEF h
        <3>1. CASE h.on # "fat"
            BY <3>0, <3>1 DEF Leads, Lands, Marks, Frees, Links
        <3>2. CASE h.on = "fat"
            <4>1. h.value # Free \/ Frees(h)
                BY <3>2 DEF Frees
            <4>2. Links(h) \/ h.value \notin Clusters
                BY <3>2 DEF Links
            <4>3. Marks(h) => h.value # Free
                BY Constants DEF Marks
            <4> QED BY <3>0, <3>2, <4>1, <4>2, <4>3 DEF Leads, Lands, Becomes
        <3> QED BY <3>1, <3>2
    <2> QED BY <2>1, <2>2, TableEnding
<1>2. CASE Enters(h)
    <2>1. g = f /\ Puts(d, e, h.at, h.value)
        BY <1>2 DEF Lands, Enters
    <2> QED BY <1>2, <2>1, EnterEnding
<1>3. CASE Clears(h)
    <2>1. g = f /\ Takes(d, e, h.at)
        BY <1>3 DEF Lands, Clears
    <2> QED BY <1>3, <2>1, ClearEnding
<1> QED BY <1>1, <1>2, <1>3 DEF Enters, Clears

-----------------------------------------------------------------------------
(* The first write of a call fails *)

\* ... and the call goes on.
LEMMA SkipEnding ==
    ASSUME NEW f, NEW d, NEW o, NEW c, NEW t, NEW T, NEW U, Follows(T, U), Typed(f, d, T),
           Ready(f, d, o, c, t, T), Ending(f, d, c, t, T), Skips(T[1])
    PROVE  Ending(f, d, c, t, U)
<1>1. ~Clears(T[1]) /\ ~(Enters(T[1]) /\ Firm(T[1])) /\ ~(Marks(T[1]) /\ Firm(T[1]))
    BY FirmClears, EarlierWrites DEF Skips, Marks, Enters, Clears, Firm
<1>2. Leads(f, f, T[1])
    BY <1>1 DEF Leads
<1> QED BY <1>1, <1>2, TableEnding DEF Skips

\* ... and the call stops, at once or after the write of the second copy.
LEMMA StopReady ==
    ASSUME NEW f, NEW d, NEW o, NEW c, NEW t, NEW U, \A k \in DOMAIN U : k = 1 /\ U[k].on = "bak"
    PROVE  Ready(f, d, o, c, t, U)
BY DEF Ready, Paired, Safe, Marks, Frees, Links, Enters, Clears

\* What is known of a call does not depend on what is left of it.
LEMMA SameCall ==
    ASSUME NEW f, NEW d, NEW o, NEW c, NEW e, NEW t, NEW T,
           e.op = c.op, e.name = c.name, e.doubt = c.doubt
    PROVE  /\ Sane(f, d, o, c, t) => Sane(f, d, o, e, t)
           /\ Ready(f, d, o, c, t, T) => Ready(f, d, o, e, t, T)
           /\ e.failed = c.failed /\ e.slot = c.slot /\ e.cluster = c.cluster =>
                (Ending(f, d, c, t, T) => Ending(f, d, e, t, T))
<1>1. Doubted(d, e, t) = Doubted(d, c, t)
    BY DEF Doubted
<1>2. \A B, R, w : Safe(f, d, o, c, t, B, R, w) => Safe(f, d, o, e, t, B, R, w)
    BY <1>1 DEF Safe, CanClear
<1>3. Ready(f, d, o, c, t, T) => Ready(f, d, o, e, t, T)
    BY <1>2 DEF Ready
<1>4. Sane(f, d, o, c, t) => Sane(f, d, o, e, t)
    BY <1>1 DEF Sane
<1>5. e.failed = c.failed /\ e.slot = c.slot /\ e.cluster = c.cluster =>
        (Ending(f, d, c, t, T) => Ending(f, d, e, t, T))
    BY DEF Ending, WillMatch
<1> QED BY <1>3, <1>4, <1>5

-----------------------------------------------------------------------------
(* The steps of a call *)

LEMMA CallShape ==
    ASSUME NEW c \in Calls
    PROVE  /\ c.todo \in Seq(DeviceWrites) /\ c.failed \in BOOLEAN /\ c.missed \in BOOLEAN
           /\ c.name \in Names \cup {"none"} /\ c.slot \in Nat
           /\ c.cluster \in Clusters \cup {0} /\ c.size \in 0 .. MaxSize
           /\ c.doubt \subseteq Names /\ c.got \subseteq Clusters /\ c.left \subseteq Clusters
BY DEF Calls

LEMMA CallGoesOn ==
    ASSUME NEW c \in Calls, NEW T \in Seq(DeviceWrites), NEW e, e = [c EXCEPT !.todo = T]
    PROVE  /\ e \in Calls /\ e.todo = T /\ e.failed = c.failed
           /\ e.op = c.op /\ e.name = c.name /\ e.doubt = c.doubt
           /\ e.slot = c.slot /\ e.cluster = c.cluster
BY DEF Calls

LEMMA TypeShape ==
    ASSUME Types, call \in Calls
    PROVE  /\ Typed(fat, dir, call.todo) /\ Entries(dir)
           /\ call.todo # <<>> =>
                /\ Follows(call.todo, Tail(call.todo)) /\ Head(call.todo) = call.todo[1]
                /\ call.todo[1] \in DeviceWrites /\ Tail(call.todo) \in Seq(DeviceWrites)
<1>1. call.todo \in Seq(DeviceWrites)
    BY CallShape
<1>2. \A k \in DOMAIN call.todo : call.todo[k] \in DeviceWrites
    BY <1>1, ElementOfSeq, LenProperties
<1>3. Typed(fat, dir, call.todo) /\ Entries(dir)
    BY <1>2 DEF Types, Typed, Entries
<1>4. ASSUME call.todo # <<>>
      PROVE  /\ Follows(call.todo, Tail(call.todo)) /\ Head(call.todo) = call.todo[1]
             /\ 1 \in DOMAIN call.todo /\ Tail(call.todo) \in Seq(DeviceWrites)
    BY <1>1, <1>4, TailFollows, HeadTailProperties
<1> QED BY <1>2, <1>3, <1>4

LEMMA LandTypes ==
    ASSUME Types, call \in Calls, Sane(fat, dir, open, call, torn), WriteLands
    PROVE  /\ Types' /\ call.todo # <<>>
           /\ Lands(fat, fat', dir, dir', call.todo[1])
<1> DEFINE h == call.todo[1]
<1>1. /\ call.todo # <<>> /\ ~Refused(h)
      /\ fat' = IF h.on = "fat" THEN [fat EXCEPT ![h.at] = h.value] ELSE fat
      /\ bak' = IF h.on = "bak" THEN Mirrored(h.at, h.value) ELSE bak
      /\ dir' = IF h.on = "dir" THEN WithEntry(h.at, h.value) ELSE dir
      /\ UNCHANGED <<open, faults, lost, torn, short>>
    BY TypeShape DEF WriteLands
<1>2. h \in DeviceWrites
    BY <1>1, TypeShape
<1> HIDE DEF h
<1>3. h.on # "nowhere" /\ (h.on = "dir" => ~(h.at >= SlotCount))
    BY <1>1 DEF Refused
<1>4. fat \in [Clusters -> Values] /\ bak \in [Clusters -> Values]
      /\ DOMAIN dir \subseteq Nat /\ \A s \in DOMAIN dir : dir[s] \in Entry
    BY DEF Types
<1>5. /\ fat' \in [Clusters -> Values]
      /\ h.on # "fat" => fat' = fat
      /\ h.on = "fat" => Becomes(fat, fat', h.at, h.value)
    BY <1>1, <1>2, <1>4, WriteShape DEF Becomes
<1>6. bak' \in [Clusters -> Values]
    BY <1>1, <1>2, <1>4, WriteShape DEF Mirrored
<1>7. /\ h.on # "dir" => dir' = dir
      /\ Enters(h) => Puts(dir, dir', h.at, h.value)
      /\ Clears(h) => Takes(dir, dir', h.at)
    BY <1>1 DEF WithEntry, Enters, Clears, Puts, Takes
<1>8. Enters(h) => h.at \in Nat /\ h.value \in Entry
    BY <1>2, WriteShape DEF Enters
<1>9. DOMAIN dir' \subseteq Nat /\ \A s \in DOMAIN dir' : dir'[s] \in Entry
    <2>1. CASE h.on # "dir"
        BY <1>4, <1>7, <2>1
    <2>2. CASE Enters(h)
        BY <1>4, <1>7, <1>8, <2>2 DEF Puts
    <2>3. CASE Clears(h)
        BY <1>4, <1>7, <2>3 DEF Takes
    <2> QED BY <2>1, <2>2, <2>3 DEF Enters, Clears
<1>10. Enters(h) => h.at \in 0 .. SlotsPerCluster * Len(Chain(fat, Root)) - 1
    <2>1. SlotsPerCluster \in Nat /\ Len(Chain(fat, Root)) \in Nat
        BY BoundAssumption, ChainShape, Constants
    <2>2. SlotsPerCluster * Len(Chain(fat, Root)) \in Nat
        BY <2>1
    <2> QED BY <1>3, <1>8, <2>2 DEF SlotCount, Enters
<1>11. Types'
    BY <1>1, <1>5, <1>6, <1>9 DEF Types
<1> QED BY <1>1, <1>3, <1>5, <1>7, <1>10, <1>11 DEF Lands, h

\* A write lands: the invariant holds, and no other file's chain changes.
LEMMA LandStep ==
    ASSUME IInv, WriteLands
    PROVE  /\ IInv'
           /\ \A s \in DOMAIN dir :
                \/ dir[s].name \in {call.name} \cup torn
                \/ Chain(fat', dir[s].cluster) = Chain(fat, dir[s].cluster)
<1> DEFINE T == call.todo
           U == Tail(T)
<1>1. /\ Types /\ call \in Calls /\ Sane(fat, dir, open, call, torn)
      /\ Ready(fat, dir, open, call, torn, T) /\ Ending(fat, dir, call, torn, T)
      /\ call.op = "write" => call.doubt = {}
    BY DEF IInv
<1>2. /\ Types' /\ T # <<>> /\ Lands(fat, fat', dir, dir', T[1])
      /\ Typed(fat, dir, T) /\ Entries(dir) /\ Follows(T, U) /\ T[1] \in DeviceWrites
      /\ U \in Seq(DeviceWrites) /\ fat \in [Clusters -> Values] /\ 1 \in DOMAIN T
    <2>1. Types' /\ T # <<>> /\ Lands(fat, fat', dir, dir', T[1])
        BY <1>1, LandTypes
    <2>2. /\ Typed(fat, dir, T) /\ Entries(dir) /\ Follows(T, U)
          /\ T[1] \in DeviceWrites /\ U \in Seq(DeviceWrites)
        BY <1>1, <2>1, TypeShape
    <2>3. fat \in [Clusters -> Values]
        BY <1>1 DEF Types
    <2> HIDE DEF T, U
    <2> QED BY <2>1, <2>2, <2>3, EarlierWrites
<1>3. open' = open /\ torn' = torn /\ call' = [call EXCEPT !.todo = U]
    BY DEF WriteLands
<1>4. /\ call' \in Calls /\ call'.todo = U /\ call'.failed = call.failed
      /\ call'.op = call.op /\ call'.name = call.name /\ call'.doubt = call.doubt
      /\ call'.slot = call.slot /\ call'.cluster = call.cluster
    <2>1. call \in Calls /\ U \in Seq(DeviceWrites)
        BY <1>1, <1>2
    <2> HIDE DEF T, U
    <2> QED BY <1>3, <2>1, CallGoesOn
<1> HIDE DEF T, U
<1>5. Safe(fat, dir, open, call, torn, {}, Range(T), T[1])
    BY <1>1, <1>2, FirstSafe
<1>6. /\ Sane(fat', dir', open, call, torn)
      /\ \A s \in DOMAIN dir :
            \/ dir[s].name \in {call.name} \cup torn
            \/ Chain(fat', dir[s].cluster) = Chain(fat, dir[s].cluster)
    BY <1>1, <1>2, <1>5, LandSane
<1>7. Ready(fat', dir', open, call, torn, U)
    BY <1>1, <1>2, LandReady
<1>8. Ending(fat', dir', call, torn, U)
    BY <1>1, <1>2, LandEnding
<1>9. /\ Sane(fat', dir', open, call', torn)
      /\ Ready(fat', dir', open, call', torn, U)
      /\ Ending(fat', dir', call', torn, U)
    BY <1>4, <1>6, <1>7, <1>8, SameCall
<1> QED BY <1>1, <1>2, <1>3, <1>4, <1>6, <1>9 DEF IInv

\* What is left of a call keeps the invariant when nothing else changes.
LEMMA LeftOver ==
    ASSUME IInv, NEW U \in Seq(DeviceWrites), NEW b \in BOOLEAN, NEW m \in BOOLEAN,
           call' = [call EXCEPT !.todo = U, !.failed = b, !.missed = m],
           UNCHANGED <<fat, bak, dir, open, lost, torn, short>>, faults' \in 0 .. MaxFaults,
           Ready(fat, dir, open, call, torn, U),
           b => \A k \in DOMAIN U : U[k].on = "bak",
           ~b => ~call.failed /\ Ending(fat, dir, call, torn, U)
    PROVE  IInv'
<1>1. call \in Calls /\ Sane(fat, dir, open, call, torn) /\ Types
      /\ (call.op = "write" => call.doubt = {})
    BY DEF IInv
<1>2. /\ call' \in Calls /\ call'.todo = U /\ call'.failed = b
      /\ call'.op = call.op /\ call'.name = call.name /\ call'.doubt = call.doubt
      /\ call'.slot = call.slot /\ call'.cluster = call.cluster
    BY <1>1 DEF Calls
<1>3. Sane(fat, dir, open, call', torn) /\ Ready(fat, dir, open, call', torn, U)
    BY <1>1, <1>2, SameCall
<1>4. Ending(fat, dir, call', torn, U)
    <2>1. CASE b
        BY <2>1, <1>2 DEF Ending
    <2>2. CASE ~b
        <3>1. call'.failed = call.failed
            BY <2>2, <1>1, <1>2, CallShape
        <3> QED BY <2>2, <3>1, <1>2, SameCall
    <2> QED BY <2>1, <2>2
<1>5. Types'
    BY <1>1 DEF Types
<1> QED BY <1>1, <1>2, <1>3, <1>4, <1>5 DEF IInv

\* After a write of the first copy that does not stop the call comes that of
\* the second.
LEMMA SecondCopy ==
    ASSUME IInv, call.todo # <<>>, Head(call.todo).on = "fat"
    PROVE  /\ Tail(call.todo) # <<>> /\ call.todo[2] = Head(Tail(call.todo))
           /\ call.todo[2].on = "bak" /\ call.todo[2] \in DeviceWrites
           /\ Skips(call.todo[2])
<1> DEFINE T == call.todo
           U == Tail(T)
<1>1. Follows(T, U) /\ Head(T) = T[1] /\ Paired(T) /\ Typed(fat, dir, T)
      /\ U \in Seq(DeviceWrites)
    BY TypeShape DEF IInv, Ready
<1> HIDE DEF T, U
<1>2. 2 \in DOMAIN T /\ T[2].on = "bak" /\ 1 \in DOMAIN T
    BY <1>1 DEF Paired, Follows, T
<1>3. 1 \in DOMAIN U /\ U[1] = T[2]
    BY <1>1, <1>2 DEF Follows
<1>4. U # <<>> /\ Head(U) = U[1]
    BY <1>1, <1>3
<1> QED BY <1>1, <1>2, <1>3, <1>4 DEF T, U, Typed, Skips

\* A write fails: the call goes on, or stops.
LEMMA WriteFailsStep ==
    ASSUME IInv, WriteFails
    PROVE  IInv'
<1> DEFINE T == call.todo
           h == Head(T)
           U == AfterFailure(T)
           b == call.failed \/ h.onFail # "ignore"
           m == call.missed \/ h.on # "bak"
<1>1. T # <<>> /\ call' = [call EXCEPT !.todo = U, !.failed = b, !.missed = m]
      /\ UNCHANGED <<fat, bak, dir, open, lost, torn, short>>
    BY DEF WriteFails
<1>2. faults' \in 0 .. MaxFaults
    BY BoundAssumption DEF WriteFails, IInv, Types
<1>3. /\ Types /\ call \in Calls /\ Sane(fat, dir, open, call, torn)
      /\ Ready(fat, dir, open, call, torn, T) /\ Ending(fat, dir, call, torn, T)
    BY DEF IInv
<1>4. /\ Typed(fat, dir, T) /\ Follows(T, Tail(T)) /\ h = T[1] /\ h \in DeviceWrites
      /\ Tail(T) \in Seq(DeviceWrites)
    BY <1>1, <1>3, TypeShape
<1>5. call.failed \in BOOLEAN /\ call.missed \in BOOLEAN /\ m \in BOOLEAN
    BY <1>3, CallShape
<1>6. CASE h.onFail = "ignore"
    <2>1. Skips(h)
        BY <1>4, <1>6 DEF DeviceWrites, Skips, Firm
    <2>2. U = Tail(T) /\ b = call.failed
        BY <1>5, <1>6 DEF AfterFailure
    <2> HIDE DEF T, U, b, h, m
    <2>3. Ready(fat, dir, open, call, torn, U) /\ Ending(fat, dir, call, torn, U)
        BY <1>3, <1>4, <2>1, <2>2, SkipReady, SkipEnding
    <2>4. b => \A k \in DOMAIN U : U[k].on = "bak"
        BY <2>2, <2>3 DEF Ending
    <2> QED BY <1>1, <1>2, <1>4, <1>5, <2>2, <2>3, <2>4, LeftOver
<1>7. CASE h.onFail = "finish"
    <2>1. h.on = "fat"
        BY <1>4, <1>7 DEF DeviceWrites
    <2>2. T[2].on = "bak" /\ T[2] \in DeviceWrites
        BY <1>1, <2>1, SecondCopy
    <2>3. U = <<T[2]>> /\ b = TRUE
        BY <1>7 DEF AfterFailure
    <2> HIDE DEF T, U, b, h, m
    <2>4. U \in Seq(DeviceWrites) /\ \A k \in DOMAIN U : k = 1 /\ U[k].on = "bak"
        BY <2>2, <2>3
    <2>5. Ready(fat, dir, open, call, torn, U)
        BY <2>4, StopReady
    <2> QED BY <1>1, <1>2, <1>5, <2>3, <2>4, <2>5, LeftOver
<1>8. CASE h.onFail = "stop"
    <2>1. U = <<>> /\ b = TRUE
        BY <1>8 DEF AfterFailure
    <2> HIDE DEF T, U, b, h, m
    <2>2. U \in Seq(DeviceWrites) /\ \A k \in DOMAIN U : k = 1 /\ U[k].on = "bak"
        BY <2>1
    <2>3. Ready(fat, dir, open, call, torn, U)
        BY <2>2, StopReady
    <2> QED BY <1>1, <1>2, <1>5, <2>1, <2>2, <2>3, LeftOver
<1>9. h.onFail \in {"ignore", "finish", "stop"}
    BY <1>4 DEF DeviceWrites
<1> QED BY <1>6, <1>7, <1>8, <1>9

\* The sector of both copies cannot be read.
LEMMA ReadFailsStep ==
    ASSUME IInv, ReadFails
    PROVE  IInv'
<1> DEFINE T == call.todo
           h == Head(T)
           U == IF h.onFail = "ignore" THEN Tail(Tail(T)) ELSE <<>>
           b == call.failed \/ h.onFail # "ignore"
           m == TRUE
<1>1. T # <<>> /\ call' = [call EXCEPT !.todo = U, !.failed = b, !.missed = m]
      /\ h.on = "fat" /\ UNCHANGED <<fat, bak, dir, open, lost, torn, short>>
    BY DEF ReadFails
<1>2. faults' \in 0 .. MaxFaults
    BY BoundAssumption DEF ReadFails, IInv, Types
<1>3. /\ Types /\ call \in Calls /\ Sane(fat, dir, open, call, torn)
      /\ Ready(fat, dir, open, call, torn, T) /\ Ending(fat, dir, call, torn, T)
    BY DEF IInv
<1>4. /\ Typed(fat, dir, T) /\ Follows(T, Tail(T)) /\ h = T[1] /\ h \in DeviceWrites
      /\ Tail(T) \in Seq(DeviceWrites)
    BY <1>1, <1>3, TypeShape
<1>5. call.failed \in BOOLEAN /\ m \in BOOLEAN
    BY <1>3, CallShape
<1>6. Tail(T) # <<>> /\ T[2] = Head(Tail(T)) /\ Skips(T[2])
    BY <1>1, SecondCopy
<1>7. CASE h.onFail = "ignore"
    <2> DEFINE V == Tail(T)
    <2>1. Follows(V, Tail(V)) /\ V[1] = T[2] /\ Tail(V) \in Seq(DeviceWrites)
        BY <1>4, <1>6, TailFollows, HeadTailProperties
    <2>2. Skips(h)
        BY <1>4, <1>7 DEF DeviceWrites, Skips, Firm
    <2>3. U = Tail(V) /\ b = call.failed
        BY <1>5, <1>7
    <2>4. Typed(fat, dir, V)
        <3> HIDE DEF V, T
        <3> QED BY <1>4, EarlierWrites DEF Typed, V
    <2> HIDE DEF T, U, V, b, h, m
    <2>5. Ready(fat, dir, open, call, torn, V) /\ Ending(fat, dir, call, torn, V)
        BY <1>3, <1>4, <2>2, SkipReady, SkipEnding DEF V
    <2>6. Ready(fat, dir, open, call, torn, U) /\ Ending(fat, dir, call, torn, U)
        BY <1>6, <2>1, <2>3, <2>4, <2>5, SkipReady, SkipEnding
    <2>7. b => \A k \in DOMAIN U : U[k].on = "bak"
        BY <2>3, <2>6 DEF Ending
    <2> QED BY <1>1, <1>2, <1>5, <2>1, <2>3, <2>6, <2>7, LeftOver
<1>8. CASE h.onFail # "ignore"
    <2>1. U = <<>> /\ b = TRUE
        BY <1>8
    <2> HIDE DEF T, U, b, h, m
    <2>2. U \in Seq(DeviceWrites) /\ \A k \in DOMAIN U : k = 1 /\ U[k].on = "bak"
        BY <2>1
    <2>3. Ready(fat, dir, open, call, torn, U)
        BY <2>2, StopReady
    <2> QED BY <1>1, <1>2, <1>5, <2>1, <2>2, <2>3, LeftOver
<1> QED BY <1>7, <1>8

-----------------------------------------------------------------------------
(* A call ends *)

LEMMA OwnedAtEnd ==
    ASSUME NEW f, NEW d, NEW X
    PROVE  WillBeOwned(f, d, X, <<>>) <=> Owned(f, d, X)
<1>1. DOMAIN <<>> = {}
    OBVIOUS
<1> QED BY <1>1 DEF WillBeOwned, Owned, Held, Cleared

LEMMA IdleShape ==
    /\ Idle \in Calls /\ Idle.op = "idle" /\ Idle.todo = <<>> /\ Idle.failed = FALSE
    /\ Idle.doubt = {} /\ \A d, t : Doubted(d, Idle, t) = t
<1>1. Idle \in Calls
    BY BoundAssumption DEF Idle, Calls
<1> QED BY <1>1 DEF Idle, Doubted

\* Between two calls every entry but those of torn files heads its own chain.
LEMMA IdleHolds ==
    ASSUME NEW f, NEW d, NEW o, NEW c, NEW t, NEW p, NEW u,
           Sane(f, d, o, c, t), Owned(f, d, u), Matching(d, p, u)
    PROVE  /\ Sane(f, d, p, Idle, u)
           /\ Ready(f, d, p, Idle, u, <<>>) /\ Ending(f, d, Idle, u, <<>>)
<1>1. Sane(f, d, p, Idle, u)
    BY IdleShape DEF Sane
<1>2. Ready(f, d, p, Idle, u, <<>>)
    BY DEF Ready, Paired
<1>3. WillBeOwned(f, d, u, <<>>)
    BY OwnedAtEnd
<1>4. Ending(f, d, Idle, u, <<>>)
    BY <1>3, IdleShape DEF Ending, WillMatch
<1> QED BY <1>1, <1>2, <1>4

LEMMA IdleStep ==
    ASSUME IInv, call' = Idle, UNCHANGED <<fat, dir>>, Types',
           Owned(fat, dir, torn'), Matching(dir, open', torn')
    PROVE  IInv'
<1>1. Sane(fat, dir, open, call, torn)
    BY DEF IInv
<1>2. /\ Sane(fat, dir, open', Idle, torn')
      /\ Ready(fat, dir, open', Idle, torn', <<>>) /\ Ending(fat, dir, Idle, torn', <<>>)
    BY <1>1, IdleHolds
<1> QED BY <1>2, IdleShape DEF IInv

\* What holds when nothing is left of a call: torn is as Return sets it.
LEMMA AtEnd ==
    ASSUME IInv
    PROVE  /\ Owned(fat, dir, StillTorn) /\ StillTorn \subseteq torn
           /\ call.todo = <<>> /\ ~call.failed =>
                /\ Owned(fat, dir, torn \ call.doubt)
                /\ call.op \in {"open", "write"} =>
                     /\ call.name \in Names \ (torn \ call.doubt)
                     /\ call.cluster \in Clusters
                     /\ call.slot \in DOMAIN dir /\ dir[call.slot].name = call.name
                     /\ dir[call.slot].cluster = call.cluster
<1>1. /\ Sane(fat, dir, open, call, torn) /\ Ending(fat, dir, call, torn, call.todo)
    BY DEF IInv
<1>2. StillTorn = Doubted(dir, call, torn)
    BY DEF StillTorn, Exists, Doubted
<1>3. Owned(fat, dir, StillTorn) /\ StillTorn \subseteq torn
    BY <1>1, <1>2 DEF Sane, Doubted
<1>4. ASSUME call.todo = <<>>, ~call.failed
      PROVE  /\ Owned(fat, dir, torn \ call.doubt)
             /\ call.op \in {"open", "write"} =>
                  /\ call.name \in Names \ (torn \ call.doubt)
                  /\ call.cluster \in Clusters
                  /\ call.slot \in DOMAIN dir /\ dir[call.slot].name = call.name
                  /\ dir[call.slot].cluster = call.cluster
    <2>1. /\ WillBeOwned(fat, dir, torn \ call.doubt, <<>>) /\ WillMatch(dir, call, <<>>)
          /\ (call.op \in {"open", "write"} => call.name \notin torn \ call.doubt)
        BY <1>1, <1>4 DEF Ending
    <2>2. DOMAIN <<>> = {}
        OBVIOUS
    <2> QED BY <2>1, <2>2, OwnedAtEnd DEF WillMatch
<1> QED BY <1>3, <1>4

LEMMA OpenedMatches ==
    ASSUME NEW d, NEW o, NEW t, NEW n, NEW s, NEW c, NEW z, Matching(d, o, t), n \notin t,
           s \in DOMAIN d, d[s].name = n, d[s].cluster = c
    PROVE  Matching(d, Opened(o, n, s, c, z), t)
BY DEF Matching, Opened

LEMMA OpenedTyped ==
    ASSUME Types, NEW n \in Names, NEW s, NEW c \in Clusters, NEW z \in 0 .. MaxSize
    PROVE  LET o == Opened(open, n, s, c, z) IN
           /\ DOMAIN o \subseteq Names
           /\ \A m \in DOMAIN o : o[m].cluster \in Clusters /\ o[m].size \in 0 .. MaxSize
BY DEF Types, Opened

LEMMA ReturnStep ==
    ASSUME IInv, Return
    PROVE  IInv'
<1>1. /\ Types /\ call \in Calls /\ Sane(fat, dir, open, call, torn)
      /\ call.op = "write" => call.doubt = {}
    BY DEF IInv
<1>2. /\ call.todo = <<>> /\ call' = Idle /\ UNCHANGED <<fat, bak, dir, faults>>
      /\ open' = IF call.op \in {"open", "write"} /\ ~call.failed
                 THEN Opened(open, call.name, call.slot, call.cluster, call.size) ELSE open
      /\ torn' = IF call.failed \/ Missing THEN StillTorn ELSE torn \ call.doubt
      /\ lost' \in {Stranded, StrandedYet}
      /\ short' \subseteq short \cup {call.name}
      /\ short' # short => call.op = "write" /\ ~call.failed
    BY DEF Return
<1>3. Owned(fat, dir, torn') /\ torn' \subseteq torn
    BY <1>2, AtEnd
<1>4. Matching(dir, open, torn')
    BY <1>1, <1>3 DEF Sane, Matching
<1>5. ASSUME call.op \in {"open", "write"}, ~call.failed
      PROVE  /\ call.name \in Names \ torn' /\ call.cluster \in Clusters
             /\ call.slot \in DOMAIN dir /\ dir[call.slot].name = call.name
             /\ dir[call.slot].cluster = call.cluster
    <2>1. /\ call.name \in Names \ (torn \ call.doubt) /\ call.cluster \in Clusters
          /\ call.slot \in DOMAIN dir /\ dir[call.slot].name = call.name
          /\ dir[call.slot].cluster = call.cluster
        BY <1>2, <1>5, AtEnd
    <2>2. torn' \subseteq torn \ call.doubt
        <3>1. CASE Missing
            BY <3>1, <1>1, <1>3 DEF Missing
        <3>2. CASE ~Missing
            BY <3>2, <1>2, <1>5
        <3> QED BY <3>1, <3>2
    <2> QED BY <2>1, <2>2
<1>6. Matching(dir, open', torn')
    BY <1>2, <1>4, <1>5, OpenedMatches
<1>7. Types'
    <2>1. call.size \in 0 .. MaxSize /\ call.got \subseteq Clusters /\ call.left \subseteq Clusters
        BY <1>1, CallShape
    <2>2. /\ DOMAIN open' \subseteq Names
          /\ \A m \in DOMAIN open' :
               open'[m].cluster \in Clusters /\ open'[m].size \in 0 .. MaxSize
        <3>1. CASE call.op \in {"open", "write"} /\ ~call.failed
            BY <3>1, <1>1, <1>2, <1>5, <2>1, OpenedTyped
        <3>2. CASE ~(call.op \in {"open", "write"} /\ ~call.failed)
            BY <3>2, <1>1, <1>2 DEF Types
        <3> QED BY <3>1, <3>2
    <2>3. lost' \subseteq Clusters
        BY <1>1, <1>2, <2>1 DEF Stranded, StrandedYet, Types
    <2>4. short' \subseteq Names /\ torn' \subseteq Names
        BY <1>1, <1>2, <1>3, <1>5 DEF Types
    <2> QED BY <1>1, <1>2, <2>2, <2>3, <2>4 DEF Types
<1> QED BY <1>2, <1>3, <1>6, <1>7, IdleStep

LEMMA CrashStep ==
    ASSUME IInv, Crash
    PROVE  IInv'
<1>1. Types /\ call \in Calls
    BY DEF IInv
<1>2. /\ call' = Idle /\ open' = <<>> /\ torn' = StillTorn /\ lost' = Stranded
      /\ UNCHANGED <<fat, bak, dir>> /\ faults' = faults + 1 /\ faults < MaxFaults
      /\ short' \subseteq short \cup {call.name} /\ (short' # short => Missing)
    BY DEF Crash
<1>3. Owned(fat, dir, torn') /\ torn' \subseteq torn
    BY <1>2, AtEnd
<1>4. Matching(dir, open', torn')
    BY <1>2 DEF Matching
<1>5. Missing => call.name \in Names
    BY DEF IInv, Missing, Ending, WillMatch
<1>6. Types'
    <2>1. call.got \subseteq Clusters
        BY <1>1, CallShape
    <2>2. lost' \subseteq Clusters
        BY <1>1, <1>2, <2>1 DEF Stranded, Types
    <2>3. short' \subseteq Names /\ torn' \subseteq Names
        BY <1>1, <1>2, <1>3, <1>5 DEF Types
    <2>4. faults' \in 0 .. MaxFaults
        BY <1>1, <1>2, BoundAssumption DEF Types
    <2>5. DOMAIN open' = {}
        BY <1>2
    <2> QED BY <1>1, <1>2, <2>2, <2>3, <2>4, <2>5 DEF Types
<1> QED BY <1>2, <1>3, <1>4, <1>6, IdleStep

\* Between two calls.
LEMMA AtRest ==
    ASSUME IInv, call = Idle
    PROVE  /\ Sane(fat, dir, open, Idle, torn) /\ Owned(fat, dir, torn)
           /\ Matching(dir, open, torn) /\ Types
BY IdleShape DEF IInv, Sane

LEMMA CloseStep ==
    ASSUME IInv, NEW n \in DOMAIN open, Close(n)
    PROVE  IInv'
<1>1. /\ call = Idle /\ UNCHANGED <<fat, bak, dir, call, faults, lost, torn, short>>
      /\ open' = [m \in DOMAIN open \ {n} |-> open[m]]
    BY DEF Close
<1>2. Owned(fat, dir, torn) /\ Matching(dir, open, torn) /\ Types
    BY <1>1, AtRest
<1>3. Matching(dir, open', torn)
    BY <1>1, <1>2 DEF Matching
<1>4. Types'
    BY <1>1, <1>2 DEF Types
<1> QED BY <1>1, <1>2, <1>3, <1>4, IdleStep

LEMMA SlotShape ==
    ASSUME NEW n, Exists(n)
    PROVE  SlotOf(n) \in DOMAIN dir /\ dir[SlotOf(n)].name = n
BY DEF Exists, SlotOf

LEMMA OpenExistingStep ==
    ASSUME IInv, NEW n \in Names, OpenExisting(n)
    PROVE  IInv'
<1> DEFINE s == SlotOf(n)
<1>1. /\ call = Idle /\ UNCHANGED <<fat, bak, dir, call, faults, lost, torn, short>>
      /\ open' = Opened(open, n, s, dir[s].cluster, dir[s].size)
      /\ Exists(n) /\ n \notin torn
    BY DEF OpenExisting, Sound
<1>2. Owned(fat, dir, torn) /\ Matching(dir, open, torn) /\ Types
    BY <1>1, AtRest
<1>3. s \in DOMAIN dir /\ dir[s].name = n
    BY <1>1, SlotShape
<1>4. dir[s].cluster \in Clusters /\ dir[s].size \in 0 .. MaxSize
    BY <1>2, <1>3 DEF Types, Entry
<1>5. Matching(dir, open', torn)
    BY <1>1, <1>2, <1>3, OpenedMatches
<1>6. Types'
    BY <1>1, <1>2, <1>4, OpenedTyped DEF Types
<1> QED BY <1>1, <1>2, <1>5, <1>6, IdleStep

-----------------------------------------------------------------------------
(* Sequences of writes, one behind the other *)

\* Each write of the first copy is followed by that of the second, and no
\* second copy is written but so.
Whole(T) ==
    \A k \in DOMAIN T :
        /\ T[k].on = "fat" =>
             /\ k + 1 \in DOMAIN T /\ T[k + 1].on = "bak"
             /\ T[k + 1].at = T[k].at /\ T[k + 1].value = T[k].value
        /\ T[k].on = "bak" => k # 1 /\ T[k - 1].on = "fat"

\* The writes of T are safe when P come before them and R are all there are.
ReadyIn(f, d, o, c, t, P, R, T) ==
    \A k \in DOMAIN T : Safe(f, d, o, c, t, P \cup Before(T, k), R, T[k])

LEMMA WholeReady ==
    ASSUME NEW f, NEW d, NEW o, NEW c, NEW t, NEW T, Whole(T),
           ReadyIn(f, d, o, c, t, {}, Range(T), T)
    PROVE  Ready(f, d, o, c, t, T)
<1>1. Paired(T)
    BY DEF Whole, Paired
<1>2. \A k \in DOMAIN T : {} \cup Before(T, k) = Before(T, k)
    OBVIOUS
<1> QED BY <1>1, <1>2 DEF Ready, ReadyIn

LEMMA CatShape ==
    ASSUME NEW S, NEW A \in Seq(S), NEW B \in Seq(S)
    PROVE  /\ A \o B \in Seq(S) /\ Len(A \o B) = Len(A) + Len(B)
           /\ \A k \in DOMAIN A : k \in DOMAIN (A \o B) /\ (A \o B)[k] = A[k]
           /\ \A j \in DOMAIN B :
                Len(A) + j \in DOMAIN (A \o B) /\ (A \o B)[Len(A) + j] = B[j]
           /\ \A k \in DOMAIN (A \o B) :
                k \in DOMAIN A \/ \E j \in DOMAIN B : k = Len(A) + j
           /\ DOMAIN A = 1 .. Len(A) /\ DOMAIN B = 1 .. Len(B)
           /\ Len(A) \in Nat /\ Len(B) \in Nat
           /\ Range(A \o B) = Range(A) \cup Range(B)
<1> DEFINE C == A \o B
<1>1. /\ C \in Seq(S) /\ Len(C) = Len(A) + Len(B)
      /\ \A i \in 1 .. Len(A) + Len(B) :
            C[i] = IF i <= Len(A) THEN A[i] ELSE B[i - Len(A)]
    BY ConcatProperties
<1>2. /\ DOMAIN A = 1 .. Len(A) /\ DOMAIN B = 1 .. Len(B) /\ DOMAIN C = 1 .. Len(C)
      /\ Len(A) \in Nat /\ Len(B) \in Nat
    BY <1>1, LenProperties
<1> HIDE DEF C
<1>3. \A k \in DOMAIN A : k \in DOMAIN C /\ C[k] = A[k]
    BY <1>1, <1>2
<1>4. \A j \in DOMAIN B : Len(A) + j \in DOMAIN C /\ C[Len(A) + j] = B[j]
    <2> TAKE j \in DOMAIN B
    <2>1. Len(A) + j \in 1 .. Len(A) + Len(B) /\ ~(Len(A) + j <= Len(A))
          /\ (Len(A) + j) - Len(A) = j
        BY <1>2
    <2> QED BY <1>1, <1>2, <2>1
<1>5. \A k \in DOMAIN C : k \in DOMAIN A \/ \E j \in DOMAIN B : k = Len(A) + j
    <2> TAKE k \in DOMAIN C
    <2>1. CASE k <= Len(A)
        BY <2>1, <1>1, <1>2
    <2>2. CASE ~(k <= Len(A))
        <3>1. k - Len(A) \in DOMAIN B /\ k = Len(A) + (k - Len(A))
            BY <2>2, <1>1, <1>2
        <3> QED BY <3>1
    <2> QED BY <2>1, <2>2
<1>6. Range(C) = Range(A) \cup Range(B)
    BY <1>3, <1>4, <1>5 DEF Range
<1> QED BY <1>1, <1>2, <1>3, <1>4, <1>5, <1>6 DEF C

LEMMA CatBefore ==
    ASSUME NEW S, NEW A \in Seq(S), NEW B \in Seq(S)
    PROVE  /\ \A k \in DOMAIN A : Before(A \o B, k) = Before(A, k)
           /\ \A j \in DOMAIN B : Before(A \o B, Len(A) + j) = Range(A) \cup Before(B, j)
<1> DEFINE C == A \o B
<1>1. /\ \A k \in DOMAIN A : C[k] = A[k]
      /\ \A j \in DOMAIN B : C[Len(A) + j] = B[j]
      /\ DOMAIN A = 1 .. Len(A) /\ DOMAIN B = 1 .. Len(B)
      /\ Len(A) \in Nat /\ Len(B) \in Nat
    BY CatShape
<1> HIDE DEF C
<1>2. ASSUME NEW k \in DOMAIN A PROVE Before(C, k) = Before(A, k)
    <2>1. \A i \in 1 .. k - 1 : i \in DOMAIN A
        BY <1>1
    <2> QED BY <1>1, <2>1 DEF Before
<1>3. ASSUME NEW j \in DOMAIN B
      PROVE  Before(C, Len(A) + j) = Range(A) \cup Before(B, j)
    <2>1. ASSUME NEW i \in 1 .. (Len(A) + j) - 1
          PROVE  C[i] \in Range(A) \cup Before(B, j)
        <3>1. CASE i \in DOMAIN A
            BY <3>1, <1>1 DEF Range
        <3>2. CASE i \notin DOMAIN A
            <4>1. /\ i - Len(A) \in 1 .. j - 1 /\ i - Len(A) \in DOMAIN B
                  /\ i = Len(A) + (i - Len(A))
                BY <3>2, <1>1
            <4>2. C[i] = B[i - Len(A)]
                BY <4>1, <1>1
            <4> QED BY <4>1, <4>2 DEF Before
        <3> QED BY <3>1, <3>2
    <2>2. ASSUME NEW i \in DOMAIN A PROVE A[i] \in Before(C, Len(A) + j)
        <3>1. i \in 1 .. (Len(A) + j) - 1
            BY <1>1
        <3>2. C[i] = A[i]
            BY <1>1
        <3> QED BY <3>1, <3>2 DEF Before
    <2>3. ASSUME NEW i \in 1 .. j - 1 PROVE B[i] \in Before(C, Len(A) + j)
        <3>1. Len(A) + i \in 1 .. (Len(A) + j) - 1 /\ i \in DOMAIN B
            BY <1>1
        <3>2. C[Len(A) + i] = B[i]
            BY <3>1, <1>1
        <3> QED BY <3>1, <3>2 DEF Before
    <2>4. \A w \in Before(C, Len(A) + j) : w \in Range(A) \cup Before(B, j)
        BY <2>1 DEF Before
    <2>5. \A w \in Range(A) \cup Before(B, j) : w \in Before(C, Len(A) + j)
        <3>1. \A w \in Range(A) : w \in Before(C, Len(A) + j)
            BY <2>2 DEF Range
        <3>2. \A w \in Before(B, j) : w \in Before(C, Len(A) + j)
            BY <2>3 DEF Before
        <3> QED BY <3>1, <3>2
    <2> QED BY <2>4, <2>5
<1> QED BY <1>2, <1>3 DEF C

LEMMA WholeCat ==
    ASSUME NEW A \in Seq(DeviceWrites), NEW B \in Seq(DeviceWrites), Whole(A), Whole(B)
    PROVE  Whole(A \o B)
<1> DEFINE C == A \o B
<1>1. /\ \A k \in DOMAIN A : k \in DOMAIN C /\ C[k] = A[k]
      /\ \A j \in DOMAIN B : Len(A) + j \in DOMAIN C /\ C[Len(A) + j] = B[j]
      /\ \A k \in DOMAIN C : k \in DOMAIN A \/ \E j \in DOMAIN B : k = Len(A) + j
      /\ DOMAIN A = 1 .. Len(A) /\ DOMAIN B = 1 .. Len(B)
      /\ Len(A) \in Nat /\ Len(B) \in Nat
    BY CatShape
<1> HIDE DEF C
<1>2. ASSUME NEW k \in DOMAIN A
      PROVE  /\ C[k].on = "fat" =>
                  /\ k + 1 \in DOMAIN C /\ C[k + 1].on = "bak"
                  /\ C[k + 1].at = C[k].at /\ C[k + 1].value = C[k].value
             /\ C[k].on = "bak" => k # 1 /\ C[k - 1].on = "fat"
    <2>1. k # 1 => k - 1 \in DOMAIN A
        BY <1>1
    <2>2. /\ A[k].on = "fat" =>
               /\ k + 1 \in DOMAIN A /\ A[k + 1].on = "bak"
               /\ A[k + 1].at = A[k].at /\ A[k + 1].value = A[k].value
          /\ A[k].on = "bak" => k # 1 /\ A[k - 1].on = "fat"
        BY DEF Whole
    <2>3. C[k] = A[k] /\ (k + 1 \in DOMAIN A => k + 1 \in DOMAIN C /\ C[k + 1] = A[k + 1])
          /\ (k # 1 => C[k - 1] = A[k - 1])
        BY <1>1, <2>1
    <2> QED BY <2>2, <2>3
<1>3. ASSUME NEW j \in DOMAIN B
      PROVE  LET k == Len(A) + j IN
             /\ C[k].on = "fat" =>
                  /\ k + 1 \in DOMAIN C /\ C[k + 1].on = "bak"
                  /\ C[k + 1].at = C[k].at /\ C[k + 1].value = C[k].value
             /\ C[k].on = "bak" => k # 1 /\ C[k - 1].on = "fat"
    <2> DEFINE k == Len(A) + j
    <2>1. C[k] = B[j]
        BY <1>1
    <2>2. /\ k + 1 = Len(A) + (j + 1)
          /\ j # 1 => k # 1 /\ k - 1 = Len(A) + (j - 1) /\ j - 1 \in DOMAIN B
        BY <1>1
    <2>3. j + 1 \in DOMAIN B => k + 1 \in DOMAIN C /\ C[k + 1] = B[j + 1]
        BY <1>1, <2>2
    <2>4. j # 1 => k # 1 /\ C[k - 1] = B[j - 1]
        BY <1>1, <2>2
    <2>6. /\ B[j].on = "fat" =>
               /\ j + 1 \in DOMAIN B /\ B[j + 1].on = "bak"
               /\ B[j + 1].at = B[j].at /\ B[j + 1].value = B[j].value
          /\ B[j].on = "bak" => j # 1 /\ B[j - 1].on = "fat"
        BY DEF Whole
    <2> HIDE DEF k
    <2>5. /\ C[k].on = "fat" =>
               /\ k + 1 \in DOMAIN C /\ C[k + 1].on = "bak"
               /\ C[k + 1].at = C[k].at /\ C[k + 1].value = C[k].value
          /\ C[k].on = "bak" => k # 1 /\ C[k - 1].on = "fat"
        BY <2>1, <2>3, <2>4, <2>6
    <2> QED BY <2>5 DEF k
<1>4. Whole(C)
    BY <1>1, <1>2, <1>3 DEF Whole
<1> QED BY <1>4 DEF C

LEMMA ReadyCat ==
    ASSUME NEW f, NEW d, NEW o, NEW c, NEW t, NEW P, NEW R,
           NEW A \in Seq(DeviceWrites), NEW B \in Seq(DeviceWrites),
           ReadyIn(f, d, o, c, t, P, R, A),
           ReadyIn(f, d, o, c, t, P \cup Range(A), R, B)
    PROVE  ReadyIn(f, d, o, c, t, P, R, A \o B)
<1> DEFINE C == A \o B
<1>1. /\ \A k \in DOMAIN A : C[k] = A[k] /\ Before(C, k) = Before(A, k)
      /\ \A j \in DOMAIN B : /\ C[Len(A) + j] = B[j]
                             /\ Before(C, Len(A) + j) = Range(A) \cup Before(B, j)
      /\ \A k \in DOMAIN C : k \in DOMAIN A \/ \E j \in DOMAIN B : k = Len(A) + j
    BY CatShape, CatBefore
<1> HIDE DEF C
<1>2. \A j \in DOMAIN B :
        P \cup (Range(A) \cup Before(B, j)) = (P \cup Range(A)) \cup Before(B, j)
    OBVIOUS
<1>3. ASSUME NEW k \in DOMAIN C
      PROVE  Safe(f, d, o, c, t, P \cup Before(C, k), R, C[k])
    <2>1. CASE k \in DOMAIN A
        BY <2>1, <1>1 DEF ReadyIn
    <2>2. ASSUME NEW j \in DOMAIN B, k = Len(A) + j
          PROVE  Safe(f, d, o, c, t, P \cup Before(C, k), R, C[k])
        <3>1. /\ C[k] = B[j]
              /\ P \cup Before(C, k) = (P \cup Range(A)) \cup Before(B, j)
            BY <2>2, <1>1, <1>2
        <3> QED BY <3>1 DEF ReadyIn
    <2> QED BY <2>1, <2>2, <1>1
<1> QED BY <1>3 DEF ReadyIn, C

\* The j-th write of the i-th block comes after the b-th of the a-th.
Earlier(a, b, i, j) == a < i \/ (a = i /\ b < j)

\* The k-th write of F, which is seqs flattened, is the j-th of the i-th block.
Sits(seqs, F, k, i, j) ==
    /\ F[k] = seqs[i][j]
    /\ \A p \in Before(F, k) : \E a \in DOMAIN seqs : \E b \in DOMAIN seqs[a] :
         p = seqs[a][b] /\ Earlier(a, b, i, j)
    /\ \A a \in DOMAIN seqs : \A b \in DOMAIN seqs[a] :
         Earlier(a, b, i, j) => seqs[a][b] \in Before(F, k)
    /\ j + 1 \in DOMAIN seqs[i] => k + 1 \in DOMAIN F /\ F[k + 1] = seqs[i][j + 1]
    /\ j - 1 \in DOMAIN seqs[i] => k # 1 /\ F[k - 1] = seqs[i][j - 1]

LEMMA OffsetsRise ==
    ASSUME NEW seqs, NEW m \in Nat, NEW F, NEW st, Offsets(seqs, m, F, st),
           \A i \in 1 .. m : Len(seqs[i]) \in Nat
    PROVE  \A a \in 1 .. m, i \in 1 .. m : a < i => st[a] + Len(seqs[a]) <= st[i]
<1> TAKE a \in 1 .. m
<1> DEFINE bad == {i \in 1 .. m : a < i /\ ~(st[a] + Len(seqs[a]) <= st[i])}
<1>1. /\ \A i \in 1 .. m + 1 : st[i] \in Nat
      /\ \A i \in 1 .. m : st[i + 1] = st[i] + Len(seqs[i]) /\ Len(seqs[i]) \in Nat
    BY DEF Offsets
<1>2. SUFFICES ASSUME bad # {} PROVE FALSE
    OBVIOUS
<1>3. PICK i \in bad : \A j \in bad : i <= j
    <2>1. bad \subseteq Nat
        OBVIOUS
    <2> QED BY <1>2, <2>1, LeastOfNats
<1>4. /\ i \in 1 .. m /\ a < i /\ ~(st[a] + Len(seqs[a]) <= st[i])
      /\ i - 1 \in 1 .. m /\ (i - 1) + 1 = i /\ ~(i <= i - 1) /\ i - 1 \notin bad
    BY <1>3
<1>5. a < i - 1 => st[a] + Len(seqs[a]) <= st[i - 1]
    BY <1>4
<1>6. st[i] = st[i - 1] + Len(seqs[i - 1]) /\ st[i - 1] \in Nat /\ st[i] \in Nat
      /\ Len(seqs[i - 1]) \in Nat /\ st[a] \in Nat /\ Len(seqs[a]) \in Nat
    <2>1. i - 1 \in 1 .. m + 1 /\ i \in 1 .. m + 1 /\ a \in 1 .. m + 1
        BY <1>4
    <2> QED BY <1>1, <1>4, <2>1
<1> HIDE DEF bad
<1>7. CASE a = i - 1
    BY <1>4, <1>6, <1>7
<1>8. CASE a # i - 1
    <2>1. a < i - 1
        BY <1>4, <1>8
    <2> QED BY <1>4, <1>5, <1>6, <2>1
<1> QED BY <1>7, <1>8

LEMMA Sums ==
    ASSUME NEW x \in Nat, NEW j \in Nat
    PROVE  (x + j) + 1 = x + (j + 1) /\ (x + j) - 1 = x + (j - 1) /\ (j > 1 => x + j # 1)
OBVIOUS

\* The b-th place behind x, and the j-th behind y.
LEMMA Places ==
    ASSUME NEW x \in Nat, NEW y \in Nat, NEW b \in Nat, NEW j \in Nat, 1 <= b, 1 <= j
    PROVE  /\ \A l \in Nat : b <= l /\ x + l <= y => x + b \in 1 .. (y + j) - 1
           /\ x = y /\ b < j => x + b \in 1 .. (y + j) - 1
           /\ x + b \in 1 .. (y + j) - 1 =>
                /\ \A l \in Nat : j <= l => ~(y + l <= x)
                /\ x = y => b < j
OBVIOUS

LEMMA OffsetsSit ==
    ASSUME NEW seqs, NEW m \in Nat, NEW F, NEW st, Offsets(seqs, m, F, st),
           DOMAIN seqs = 1 .. m, DOMAIN F = 1 .. Len(F), Len(F) \in Nat,
           \A i \in 1 .. m : Len(seqs[i]) \in Nat /\ DOMAIN seqs[i] = 1 .. Len(seqs[i])
    PROVE  \A k \in DOMAIN F :
               \E i \in DOMAIN seqs : \E j \in DOMAIN seqs[i] : Sits(seqs, F, k, i, j)
<1>3. DOMAIN seqs = 1 .. m /\ DOMAIN F = 1 .. Len(F) /\ Len(F) \in Nat
    OBVIOUS
<1>4. \A i \in 1 .. m : Len(seqs[i]) \in Nat /\ DOMAIN seqs[i] = 1 .. Len(seqs[i])
    OBVIOUS
<1>5. /\ \A i \in 1 .. m : st[i] \in Nat
      /\ \A i \in 1 .. m : \A j \in 1 .. Len(seqs[i]) :
           st[i] + j \in 1 .. Len(F) /\ F[st[i] + j] = seqs[i][j]
      /\ \A k \in 1 .. Len(F) :
           \E i \in 1 .. m : \E j \in 1 .. Len(seqs[i]) : k = st[i] + j
    <2>1. \A i \in 1 .. m : i \in 1 .. m + 1
        BY <1>3
    <2> QED BY <2>1 DEF Offsets
<1>6. \A a \in 1 .. m, i \in 1 .. m : a < i => st[a] + Len(seqs[a]) <= st[i]
    BY OffsetsRise
<1>7. ASSUME NEW i \in 1 .. m, NEW j \in 1 .. Len(seqs[i])
      PROVE  Sits(seqs, F, st[i] + j, i, j)
    <2> DEFINE k == st[i] + j
    <2>0. k \in 1 .. Len(F) /\ F[k] = seqs[i][j]
        BY <1>5
    <2>7. /\ st[i] \in Nat /\ Len(seqs[i]) \in Nat /\ j \in Nat /\ k \in Nat
          /\ 1 <= j /\ j <= Len(seqs[i]) /\ k = st[i] + j
        BY <1>3, <1>4, <1>5
    <2>1. ASSUME NEW h \in 1 .. k - 1
          PROVE  \E a \in DOMAIN seqs : \E b \in DOMAIN seqs[a] :
                     F[h] = seqs[a][b] /\ Earlier(a, b, i, j)
        <3>1. h \in 1 .. Len(F)
            <4> HIDE DEF k
            <4> QED BY <1>3, <2>0, <2>7
        <3>2. PICK a \in 1 .. m : \E b \in 1 .. Len(seqs[a]) : h = st[a] + b
            BY <3>1, <1>5
        <3>3. PICK b \in 1 .. Len(seqs[a]) : h = st[a] + b
            BY <3>2
        <3>4. a \in DOMAIN seqs /\ b \in DOMAIN seqs[a] /\ F[h] = seqs[a][b]
            BY <3>3, <1>3, <1>4, <1>5
        <3>5. Earlier(a, b, i, j)
            <4>1. /\ st[a] \in Nat /\ b \in Nat /\ a \in Nat /\ i \in Nat /\ 1 <= b
                BY <1>3, <1>4, <1>5
            <4>2. i < a => st[i] + Len(seqs[i]) <= st[a]
                BY <1>6
            <4>3. st[a] + b \in 1 .. (st[i] + j) - 1
                BY <3>3
            <4>4. ~(st[i] + Len(seqs[i]) <= st[a])
                BY <4>1, <4>3, <2>7, Places
            <4>5. a = i => b < j
                BY <4>1, <4>3, <2>7, Places
            <4> QED BY <4>1, <4>2, <4>4, <4>5 DEF Earlier
        <3> QED BY <3>4, <3>5
    <2>2. ASSUME NEW a \in DOMAIN seqs, NEW b \in DOMAIN seqs[a], Earlier(a, b, i, j)
          PROVE  seqs[a][b] \in Before(F, k)
        <3>1. /\ a \in 1 .. m /\ b \in Nat /\ 1 <= b /\ b <= Len(seqs[a]) /\ st[a] \in Nat
              /\ Len(seqs[a]) \in Nat /\ F[st[a] + b] = seqs[a][b]
            BY <1>3, <1>4, <1>5
        <3>2. a < i => st[a] + Len(seqs[a]) <= st[i]
            BY <3>1, <1>6
        <3>3. st[a] + b \in 1 .. k - 1
            <4>1. CASE a < i
                BY <3>1, <3>2, <2>7, <4>1, Places
            <4>2. CASE a = i /\ b < j
                BY <3>1, <2>7, <4>2, Places
            <4> QED BY <4>1, <4>2, <2>2 DEF Earlier
        <3> QED BY <3>1, <3>3 DEF Before
    <2>3. j + 1 \in DOMAIN seqs[i] => k + 1 \in DOMAIN F /\ F[k + 1] = seqs[i][j + 1]
        <3> SUFFICES ASSUME j + 1 \in 1 .. Len(seqs[i])
                     PROVE  k + 1 \in 1 .. Len(F) /\ F[k + 1] = seqs[i][j + 1]
            BY <1>3, <1>4
        <3>1. k + 1 = st[i] + (j + 1)
            BY <2>7, Sums
        <3>2. st[i] + (j + 1) \in 1 .. Len(F) /\ F[st[i] + (j + 1)] = seqs[i][j + 1]
            BY <1>5
        <3> HIDE DEF k
        <3> QED BY <3>1, <3>2
    <2>4. j - 1 \in DOMAIN seqs[i] => k # 1 /\ F[k - 1] = seqs[i][j - 1]
        <3> SUFFICES ASSUME j - 1 \in 1 .. Len(seqs[i])
                     PROVE  k # 1 /\ F[k - 1] = seqs[i][j - 1]
            BY <1>4
        <3>1. j > 1
            BY <2>7
        <3>2. k - 1 = st[i] + (j - 1) /\ k # 1
            BY <2>7, <3>1, Sums
        <3> HIDE DEF k
        <3> QED BY <3>2, <1>5
    <2> HIDE DEF k
    <2>5. \A p \in Before(F, k) : \E a \in DOMAIN seqs : \E b \in DOMAIN seqs[a] :
            p = seqs[a][b] /\ Earlier(a, b, i, j)
        BY <2>1 DEF Before
    <2> QED BY <2>0, <2>2, <2>3, <2>4, <2>5 DEF Sits, k
<1>8. \A k \in DOMAIN F : \E i \in DOMAIN seqs : \E j \in DOMAIN seqs[i] : Sits(seqs, F, k, i, j)
    <2> TAKE k \in DOMAIN F
    <2>1. PICK i \in 1 .. m : \E j \in 1 .. Len(seqs[i]) : k = st[i] + j
        BY <1>3, <1>5
    <2>2. PICK j \in 1 .. Len(seqs[i]) : k = st[i] + j
        BY <2>1
    <2>3. Sits(seqs, F, k, i, j)
        BY <2>2, <1>7
    <2> QED BY <2>3, <1>3, <1>4
<1> QED BY <1>8

LEMMA Blocks ==
    ASSUME NEW S, NEW seqs \in Seq(Seq(S)), seqs # <<>>
    PROVE  /\ FlattenSeq(seqs) \in Seq(S)
           /\ \A k \in DOMAIN FlattenSeq(seqs) :
                \E i \in DOMAIN seqs : \E j \in DOMAIN seqs[i] :
                    Sits(seqs, FlattenSeq(seqs), k, i, j)
           /\ \A i \in DOMAIN seqs : \A j \in DOMAIN seqs[i] :
                seqs[i][j] \in Range(FlattenSeq(seqs))
<1> DEFINE F == FlattenSeq(seqs)
           m == Len(seqs)
<1>1. F \in Seq(S) /\ \E st : Offsets(seqs, m, F, st)
    BY Flattened
<1>2. PICK st : Offsets(seqs, m, F, st)
    BY <1>1
<1>3. /\ m \in Nat /\ DOMAIN seqs = 1 .. m /\ DOMAIN F = 1 .. Len(F) /\ Len(F) \in Nat
      /\ \A i \in 1 .. m : seqs[i] \in Seq(S)
    BY <1>1
<1>4. \A i \in 1 .. m : Len(seqs[i]) \in Nat /\ DOMAIN seqs[i] = 1 .. Len(seqs[i])
    BY <1>3
<1> HIDE DEF F, m
<1>5. \A k \in DOMAIN F : \E i \in DOMAIN seqs : \E j \in DOMAIN seqs[i] : Sits(seqs, F, k, i, j)
    BY <1>2, <1>3, <1>4, OffsetsSit
<1>6. \A i \in DOMAIN seqs : \A j \in DOMAIN seqs[i] : seqs[i][j] \in Range(F)
    BY <1>2, <1>3, <1>4 DEF Offsets, Range
<1> QED BY <1>1, <1>5, <1>6 DEF F

LEMMA WholeFlat ==
    ASSUME NEW seqs \in Seq(Seq(DeviceWrites)), seqs # <<>>, \A i \in DOMAIN seqs : Whole(seqs[i])
    PROVE  Whole(FlattenSeq(seqs))
<1> DEFINE F == FlattenSeq(seqs)
<1>1. \A k \in DOMAIN F : \E i \in DOMAIN seqs : \E j \in DOMAIN seqs[i] : Sits(seqs, F, k, i, j)
    BY Blocks
<1> HIDE DEF F
<1>2. ASSUME NEW k \in DOMAIN F
      PROVE  /\ F[k].on = "fat" =>
                  /\ k + 1 \in DOMAIN F /\ F[k + 1].on = "bak"
                  /\ F[k + 1].at = F[k].at /\ F[k + 1].value = F[k].value
             /\ F[k].on = "bak" => k # 1 /\ F[k - 1].on = "fat"
    <2>1. PICK i \in DOMAIN seqs : \E j \in DOMAIN seqs[i] : Sits(seqs, F, k, i, j)
        BY <1>1
    <2>2. PICK j \in DOMAIN seqs[i] : Sits(seqs, F, k, i, j)
        BY <2>1
    <2>3. /\ seqs[i][j].on = "fat" =>
               /\ j + 1 \in DOMAIN seqs[i] /\ seqs[i][j + 1].on = "bak"
               /\ seqs[i][j + 1].at = seqs[i][j].at
               /\ seqs[i][j + 1].value = seqs[i][j].value
          /\ seqs[i][j].on = "bak" => j - 1 \in DOMAIN seqs[i] /\ seqs[i][j - 1].on = "fat"
        <3>1. Whole(seqs[i]) /\ seqs[i] \in Seq(DeviceWrites)
            OBVIOUS
        <3>2. j # 1 => j - 1 \in DOMAIN seqs[i]
            BY <3>1
        <3> QED BY <3>1, <3>2 DEF Whole
    <2> QED BY <2>2, <2>3 DEF Sits
<1> QED BY <1>2 DEF Whole, F

-----------------------------------------------------------------------------
(* The writes of one cluster *)

LEMMA PlainWrites ==
    ASSUME NEW w, w.on \in {"bak", "zero", "nowhere"}
    PROVE  /\ ~Marks(w) /\ ~Frees(w) /\ ~Links(w) /\ ~Enters(w) /\ ~Clears(w)
           /\ w.on # "fat" /\ w.on # "dir"
           /\ \A f, d, o, c, t, B, R : Safe(f, d, o, c, t, B, R, w)
<1>1. ~Marks(w) /\ ~Frees(w) /\ ~Links(w) /\ ~Enters(w) /\ ~Clears(w)
    BY DEF Marks, Frees, Links, Enters, Clears
<1> QED BY <1>1 DEF Safe

LEMMA SetNextShape ==
    ASSUME NEW c, NEW v \in Values, NEW fail \in {"stop", "ignore"}
    PROVE  LET S == SetNext(c, v, fail) IN
           /\ S \in Seq(DeviceWrites) /\ Whole(S)
           /\ c \notin Clusters => DOMAIN S = {}
           /\ c \in Clusters =>
                /\ DOMAIN S = {1, 2} /\ Len(S) = 2
                /\ S[1].on = "fat" /\ S[1].at = c /\ S[1].value = v
                /\ Firm(S[1]) <=> fail = "stop"
                /\ S[2].on = "bak"
<1> DEFINE S == SetNext(c, v, fail)
<1>1. CASE c \notin Clusters
    <2>1. S = <<>>
        BY <1>1 DEF SetNext
    <2>2. DOMAIN S = {} /\ S \in Seq(DeviceWrites)
        BY <2>1
    <2> HIDE DEF S
    <2>3. Whole(S)
        BY <2>2 DEF Whole
    <2> QED BY <1>1, <2>2, <2>3 DEF S
<1>2. CASE c \in Clusters
    <2> DEFINE a == DeviceWrite("fat", c, v, IF fail = "stop" THEN "finish" ELSE "ignore")
               b == DeviceWrite("bak", c, v, fail)
    <2>1. S = <<a, b>>
        BY <1>2 DEF SetNext
    <2>2. a \in DeviceWrites /\ b \in DeviceWrites
        BY <1>2 DEF DeviceWrite, DeviceWrites
    <2>3. /\ a.on = "fat" /\ a.at = c /\ a.value = v
          /\ (Firm(a) <=> fail = "stop")
          /\ b.on = "bak" /\ b.at = c /\ b.value = v
        BY DEF DeviceWrite, Firm
    <2> HIDE DEF a, b, S
    <2>4. S \in Seq(DeviceWrites) /\ DOMAIN S = {1, 2} /\ Len(S) = 2 /\ S[1] = a /\ S[2] = b
        BY <2>1, <2>2
    <2>5. Whole(S)
        BY <2>3, <2>4 DEF Whole
    <2> QED BY <1>2, <2>3, <2>4, <2>5 DEF S
<1> QED BY <1>1, <1>2

LEMMA AllocShape ==
    ASSUME NEW c \in Clusters
    PROVE  /\ Alloc(c) \in Seq(DeviceWrites) /\ Whole(Alloc(c))
           /\ DOMAIN Alloc(c) = {1, 2, 3} /\ Len(Alloc(c)) = 3
           /\ Marks(Alloc(c)[1]) /\ Firm(Alloc(c)[1]) /\ Alloc(c)[1].at = c
           /\ Alloc(c)[1].on = "fat"
           /\ Alloc(c)[2].on = "bak" /\ Alloc(c)[3].on = "zero"
<1> DEFINE x == DeviceWrite("fat", c, ENDOFCHAIN, "stop")
           y == DeviceWrite("bak", c, ENDOFCHAIN, "stop")
           z == DeviceWrite("zero", c, Free, "stop")
           S == Alloc(c)
<1>1. S = <<x, y, z>>
    BY DEF Alloc
<1>2. x \in DeviceWrites /\ y \in DeviceWrites /\ z \in DeviceWrites
    <2>1. ENDOFCHAIN \in Values
        BY DEF Values
    <2> QED BY <2>1 DEF DeviceWrite, DeviceWrites
<1>3. /\ x.on = "fat" /\ x.at = c /\ x.value = ENDOFCHAIN /\ x.onFail = "stop"
      /\ y.on = "bak" /\ y.at = c /\ y.value = ENDOFCHAIN /\ z.on = "zero"
    BY DEF DeviceWrite
<1> HIDE DEF x, y, z, S
<1>4. /\ S \in Seq(DeviceWrites) /\ DOMAIN S = {1, 2, 3} /\ Len(S) = 3
      /\ S[1] = x /\ S[2] = y /\ S[3] = z
    BY <1>1, <1>2
<1>5. Whole(S)
    BY <1>3, <1>4 DEF Whole
<1>6. Marks(S[1]) /\ Firm(S[1])
    BY <1>3, <1>4 DEF Marks, Firm
<1> QED BY <1>3, <1>4, <1>5, <1>6 DEF S

LEMMA FullShape ==
    /\ Full \in Seq(DeviceWrites) /\ Whole(Full) /\ DOMAIN Full = {1} /\ Len(Full) = 1
    /\ Full[1].on = "nowhere"
<1> DEFINE x == DeviceWrite("nowhere", 0, Free, "stop")
           S == Full
<1>1. S = <<x>>
    BY DEF Full
<1>2. x \in DeviceWrites /\ x.on = "nowhere"
    BY DEF DeviceWrite, DeviceWrites
<1> HIDE DEF x, S
<1>3. S \in Seq(DeviceWrites) /\ DOMAIN S = {1} /\ Len(S) = 1 /\ S[1] = x
    BY <1>1, <1>2
<1>4. Whole(S)
    BY <1>2, <1>3 DEF Whole
<1> QED BY <1>2, <1>3, <1>4 DEF S

-----------------------------------------------------------------------------
(* resetFAT32ClusterChain *)

\* The clusters of s are freed one after the other.
LEMMA FreesShape ==
    ASSUME NEW s \in Seq(Clusters), s # <<>>
    PROVE  LET A == FlattenSeq([i \in 1 .. Len(s) |-> SetNext(s[i], Free, "stop")]) IN
           /\ A \in Seq(DeviceWrites) /\ Whole(A)
           /\ \A k \in DOMAIN A :
                \/ A[k].on = "bak"
                \/ \E i \in DOMAIN s :
                     /\ Frees(A[k]) /\ Firm(A[k]) /\ A[k].at = s[i]
                     /\ \A h \in 1 .. i - 1 :
                          \E p \in Before(A, k) : Frees(p) /\ Firm(p) /\ p.at = s[h]
           /\ \A i \in DOMAIN s :
                \E p \in Range(A) : Frees(p) /\ Firm(p) /\ p.at = s[i]
<1> DEFINE m == Len(s)
           seqs == [i \in 1 .. m |-> SetNext(s[i], Free, "stop")]
           A == FlattenSeq(seqs)
<1>1. m \in Nat \ {0} /\ DOMAIN s = 1 .. m /\ \A i \in 1 .. m : s[i] \in Clusters
    BY EmptySeq, ElementOfSeq, LenProperties
<1>2. Free \in Values
    BY DEF Values
<1>3. ASSUME NEW i \in 1 .. m
      PROVE  /\ seqs[i] \in Seq(DeviceWrites) /\ Whole(seqs[i]) /\ DOMAIN seqs[i] = {1, 2}
             /\ Frees(seqs[i][1]) /\ Firm(seqs[i][1]) /\ seqs[i][1].at = s[i]
             /\ seqs[i][2].on = "bak"
    <2> DEFINE S == SetNext(s[i], Free, "stop")
    <2>1. /\ S \in Seq(DeviceWrites) /\ Whole(S) /\ DOMAIN S = {1, 2}
          /\ S[1].on = "fat" /\ S[1].at = s[i] /\ S[1].value = Free /\ Firm(S[1])
          /\ S[2].on = "bak"
        BY <1>1, <1>2, SetNextShape
    <2>2. seqs[i] = S
        OBVIOUS
    <2> HIDE DEF S, seqs, m
    <2> QED BY <2>1, <2>2 DEF Frees
<1>4. seqs \in Seq(Seq(DeviceWrites)) /\ DOMAIN seqs = 1 .. m /\ seqs # <<>>
    <2> HIDE DEF m
    <2>1. seqs \in [1 .. m -> Seq(DeviceWrites)] /\ 1 \in DOMAIN seqs
        BY <1>1, <1>3
    <2>2. DOMAIN <<>> = {}
        OBVIOUS
    <2>3. DOMAIN seqs = 1 .. m
        BY DEF m
    <2> HIDE DEF seqs
    <2>4. seqs # <<>>
        BY <2>1, <2>2
    <2>5. seqs \in Seq(Seq(DeviceWrites))
        BY <1>1, <2>1
    <2> QED BY <2>3, <2>4, <2>5
<1> HIDE DEF seqs, m
<1>5. A \in Seq(DeviceWrites)
      /\ \A k \in DOMAIN A : \E i \in DOMAIN seqs : \E j \in DOMAIN seqs[i] :
             Sits(seqs, A, k, i, j)
    BY <1>4, Blocks
<1>9. \A i \in DOMAIN seqs : \A j \in DOMAIN seqs[i] : seqs[i][j] \in Range(A)
    BY <1>4, Blocks
<1>6. Whole(A)
    BY <1>3, <1>4, WholeFlat
<1> HIDE DEF A
<1>7. ASSUME NEW k \in DOMAIN A, A[k].on # "bak"
      PROVE  \E i \in DOMAIN s :
                 /\ Frees(A[k]) /\ Firm(A[k]) /\ A[k].at = s[i]
                 /\ \A h \in 1 .. i - 1 :
                      \E p \in Before(A, k) : Frees(p) /\ Firm(p) /\ p.at = s[h]
    <2>1. PICK i \in DOMAIN seqs : \E j \in DOMAIN seqs[i] : Sits(seqs, A, k, i, j)
        BY <1>5
    <2>2. PICK j \in DOMAIN seqs[i] : Sits(seqs, A, k, i, j)
        BY <2>1
    <2>3. j = 1 /\ A[k] = seqs[i][1] /\ i \in 1 .. m
        BY <2>2, <1>3, <1>4, <1>7 DEF Sits
    <2>4. ASSUME NEW h \in 1 .. i - 1
          PROVE  \E p \in Before(A, k) : Frees(p) /\ Firm(p) /\ p.at = s[h]
        <3>1. h \in 1 .. m /\ h < i
            BY <2>3, <1>1
        <3>2. h \in DOMAIN seqs /\ 1 \in DOMAIN seqs[h] /\ Earlier(h, 1, i, j)
            BY <3>1, <1>3, <1>4 DEF Earlier
        <3>3. seqs[h][1] \in Before(A, k)
            BY <2>2, <3>2 DEF Sits
        <3> QED BY <3>1, <3>3, <1>3
    <2> QED BY <2>3, <2>4, <1>1, <1>3
<1>8. \A i \in DOMAIN s : \E p \in Range(A) : Frees(p) /\ Firm(p) /\ p.at = s[i]
    <2> TAKE i \in DOMAIN s
    <2>0. i \in 1 .. m /\ i \in DOMAIN seqs /\ 1 \in DOMAIN seqs[i]
        BY <1>1, <1>3, <1>4
    <2>1. seqs[i][1] \in Range(A)
        BY <2>0, <1>9, Zenon
    <2> QED BY <2>1, <1>1, <1>3
<1> QED BY <1>5, <1>6, <1>7, <1>8 DEF A, seqs, m

LEMMA BeforeInRange ==
    ASSUME NEW S, NEW T \in Seq(S), NEW k \in DOMAIN T
    PROVE  Before(T, k) \subseteq Range(T)
<1>1. \A j \in 1 .. k - 1 : j \in DOMAIN T
    OBVIOUS
<1> QED BY <1>1 DEF Before, Range

LEMMA ResetShape ==
    ASSUME NEW s \in Seq(Clusters), s # <<>>
    PROVE  LET T == Reset(s) IN
           /\ T \in Seq(DeviceWrites) /\ Whole(T)
           /\ \A k \in DOMAIN T :
                \/ T[k].on = "bak"
                \/ \E i \in DOMAIN s :
                     /\ Frees(T[k]) /\ Firm(T[k]) /\ T[k].at = s[i]
                     /\ \A h \in 1 .. i - 1 :
                          \E p \in Before(T, k) : Frees(p) /\ Firm(p) /\ p.at = s[h]
                \/ /\ Marks(T[k]) /\ Firm(T[k]) /\ T[k].at = s[1]
                   /\ \E p \in Before(T, k) : Frees(p) /\ Firm(p) /\ p.at = s[1]
           /\ Len(T) - 1 \in DOMAIN T /\ Marks(T[Len(T) - 1]) /\ Firm(T[Len(T) - 1])
           /\ T[Len(T) - 1].at = s[1] /\ T[Len(T)].on = "bak"
<1> DEFINE A == FlattenSeq([i \in 1 .. Len(s) |-> SetNext(s[i], Free, "stop")])
           B == SetNext(s[1], ENDOFCHAIN, "stop")
           T == A \o B
<1>1. /\ A \in Seq(DeviceWrites) /\ Whole(A)
      /\ \A k \in DOMAIN A :
           \/ A[k].on = "bak"
           \/ \E i \in DOMAIN s :
                /\ Frees(A[k]) /\ Firm(A[k]) /\ A[k].at = s[i]
                /\ \A h \in 1 .. i - 1 :
                     \E p \in Before(A, k) : Frees(p) /\ Firm(p) /\ p.at = s[h]
      /\ \A i \in DOMAIN s :
           \E p \in Range(A) : Frees(p) /\ Firm(p) /\ p.at = s[i]
    BY FreesShape
<1>2. 1 \in DOMAIN s /\ s[1] \in Clusters
    BY EmptySeq, ElementOfSeq
<1>3. /\ B \in Seq(DeviceWrites) /\ Whole(B) /\ DOMAIN B = {1, 2} /\ Len(B) = 2
      /\ Marks(B[1]) /\ Firm(B[1]) /\ B[1].at = s[1] /\ B[2].on = "bak"
    <2>1. ENDOFCHAIN \in Values
        BY DEF Values
    <2>2. /\ B \in Seq(DeviceWrites) /\ Whole(B) /\ DOMAIN B = {1, 2} /\ Len(B) = 2
          /\ B[1].on = "fat" /\ B[1].at = s[1] /\ B[1].value = ENDOFCHAIN
          /\ Firm(B[1]) /\ B[2].on = "bak"
        BY <1>2, <2>1, SetNextShape
    <2> HIDE DEF B
    <2> QED BY <2>2 DEF Marks
<1>4. Reset(s) = T
    BY DEF Reset
<1> HIDE DEF A, B
<1>5. /\ T \in Seq(DeviceWrites) /\ Len(T) = Len(A) + 2 /\ Len(A) \in Nat
      /\ \A k \in DOMAIN A : T[k] = A[k] /\ Before(T, k) = Before(A, k)
      /\ \A j \in DOMAIN B : /\ Len(A) + j \in DOMAIN T /\ T[Len(A) + j] = B[j]
                             /\ Before(T, Len(A) + j) = Range(A) \cup Before(B, j)
      /\ \A k \in DOMAIN T : k \in DOMAIN A \/ \E j \in DOMAIN B : k = Len(A) + j
    <2>0. A \in Seq(DeviceWrites) /\ B \in Seq(DeviceWrites)
        BY <1>1, <1>3
    <2>1. /\ T \in Seq(DeviceWrites) /\ Len(T) = Len(A) + Len(B) /\ Len(A) \in Nat
          /\ \A k \in DOMAIN A : T[k] = A[k]
          /\ \A j \in DOMAIN B : Len(A) + j \in DOMAIN T /\ T[Len(A) + j] = B[j]
          /\ \A k \in DOMAIN T : k \in DOMAIN A \/ \E j \in DOMAIN B : k = Len(A) + j
        BY <2>0, CatShape
    <2>2. /\ \A k \in DOMAIN A : Before(T, k) = Before(A, k)
          /\ \A j \in DOMAIN B : Before(T, Len(A) + j) = Range(A) \cup Before(B, j)
        BY <2>0, CatBefore
    <2> HIDE DEF T
    <2> QED BY <2>1, <2>2, <1>3
<1>6. Whole(T)
    BY <1>1, <1>3, WholeCat
<1>7. /\ Len(T) - 1 = Len(A) + 1 /\ Len(T) - 1 \in DOMAIN T /\ T[Len(T) - 1] = B[1]
      /\ Len(T) = Len(A) + 2 /\ T[Len(T)] = B[2]
    BY <1>3, <1>5
<1> HIDE DEF T
<1>8. ASSUME NEW k \in DOMAIN T
      PROVE  \/ T[k].on = "bak"
             \/ \E i \in DOMAIN s :
                  /\ Frees(T[k]) /\ Firm(T[k]) /\ T[k].at = s[i]
                  /\ \A h \in 1 .. i - 1 :
                       \E p \in Before(T, k) : Frees(p) /\ Firm(p) /\ p.at = s[h]
             \/ /\ Marks(T[k]) /\ Firm(T[k]) /\ T[k].at = s[1]
                /\ \E p \in Before(T, k) : Frees(p) /\ Firm(p) /\ p.at = s[1]
    <2>1. CASE k \in DOMAIN A
        <3>1. T[k] = A[k] /\ Before(T, k) = Before(A, k)
            BY <2>1, <1>5
        <3> QED BY <2>1, <3>1, <1>1
    <2>2. CASE k = Len(A) + 1
        <3>1. T[k] = B[1] /\ Range(A) \subseteq Before(T, k)
            BY <2>2, <1>3, <1>5
        <3> QED BY <3>1, <1>1, <1>2, <1>3
    <2>3. CASE k = Len(A) + 2
        BY <2>3, <1>3, <1>5
    <2> QED BY <2>1, <2>2, <2>3, <1>3, <1>5
<1> QED BY <1>3, <1>4, <1>5, <1>6, <1>7, <1>8

\* No write of it links, and none is of an entry.
LEMMA ResetWrites ==
    ASSUME NEW s \in Seq(Clusters), s # <<>>
    PROVE  \A w \in Range(Reset(s)) :
               /\ ~Links(w) /\ ~Enters(w) /\ ~Clears(w) /\ w.on # "nowhere"
               /\ Marks(w) \/ Frees(w) => w.at \in Range(s)
<1> DEFINE T == Reset(s)
<1>1. \A k \in DOMAIN T :
        \/ T[k].on = "bak"
        \/ Frees(T[k]) /\ \E i \in DOMAIN s : T[k].at = s[i]
        \/ Marks(T[k]) /\ T[k].at = s[1]
    <2>1. \A k \in DOMAIN T :
            \/ T[k].on = "bak"
            \/ \E i \in DOMAIN s :
                 /\ Frees(T[k]) /\ Firm(T[k]) /\ T[k].at = s[i]
                 /\ \A h \in 1 .. i - 1 :
                      \E p \in Before(T, k) : Frees(p) /\ Firm(p) /\ p.at = s[h]
            \/ /\ Marks(T[k]) /\ Firm(T[k]) /\ T[k].at = s[1]
               /\ \E p \in Before(T, k) : Frees(p) /\ Firm(p) /\ p.at = s[1]
        BY ResetShape
    <2> HIDE DEF T
    <2> QED BY <2>1
<1>2. 1 \in DOMAIN s
    BY EmptySeq
<1> HIDE DEF T
<1>3. \A w \in Range(T) : w.on = "bak" \/ ((Frees(w) \/ Marks(w)) /\ w.at \in Range(s))
    BY <1>1, <1>2 DEF Range
<1> QED BY <1>3, Kinds, PlainWrites DEF T

LEMMA ResetReady ==
    ASSUME NEW f, NEW d, NEW o, NEW c, NEW t, NEW P, NEW R,
           NEW s \in Seq(Clusters), s # <<>>, Linked(f),
           s[1] # Root, \A x \in Clusters : f[x] # s[1],
           \A i \in 1 .. Len(s) - 1 : s[i + 1] = f[s[i]],
           \A u \in DOMAIN d : d[u].cluster = s[1] /\ d[u].name \notin Doubted(d, c, t) =>
               \E p \in P : Clears(p) /\ p.at = u,
           \A u \in DOMAIN d : \A x \in Clusters :
               f[x] = d[u].cluster => d[u].name \in Doubted(d, c, t),
           \A p \in P : Links(p) => p.at # s[1],
           \A p \in R :
               /\ Links(p) => p.value \notin Range(s)
               /\ Enters(p) /\ p.value.cluster \in Range(s) => p.value.name \in t
    PROVE  ReadyIn(f, d, o, c, t, P, R, Reset(s))
<1> DEFINE T == Reset(s)
           X == Doubted(d, c, t)
<1>1. T \in Seq(DeviceWrites) /\ \A k \in DOMAIN T :
        \/ T[k].on = "bak"
        \/ \E i \in DOMAIN s :
             /\ Frees(T[k]) /\ Firm(T[k]) /\ T[k].at = s[i]
             /\ \A h \in 1 .. i - 1 :
                  \E p \in Before(T, k) : Frees(p) /\ Firm(p) /\ p.at = s[h]
        \/ /\ Marks(T[k]) /\ Firm(T[k]) /\ T[k].at = s[1]
           /\ \E p \in Before(T, k) : Frees(p) /\ Firm(p) /\ p.at = s[1]
    BY ResetShape
<1>2. /\ DOMAIN s = 1 .. Len(s) /\ Len(s) \in Nat /\ 1 \in DOMAIN s
      /\ \A i \in DOMAIN s : s[i] \in Clusters
    BY EmptySeq, ElementOfSeq, LenProperties
<1>3. \A k \in DOMAIN T : \A p \in Before(T, k) : ~Links(p)
    BY <1>1, ResetWrites, BeforeInRange
<1> HIDE DEF T, X
<1>4. ASSUME NEW k \in DOMAIN T, NEW i \in DOMAIN s, Frees(T[k]), T[k].at = s[i],
             \A h \in 1 .. i - 1 :
                 \E p \in Before(T, k) : Frees(p) /\ Firm(p) /\ p.at = s[h]
      PROVE  CanFree(f, d, X, t, P \cup Before(T, k), R, T[k])
    <2> DEFINE B == P \cup Before(T, k)
    <2>1. CASE i = 1
        <3>1. \A u \in DOMAIN d : d[u].cluster = s[1] /\ d[u].name \notin X =>
                \E p \in B : Clears(p) /\ p.at = u
            BY DEF X
        <3> HIDE DEF B
        <3>2. s[i] \in Range(s)
            BY DEF Range
        <3> QED BY <2>1, <3>1, <3>2, <1>4 DEF CanFree, B
    <2>2. CASE i # 1
        <3>1. i - 1 \in 1 .. Len(s) - 1 /\ (i - 1) + 1 = i /\ i - 1 \in 1 .. i - 1
              /\ i - 1 \in DOMAIN s
            BY <2>2, <1>2
        <3> DEFINE y == s[i - 1]
        <3>2. f[y] = s[i] /\ y \in Clusters /\ s[i] \in Clusters
            BY <3>1, <1>2
        <3>3. s[i] # Root /\ \A x \in Clusters : f[x] = s[i] => x = y
            BY <3>2 DEF Linked
        <3>4. \E p \in Before(T, k) : Frees(p) /\ Firm(p) /\ p.at = y
            BY <3>1, <1>4
        <3>5. \A u \in DOMAIN d : d[u].cluster = s[i] => d[u].name \in X
            BY <3>2 DEF X
        <3>6. s[i] \in Range(s)
            BY DEF Range
        <3> HIDE DEF y
        <3> QED BY <1>4, <3>3, <3>4, <3>5, <3>6 DEF CanFree
    <2> QED BY <2>1, <2>2
<1>5. ASSUME NEW k \in DOMAIN T, Marks(T[k]), T[k].at = s[1],
             \E p \in Before(T, k) : Frees(p) /\ Firm(p) /\ p.at = s[1]
      PROVE  CanMark(f, P \cup Before(T, k), T[k])
    BY <1>3, <1>5 DEF CanMark
<1>6. ASSUME NEW k \in DOMAIN T
      PROVE  Safe(f, d, o, c, t, P \cup Before(T, k), R, T[k])
    <2>1. CASE T[k].on = "bak"
        BY <2>1, PlainWrites
    <2>2. ASSUME NEW i \in DOMAIN s, Frees(T[k]), T[k].at = s[i],
                 \A h \in 1 .. i - 1 :
                     \E p \in Before(T, k) : Frees(p) /\ Firm(p) /\ p.at = s[h]
          PROVE  Safe(f, d, o, c, t, P \cup Before(T, k), R, T[k])
        <3>1. CanFree(f, d, X, t, P \cup Before(T, k), R, T[k])
            BY <2>2, <1>4
        <3> QED BY <2>2, <3>1, Kinds DEF Safe, X
    <2>3. ASSUME Marks(T[k]), T[k].at = s[1],
                 \E p \in Before(T, k) : Frees(p) /\ Firm(p) /\ p.at = s[1]
          PROVE  Safe(f, d, o, c, t, P \cup Before(T, k), R, T[k])
        <3>1. CanMark(f, P \cup Before(T, k), T[k])
            BY <2>3, <1>5
        <3> QED BY <2>3, <3>1, Kinds DEF Safe
    <2> QED BY <2>1, <2>2, <2>3, <1>1
<1> QED BY <1>6 DEF ReadyIn, T

-----------------------------------------------------------------------------
(* extendFAT32File *)

Plain(w) == w.on \in {"bak", "zero", "nowhere"}

LEMMA BlockShape ==
    ASSUME NEW c \in Clusters, NEW p
    PROVE  LET S == Alloc(c) \o SetNext(p, c, "ignore") IN
           /\ S \in Seq(DeviceWrites) /\ Whole(S)
           /\ 1 \in DOMAIN S /\ Marks(S[1]) /\ Firm(S[1]) /\ S[1].at = c
           /\ \A j \in DOMAIN S :
                \/ j = 1
                \/ Plain(S[j])
                \/ j = 4 /\ p \in Clusters /\ Links(S[j]) /\ S[j].at = p /\ S[j].value = c
<1> DEFINE A == Alloc(c)
           B == SetNext(p, c, "ignore")
           S == A \o B
<1>1. /\ A \in Seq(DeviceWrites) /\ Whole(A) /\ DOMAIN A = {1, 2, 3} /\ Len(A) = 3
      /\ Marks(A[1]) /\ Firm(A[1]) /\ A[1].at = c
      /\ A[2].on = "bak" /\ A[3].on = "zero"
    BY AllocShape
<1>2. c \in Values
    BY DEF Values
<1>3. /\ B \in Seq(DeviceWrites) /\ Whole(B) /\ (p \notin Clusters => DOMAIN B = {})
      /\ p \in Clusters =>
           /\ DOMAIN B = {1, 2}
           /\ B[1].on = "fat" /\ B[1].at = p /\ B[1].value = c /\ B[2].on = "bak"
    BY <1>2, SetNextShape
<1> HIDE DEF A, B
<1>4. /\ S \in Seq(DeviceWrites)
      /\ \A k \in DOMAIN A : k \in DOMAIN S /\ S[k] = A[k]
      /\ \A j \in DOMAIN B : S[3 + j] = B[j]
      /\ \A k \in DOMAIN S : k \in DOMAIN A \/ \E j \in DOMAIN B : k = 3 + j
    <2>1. A \in Seq(DeviceWrites) /\ B \in Seq(DeviceWrites)
        BY <1>1, <1>3
    <2>2. /\ S \in Seq(DeviceWrites)
          /\ \A k \in DOMAIN A : k \in DOMAIN S /\ S[k] = A[k]
          /\ \A j \in DOMAIN B : S[Len(A) + j] = B[j]
          /\ \A k \in DOMAIN S : k \in DOMAIN A \/ \E j \in DOMAIN B : k = Len(A) + j
        BY <2>1, CatShape
    <2> HIDE DEF S
    <2> QED BY <2>2, <1>1
<1>5. Whole(S)
    BY <1>1, <1>3, WholeCat
<1> HIDE DEF S
<1>6. ASSUME NEW j \in DOMAIN S, j # 1
      PROVE  \/ Plain(S[j])
             \/ j = 4 /\ p \in Clusters /\ Links(S[j]) /\ S[j].at = p /\ S[j].value = c
    <2>1. CASE j \in DOMAIN A
        BY <2>1, <1>1, <1>4, <1>6 DEF Plain
    <2>2. ASSUME NEW i \in DOMAIN B, j = 3 + i
          PROVE  \/ Plain(S[j])
                 \/ j = 4 /\ p \in Clusters /\ Links(S[j]) /\ S[j].at = p /\ S[j].value = c
        <3>1. S[j] = B[i] /\ p \in Clusters /\ i \in {1, 2}
            BY <2>2, <1>3, <1>4
        <3>2. CASE i = 1
            BY <2>2, <3>1, <3>2, <1>3 DEF Links
        <3>3. CASE i = 2
            BY <2>2, <3>1, <3>3, <1>3 DEF Plain
        <3> QED BY <3>1, <3>2, <3>3
    <2> QED BY <2>1, <2>2, <1>4
<1> QED BY <1>1, <1>4, <1>5, <1>6 DEF S, A, B

\* T marks clusters of F and then links them, each once, behind one another
\* and the first of them behind last.
Grows(F, last, T) ==
    \A k \in DOMAIN T :
        \/ Plain(T[k])
        \/ /\ Marks(T[k]) /\ Firm(T[k]) /\ T[k].at \in F
           /\ \A p \in Before(T, k) : Links(p) => p.at # T[k].at
        \/ /\ Links(T[k]) /\ T[k].value \in F /\ T[k].at \in F \cup {last}
           /\ T[k].at \in Clusters /\ T[k].at # T[k].value
           /\ \E p \in Before(T, k) : Marks(p) /\ Firm(p) /\ p.at = T[k].value
           /\ \A p \in Before(T, k) :
                /\ Links(p) => p.value # T[k].value /\ p.at # T[k].at
                /\ p.on = "fat" /\ p.at = T[k].value => Marks(p)

\* The cluster that the i-th new one is linked to.
Prev(free, last, i) == IF i = 1 THEN last ELSE free[i - 1]

Extension(free, last, n) ==
    [i \in 1 .. n |-> IF i <= Len(free)
                      THEN Alloc(free[i]) \o SetNext(Prev(free, last, i), free[i], "ignore")
                      ELSE Full]

LEMMA ExtensionShape ==
    ASSUME NEW free \in Seq(Clusters), NEW last, NEW n \in Nat \ {0}
    PROVE  LET seqs == Extension(free, last, n) IN
           /\ seqs \in Seq(Seq(DeviceWrites)) /\ seqs # <<>> /\ DOMAIN seqs = 1 .. n
           /\ \A i \in 1 .. n : Whole(seqs[i])
           /\ \A i \in 1 .. n : \A j \in DOMAIN seqs[i] :
                \/ Plain(seqs[i][j])
                \/ /\ i \in DOMAIN free /\ j = 1 /\ Marks(seqs[i][j]) /\ Firm(seqs[i][j])
                   /\ seqs[i][j].at = free[i]
                \/ /\ i \in DOMAIN free /\ j = 4 /\ Links(seqs[i][j])
                   /\ seqs[i][j].at = Prev(free, last, i) /\ seqs[i][j].at \in Clusters
                   /\ seqs[i][j].value = free[i]
           /\ \A i \in 1 .. n : i \in DOMAIN free =>
                /\ 1 \in DOMAIN seqs[i] /\ Marks(seqs[i][1]) /\ Firm(seqs[i][1])
                /\ seqs[i][1].at = free[i]
<1> DEFINE seqs == Extension(free, last, n)
<1>1. DOMAIN free = 1 .. Len(free) /\ Len(free) \in Nat
      /\ \A i \in DOMAIN free : free[i] \in Clusters
    BY ElementOfSeq, LenProperties
<1>2. ASSUME NEW i \in 1 .. n, i \in DOMAIN free
      PROVE  /\ seqs[i] \in Seq(DeviceWrites) /\ Whole(seqs[i])
             /\ 1 \in DOMAIN seqs[i] /\ Marks(seqs[i][1]) /\ Firm(seqs[i][1])
             /\ seqs[i][1].at = free[i]
             /\ \A j \in DOMAIN seqs[i] :
                  \/ j = 1
                  \/ Plain(seqs[i][j])
                  \/ /\ j = 4 /\ Links(seqs[i][j])
                     /\ seqs[i][j].at = Prev(free, last, i) /\ seqs[i][j].at \in Clusters
                     /\ seqs[i][j].value = free[i]
    <2> DEFINE q == Prev(free, last, i)
               S == Alloc(free[i]) \o SetNext(q, free[i], "ignore")
    <2>1. i <= Len(free) /\ free[i] \in Clusters
        BY <1>1, <1>2
    <2>2. seqs[i] = S
        BY <2>1 DEF Extension
    <2>3. /\ S \in Seq(DeviceWrites) /\ Whole(S)
          /\ 1 \in DOMAIN S /\ Marks(S[1]) /\ Firm(S[1]) /\ S[1].at = free[i]
          /\ \A j \in DOMAIN S :
               \/ j = 1
               \/ Plain(S[j])
               \/ j = 4 /\ q \in Clusters /\ Links(S[j]) /\ S[j].at = q /\ S[j].value = free[i]
        <3> HIDE DEF q
        <3> QED BY <2>1, BlockShape
    <2> HIDE DEF S, seqs
    <2> QED BY <2>2, <2>3
<1>3. ASSUME NEW i \in 1 .. n, i \notin DOMAIN free
      PROVE  /\ seqs[i] \in Seq(DeviceWrites) /\ Whole(seqs[i])
             /\ \A j \in DOMAIN seqs[i] : Plain(seqs[i][j])
    <2>1. ~(i <= Len(free))
        BY <1>1, <1>3
    <2>2. seqs[i] = Full
        BY <2>1 DEF Extension
    <2> HIDE DEF seqs
    <2> QED BY <2>2, FullShape DEF Plain
<1>4. DOMAIN seqs = 1 .. n
    BY DEF Extension
<1> HIDE DEF seqs
<1>5. seqs \in [1 .. n -> Seq(DeviceWrites)] /\ 1 \in DOMAIN seqs
    <2>1. seqs = [i \in 1 .. n |-> seqs[i]]
        BY DEF seqs, Extension
    <2>2. \A i \in 1 .. n : seqs[i] \in Seq(DeviceWrites)
        BY <1>2, <1>3
    <2> QED BY <1>4, <2>1, <2>2
<1>6. seqs \in Seq(Seq(DeviceWrites)) /\ seqs # <<>>
    <2>1. DOMAIN <<>> = {}
        OBVIOUS
    <2> QED BY <1>5, <2>1
<1> QED BY <1>2, <1>3, <1>4, <1>6 DEF seqs

LEMMA ExtensionGrows ==
    ASSUME NEW free \in Seq(Clusters), NEW last, NEW n \in Nat \ {0}, last \notin Range(free),
           \A i, j \in DOMAIN free : free[i] = free[j] => i = j
    PROVE  LET T == FlattenSeq(Extension(free, last, n)) IN
           /\ T \in Seq(DeviceWrites) /\ Whole(T) /\ Grows(Range(free), last, T)
           /\ n \in DOMAIN free => \A p \in Range(T) : Links(p) => p.at # free[n]
<1> DEFINE seqs == Extension(free, last, n)
           T == FlattenSeq(seqs)
<1>1. /\ seqs \in Seq(Seq(DeviceWrites)) /\ seqs # <<>> /\ DOMAIN seqs = 1 .. n
      /\ \A i \in 1 .. n : Whole(seqs[i])
    BY ExtensionShape
<1>2. \A i \in 1 .. n : \A j \in DOMAIN seqs[i] :
        \/ Plain(seqs[i][j])
        \/ /\ i \in DOMAIN free /\ j = 1 /\ Marks(seqs[i][j]) /\ Firm(seqs[i][j])
           /\ seqs[i][j].at = free[i]
        \/ /\ i \in DOMAIN free /\ j = 4 /\ Links(seqs[i][j])
           /\ seqs[i][j].at = Prev(free, last, i) /\ seqs[i][j].at \in Clusters
           /\ seqs[i][j].value = free[i]
    BY ExtensionShape
<1>3. \A i \in 1 .. n : i \in DOMAIN free =>
        /\ 1 \in DOMAIN seqs[i] /\ Marks(seqs[i][1]) /\ Firm(seqs[i][1])
        /\ seqs[i][1].at = free[i]
    BY ExtensionShape
<1> HIDE DEF seqs
<1>4. /\ T \in Seq(DeviceWrites)
      /\ \A k \in DOMAIN T : \E i \in DOMAIN seqs : \E j \in DOMAIN seqs[i] :
             Sits(seqs, T, k, i, j)
    BY <1>1, Blocks
<1>5. Whole(T)
    BY <1>1, WholeFlat
<1> HIDE DEF T
<1>6. DOMAIN free = 1 .. Len(free) /\ Len(free) \in Nat
      /\ \A i \in DOMAIN free : free[i] \in Clusters
    BY ElementOfSeq, LenProperties
\* What is linked to: each cluster once, and no new one before it is there.
<1>7. ASSUME NEW a \in DOMAIN free, NEW i \in DOMAIN free
      PROVE  /\ a <= i => Prev(free, last, a) # free[i]
             /\ a < i => Prev(free, last, a) # Prev(free, last, i) /\ free[a] # free[i]
    <2>1. \A h \in DOMAIN free : last # free[h]
        BY DEF Range
    <2>2. \A h \in DOMAIN free : h # 1 => h - 1 \in DOMAIN free
        BY <1>6
    <2>3. a # 1 => a - 1 # i \/ ~(a <= i)
        BY <1>6
    <2>4. a - 1 # i - 1 \/ ~(a < i)
        BY <1>6
    <2>5. a < i => i # 1
        BY <1>6
    <2> QED BY <2>1, <2>2, <2>3, <2>4, <2>5, <1>6 DEF Prev
<1>8. ASSUME NEW k \in DOMAIN T
      PROVE  \/ Plain(T[k])
             \/ /\ Marks(T[k]) /\ Firm(T[k]) /\ T[k].at \in Range(free)
                /\ \A p \in Before(T, k) : Links(p) => p.at # T[k].at
             \/ /\ Links(T[k]) /\ T[k].value \in Range(free)
                /\ T[k].at \in Range(free) \cup {last}
                /\ T[k].at \in Clusters /\ T[k].at # T[k].value
                /\ \E p \in Before(T, k) : Marks(p) /\ Firm(p) /\ p.at = T[k].value
                /\ \A p \in Before(T, k) :
                     /\ Links(p) => p.value # T[k].value /\ p.at # T[k].at
                     /\ p.on = "fat" /\ p.at = T[k].value => Marks(p)
    <2>1. PICK i \in DOMAIN seqs : \E j \in DOMAIN seqs[i] : Sits(seqs, T, k, i, j)
        BY <1>4
    <2>2. PICK j \in DOMAIN seqs[i] : Sits(seqs, T, k, i, j)
        BY <2>1
    <2>3. T[k] = seqs[i][j] /\ i \in 1 .. n
        BY <2>2, <1>1 DEF Sits
    <2>4. ASSUME NEW p \in Before(T, k)
          PROVE  \/ Plain(p)
                 \/ \E a \in DOMAIN free :
                      /\ Marks(p) /\ p.at = free[a]
                      /\ a < i \/ (a = i /\ 1 < j)
                 \/ \E a \in DOMAIN free :
                      /\ Links(p) /\ p.at = Prev(free, last, a) /\ p.value = free[a]
                      /\ a < i \/ (a = i /\ 4 < j)
        <3>1. PICK a \in DOMAIN seqs : \E b \in DOMAIN seqs[a] :
                p = seqs[a][b] /\ Earlier(a, b, i, j)
            BY <2>2 DEF Sits
        <3>2. PICK b \in DOMAIN seqs[a] : p = seqs[a][b] /\ Earlier(a, b, i, j)
            BY <3>1
        <3>3. \/ Plain(p)
              \/ a \in DOMAIN free /\ b = 1 /\ Marks(p) /\ p.at = free[a]
              \/ /\ a \in DOMAIN free /\ b = 4 /\ Links(p)
                 /\ p.at = Prev(free, last, a) /\ p.value = free[a]
            BY <3>2, <1>1, <1>2
        <3>4. a < i \/ (a = i /\ b < j)
            BY <3>2 DEF Earlier
        <3> QED BY <3>3, <3>4
    <2>5. CASE i \in DOMAIN free /\ j = 1 /\ Marks(T[k]) /\ Firm(T[k]) /\ T[k].at = free[i]
        <3>1. ASSUME NEW p \in Before(T, k), Links(p) PROVE p.at # T[k].at
            <4>1. ~Plain(p) /\ ~Marks(p)
                BY <3>1, Kinds DEF Plain
            <4>2. PICK a \in DOMAIN free :
                    p.at = Prev(free, last, a) /\ (a < i \/ (a = i /\ 4 < j))
                BY <4>1, <2>4
            <4>3. a <= i
                BY <4>2, <1>6, <2>5
            <4> QED BY <4>2, <4>3, <1>7, <2>5
        <3> QED BY <2>5, <3>1 DEF Range
    <2>6. CASE /\ i \in DOMAIN free /\ j = 4 /\ Links(T[k])
               /\ T[k].at = Prev(free, last, i) /\ T[k].at \in Clusters
               /\ T[k].value = free[i]
        <3>1. T[k].value \in Range(free) /\ T[k].at \in Range(free) \cup {last}
            <4>1. i # 1 => i - 1 \in DOMAIN free
                BY <1>6, <2>6
            <4> QED BY <4>1, <2>6 DEF Range, Prev
        <3>2. T[k].at # T[k].value
            BY <1>6, <1>7, <2>6
        <3>3. \E p \in Before(T, k) : Marks(p) /\ Firm(p) /\ p.at = T[k].value
            <4>1. 1 \in DOMAIN seqs[i] /\ Earlier(i, 1, i, j)
                BY <2>3, <2>6, <1>3 DEF Earlier
            <4>2. seqs[i][1] \in Before(T, k)
                BY <2>2, <4>1, <1>1 DEF Sits
            <4> QED BY <4>2, <2>3, <2>6, <1>3
        <3>4. ASSUME NEW p \in Before(T, k), Links(p)
              PROVE  p.value # T[k].value /\ p.at # T[k].at /\ p.at # T[k].value
            <4>1. ~Plain(p) /\ ~Marks(p)
                BY <3>4, Kinds DEF Plain
            <4>2. PICK a \in DOMAIN free : /\ p.at = Prev(free, last, a) /\ p.value = free[a]
                                           /\ a < i \/ (a = i /\ 4 < j)
                BY <4>1, <2>4
            <4>3. a < i /\ a <= i
                BY <4>2, <1>6, <2>6
            <4> QED BY <4>2, <4>3, <1>7, <2>6
        <3>5. ASSUME NEW p \in Before(T, k), p.on = "fat", p.at = T[k].value
              PROVE  Marks(p)
            BY <3>4, <3>5, <2>4 DEF Plain
        <3> QED BY <2>6, <3>1, <3>2, <3>3, <3>4, <3>5
    <2> QED BY <2>3, <2>5, <2>6, <1>2
<1>9. ASSUME n \in DOMAIN free, NEW p \in Range(T), Links(p)
      PROVE  p.at # free[n]
    <2>1. PICK k \in DOMAIN T : p = T[k]
        BY DEF Range
    <2>2. PICK i \in DOMAIN seqs : \E j \in DOMAIN seqs[i] : Sits(seqs, T, k, i, j)
        BY <1>4
    <2>3. PICK j \in DOMAIN seqs[i] : Sits(seqs, T, k, i, j)
        BY <2>2
    <2>4. p = seqs[i][j] /\ i \in 1 .. n
        BY <2>1, <2>3, <1>1 DEF Sits
    <2>5. ~Plain(p) /\ ~Marks(p)
        BY <1>9, Kinds DEF Plain
    <2>6. i \in DOMAIN free /\ p.at = Prev(free, last, i)
        BY <2>4, <2>5, <1>2
    <2>7. i <= n
        BY <2>4
    <2> QED BY <2>6, <2>7, <1>7, <1>9
<1>10. Grows(Range(free), last, T)
    BY <1>8 DEF Grows
<1> QED BY <1>4, <1>5, <1>9, <1>10 DEF T, seqs

\* What extendFAT32File writes: the extension, and a mark at its end.
LEMMA ExtendShape ==
    ASSUME NEW free \in Seq(Clusters), NEW last, NEW n \in Nat, last \notin Range(free),
           \A i, j \in DOMAIN free : free[i] = free[j] => i = j
    PROVE  LET T == Extend(free, last, n) IN
           T \in Seq(DeviceWrites) /\ Whole(T) /\ Grows(Range(free), last, T)
<1> DEFINE T == Extend(free, last, n)
<1>1. CASE n = 0
    <2>1. T = <<>> /\ DOMAIN <<>> = {}
        BY <1>1 DEF Extend
    <2>2. T \in Seq(DeviceWrites)
        BY <2>1
    <2> HIDE DEF T
    <2> QED BY <2>1, <2>2 DEF Whole, Grows, T
<1>2. CASE n # 0
    <2> DEFINE A == FlattenSeq(Extension(free, last, n))
               B == IF n <= Len(free) THEN SetNext(free[n], ENDOFCHAIN, "stop") ELSE <<>>
               S == A \o B
    <2>1. T = S
        BY <1>2 DEF Extend, Extension, Prev
    <2>2. DOMAIN free = 1 .. Len(free) /\ Len(free) \in Nat
          /\ \A i \in DOMAIN free : free[i] \in Clusters
        BY ElementOfSeq, LenProperties
    <2>3. A \in Seq(DeviceWrites) /\ Whole(A) /\ Grows(Range(free), last, A)
        BY <1>2, ExtensionGrows
    <2>4. n \in DOMAIN free => \A p \in Range(A) : Links(p) => p.at # free[n]
        BY <1>2, ExtensionGrows
    <2>5. /\ B \in Seq(DeviceWrites) /\ Whole(B)
          /\ \A j \in DOMAIN B :
               \/ Plain(B[j])
               \/ n \in DOMAIN free /\ j = 1 /\ Marks(B[j]) /\ Firm(B[j]) /\ B[j].at = free[n]
        <3>1. CASE n <= Len(free)
            <4> DEFINE C == SetNext(free[n], ENDOFCHAIN, "stop")
            <4>1. n \in DOMAIN free /\ free[n] \in Clusters /\ ENDOFCHAIN \in Values
                BY <1>2, <3>1, <2>2 DEF Values
            <4>2. /\ C \in Seq(DeviceWrites) /\ Whole(C) /\ DOMAIN C = {1, 2}
                  /\ C[1].on = "fat" /\ C[1].at = free[n] /\ C[1].value = ENDOFCHAIN
                  /\ Firm(C[1]) /\ C[2].on = "bak"
                BY <4>1, SetNextShape
            <4>3. B = C
                BY <3>1
            <4> HIDE DEF C, B
            <4>4. \A j \in DOMAIN C : j = 1 \/ j = 2
                BY <4>2
            <4>5. Marks(C[1])
                BY <4>2 DEF Marks
            <4>6. Plain(C[2])
                BY <4>2 DEF Plain
            <4> QED BY <4>1, <4>2, <4>3, <4>4, <4>5, <4>6
        <3>2. CASE ~(n <= Len(free))
            <4>1. B = <<>> /\ DOMAIN <<>> = {}
                BY <3>2
            <4>2. <<>> \in Seq(DeviceWrites)
                OBVIOUS
            <4> HIDE DEF B
            <4> QED BY <4>1, <4>2 DEF Whole
        <3> QED BY <3>1, <3>2
    <2> HIDE DEF A, B, T
    <2>6. Whole(S)
        BY <2>3, <2>5, WholeCat
    <2>7. A \in Seq(DeviceWrites) /\ B \in Seq(DeviceWrites)
        BY <2>3, <2>5
    <2>8. /\ S \in Seq(DeviceWrites)
          /\ \A k \in DOMAIN A : S[k] = A[k]
          /\ \A j \in DOMAIN B : S[Len(A) + j] = B[j]
          /\ \A k \in DOMAIN S : k \in DOMAIN A \/ \E j \in DOMAIN B : k = Len(A) + j
        BY <2>7, CatShape
    <2>9. /\ \A k \in DOMAIN A : Before(S, k) = Before(A, k)
          /\ \A j \in DOMAIN B : Before(S, Len(A) + j) = Range(A) \cup Before(B, j)
        BY <2>7, CatBefore
    <2> HIDE DEF S
    <2>10. ASSUME NEW k \in DOMAIN S
           PROVE  \/ Plain(S[k])
                  \/ /\ Marks(S[k]) /\ Firm(S[k]) /\ S[k].at \in Range(free)
                     /\ \A p \in Before(S, k) : Links(p) => p.at # S[k].at
                  \/ /\ Links(S[k]) /\ S[k].value \in Range(free)
                     /\ S[k].at \in Range(free) \cup {last}
                     /\ S[k].at \in Clusters /\ S[k].at # S[k].value
                     /\ \E p \in Before(S, k) : Marks(p) /\ Firm(p) /\ p.at = S[k].value
                     /\ \A p \in Before(S, k) :
                          /\ Links(p) => p.value # S[k].value /\ p.at # S[k].at
                          /\ p.on = "fat" /\ p.at = S[k].value => Marks(p)
        <3>1. CASE k \in DOMAIN A
            <4>1. S[k] = A[k] /\ Before(S, k) = Before(A, k)
                BY <3>1, <2>8, <2>9
            <4> QED BY <3>1, <4>1, <2>3 DEF Grows
        <3>2. ASSUME NEW j \in DOMAIN B, k = Len(A) + j
              PROVE  \/ Plain(S[k])
                     \/ /\ Marks(S[k]) /\ Firm(S[k]) /\ S[k].at \in Range(free)
                        /\ \A p \in Before(S, k) : Links(p) => p.at # S[k].at
            <4>1. S[k] = B[j] /\ Before(S, k) = Range(A) \cup Before(B, j)
                BY <3>2, <2>8, <2>9
            <4>2. CASE n \in DOMAIN free /\ j = 1 /\ Marks(B[j]) /\ Firm(B[j]) /\ B[j].at = free[n]
                <5>1. Before(B, j) = {}
                    BY <4>2, BeforeFirst
                <5>2. free[n] \in Range(free)
                    BY <4>2 DEF Range
                <5> QED BY <4>1, <4>2, <5>1, <5>2, <2>4
            <4> QED BY <4>1, <4>2, <2>5
        <3> QED BY <3>1, <3>2, <2>8
    <2>11. Grows(Range(free), last, S)
        BY <2>10 DEF Grows
    <2> QED BY <2>1, <2>6, <2>8, <2>11 DEF T
<1> QED BY <1>1, <1>2

\* No write of it frees, and none is of an entry.
LEMMA GrowsWrites ==
    ASSUME NEW F, NEW last, NEW T, Grows(F, last, T)
    PROVE  \A w \in Range(T) :
               /\ ~Frees(w) /\ ~Enters(w) /\ ~Clears(w)
               /\ Links(w) => w.value \in F /\ w.at \in F \cup {last}
               /\ w.on = "fat" => w.at \in F \cup {last}
<1> TAKE w \in Range(T)
<1>1. PICK k \in DOMAIN T : w = T[k]
    BY DEF Range
<1>2. \/ Plain(w)
      \/ Marks(w) /\ w.at \in F
      \/ Links(w) /\ w.value \in F /\ w.at \in F \cup {last}
    BY <1>1 DEF Grows
<1>3. Plain(w) => /\ ~Marks(w) /\ ~Frees(w) /\ ~Links(w) /\ ~Enters(w) /\ ~Clears(w)
                  /\ w.on # "fat"
    BY PlainWrites DEF Plain
<1> QED BY <1>2, <1>3, Kinds

\* Neither the directory's chain nor another file's is changed by a link at a.
Beside(f, d, n, t, a) ==
    /\ a \notin Range(Chain(f, Root)) \/ f[a] \notin Clusters
    /\ \A s \in DOMAIN d :
         d[s].name \notin {n} \cup t => a \notin Range(Chain(f, d[s].cluster))

LEMMA GrowsReady ==
    ASSUME NEW f, NEW d, NEW o, NEW c, NEW t, NEW P, NEW R, NEW T, NEW F, NEW last,
           Entries(d), F \subseteq Clusters, \A x \in F : f[x] = Free,
           Linked(f), f[Root] # Free, Owned(f, d, Doubted(d, c, t)),
           Grows(F, last, T),
           F # {} /\ last \in Clusters => Beside(f, d, c.name, t, last),
           \A p \in P : ~Links(p) /\ (p.on = "fat" => p.at \notin F),
           \A p \in R : Enters(p) => p.value.cluster \notin F
    PROVE  ReadyIn(f, d, o, c, t, P, R, T)
<1> DEFINE X == Doubted(d, c, t)
<1> HIDE DEF X
<1>1. \A s \in DOMAIN d : d[s].name \notin X =>
        d[s].cluster \in Clusters /\ f[d[s].cluster] # Free
    BY DEF Entries, Entry, Owned, X
<1>2. X \subseteq t
    BY DEF X, Doubted
<1>3. \A x \in F : Beside(f, d, c.name, t, x)
    <2> TAKE x \in F
    <2>1. f[x] \notin Clusters
        BY Constants
    <2>2. ASSUME NEW s \in DOMAIN d, d[s].name \notin {c.name} \cup t
          PROVE  x \notin Range(Chain(f, d[s].cluster))
        <3>1. d[s].cluster \in Clusters /\ f[d[s].cluster] # Free
            BY <2>2, <1>1, <1>2
        <3> QED BY <3>1, ChainUsed
    <2> QED BY <2>1, <2>2 DEF Beside
<1> SUFFICES ASSUME NEW k \in DOMAIN T
             PROVE  Safe(f, d, o, c, t, P \cup Before(T, k), R, T[k])
    BY DEF ReadyIn
<1> DEFINE B == P \cup Before(T, k)
           w == T[k]
<1>4. CASE Plain(w)
    BY <1>4, PlainWrites DEF Plain
<1>5. CASE /\ Marks(w) /\ Firm(w) /\ w.at \in F
           /\ \A p \in Before(T, k) : Links(p) => p.at # w.at
    <2>1. CanMark(f, B, w)
        BY <1>5, Constants DEF CanMark
    <2> HIDE DEF B, w
    <2> QED BY <1>5, <2>1, Kinds DEF Safe, B, w
<1>6. CASE /\ Links(w) /\ w.value \in F /\ w.at \in F \cup {last}
           /\ w.at \in Clusters /\ w.at # w.value
           /\ \E p \in Before(T, k) : Marks(p) /\ Firm(p) /\ p.at = w.value
           /\ \A p \in Before(T, k) :
                /\ Links(p) => p.value # w.value /\ p.at # w.at
                /\ p.on = "fat" /\ p.at = w.value => Marks(p)
    <2>1. w.value # Root /\ \A x \in Clusters : f[x] # w.value
        BY <1>6 DEF Linked
    <2>2. \A s \in DOMAIN d : d[s].name \notin X => d[s].cluster # w.value
        BY <1>1, <1>6
    <2>3. CanLink(f, d, X, B, R, w)
        BY <1>6, <2>1, <2>2 DEF CanLink
    <2>4. Beside(f, d, c.name, t, w.at)
        BY <1>3, <1>6
    <2>5. Aside(f, d, c.name, t, w)
        BY <2>4 DEF Aside, Beside
    <2> HIDE DEF B, w
    <2> QED BY <1>6, <2>3, <2>5, Kinds DEF Safe, B, w, X
<1> QED BY <1>4, <1>5, <1>6 DEF Grows

\* A cluster that already is a file's first stays so.
LEMMA HeldFirst ==
    ASSUME NEW f, NEW T, NEW x, f[x] # Free, x # Root, Unled(f, x),
           \A w \in Range(T) : Links(w) => w.value # x,
           \A w \in Range(T) : Frees(w) => w.at # x
    PROVE  Held(f, T, x)
<1>1. \A k \in DOMAIN T : T[k] \in Range(T)
    BY DEF Range
<1> QED BY <1>1 DEF Held, Unled

LEMMA RootLast ==
    ASSUME NEW f, Linked(f), f[Root] # Free
    PROVE  LET a == Last(Chain(f, Root)) IN
           /\ Unled(f, Root) /\ a \in Clusters /\ f[a] # Free /\ a \in Range(Chain(f, Root))
           /\ \A x \in Clusters : f[x] = Free => f[a] \notin Clusters
<1> DEFINE a == Last(Chain(f, Root))
<1>1. Unled(f, Root) /\ Root \in Clusters
    BY Constants DEF Linked, Unled
<1>2. /\ DOMAIN Chain(f, Root) = 1 .. Len(Chain(f, Root))
      /\ Len(Chain(f, Root)) \in 1 .. Cardinality(Clusters)
    BY <1>1, ChainShape
<1>3. a = Chain(f, Root)[Len(Chain(f, Root))] /\ a \in Range(Chain(f, Root))
    BY <1>2, Constants DEF Last, Range
<1>4. a \in Clusters
    BY <1>1, <1>3, ChainIn
<1>5. f[a] # Free
    BY <1>1, <1>3, ChainUsed
<1>6. \A x \in Clusters : f[x] = Free => f[a] \notin Clusters
    BY <1>1, <1>3, ChainEnds
<1> QED BY <1>1, <1>3, <1>4, <1>5, <1>6

\* The last cluster of the directory can be linked from while a cluster is free.
LEMMA RootEnd ==
    ASSUME NEW f, NEW d, NEW n, NEW t, NEW X, NEW x \in Clusters, Entries(d), f[x] = Free,
           Linked(f), f[Root] # Free, Owned(f, d, X), X \subseteq t
    PROVE  Beside(f, d, n, t, Last(Chain(f, Root)))
<1> DEFINE a == Last(Chain(f, Root))
<1>1. Unled(f, Root) /\ a \in Range(Chain(f, Root)) /\ f[a] \notin Clusters
    BY RootLast
<1>2. Root \in Clusters
    BY Constants
<1>3. ASSUME NEW s \in DOMAIN d, d[s].name \notin {n} \cup t
      PROVE  a \notin Range(Chain(f, d[s].cluster))
    <2>1. d[s].cluster \in Clusters /\ Unled(f, d[s].cluster) /\ d[s].cluster # Root
        BY <1>3 DEF Entries, Entry, Owned, Unled
    <2> QED BY <1>1, <1>2, <2>1, ChainsDisjoint
<1> QED BY <1>1, <1>3 DEF Beside

-----------------------------------------------------------------------------
(* A call starts *)

\* The torn names that still have an entry.
OldTorn == {n \in torn : Exists(n)}

LEMMA OwnedMore ==
    ASSUME NEW f, NEW d, NEW X, NEW Y, Owned(f, d, X), X \subseteq Y
    PROVE  Owned(f, d, Y)
BY DEF Owned

LEMMA AtStart ==
    ASSUME IInv, call = Idle
    PROVE  /\ Linked(fat) /\ fat[Root] # Free /\ Unled(fat, Root) /\ Root \in Clusters
           /\ Owned(fat, dir, OldTorn) /\ NamesApart(dir) /\ Matching(dir, open, torn)
           /\ Entries(dir) /\ fat \in [Clusters -> Values] /\ DOMAIN open \subseteq Names
           /\ DOMAIN dir \subseteq 0 .. SlotCount - 1
<1>1. Sane(fat, dir, open, Idle, torn) /\ Owned(fat, dir, torn) /\ Types
    BY AtRest
<1>2. Owned(fat, dir, OldTorn)
    BY <1>1 DEF Owned, OldTorn, Exists
<1>3. Unled(fat, Root) /\ Root \in Clusters
    BY <1>1, Constants DEF Sane, Linked, Unled
<1> QED BY <1>1, <1>2, <1>3 DEF Sane, Types, Entries, SlotCount

\* A call that finds its writes ready, and the directory as it should be when
\* none of them fails, keeps the invariant.
LEMMA StartStep ==
    ASSUME IInv, NEW c \in Calls, Start(c), ~c.failed, c.op = "write" => c.doubt = {},
           faults' \in 0 .. MaxFaults, short' \subseteq Names,
           \A n \in c.doubt : n \notin OldTorn /\ n \notin DOMAIN open,
           Ready(fat, dir, open, c, OldTorn \cup c.doubt, c.todo),
           WillBeOwned(fat, dir, OldTorn, c.todo), WillMatch(dir, c, c.todo),
           c.op \in {"open", "write"} => c.name \notin OldTorn, Whole(c.todo)
    PROVE  IInv' /\ Whole(call'.todo)
<1> DEFINE t == OldTorn \cup c.doubt
<1>1. call = Idle /\ call' = c /\ torn' = t /\ UNCHANGED <<fat, bak, dir, open, lost>>
    BY DEF Start, OldTorn
<1>2. /\ Linked(fat) /\ fat[Root] # Free /\ Owned(fat, dir, OldTorn) /\ NamesApart(dir)
      /\ Matching(dir, open, torn) /\ DOMAIN dir \subseteq 0 .. SlotCount - 1
    BY <1>1, AtStart
<1>3. t \ c.doubt = OldTorn
    OBVIOUS
<1>4. Owned(fat, dir, Doubted(dir, c, t))
    <2>1. OldTorn \subseteq Doubted(dir, c, t)
        BY DEF Doubted
    <2> QED BY <1>2, <2>1, OwnedMore
<1>5. Matching(dir, open, t)
    BY <1>2 DEF Matching, OldTorn
<1>6. c.doubt \subseteq Names
    BY CallShape
<1>7. Types'
    BY <1>1, <1>6, AtRest DEF Types, OldTorn
<1> HIDE DEF t
<1>8. Sane(fat, dir, open, c, t)
    BY <1>2, <1>4, <1>5 DEF Sane, SlotCount
<1>9. Ending(fat, dir, c, t, c.todo)
    BY <1>3 DEF Ending
<1>10. IInv'
    BY <1>1, <1>7, <1>8, <1>9 DEF IInv, t
<1> QED BY <1>1, <1>10

\* What the walk along a chain sees is a part of it, from its start.
LEMMA SeenShape ==
    ASSUME IInv, NEW c \in Clusters, NEW seen \in Seen(c)
    PROVE  /\ seen \in Seq(Clusters) /\ seen # <<>> /\ seen[1] = c
           /\ \A i \in 1 .. Len(seen) - 1 : seen[i + 1] = fat[seen[i]]
           /\ Range(seen) \subseteq Range(Chain(fat, c))
           /\ c \in Range(seen)
           /\ faults + ReadFaults(c, seen) \in 0 .. MaxFaults
<1> DEFINE s == Chain(fat, c)
<1>1. /\ s \in Seq(Clusters) /\ DOMAIN s = 1 .. Len(s)
      /\ Len(s) \in 1 .. Cardinality(Clusters) /\ s[1] = c
      /\ \A i \in 1 .. Len(s) - 1 : s[i + 1] = fat[s[i]]
    BY ChainShape
<1>2. faults \in 0 .. MaxFaults /\ MaxFaults \in Nat
    BY BoundAssumption DEF IInv, Types
<1>3. Len(s) \in Nat /\ 1 \in 1 .. Len(s)
    BY <1>1, Constants
<1> HIDE DEF s
<1>4. PICK n \in 1 .. Len(s) : /\ seen = SubSeq(s, 1, n)
                               /\ faults < MaxFaults \/ n = Len(s)
    BY <1>3 DEF Seen, s
<1>5. \A i \in 1 .. n : i \in 1 .. Len(s) /\ s[i] \in Clusters /\ (1 + i) - 1 = i
    <2> TAKE i \in 1 .. n
    <2>1. i \in 1 .. Len(s) /\ (1 + i) - 1 = i
        BY <1>3
    <2> QED BY <2>1, <1>1, ElementOfSeq
<1>6. seen \in Seq(Clusters) /\ Len(seen) = n /\ DOMAIN seen = 1 .. n
      /\ \A i \in 1 .. n : seen[i] = s[i] /\ i \in 1 .. Len(s)
    <2>1. n \in Int /\ 1 \in Int /\ 1 <= n /\ n - 1 + 1 = n
        BY <1>3
    <2>2. /\ SubSeq(s, 1, n) \in Seq(Clusters)
          /\ Len(SubSeq(s, 1, n)) = n
          /\ \A i \in 1 .. n : SubSeq(s, 1, n)[i] = s[1 + i - 1]
        BY <2>1, <1>5, SubSeqProperties
    <2>3. seen \in Seq(Clusters) /\ Len(seen) = n
        BY <1>4, <2>2
    <2>4. DOMAIN seen = 1 .. n
        BY <2>3, LenProperties
    <2> QED BY <1>4, <1>5, <2>2, <2>3, <2>4
<1>7. n = Len(s) => seen = s
    <2>1. ASSUME n = Len(s) PROVE Len(seen) = Len(s) /\ \A i \in 1 .. Len(s) : seen[i] = s[i]
        BY <2>1, <1>6
    <2> QED BY <2>1, <1>1, <1>6, SeqEqual
<1>8. faults + ReadFaults(c, seen) \in 0 .. MaxFaults
    BY <1>2, <1>4, <1>7 DEF ReadFaults, s
<1>9. 1 \in 1 .. n
    BY <1>3
<1>10. seen # <<>> /\ c \in Range(seen) /\ seen[1] = c
    <2>1. DOMAIN <<>> = {}
        OBVIOUS
    <2> QED BY <1>1, <1>6, <1>9, <2>1 DEF Range
<1>11. \A i \in 1 .. Len(seen) - 1 : seen[i + 1] = fat[seen[i]]
    <2> TAKE i \in 1 .. Len(seen) - 1
    <2>1. i \in 1 .. n /\ i + 1 \in 1 .. n /\ i \in 1 .. Len(s) - 1
        BY <1>3, <1>6
    <2> QED BY <2>1, <1>1, <1>6
<1>12. Range(seen) \subseteq Range(s)
    BY <1>1, <1>6 DEF Range
<1> QED BY <1>6, <1>8, <1>10, <1>11, <1>12 DEF s

\* An entry of a sound file is the only one of its cluster, and no other one's
\* cluster is in its chain.
LEMMA SoundShape ==
    ASSUME IInv, call = Idle, NEW n, Exists(n), n \notin OldTorn
    PROVE  LET s == SlotOf(n)
               c == dir[s].cluster IN
           /\ s \in DOMAIN dir /\ dir[s].name = n /\ s \in Nat
           /\ c \in Clusters /\ fat[c] # Free /\ c # Root /\ Unled(fat, c)
           /\ n \in Names
           /\ \A u \in DOMAIN dir : dir[u].name = n => u = s
           /\ \A u \in DOMAIN dir : u # s /\ dir[u].name \notin OldTorn =>
                dir[u].cluster # c /\ dir[u].cluster \notin Range(Chain(fat, c))
           /\ \A x \in Range(Chain(fat, c)) : x \in Clusters /\ fat[x] # Free /\ x # Root
<1> DEFINE s == SlotOf(n)
           c == dir[s].cluster
<1>1. s \in DOMAIN dir /\ dir[s].name = n
    BY SlotShape
<1> HIDE DEF s
<1>2. /\ Linked(fat) /\ Unled(fat, Root) /\ Owned(fat, dir, OldTorn) /\ NamesApart(dir)
      /\ Entries(dir) /\ DOMAIN dir \subseteq 0 .. SlotCount - 1
    BY AtStart
<1>3. s \in Nat
    BY <1>1, <1>2
<1>4. c \in Clusters /\ n \in Names
    BY <1>1, <1>2 DEF Entries, Entry
<1>5. fat[c] # Free /\ c # Root /\ Unled(fat, c)
    BY <1>1, <1>2 DEF Owned, Unled
<1>6. \A u \in DOMAIN dir : dir[u].name = n => u = s
    BY <1>1, <1>2 DEF NamesApart
<1>7. \A x \in Range(Chain(fat, c)) : x \in Clusters /\ fat[x] # Free
    BY <1>2, <1>4, <1>5, ChainIn, ChainUsed
<1>8. \A x \in Range(Chain(fat, c)) : Unled(fat, x) => x = c
    BY <1>4, ChainLed DEF Unled
<1>9. ASSUME NEW u \in DOMAIN dir, u # s, dir[u].name \notin OldTorn
      PROVE  dir[u].cluster # c /\ dir[u].cluster \notin Range(Chain(fat, c))
    <2>1. Unled(fat, dir[u].cluster)
        BY <1>2, <1>9 DEF Owned, Unled
    <2>2. dir[u].cluster # c
        BY <1>1, <1>2, <1>9 DEF Owned
    <2> QED BY <2>1, <2>2, <1>8
<1>10. \A x \in Range(Chain(fat, c)) : x # Root
    BY <1>2, <1>5, <1>8
<1> QED BY <1>1, <1>3, <1>4, <1>5, <1>6, <1>7, <1>9, <1>10 DEF s

\* An entry that no write concerns stays the only one of its cluster.
LEMMA OthersHeld ==
    ASSUME IInv, call = Idle, NEW T, NEW s \in DOMAIN dir, dir[s].name \notin OldTorn,
           \A w \in Range(T) : Links(w) => fat[w.value] = Free,
           \A w \in Range(T) : Frees(w) => w.at # dir[s].cluster
    PROVE  Held(fat, T, dir[s].cluster)
<1>1. fat[dir[s].cluster] # Free /\ dir[s].cluster # Root /\ Unled(fat, dir[s].cluster)
    BY AtStart DEF Owned, Unled
<1>2. \A w \in Range(T) : Links(w) => w.value # dir[s].cluster
    BY <1>1
<1> QED BY <1>1, <1>2, HeldFirst

LEMMA ToSetShape ==
    ASSUME NEW S, NEW s \in Seq(S)
    PROVE  /\ ToSet(s) \subseteq S /\ ToSet(s) = Range(s)
           /\ s # <<>> => ToSet(Tail(s)) \subseteq S
<1>1. \A u \in Seq(S) : ToSet(u) \subseteq S
    BY ElementOfSeq DEF ToSet
<1>2. s # <<>> => Tail(s) \in Seq(S)
    BY HeadTailProperties
<1> QED BY <1>1, <1>2 DEF ToSet, Range

LEMMA ChainSet ==
    ASSUME NEW f, NEW c \in Clusters
    PROVE  /\ ToSet(Chain(f, c)) \subseteq Clusters
           /\ ToSet(Tail(Chain(f, c))) \subseteq Clusters
<1>1. Chain(f, c) \in Seq(Clusters) /\ Len(Chain(f, c)) \in 1 .. Cardinality(Clusters)
    BY ChainShape
<1>2. Chain(f, c) # <<>>
    BY <1>1, Constants, EmptySeq
<1> QED BY <1>1, <1>2, ToSetShape

\* The chain of n's entry is reset: ready, whatever comes before that neither
\* links nor enters, when its entry is cleared before or it is in doubt.
LEMMA ResetStarts ==
    ASSUME IInv, call = Idle, NEW n, Exists(n), n \notin OldTorn,
           NEW seen \in Seen(dir[SlotOf(n)].cluster), NEW c, NEW t, NEW P, NEW R,
           Doubted(dir, c, t) = t, OldTorn \subseteq t,
           n \notin t => \E p \in P : Clears(p) /\ p.at = SlotOf(n),
           \A p \in P \cup R : ~Links(p) /\ ~Enters(p)
    PROVE  ReadyIn(fat, dir, open, c, t, P, R, Reset(seen))
<1> DEFINE s == SlotOf(n)
           x == dir[s].cluster
<1>1. /\ s \in DOMAIN dir /\ dir[s].name = n
      /\ x \in Clusters /\ x # Root /\ Unled(fat, x)
      /\ \A u \in DOMAIN dir : u # s /\ dir[u].name \notin OldTorn => dir[u].cluster # x
    BY SoundShape
<1> HIDE DEF s
<1>2. /\ seen \in Seq(Clusters) /\ seen # <<>> /\ seen[1] = x
      /\ \A i \in 1 .. Len(seen) - 1 : seen[i + 1] = fat[seen[i]]
    BY <1>1, SeenShape DEF s
<1>3. Linked(fat) /\ Owned(fat, dir, OldTorn)
    BY AtStart
<1>4. \A u \in DOMAIN dir : dir[u].cluster = seen[1] /\ dir[u].name \notin Doubted(dir, c, t) =>
        \E p \in P : Clears(p) /\ p.at = u
    BY <1>1, <1>2 DEF s
<1>5. \A u \in DOMAIN dir : \A y \in Clusters :
        fat[y] = dir[u].cluster => dir[u].name \in Doubted(dir, c, t)
    BY <1>3 DEF Owned
<1>6. seen[1] # Root /\ \A y \in Clusters : fat[y] # seen[1]
    BY <1>1, <1>2 DEF Unled
<1>7. \A p \in P : Links(p) => p.at # seen[1]
    OBVIOUS
<1>8. \A p \in R :
        /\ Links(p) => p.value \notin Range(seen)
        /\ Enters(p) /\ p.value.cluster \in Range(seen) => p.value.name \in t
    OBVIOUS
<1> QED BY <1>2, <1>3, <1>4, <1>5, <1>6, <1>7, <1>8, ResetReady

\* The first cluster of a chain that is reset is marked again at the end.
LEMMA ResetHeld ==
    ASSUME NEW f, NEW s \in Seq(Clusters), s # <<>>, s[1] # Root, Unled(f, s[1])
    PROVE  Held(f, Reset(s), s[1])
<1> DEFINE T == Reset(s)
<1>1. /\ T \in Seq(DeviceWrites)
      /\ Len(T) - 1 \in DOMAIN T /\ Marks(T[Len(T) - 1]) /\ Firm(T[Len(T) - 1])
      /\ T[Len(T) - 1].at = s[1] /\ T[Len(T)].on = "bak"
    BY ResetShape
<1>2. \A w \in Range(T) : ~Links(w)
    BY ResetWrites
<1> HIDE DEF T
<1>3. DOMAIN T = 1 .. Len(T) /\ Len(T) \in Nat
    BY <1>1, LenProperties
<1>4. \A k \in DOMAIN T : Frees(T[k]) => k < Len(T) - 1
    <2> TAKE k \in DOMAIN T
    <2>1. Frees(T[k]) => k # Len(T) - 1 /\ k # Len(T)
        BY <1>1, Kinds
    <2> QED BY <2>1, <1>3
<1>5. \A k \in DOMAIN T : ~Links(T[k])
    BY <1>2 DEF Range
<1> QED BY <1>1, <1>4, <1>5 DEF Held, Unled, T

LEMMA OpenTruncatedStep ==
    ASSUME IInv, NEW n \in Names, OpenTruncated(n)
    PROVE  IInv' /\ Whole(call'.todo)
<1> DEFINE s == SlotOf(n)
           x == dir[s].cluster
           t == OldTorn \cup {n}
<1>1. Exists(n) /\ n \notin torn /\ n \notin DOMAIN open /\ short' = short \cup {n}
    BY DEF OpenTruncated, Sound
<1>2. PICK seen \in Seen(x) :
        /\ faults' = faults + ReadFaults(x, seen)
        /\ Start([Idle EXCEPT !.op = "open", !.name = n, !.slot = s,
                              !.cluster = x, !.doubt = {n},
                              !.got = ToSet(Tail(Chain(fat, x))),
                              !.left = ToSet(Chain(fat, x)) \ ToSet(seen),
                              !.todo = Reset(seen)])
    BY DEF OpenTruncated
<1> DEFINE T == Reset(seen)
           G == ToSet(Tail(Chain(fat, x)))
           L == ToSet(Chain(fat, x)) \ ToSet(seen)
           c == [Idle EXCEPT !.op = "open", !.name = n, !.slot = s, !.cluster = x,
                             !.doubt = {n}, !.got = G, !.left = L, !.todo = T]
<1>3. call = Idle /\ n \notin OldTorn
    BY <1>1, <1>2 DEF Start, OldTorn
<1>4. /\ s \in DOMAIN dir /\ dir[s].name = n /\ s \in Nat
      /\ x \in Clusters /\ x # Root /\ Unled(fat, x)
      /\ \A u \in DOMAIN dir : u # s /\ dir[u].name \notin OldTorn =>
           dir[u].cluster # x /\ dir[u].cluster \notin Range(Chain(fat, x))
    BY <1>1, <1>3, SoundShape
<1>5. /\ seen \in Seq(Clusters) /\ seen # <<>> /\ seen[1] = x
      /\ Range(seen) \subseteq Range(Chain(fat, x))
      /\ faults + ReadFaults(x, seen) \in 0 .. MaxFaults
    BY <1>4, SeenShape
<1>6. T \in Seq(DeviceWrites) /\ Whole(T)
    BY <1>5, ResetShape
<1>7. \A w \in Range(T) : /\ ~Links(w) /\ ~Enters(w) /\ ~Clears(w)
                          /\ Frees(w) => w.at \in Range(seen)
    BY <1>5, ResetWrites
<1>8. G \subseteq Clusters /\ L \subseteq Clusters
    BY <1>4, ChainSet
<1>9. /\ c \in Calls /\ c.op = "open" /\ c.name = n /\ c.slot = s /\ c.cluster = x
      /\ c.doubt = {n} /\ c.todo = T /\ c.failed = FALSE
    <2> HIDE DEF T, G, L, x, s
    <2>1. 0 \in 0 .. MaxSize
        BY BoundAssumption
    <2> QED BY <1>4, <1>6, <1>8, <2>1 DEF Idle, Calls
<1>10. Held(fat, T, x)
    BY <1>4, <1>5, ResetHeld
<1>11. Start(c)
    BY <1>2
<1> HIDE DEF c
<1>12. Doubted(dir, c, t) = t
    BY <1>4, <1>9 DEF Doubted
<1>13. ReadyIn(fat, dir, open, c, t, {}, Range(T), T)
    <2>1. \A p \in {} \cup Range(T) : ~Links(p) /\ ~Enters(p)
        BY <1>7
    <2>2. OldTorn \subseteq t /\ n \in t
        OBVIOUS
    <2> HIDE DEF T, t
    <2> QED BY <1>1, <1>3, <1>12, <2>1, <2>2, ResetStarts DEF T
<1>14. Ready(fat, dir, open, c, t, T)
    BY <1>6, <1>13, WholeReady
<1>15. \A u \in DOMAIN dir : dir[u].name \notin OldTorn => Held(fat, T, dir[u].cluster)
    <2> TAKE u \in DOMAIN dir
    <2>1. CASE u = s
        BY <2>1, <1>10
    <2>2. CASE u # s
        <3> SUFFICES ASSUME dir[u].name \notin OldTorn PROVE Held(fat, T, dir[u].cluster)
            OBVIOUS
        <3>1. dir[u].cluster \notin Range(seen)
            BY <2>2, <1>4, <1>5
        <3> HIDE DEF T
        <3> QED BY <3>1, <1>3, <1>7, OthersHeld
    <2> QED BY <2>1, <2>2
<1> HIDE DEF T
<1>16. WillBeOwned(fat, dir, OldTorn, T)
    <2>1. \A k \in DOMAIN T : ~Enters(T[k])
        BY <1>7 DEF Range
    <2>2. Owned(fat, dir, OldTorn)
        BY <1>3, AtStart
    <2> QED BY <1>15, <2>1, <2>2 DEF WillBeOwned, Owned
<1>17. WillMatch(dir, c, T)
    BY <1>4, <1>9 DEF WillMatch
<1>18. short' \subseteq Names
    BY <1>1 DEF IInv, Types
<1>19. faults' \in 0 .. MaxFaults
    BY <1>2, <1>5
<1> HIDE DEF x, s
<1>20. \A m \in c.doubt : m \notin OldTorn /\ m \notin DOMAIN open
    BY <1>1, <1>3, <1>9
<1> QED BY <1>6, <1>3, <1>9, <1>11, <1>14, <1>16, <1>17, <1>18, <1>19, <1>20, StartStep

\* Deleting: the entry is cleared, and its chain reset.
LEMMA DeleteStep ==
    ASSUME IInv, NEW n \in Names, Delete(n)
    PROVE  IInv' /\ Whole(call'.todo)
<1> DEFINE s == SlotOf(n)
           x == dir[s].cluster
           t == OldTorn
           w0 == DeviceWrite("dir", s, NoEntry, "stop")
<1>1. Exists(n) /\ n \notin torn /\ n \notin DOMAIN open /\ short' = short
    BY DEF Delete, Sound
<1>2. PICK seen \in Seen(x) :
        /\ faults' = faults + ReadFaults(x, seen)
        /\ Start([Idle EXCEPT !.op = "delete", !.name = n,
                              !.got = ToSet(Chain(fat, x)),
                              !.left = {x} \cup (ToSet(Chain(fat, x)) \ ToSet(seen)),
                              !.todo = <<w0>> \o Reset(seen)])
    BY DEF Delete
<1> DEFINE A == <<w0>>
           B == Reset(seen)
           T == A \o B
           G == ToSet(Chain(fat, x))
           L == {x} \cup (ToSet(Chain(fat, x)) \ ToSet(seen))
           c == [Idle EXCEPT !.op = "delete", !.name = n, !.got = G, !.left = L, !.todo = T]
<1>3. call = Idle /\ n \notin OldTorn
    BY <1>1, <1>2 DEF Start, OldTorn
<1>4. /\ s \in DOMAIN dir /\ dir[s].name = n /\ s \in Nat
      /\ x \in Clusters /\ x # Root /\ Unled(fat, x)
      /\ \A u \in DOMAIN dir : u # s /\ dir[u].name \notin OldTorn =>
           dir[u].cluster # x /\ dir[u].cluster \notin Range(Chain(fat, x))
    BY <1>1, <1>3, SoundShape
<1>5. /\ seen \in Seq(Clusters) /\ seen # <<>> /\ seen[1] = x
      /\ Range(seen) \subseteq Range(Chain(fat, x))
      /\ faults + ReadFaults(x, seen) \in 0 .. MaxFaults
    BY <1>4, SeenShape
<1>6. B \in Seq(DeviceWrites) /\ Whole(B)
    BY <1>5, ResetShape
<1>7. \A w \in Range(B) : /\ ~Links(w) /\ ~Enters(w) /\ ~Clears(w)
                          /\ Frees(w) => w.at \in Range(seen)
    BY <1>5, ResetWrites
<1>8. /\ w0 \in DeviceWrites /\ Clears(w0) /\ w0.at = s /\ w0.onFail = "stop"
      /\ ~Enters(w0) /\ ~Links(w0) /\ ~Frees(w0) /\ ~Marks(w0) /\ w0.on = "dir"
    <2> HIDE DEF s
    <2>1. w0 \in DeviceWrites /\ Clears(w0) /\ w0.at = s /\ w0.onFail = "stop"
        BY <1>4 DEF DeviceWrite, DeviceWrites, Clears
    <2> HIDE DEF w0
    <2> QED BY <2>1, Kinds
<1> HIDE DEF w0
<1>9. /\ A \in Seq(DeviceWrites) /\ Whole(A) /\ DOMAIN A = {1} /\ A[1] = w0
      /\ Range(A) = {w0}
    <2>1. A \in Seq(DeviceWrites) /\ DOMAIN A = {1} /\ A[1] = w0
        BY <1>8
    <2> HIDE DEF A
    <2>2. Range(A) = {w0}
        BY <2>1 DEF Range
    <2> QED BY <2>1, <2>2, <1>8 DEF Whole
<1> HIDE DEF A, B
<1>10. /\ T \in Seq(DeviceWrites) /\ Range(T) = Range(A) \cup Range(B)
       /\ 1 \in DOMAIN T /\ T[1] = w0
    BY <1>6, <1>9, CatShape
<1>11. Whole(T)
    BY <1>6, <1>9, WholeCat
<1>12. G \subseteq Clusters /\ L \subseteq Clusters
    BY <1>4, ChainSet
<1>13. /\ c \in Calls /\ c.op = "delete" /\ c.name = n
       /\ c.doubt = {} /\ c.todo = T /\ c.failed = FALSE
    <2> HIDE DEF T, G, L, x, s
    <2>1. 0 \in 0 .. MaxSize
        BY BoundAssumption
    <2> QED BY <1>10, <1>12, <2>1 DEF Idle, Calls
<1>14. Start(c)
    BY <1>2 DEF A, B
<1> HIDE DEF c, T
<1>15. Doubted(dir, c, t) = t
    BY <1>13 DEF Doubted
<1>16. \A p \in Range(A) \cup Range(T) : ~Links(p) /\ ~Enters(p)
    BY <1>7, <1>8, <1>9, <1>10
<1>17. ReadyIn(fat, dir, open, c, t, Range(A), Range(T), B)
    <2>1. \E p \in Range(A) : Clears(p) /\ p.at = s
        BY <1>8, <1>9
    <2> HIDE DEF t, s
    <2> QED BY <1>1, <1>3, <1>15, <1>16, <2>1, ResetStarts DEF B, t, s
<1>18. ReadyIn(fat, dir, open, c, t, {}, Range(T), A)
    <2>1. CanClear(dir, open, c, Range(T), w0)
        BY <1>1, <1>4, <1>8, <1>13, <1>16 DEF CanClear
    <2>2. Safe(fat, dir, open, c, t, {} \cup Before(A, 1), Range(T), w0)
        BY <2>1, <1>8 DEF Safe
    <2> QED BY <2>2, <1>9 DEF ReadyIn
<1>19. ReadyIn(fat, dir, open, c, t, {}, Range(T), T)
    <2>1. {} \cup Range(A) = Range(A)
        OBVIOUS
    <2> QED BY <2>1, <1>6, <1>9, <1>17, <1>18, ReadyCat DEF T
<1>20. Ready(fat, dir, open, c, t, T)
    BY <1>11, <1>19, WholeReady
<1>21. ASSUME NEW u \in DOMAIN dir, dir[u].name \notin OldTorn, u # s
       PROVE  Held(fat, T, dir[u].cluster)
    <2>1. dir[u].cluster \notin Range(seen)
        BY <1>21, <1>4, <1>5
    <2>2. \A w \in Range(T) : Frees(w) => w.at # dir[u].cluster
        BY <2>1, <1>7, <1>8, <1>9, <1>10
    <2>3. \A w \in Range(T) : Links(w) => fat[w.value] = Free
        BY <1>16
    <2> QED BY <2>2, <2>3, <1>3, <1>21, OthersHeld
<1>22. Cleared(T, s)
    BY <1>8, <1>10 DEF Cleared
<1>23. WillBeOwned(fat, dir, OldTorn, T)
    <2>1. \A k \in DOMAIN T : ~Enters(T[k])
        BY <1>16 DEF Range
    <2>2. Owned(fat, dir, OldTorn)
        BY <1>3, AtStart
    <2> HIDE DEF s
    <2> QED BY <1>21, <1>22, <2>1, <2>2 DEF WillBeOwned, Owned
<1>24. WillMatch(dir, c, T)
    BY <1>13 DEF WillMatch
<1>25. short' \subseteq Names /\ faults' \in 0 .. MaxFaults
    BY <1>1, <1>2, <1>5 DEF IInv, Types
<1> HIDE DEF x, s
<1>26. OldTorn \cup c.doubt = t /\ \A m \in c.doubt : m \notin OldTorn /\ m \notin DOMAIN open
    BY <1>13
<1> QED BY <1>11, <1>13, <1>14, <1>20, <1>23, <1>24, <1>25, <1>26, StartStep

-----------------------------------------------------------------------------
(* Free clusters and free slots *)

\* A list of free clusters, each once.
FreeList(free) ==
    /\ free \in Seq(Clusters)
    /\ \A i, j \in DOMAIN free : free[i] = free[j] => i = j
    /\ \A x \in Range(free) : x \in Clusters /\ fat[x] = Free

LEMMA FreeShape ==
    /\ FreeList(FreeClusters)
    /\ FreeClusters # <<>> =>
         /\ FreeList(Tail(FreeClusters))
         /\ FreeClusters[1] \in Clusters /\ fat[FreeClusters[1]] = Free
         /\ FreeClusters[1] \notin Range(Tail(FreeClusters))
<1> DEFINE F == {c \in Clusters : fat[c] = Free}
           s == FreeClusters
           u == Tail(s)
<1>1. /\ s \in Seq(F) /\ DOMAIN s = 1 .. Len(s)
      /\ \A i, j \in 1 .. Len(s) : s[i] = s[j] => i = j
    BY AscendingShape DEF FreeClusters
<1>2. \A x \in F : x \in Clusters /\ fat[x] = Free
    OBVIOUS
<1> HIDE DEF F, s
<1>3. \A i \in DOMAIN s : s[i] \in F
    BY <1>1, ElementOfSeq
<1>4. FreeList(s)
    <2>1. s \in Seq(Clusters)
        BY <1>1, <1>2
    <2>2. \A x \in Range(s) : x \in F
        BY <1>3 DEF Range
    <2> QED BY <1>1, <1>2, <2>1, <2>2 DEF FreeList
<1>5. ASSUME s # <<>>
      PROVE  /\ FreeList(u) /\ s[1] \in Clusters /\ fat[s[1]] = Free /\ s[1] \notin Range(u)
    <2>1. /\ u \in Seq(F) /\ Len(u) = Len(s) - 1
          /\ \A i \in 1 .. Len(u) : u[i] = s[i + 1]
        BY <1>1, <1>5, HeadTailProperties
    <2>2. Len(s) \in Nat \ {0}
        BY <1>1, <1>5, EmptySeq
    <2>3. DOMAIN u = 1 .. Len(u)
        BY <2>1, LenProperties
    <2>4. u \in Seq(Clusters)
        BY <2>1, <1>2
    <2> HIDE DEF u
    <2>5. \A i \in DOMAIN u : i + 1 \in DOMAIN s /\ u[i] = s[i + 1] /\ i + 1 # 1 /\ i \in Nat
        BY <1>1, <2>1, <2>2, <2>3
    <2>6. 1 \in DOMAIN s
        BY <1>1, <2>2
    <2>7. \A i, j \in DOMAIN u : u[i] = u[j] => i = j
        <3> TAKE i, j \in DOMAIN u
        <3>1. i \in Nat /\ j \in Nat /\ i + 1 \in DOMAIN s /\ j + 1 \in DOMAIN s
              /\ u[i] = s[i + 1] /\ u[j] = s[j + 1]
            BY <2>5
        <3>2. u[i] = u[j] => i + 1 = j + 1
            BY <1>1, <3>1
        <3> QED BY <3>1, <3>2
    <2>8. \A x \in Range(u) : x \in F
        BY <1>3, <2>5 DEF Range
    <2>9. s[1] \notin Range(u)
        <3>1. \A i \in DOMAIN u : s[1] # u[i]
            BY <1>1, <2>5, <2>6
        <3> QED BY <3>1 DEF Range
    <2> QED BY <1>2, <1>3, <2>4, <2>6, <2>7, <2>8, <2>9 DEF FreeList
<1> QED BY <1>4, <1>5 DEF s

LEMMA NewSlotShape ==
    ASSUME IInv, call = Idle
    PROVE  NewSlot \in Nat /\ NewSlot \notin DOMAIN dir
<1>1. DOMAIN dir \subseteq 0 .. SlotCount - 1
    BY AtStart
<1>2. Len(Chain(fat, Root)) \in Nat /\ SlotsPerCluster \in Nat
    BY Constants, ChainShape, BoundAssumption
<1>3. SlotCount \in Nat
    <2>1. \A a \in Nat, b \in Nat : a * b \in Nat
        OBVIOUS
    <2> QED BY <1>2, <2>1 DEF SlotCount
<1>4. CASE FreeSlots = {}
    BY <1>1, <1>3, <1>4 DEF NewSlot
<1>5. CASE FreeSlots # {}
    <2>1. FreeSlots \subseteq Nat /\ FreeSlots \cap DOMAIN dir = {}
        BY <1>3 DEF FreeSlots
    <2>2. \E s \in FreeSlots : \A u \in FreeSlots : s <= u
        BY <1>5, <2>1, LeastOfNats
    <2>3. NewSlot \in FreeSlots
        BY <1>5, <2>2 DEF NewSlot
    <2> QED BY <2>1, <2>3
<1> QED BY <1>4, <1>5

-----------------------------------------------------------------------------
(* writeFAT32Entry of a new entry *)

\* A single write of an entry.
LEMMA EntryShape ==
    ASSUME NEW s \in Nat, NEW e \in Entry, NEW fail \in {"stop", "ignore"}
    PROVE  LET w == DeviceWrite("dir", s, e, fail) IN
           /\ w \in DeviceWrites /\ Enters(w) /\ w.at = s /\ w.value = e
           /\ Firm(w) <=> fail = "stop"
           /\ ~Clears(w) /\ ~Links(w) /\ ~Frees(w) /\ ~Marks(w) /\ w.on = "dir"
<1> DEFINE w == DeviceWrite("dir", s, e, fail)
<1>1. e # NoEntry
    BY NameAssumption DEF Entry, NoEntry
<1>2. /\ w \in DeviceWrites /\ Enters(w) /\ w.at = s /\ w.value = e
      /\ Firm(w) <=> fail = "stop"
    BY <1>1 DEF DeviceWrite, DeviceWrites, Enters, Firm
<1> HIDE DEF w
<1> QED BY <1>2, Kinds DEF w

LEMMA OneWrite ==
    ASSUME NEW w \in DeviceWrites, w.on = "dir"
    PROVE  LET A == <<w>> IN
           /\ A \in Seq(DeviceWrites) /\ Whole(A) /\ DOMAIN A = {1} /\ A[1] = w
           /\ Range(A) = {w} /\ Before(A, 1) = {}
<1> DEFINE A == <<w>>
<1>1. A \in Seq(DeviceWrites) /\ DOMAIN A = {1} /\ A[1] = w
    OBVIOUS
<1> HIDE DEF A
<1>2. Range(A) = {w}
    BY <1>1 DEF Range
<1> QED BY <1>1, <1>2, BeforeFirst DEF Whole, A

\* What it writes before the entry: nothing, or an extension of the directory.
NewRoom(free) ==
    IF FreeSlots = {} THEN Extend(free, Last(Chain(fat, Root)), 1) ELSE <<>>

LEMMA RoomShape ==
    ASSUME IInv, call = Idle, NEW free, FreeList(free)
    PROVE  LET a == Last(Chain(fat, Root)) IN
           /\ NewRoom(free) \in Seq(DeviceWrites) /\ Whole(NewRoom(free))
           /\ Grows(Range(free), a, NewRoom(free)) /\ a \in Clusters /\ fat[a] # Free
<1> DEFINE a == Last(Chain(fat, Root))
<1>1. Linked(fat) /\ fat[Root] # Free
    BY AtStart
<1>2. a \in Clusters /\ fat[a] # Free
    BY <1>1, RootLast
<1> HIDE DEF a
<1>3. CASE FreeSlots = {}
    <2> DEFINE T == Extend(free, a, 1)
    <2>1. a \notin Range(free) /\ 1 \in Nat
        BY <1>2 DEF FreeList
    <2>2. T \in Seq(DeviceWrites) /\ Whole(T) /\ Grows(Range(free), a, T)
        BY <2>1, ExtendShape DEF FreeList
    <2>3. NewRoom(free) = T
        BY <1>3 DEF NewRoom, a
    <2> HIDE DEF T
    <2> QED BY <1>2, <2>2, <2>3 DEF a
<1>4. CASE FreeSlots # {}
    <2>1. NewRoom(free) = <<>>
        BY <1>4 DEF NewRoom
    <2>2. <<>> \in Seq(DeviceWrites) /\ DOMAIN <<>> = {}
        OBVIOUS
    <2>3. Whole(<<>>) /\ Grows(Range(free), a, <<>>)
        BY <2>2 DEF Whole, Grows
    <2> QED BY <1>2, <2>1, <2>2, <2>3 DEF a
<1> QED BY <1>3, <1>4

\* Its writes: some that link free clusters only, and then the one of e.
LEMMA WriteNewShape ==
    ASSUME IInv, call = Idle, NEW free, FreeList(free), NEW e \in Entry
    PROVE  LET T == WriteNew(free, e)
               D == DeviceWrite("dir", NewSlot, e, "stop") IN
           /\ T = NewRoom(free) \o <<D>>
           /\ T \in Seq(DeviceWrites) /\ Whole(T) /\ D \in Range(T)
           /\ \A w \in Range(T) :
                /\ ~Frees(w) /\ ~Clears(w)
                /\ Links(w) => /\ w.value \in Range(free)
                               /\ w.at \in Range(free) \cup {Last(Chain(fat, Root))}
                /\ Enters(w) => w = D
<1> DEFINE A == NewRoom(free)
           D == DeviceWrite("dir", NewSlot, e, "stop")
           B == <<D>>
           T == A \o B
<1>1. WriteNew(free, e) = T
    BY DEF WriteNew, NewRoom
<1>2. A \in Seq(DeviceWrites) /\ Whole(A) /\ Grows(Range(free), Last(Chain(fat, Root)), A)
    BY RoomShape
<1>3. NewSlot \in Nat
    BY NewSlotShape
<1>4. /\ D \in DeviceWrites /\ Enters(D)
      /\ ~Clears(D) /\ ~Links(D) /\ ~Frees(D) /\ ~Marks(D) /\ D.on = "dir"
    BY <1>3, EntryShape
<1> HIDE DEF A, D
<1>5. B \in Seq(DeviceWrites) /\ Whole(B) /\ Range(B) = {D}
    BY <1>4, OneWrite
<1>6. \A w \in Range(A) :
        /\ ~Frees(w) /\ ~Enters(w) /\ ~Clears(w)
        /\ Links(w) => /\ w.value \in Range(free)
                       /\ w.at \in Range(free) \cup {Last(Chain(fat, Root))}
    BY <1>2, GrowsWrites
<1> HIDE DEF B
<1>7. T \in Seq(DeviceWrites) /\ Range(T) = Range(A) \cup Range(B)
    BY <1>2, <1>5, CatShape
<1>8. Whole(T)
    BY <1>2, <1>5, WholeCat
<1> HIDE DEF T
<1>9. \A w \in Range(T) :
        /\ ~Frees(w) /\ ~Clears(w)
        /\ Links(w) => /\ w.value \in Range(free)
                       /\ w.at \in Range(free) \cup {Last(Chain(fat, Root))}
        /\ Enters(w) => w = D
    BY <1>4, <1>5, <1>6, <1>7
<1> QED BY <1>1, <1>5, <1>7, <1>8, <1>9 DEF T, A, B, D

LEMMA WriteNewReady ==
    ASSUME IInv, call = Idle, NEW free, FreeList(free), NEW e \in Entry,
           NEW c, NEW t, NEW P, NEW R, e.name = c.name, ~Exists(c.name),
           OldTorn \subseteq t, OldTorn \subseteq Doubted(dir, c, t),
           \A p \in P : ~Links(p) /\ ~Enters(p) /\ (p.on = "fat" => p.at \notin Range(free)),
           \A p \in R : Enters(p) => p.value.cluster \notin Range(free),
           c.name \notin t =>
               /\ e.cluster # Root /\ Unled(fat, e.cluster)
               /\ \/ fat[e.cluster] # Free
                  \/ \E p \in P : Marks(p) /\ Firm(p) /\ p.at = e.cluster
               /\ \A s \in DOMAIN dir :
                    dir[s].name \notin OldTorn => dir[s].cluster # e.cluster
    PROVE  ReadyIn(fat, dir, open, c, t, P, R, WriteNew(free, e))
<1> DEFINE A == NewRoom(free)
           D == DeviceWrite("dir", NewSlot, e, "stop")
           B == <<D>>
           a == Last(Chain(fat, Root))
<1>1. WriteNew(free, e) = A \o B
    BY WriteNewShape
<1>2. A \in Seq(DeviceWrites) /\ Grows(Range(free), a, A)
    BY RoomShape
<1>3. NewSlot \in Nat /\ NewSlot \notin DOMAIN dir
    BY NewSlotShape
<1>4. /\ D \in DeviceWrites /\ Enters(D) /\ D.at = NewSlot /\ D.value = e
      /\ ~Clears(D) /\ ~Links(D) /\ ~Frees(D) /\ ~Marks(D) /\ D.on = "dir"
    BY <1>3, EntryShape
<1>5. /\ Linked(fat) /\ fat[Root] # Free /\ Owned(fat, dir, OldTorn) /\ Entries(dir)
    BY AtStart
<1>6. \A x \in Range(free) : x \in Clusters /\ fat[x] = Free
    BY DEF FreeList
<1>7. Owned(fat, dir, Doubted(dir, c, t))
    BY <1>5, OwnedMore
<1> HIDE DEF A, D, a
<1>8. Range(free) # {} /\ a \in Clusters => Beside(fat, dir, c.name, t, a)
    BY <1>5, <1>6, RootEnd DEF a
<1>9. ReadyIn(fat, dir, open, c, t, P, R, A)
    <2>1. Range(free) \subseteq Clusters /\ \A x \in Range(free) : fat[x] = Free
        BY <1>6
    <2>2. \A p \in P : ~Links(p) /\ (p.on = "fat" => p.at \notin Range(free))
        OBVIOUS
    <2> QED BY <1>2, <1>5, <1>7, <1>8, <2>1, <2>2, GrowsReady
<1>10. B \in Seq(DeviceWrites) /\ DOMAIN B = {1} /\ B[1] = D /\ Before(B, 1) = {}
    BY <1>4, OneWrite
<1> HIDE DEF B
<1>11. \A p \in Range(A) : ~Enters(p)
    BY <1>2, GrowsWrites
<1>12. CanEnter(fat, dir, c.name, t, P \cup Range(A), D)
    <2>1. D.value \in Entry /\ D.value.name = c.name
        BY <1>4
    <2>2. D.at \notin DOMAIN dir /\ \A s \in DOMAIN dir : dir[s].name # c.name
        BY <1>3, <1>4 DEF Exists
    <2>3. \A p \in P \cup Range(A) : ~Enters(p)
        BY <1>11
    <2>4. ASSUME c.name \notin t
          PROVE  /\ e.cluster # Root
                 /\ \A x \in Clusters : fat[x] # e.cluster
                 /\ \/ fat[e.cluster] # Free
                    \/ \E p \in P \cup Range(A) : Marks(p) /\ Firm(p) /\ p.at = e.cluster
                 /\ \A s \in DOMAIN dir :
                      dir[s].name \notin t /\ dir[s].cluster = e.cluster => s = D.at
        BY <2>4 DEF Unled
    <2> QED BY <1>4, <2>1, <2>2, <2>3, <2>4 DEF CanEnter
<1>13. ReadyIn(fat, dir, open, c, t, P \cup Range(A), R, B)
    <2>1. Safe(fat, dir, open, c, t, (P \cup Range(A)) \cup {}, R, D)
        BY <1>4, <1>12 DEF Safe
    <2> QED BY <2>1, <1>10 DEF ReadyIn
<1> QED BY <1>1, <1>2, <1>9, <1>10, <1>13, ReadyCat

LEMMA AllocatedShape ==
    ASSUME NEW T \in Seq(DeviceWrites)
    PROVE  Allocated(T) \subseteq Clusters
<1>1. \A k \in DOMAIN T : T[k] \in DeviceWrites
    BY ElementOfSeq
<1>2. \A k \in DOMAIN T : T[k].on = "zero" => T[k].at \in Clusters
    BY <1>1, WriteShape
<1> QED BY <1>2 DEF Allocated

\* Renaming: a second entry for the chain, and then the first is cleared.
LEMMA MoveStep ==
    ASSUME IInv, NEW n \in Names, NEW m \in Names, Move(n, m)
    PROVE  IInv' /\ Whole(call'.todo)
<1> DEFINE s == SlotOf(n)
           x == dir[s].cluster
           t == OldTorn \cup {n, m}
           e == [dir[s] EXCEPT !.name = m]
           D == DeviceWrite("dir", NewSlot, e, "stop")
           w0 == DeviceWrite("dir", s, NoEntry, "stop")
           A == WriteNew(FreeClusters, e)
           B == <<w0>>
           T == A \o B
           G == Allocated(A)
           c == [Idle EXCEPT !.op = "move", !.name = m, !.doubt = {n, m}, !.got = G, !.todo = T]
<1>1. /\ Exists(n) /\ n \notin torn /\ n \notin DOMAIN open /\ ~Exists(m)
      /\ Start(c) /\ short' \subseteq short \cup {m} /\ faults' = faults
    BY DEF Move, Sound
<1>2. call = Idle /\ n \notin OldTorn /\ m \notin OldTorn
    BY <1>1 DEF Start, OldTorn
<1>3. /\ s \in DOMAIN dir /\ dir[s].name = n /\ s \in Nat
      /\ x \in Clusters /\ fat[x] # Free /\ x # Root /\ Unled(fat, x)
      /\ \A u \in DOMAIN dir : u # s /\ dir[u].name \notin OldTorn => dir[u].cluster # x
    BY <1>1, <1>2, SoundShape
<1>4. /\ Owned(fat, dir, OldTorn) /\ Matching(dir, open, torn) /\ Entries(dir)
      /\ DOMAIN open \subseteq Names
    BY <1>2, AtStart
<1>5. e \in Entry /\ e.name = m /\ e.cluster = x /\ n # m
    <2> HIDE DEF s
    <2>1. dir[s] \in Entry
        BY <1>3, <1>4 DEF Entries
    <2> QED BY <1>1, <2>1 DEF Entry
<1>6. FreeList(FreeClusters) /\ NewSlot \in Nat /\ NewSlot \notin DOMAIN dir
    BY <1>2, FreeShape, NewSlotShape
<1>7. \A y \in Range(FreeClusters) : fat[y] = Free
    BY <1>6 DEF FreeList
<1>8. /\ w0 \in DeviceWrites /\ Clears(w0) /\ w0.at = s /\ w0.onFail = "stop"
      /\ ~Enters(w0) /\ ~Links(w0) /\ ~Frees(w0) /\ ~Marks(w0) /\ w0.on = "dir"
    <2> HIDE DEF s
    <2>1. w0 \in DeviceWrites /\ Clears(w0) /\ w0.at = s /\ w0.onFail = "stop"
        BY <1>3 DEF DeviceWrite, DeviceWrites, Clears
    <2> HIDE DEF w0
    <2> QED BY <2>1, Kinds
<1> HIDE DEF e, c
<1>9. D.value = e /\ D.at = NewSlot /\ D \in DeviceWrites
    BY <1>5, <1>6, EntryShape
<1> HIDE DEF D, w0
<1>10. /\ A \in Seq(DeviceWrites) /\ Whole(A)
       /\ \A w \in Range(A) :
            /\ ~Frees(w) /\ ~Clears(w)
            /\ Links(w) => w.value \in Range(FreeClusters)
            /\ Enters(w) => w = D
    BY <1>2, <1>5, <1>6, WriteNewShape DEF D
<1>11. B \in Seq(DeviceWrites) /\ Whole(B) /\ DOMAIN B = {1} /\ B[1] = w0
       /\ Range(B) = {w0} /\ Before(B, 1) = {}
    BY <1>8, OneWrite
<1> HIDE DEF A, B
<1>12. /\ T \in Seq(DeviceWrites) /\ Range(T) = Range(A) \cup Range(B)
       /\ Len(A) + 1 \in DOMAIN T /\ T[Len(A) + 1] = w0
    BY <1>10, <1>11, CatShape
<1>13. Whole(T)
    BY <1>10, <1>11, WholeCat
<1>14. G \subseteq Clusters
    BY <1>10, AllocatedShape
<1>15. /\ c \in Calls /\ c.op = "move" /\ c.name = m
       /\ c.doubt = {n, m} /\ c.todo = T /\ c.failed = FALSE
    <2> HIDE DEF T, G
    <2>1. 0 \in 0 .. MaxSize
        BY BoundAssumption
    <2> QED BY <1>12, <1>14, <2>1 DEF Idle, Calls, c
<1> HIDE DEF T
<1>16. \A w \in Range(T) : /\ ~Frees(w)
                           /\ Links(w) => fat[w.value] = Free
                           /\ Enters(w) => w = D
    BY <1>7, <1>8, <1>10, <1>11, <1>12
<1>17. Doubted(dir, c, t) = OldTorn
    BY <1>1, <1>2, <1>15 DEF Doubted, Exists
<1>18. ReadyIn(fat, dir, open, c, t, {}, Range(T), A)
    <2>1. \A p \in Range(T) : Enters(p) => p.value.cluster \notin Range(FreeClusters)
        BY <1>3, <1>5, <1>7, <1>9, <1>16
    <2>2. \A p \in {} : ~Links(p) /\ ~Enters(p) /\ (p.on = "fat" => p.at \notin Range(FreeClusters))
        OBVIOUS
    <2>3. OldTorn \subseteq t /\ OldTorn \subseteq Doubted(dir, c, t)
        BY <1>17
    <2>4. e.name = c.name /\ ~Exists(c.name) /\ c.name \in t
        BY <1>1, <1>5, <1>15
    <2> HIDE DEF t
    <2> QED BY <1>2, <1>5, <1>6, <2>1, <2>2, <2>3, <2>4, WriteNewReady DEF A
<1>19. ReadyIn(fat, dir, open, c, t, Range(A), Range(T), B)
    <2>1. \A p \in Range(T) : Enters(p) => p.at # w0.at
        BY <1>3, <1>6, <1>8, <1>9, <1>16
    <2>2. CanClear(dir, open, c, Range(T), w0)
        BY <1>1, <1>3, <1>5, <1>8, <1>15, <2>1 DEF CanClear
    <2>3. Safe(fat, dir, open, c, t, Range(A) \cup Before(B, 1), Range(T), w0)
        BY <2>2, <1>8 DEF Safe
    <2> QED BY <2>3, <1>11 DEF ReadyIn
<1>20. ReadyIn(fat, dir, open, c, t, {}, Range(T), T)
    <2>1. {} \cup Range(A) = Range(A)
        OBVIOUS
    <2> QED BY <2>1, <1>10, <1>11, <1>18, <1>19, ReadyCat DEF T
<1>21. Ready(fat, dir, open, c, t, T)
    BY <1>13, <1>20, WholeReady
<1>22. ASSUME NEW u \in DOMAIN dir, dir[u].name \notin OldTorn
       PROVE  Held(fat, T, dir[u].cluster)
    BY <1>2, <1>16, <1>22, OthersHeld
<1>23. Cleared(T, s)
    BY <1>8, <1>12 DEF Cleared
<1>24. WillBeOwned(fat, dir, OldTorn, T)
    <2>1. \A k \in DOMAIN T : Enters(T[k]) => T[k].value.cluster = x
        BY <1>5, <1>9, <1>16 DEF Range
    <2>2. Held(fat, T, x)
        BY <1>2, <1>3, <1>22
    <2>3. \A u \in DOMAIN dir : dir[u].name \notin OldTorn /\ dir[u].cluster = x => u = s
        BY <1>3
    <2>4. \A k \in DOMAIN T : Enters(T[k]) /\ T[k].value.name \notin OldTorn =>
            /\ Held(fat, T, T[k].value.cluster)
            /\ \A u \in DOMAIN dir :
                 u # T[k].at /\ dir[u].name \notin OldTorn
                 /\ dir[u].cluster = T[k].value.cluster => Cleared(T, u)
        <3> HIDE DEF x, s
        <3> QED BY <1>23, <2>1, <2>2, <2>3
    <2> HIDE DEF s
    <2> QED BY <1>4, <1>22, <2>4 DEF WillBeOwned, Owned
<1>25. WillMatch(dir, c, T)
    BY <1>15 DEF WillMatch
<1>26. short' \subseteq Names /\ faults' \in 0 .. MaxFaults
    BY <1>1 DEF IInv, Types
<1>27. m \notin DOMAIN open
    BY <1>1, <1>4 DEF Matching, Exists
<1> HIDE DEF x, s
<1>28. OldTorn \cup c.doubt = t /\ \A k \in c.doubt : k \notin OldTorn /\ k \notin DOMAIN open
    BY <1>1, <1>2, <1>15, <1>27
<1> QED BY <1>13, <1>1, <1>15, <1>21, <1>24, <1>25, <1>26, <1>28, StartStep

-----------------------------------------------------------------------------
(* A new file *)

LEMMA HeadShape ==
    ASSUME NEW c \in Clusters
    PROVE  LET H == Alloc(c) \o SetNext(c, ENDOFCHAIN, "ignore") IN
           /\ H \in Seq(DeviceWrites) /\ Whole(H)
           /\ \A w \in Range(H) : Plain(w) \/ (Marks(w) /\ w.at = c)
           /\ \E w \in Range(H) : Marks(w) /\ Firm(w) /\ w.at = c
           /\ 1 \in DOMAIN H /\ H[1].on = "fat"
<1> DEFINE A == Alloc(c)
           B == SetNext(c, ENDOFCHAIN, "ignore")
           H == A \o B
<1>1. /\ A \in Seq(DeviceWrites) /\ Whole(A) /\ DOMAIN A = {1, 2, 3}
      /\ Marks(A[1]) /\ Firm(A[1]) /\ A[1].at = c /\ A[1].on = "fat"
      /\ A[2].on = "bak" /\ A[3].on = "zero"
    BY AllocShape
<1>2. ENDOFCHAIN \in Values
    BY DEF Values
<1>3. /\ B \in Seq(DeviceWrites) /\ Whole(B) /\ DOMAIN B = {1, 2}
      /\ B[1].on = "fat" /\ B[1].at = c /\ B[1].value = ENDOFCHAIN /\ B[2].on = "bak"
    BY <1>2, SetNextShape
<1> HIDE DEF A, B
<1>4. Marks(B[1]) /\ Plain(B[2]) /\ Plain(A[2]) /\ Plain(A[3])
    BY <1>1, <1>3 DEF Marks, Plain
<1>5. A \in Seq(DeviceWrites) /\ B \in Seq(DeviceWrites)
    BY <1>1, <1>3
<1>6. /\ H \in Seq(DeviceWrites) /\ Range(H) = Range(A) \cup Range(B)
      /\ \A k \in DOMAIN A : k \in DOMAIN H /\ H[k] = A[k]
    BY <1>5, CatShape
<1>7. Whole(H)
    BY <1>1, <1>3, WholeCat
<1> HIDE DEF H
<1>8. \A w \in Range(A) : Plain(w) \/ (Marks(w) /\ w.at = c)
    BY <1>1, <1>4 DEF Range
<1>9. \A w \in Range(B) : Plain(w) \/ (Marks(w) /\ w.at = c)
    BY <1>3, <1>4 DEF Range
<1>10. A[1] \in Range(A) /\ 1 \in DOMAIN A
    BY <1>1 DEF Range
<1> QED BY <1>1, <1>6, <1>7, <1>8, <1>9, <1>10 DEF H, A, B

\* The entry that a new file gets.
NewEntry(n) == [name |-> n, cluster |-> FreeClusters[1], size |-> 0]

LEMMA CreateShape ==
    ASSUME IInv, call = Idle, NEW n \in Names, FreeClusters # <<>>
    PROVE  LET x == FreeClusters[1]
               D == DeviceWrite("dir", NewSlot, NewEntry(n), "stop") IN
           /\ NewEntry(n) \in Entry
           /\ Create(n) \in Seq(DeviceWrites) /\ Whole(Create(n)) /\ Create(n) # Full
           /\ D \in Range(Create(n))
           /\ \E w \in Range(Create(n)) : Marks(w) /\ Firm(w) /\ w.at = x
           /\ \A w \in Range(Create(n)) :
                /\ ~Frees(w) /\ ~Clears(w)
                /\ Links(w) => fat[w.value] = Free /\ w.value # x /\ w.at # x
                /\ Enters(w) => w = D
<1> DEFINE x == FreeClusters[1]
           u == Tail(FreeClusters)
           e == NewEntry(n)
           D == DeviceWrite("dir", NewSlot, e, "stop")
           H == Alloc(x) \o SetNext(x, ENDOFCHAIN, "ignore")
           W == WriteNew(u, e)
           T == H \o W
<1>1. FreeList(u) /\ x \in Clusters /\ fat[x] = Free /\ x \notin Range(u)
    BY FreeShape
<1>2. Create(n) = T
    BY DEF Create, NewEntry
<1> HIDE DEF x, u
<1>3. e \in Entry
    <2>1. 0 \in 0 .. MaxSize
        BY BoundAssumption
    <2> QED BY <1>1, <2>1 DEF Entry, NewEntry, x
<1>4. /\ H \in Seq(DeviceWrites) /\ Whole(H)
      /\ \A w \in Range(H) : Plain(w) \/ (Marks(w) /\ w.at = x)
      /\ \E w \in Range(H) : Marks(w) /\ Firm(w) /\ w.at = x
      /\ 1 \in DOMAIN H /\ H[1].on = "fat"
    BY <1>1, HeadShape
<1> HIDE DEF e
<1>5. /\ W \in Seq(DeviceWrites) /\ Whole(W) /\ D \in Range(W)
      /\ \A w \in Range(W) :
           /\ ~Frees(w) /\ ~Clears(w)
           /\ Links(w) => /\ w.value \in Range(u)
                          /\ w.at \in Range(u) \cup {Last(Chain(fat, Root))}
           /\ Enters(w) => w = D
    BY <1>1, <1>3, WriteNewShape
<1>6. fat[Last(Chain(fat, Root))] # Free
    BY <1>1, RoomShape
<1> HIDE DEF H, W, D
<1>7. H \in Seq(DeviceWrites) /\ W \in Seq(DeviceWrites)
    BY <1>4, <1>5
<1>8. /\ T \in Seq(DeviceWrites) /\ Range(T) = Range(H) \cup Range(W)
      /\ T[1] = H[1]
    BY <1>4, <1>7, CatShape
<1>9. Whole(T)
    BY <1>4, <1>5, WholeCat
<1> HIDE DEF T
<1>10. T # Full
    BY <1>4, <1>8, FullShape
<1>11. \A w \in Range(H) : ~Frees(w) /\ ~Clears(w) /\ ~Links(w) /\ ~Enters(w)
    BY <1>4, PlainWrites, Kinds DEF Plain
<1>12. \A y \in Range(u) : fat[y] = Free
    BY <1>1 DEF FreeList
<1>13. \A w \in Range(T) :
         /\ ~Frees(w) /\ ~Clears(w)
         /\ Links(w) => fat[w.value] = Free /\ w.value # x /\ w.at # x
         /\ Enters(w) => w = D
    BY <1>1, <1>5, <1>6, <1>8, <1>11, <1>12
<1> QED BY <1>2, <1>3, <1>4, <1>5, <1>8, <1>9, <1>10, <1>13 DEF x, e, D

LEMMA CreateReady ==
    ASSUME IInv, call = Idle, NEW n \in Names, FreeClusters # <<>>, ~Exists(n),
           NEW c, NEW t, NEW R, c.name = n,
           OldTorn \subseteq t, OldTorn \subseteq Doubted(dir, c, t),
           \A p \in R : Enters(p) => p.value.cluster = FreeClusters[1]
    PROVE  ReadyIn(fat, dir, open, c, t, {}, R, Create(n))
<1> DEFINE x == FreeClusters[1]
           u == Tail(FreeClusters)
           e == NewEntry(n)
           H == Alloc(x) \o SetNext(x, ENDOFCHAIN, "ignore")
           W == WriteNew(u, e)
<1>1. FreeList(u) /\ x \in Clusters /\ fat[x] = Free /\ x \notin Range(u)
    BY FreeShape
<1>2. Create(n) = H \o W
    BY DEF Create, NewEntry
<1>3. e \in Entry /\ e.cluster = x /\ e.name = n
    BY CreateShape DEF NewEntry
<1>4. /\ Linked(fat) /\ fat[Root] # Free /\ Owned(fat, dir, OldTorn) /\ Entries(dir)
    BY AtStart
<1> HIDE DEF x, u, e
<1>5. /\ H \in Seq(DeviceWrites)
      /\ \A w \in Range(H) : Plain(w) \/ (Marks(w) /\ w.at = x)
      /\ \E w \in Range(H) : Marks(w) /\ Firm(w) /\ w.at = x
    BY <1>1, HeadShape
<1>6. W \in Seq(DeviceWrites)
    BY <1>1, <1>3, WriteNewShape
<1> HIDE DEF H
<1>7. \A w \in Range(H) : /\ ~Frees(w) /\ ~Clears(w) /\ ~Links(w) /\ ~Enters(w)
                          /\ w.on = "fat" => w.at = x
    BY <1>5, PlainWrites, Kinds DEF Plain
<1>8. ReadyIn(fat, dir, open, c, t, {}, R, H)
    <2> SUFFICES ASSUME NEW k \in DOMAIN H
                 PROVE  Safe(fat, dir, open, c, t, {} \cup Before(H, k), R, H[k])
        BY DEF ReadyIn
    <2>1. H[k] \in Range(H) /\ Before(H, k) \subseteq Range(H)
        BY <1>5, BeforeInRange DEF Range
    <2>2. CASE Plain(H[k])
        BY <2>2, PlainWrites DEF Plain
    <2>3. CASE Marks(H[k]) /\ H[k].at = x
        <3>1. CanMark(fat, {} \cup Before(H, k), H[k])
            BY <1>1, <1>7, <2>1, <2>3, Constants DEF CanMark
        <3> QED BY <2>3, <3>1, Kinds DEF Safe
    <2> QED BY <1>5, <2>1, <2>2, <2>3
<1>9. \A y \in Clusters : fat[y] # x
    BY <1>1, <1>4 DEF Linked
<1>10. \A s \in DOMAIN dir : dir[s].name \notin OldTorn => dir[s].cluster # x
    BY <1>1, <1>4 DEF Owned
<1>11. ReadyIn(fat, dir, open, c, t, Range(H), R, W)
    <2>1. \A p \in Range(H) : ~Links(p) /\ ~Enters(p) /\ (p.on = "fat" => p.at \notin Range(u))
        BY <1>1, <1>7
    <2>2. \A p \in R : Enters(p) => p.value.cluster \notin Range(u)
        BY <1>1 DEF x
    <2>3. /\ e.cluster # Root /\ Unled(fat, e.cluster)
          /\ \E p \in Range(H) : Marks(p) /\ Firm(p) /\ p.at = e.cluster
          /\ \A s \in DOMAIN dir : dir[s].name \notin OldTorn => dir[s].cluster # e.cluster
        BY <1>1, <1>3, <1>4, <1>5, <1>9, <1>10 DEF Unled
    <2>4. e.name = c.name /\ ~Exists(c.name)
        BY <1>3
    <2> QED BY <1>1, <1>3, <2>1, <2>2, <2>3, <2>4, WriteNewReady
<1>12. ReadyIn(fat, dir, open, c, t, {} \cup Range(H), R, W)
    <2>1. {} \cup Range(H) = Range(H)
        OBVIOUS
    <2> QED BY <2>1, <1>11
<1> HIDE DEF W
<1> QED BY <1>2, <1>5, <1>6, <1>8, <1>12, ReadyCat

LEMMA HeldBehind ==
    ASSUME NEW f, NEW x, NEW A \in Seq(DeviceWrites), NEW B \in Seq(DeviceWrites),
           \A w \in Range(A) : ~Frees(w) /\ (Links(w) => w.value # x),
           Held(f, B, x)
    PROVE  Held(f, A \o B, x)
<1> DEFINE T == A \o B
<1>1. /\ \A j \in DOMAIN B : Len(A) + j \in DOMAIN T /\ T[Len(A) + j] = B[j]
      /\ \A k \in DOMAIN T : k \in DOMAIN A \/ \E j \in DOMAIN B : k = Len(A) + j
      /\ \A k \in DOMAIN A : T[k] = A[k]
      /\ DOMAIN A = 1 .. Len(A) /\ DOMAIN B = 1 .. Len(B) /\ Len(A) \in Nat /\ Len(B) \in Nat
    BY CatShape
<1> HIDE DEF T
<1>2. \A k \in DOMAIN A : ~Frees(T[k]) /\ (Links(T[k]) => T[k].value # x)
    BY <1>1 DEF Range
<1>3. /\ x # Root /\ \A y \in Clusters : f[y] # x
      /\ \A j \in DOMAIN B : Links(B[j]) => B[j].value # x
    BY DEF Held
<1>4. \A k \in DOMAIN T : Links(T[k]) => T[k].value # x
    BY <1>1, <1>2, <1>3
<1>5. CASE f[x] # Free /\ \A j \in DOMAIN B : Frees(B[j]) => B[j].at # x
    <2>1. \A k \in DOMAIN T : Frees(T[k]) => T[k].at # x
        BY <1>1, <1>2, <1>5
    <2> QED BY <1>3, <1>4, <1>5, <2>1 DEF Held, T
<1>6. ASSUME NEW k \in DOMAIN B, Marks(B[k]), Firm(B[k]), B[k].at = x,
             \A j \in DOMAIN B : Frees(B[j]) /\ B[j].at = x => j < k
      PROVE  Held(f, T, x)
    <2>1. Len(A) + k \in DOMAIN T /\ T[Len(A) + k] = B[k]
        BY <1>1
    <2>2. ASSUME NEW j \in DOMAIN T, Frees(T[j]), T[j].at = x PROVE j < Len(A) + k
        <3>1. PICK i \in DOMAIN B : j = Len(A) + i
            BY <1>1, <1>2, <2>2
        <3>2. i < k
            BY <1>1, <1>6, <2>2, <3>1
        <3> QED BY <1>1, <3>1, <3>2
    <2> QED BY <1>3, <1>4, <1>6, <2>1, <2>2 DEF Held
<1> QED BY <1>5, <1>6 DEF Held, T

\* A new file is created, and then, if it is to be truncated, its chain of one
\* cluster is reset.
LEMMA NewReady ==
    ASSUME IInv, call = Idle, NEW n \in Names, FreeClusters # <<>>, ~Exists(n),
           NEW c, NEW t, NEW Z, c.name = n, Doubted(dir, c, t) = OldTorn, OldTorn \subseteq t,
           Z = <<>> \/ (Z = Reset(<<FreeClusters[1]>>) /\ n \in t)
    PROVE  LET T == Create(n) \o Z IN
           /\ T \in Seq(DeviceWrites) /\ Whole(T) /\ Ready(fat, dir, open, c, t, T)
           /\ WillBeOwned(fat, dir, OldTorn, T)
           /\ DeviceWrite("dir", NewSlot, NewEntry(n), "stop") \in Range(T)
<1> DEFINE x == FreeClusters[1]
           D == DeviceWrite("dir", NewSlot, NewEntry(n), "stop")
           C == Create(n)
           T == C \o Z
<1>1. x \in Clusters /\ fat[x] = Free
    BY FreeShape
<1>2. /\ NewEntry(n) \in Entry
      /\ C \in Seq(DeviceWrites) /\ Whole(C) /\ D \in Range(C)
      /\ \E w \in Range(C) : Marks(w) /\ Firm(w) /\ w.at = x
      /\ \A w \in Range(C) :
           /\ ~Frees(w) /\ ~Clears(w)
           /\ Links(w) => fat[w.value] = Free /\ w.value # x /\ w.at # x
           /\ Enters(w) => w = D
    BY CreateShape
<1>3. D.value.cluster = x /\ D.value.name = n /\ D.at = NewSlot
    BY DEF DeviceWrite, NewEntry
<1>4. /\ Linked(fat) /\ fat[Root] # Free /\ Owned(fat, dir, OldTorn) /\ Entries(dir)
    BY AtStart
<1> HIDE DEF x, D, C
<1>5. /\ x # Root /\ \A y \in Clusters : fat[y] # x
      /\ \A s \in DOMAIN dir : dir[s].name \notin OldTorn => dir[s].cluster # x
    BY <1>1, <1>4 DEF Linked, Owned
<1>6. /\ Z \in Seq(DeviceWrites) /\ Whole(Z)
      /\ \A w \in Range(Z) : /\ ~Links(w) /\ ~Enters(w) /\ ~Clears(w)
                             /\ Frees(w) => w.at = x
      /\ \A R : (\A p \in R : /\ Links(p) => p.value # x
                              /\ Enters(p) => p.value.name = n) =>
                ReadyIn(fat, dir, open, c, t, Range(C), R, Z)
    <2>1. CASE Z = <<>>
        <3>1. <<>> \in Seq(DeviceWrites) /\ DOMAIN <<>> = {}
            OBVIOUS
        <3>2. Z \in Seq(DeviceWrites) /\ DOMAIN Z = {}
            BY <2>1, <3>1
        <3>3. Range(Z) = {}
            BY <3>2 DEF Range
        <3> QED BY <3>2, <3>3 DEF Whole, ReadyIn
    <2>2. CASE Z = Reset(<<x>>) /\ n \in t
        <3> DEFINE s == <<x>>
        <3>1. s \in Seq(Clusters) /\ s # <<>> /\ DOMAIN s = {1} /\ s[1] = x /\ Len(s) = 1
            BY <1>1
        <3> HIDE DEF s
        <3>2. Range(s) = {x}
            BY <3>1 DEF Range
        <3>3. Reset(s) \in Seq(DeviceWrites) /\ Whole(Reset(s))
            BY <3>1, ResetShape
        <3>4. \A w \in Range(Reset(s)) :
                /\ ~Links(w) /\ ~Enters(w) /\ ~Clears(w)
                /\ Frees(w) => w.at \in Range(s)
            BY <3>1, ResetWrites
        <3>5. ASSUME NEW R, \A p \in R : /\ Links(p) => p.value # x
                                         /\ Enters(p) => p.value.name = n
              PROVE  ReadyIn(fat, dir, open, c, t, Range(C), R, Reset(s))
            <4>1. s[1] # Root /\ \A y \in Clusters : fat[y] # s[1]
                BY <1>5, <3>1
            <4>2. \A i \in 1 .. Len(s) - 1 : s[i + 1] = fat[s[i]]
                BY <3>1
            <4>3. \A u \in DOMAIN dir :
                    dir[u].cluster = s[1] /\ dir[u].name \notin Doubted(dir, c, t) =>
                        \E p \in Range(C) : Clears(p) /\ p.at = u
                BY <1>5, <3>1
            <4>4. \A u \in DOMAIN dir : \A y \in Clusters :
                    fat[y] = dir[u].cluster => dir[u].name \in Doubted(dir, c, t)
                BY <1>4 DEF Owned
            <4>5. \A p \in Range(C) : Links(p) => p.at # s[1]
                BY <1>2, <3>1
            <4>6. \A p \in R :
                    /\ Links(p) => p.value \notin Range(s)
                    /\ Enters(p) /\ p.value.cluster \in Range(s) => p.value.name \in t
                BY <2>2, <3>2, <3>5
            <4> QED BY <1>4, <3>1, <4>1, <4>2, <4>3, <4>4, <4>5, <4>6, ResetReady
        <3>6. Z = Reset(s)
            BY <2>2 DEF s
        <3> QED BY <3>2, <3>3, <3>4, <3>5, <3>6
    <2> QED BY <2>1, <2>2 DEF x
<1>7. T \in Seq(DeviceWrites) /\ Range(T) = Range(C) \cup Range(Z)
    BY <1>2, <1>6, CatShape
<1>8. Whole(T)
    BY <1>2, <1>6, WholeCat
<1>9. Held(fat, T, x)
    <2>1. CASE Z = <<>>
        <3>1. \A w \in Range(T) : ~Frees(w) /\ (Links(w) => w.value # x)
            BY <1>2, <1>6, <1>7, <2>1
        <3>2. \E w \in Range(T) : Marks(w) /\ Firm(w) /\ w.at = x
            BY <1>2, <1>7
        <3> HIDE DEF T
        <3>3. Range(Z) = {}
            <4>1. DOMAIN <<>> = {}
                OBVIOUS
            <4> QED BY <2>1, <4>1 DEF Range
        <3>4. \E k \in DOMAIN T : Marks(T[k]) /\ Firm(T[k]) /\ T[k].at = x
            BY <3>2 DEF Range
        <3>5. \A k \in DOMAIN T : ~Frees(T[k]) /\ (Links(T[k]) => T[k].value # x)
            BY <3>1 DEF Range
        <3> QED BY <1>5, <3>4, <3>5 DEF Held
    <2>2. CASE Z = Reset(<<x>>)
        <3>1. <<x>> \in Seq(Clusters) /\ <<x>> # <<>> /\ <<x>>[1] = x
            BY <1>1
        <3>2. Held(fat, Z, x)
            BY <1>5, <2>2, <3>1, ResetHeld DEF Unled
        <3>3. \A w \in Range(C) : ~Frees(w) /\ (Links(w) => w.value # x)
            BY <1>2
        <3> QED BY <1>2, <1>6, <3>2, <3>3, HeldBehind
    <2> QED BY <2>1, <2>2 DEF x
<1> HIDE DEF T
<1>10. \A w \in Range(T) : /\ Links(w) => fat[w.value] = Free /\ w.value # x
                           /\ Frees(w) => w.at = x
                           /\ Enters(w) => w = D
    BY <1>2, <1>6, <1>7
<1>11. ReadyIn(fat, dir, open, c, t, {}, Range(T), C)
    <2>1. \A p \in Range(T) : Enters(p) => p.value.cluster = FreeClusters[1]
        BY <1>3, <1>10 DEF x
    <2>2. OldTorn \subseteq Doubted(dir, c, t)
        OBVIOUS
    <2> QED BY <2>1, <2>2, CreateReady DEF C
<1>12. ReadyIn(fat, dir, open, c, t, {} \cup Range(C), Range(T), Z)
    <2>1. {} \cup Range(C) = Range(C)
        OBVIOUS
    <2>2. \A p \in Range(T) : (Links(p) => p.value # x) /\ (Enters(p) => p.value.name = n)
        BY <1>3, <1>10
    <2> QED BY <2>1, <2>2, <1>6
<1>13. ReadyIn(fat, dir, open, c, t, {}, Range(T), T)
    BY <1>2, <1>6, <1>11, <1>12, ReadyCat DEF T
<1>14. Ready(fat, dir, open, c, t, T)
    BY <1>8, <1>13, WholeReady
<1>15. ASSUME NEW u \in DOMAIN dir, dir[u].name \notin OldTorn
       PROVE  Held(fat, T, dir[u].cluster)
    <2>1. \A w \in Range(T) : Frees(w) => w.at # dir[u].cluster
        BY <1>5, <1>10, <1>15
    <2>2. \A w \in Range(T) : Links(w) => fat[w.value] = Free
        BY <1>10
    <2> QED BY <1>15, <2>1, <2>2, OthersHeld
<1>16. WillBeOwned(fat, dir, OldTorn, T)
    <2>1. \A k \in DOMAIN T : Enters(T[k]) => T[k].value.cluster = x
        BY <1>3, <1>10 DEF Range
    <2> QED BY <1>4, <1>5, <1>9, <1>15, <2>1 DEF WillBeOwned, Owned
<1> QED BY <1>2, <1>7, <1>8, <1>14, <1>16 DEF T, C, D

LEMMA FullReady ==
    ASSUME IInv, call = Idle, NEW c, NEW t
    PROVE  /\ Full \in Seq(DeviceWrites) /\ Whole(Full)
           /\ Ready(fat, dir, open, c, t, Full)
           /\ WillBeOwned(fat, dir, OldTorn, Full)
           /\ \E k \in DOMAIN Full : Full[k].on = "nowhere"
<1>1. /\ Full \in Seq(DeviceWrites) /\ Whole(Full) /\ DOMAIN Full = {1}
      /\ Full[1].on = "nowhere"
    BY FullShape
<1> DEFINE T == Full
<1> HIDE DEF T
<1>2. T = Full
    BY DEF T
<1>3. ReadyIn(fat, dir, open, c, t, {}, Range(T), T)
    BY <1>1, <1>2, PlainWrites DEF ReadyIn
<1>4. Ready(fat, dir, open, c, t, T)
    BY <1>1, <1>2, <1>3, WholeReady
<1>5. \A k \in DOMAIN T : ~Enters(T[k]) /\ ~Links(T[k]) /\ ~Frees(T[k])
    BY <1>1, <1>2, PlainWrites
<1>6. \A w \in Range(T) : ~Links(w) /\ ~Frees(w)
    BY <1>5 DEF Range
<1>7. \A u \in DOMAIN dir : dir[u].name \notin OldTorn => Held(fat, T, dir[u].cluster)
    BY <1>6, OthersHeld
<1>8. WillBeOwned(fat, dir, OldTorn, T)
    <2>1. Owned(fat, dir, OldTorn)
        BY AtStart
    <2> QED BY <1>5, <1>7, <2>1 DEF WillBeOwned, Owned
<1> QED BY <1>1, <1>2, <1>4, <1>8

LEMMA OpenNewStep ==
    ASSUME IInv, NEW n \in Names, NEW trunc \in BOOLEAN, OpenNew(n, trunc)
    PROVE  IInv' /\ Whole(call'.todo)
<1> DEFINE x == IF FreeClusters = <<>> THEN Root ELSE FreeClusters[1]
           N == IF trunc THEN {n} ELSE {}
           t == OldTorn \cup N
           G == Allocated(Create(n))
           T == IF trunc /\ Create(n) # Full THEN Create(n) \o Reset(<<x>>) ELSE Create(n)
           c == [Idle EXCEPT !.op = "open", !.name = n, !.slot = NewSlot, !.cluster = x,
                             !.got = G, !.doubt = N, !.todo = T]
<1>1. ~Exists(n) /\ Start(c) /\ short' = short \ {n} /\ faults' = faults
    BY DEF OpenNew
<1>2. call = Idle /\ n \notin OldTorn
    BY <1>1 DEF Start, OldTorn
<1>3. NewSlot \in Nat /\ x \in Clusters
    BY <1>2, NewSlotShape, FreeShape, Constants
<1> HIDE DEF c
<1>4. T \in Seq(DeviceWrites) /\ Create(n) \in Seq(DeviceWrites)
      /\ \A d : d.name = n /\ Doubted(dir, d, t) = OldTorn =>
           /\ Whole(T) /\ Ready(fat, dir, open, d, t, T) /\ WillBeOwned(fat, dir, OldTorn, T)
           /\ \/ DeviceWrite("dir", NewSlot, NewEntry(n), "stop") \in Range(T)
                 /\ x = FreeClusters[1]
              \/ \E k \in DOMAIN T : T[k].on = "nowhere"
    <2>1. CASE FreeClusters = <<>>
        <3>1. T = Full /\ Create(n) = Full
            BY <2>1 DEF Create
        <3> HIDE DEF T, t, x
        <3> QED BY <3>1, <1>2, FullReady
    <2>2. CASE FreeClusters # <<>>
        <3> DEFINE Z == IF trunc THEN Reset(<<x>>) ELSE <<>>
        <3>1. Create(n) \in Seq(DeviceWrites) /\ Create(n) # Full
            BY <1>2, <2>2, CreateShape
        <3>2. x = FreeClusters[1] /\ (Z = <<>> \/ (Z = Reset(<<x>>) /\ n \in t))
            BY <2>2
        <3>3. T = Create(n) \o Z
            <4>1. Create(n) \o <<>> = Create(n)
                BY <3>1
            <4> QED BY <3>1, <4>1
        <3>4. OldTorn \subseteq t
            OBVIOUS
        <3> HIDE DEF T, t, x, Z
        <3>5. ASSUME NEW d, d.name = n, Doubted(dir, d, t) = OldTorn
              PROVE  /\ T \in Seq(DeviceWrites) /\ Whole(T) /\ Ready(fat, dir, open, d, t, T)
                     /\ WillBeOwned(fat, dir, OldTorn, T)
                     /\ DeviceWrite("dir", NewSlot, NewEntry(n), "stop") \in Range(T)
            BY <1>1, <1>2, <2>2, <3>2, <3>3, <3>4, <3>5, NewReady
        <3>6. T \in Seq(DeviceWrites)
            <4>1. CASE Z = <<>>
                BY <3>1, <3>3, <4>1
            <4>2. CASE Z = Reset(<<x>>)
                <5>1. <<x>> \in Seq(Clusters) /\ <<x>> # <<>>
                    BY <1>3
                <5>2. Z \in Seq(DeviceWrites)
                    BY <4>2, <5>1, ResetShape
                <5> QED BY <3>1, <3>3, <5>2
            <4> QED BY <3>2, <4>1, <4>2
        <3> QED BY <3>1, <3>2, <3>5, <3>6
    <2> QED BY <2>1, <2>2
<1>5. G \subseteq Clusters
    BY <1>4, AllocatedShape
<1>6. /\ c \in Calls /\ c.op = "open" /\ c.name = n /\ c.slot = NewSlot /\ c.cluster = x
      /\ c.doubt = N /\ c.todo = T /\ c.failed = FALSE
    <2>1. N \subseteq Names
        OBVIOUS
    <2> HIDE DEF T, G, x, N
    <2>2. 0 \in 0 .. MaxSize
        BY BoundAssumption
    <2> QED BY <1>3, <1>4, <1>5, <2>1, <2>2 DEF Idle, Calls, c
<1>7. Doubted(dir, c, t) = OldTorn
    BY <1>1, <1>2, <1>6 DEF Doubted, Exists
<1> HIDE DEF T, x
<1>8. /\ Whole(T) /\ Ready(fat, dir, open, c, t, T) /\ WillBeOwned(fat, dir, OldTorn, T)
      /\ \/ DeviceWrite("dir", NewSlot, NewEntry(n), "stop") \in Range(T)
            /\ x = FreeClusters[1]
         \/ \E k \in DOMAIN T : T[k].on = "nowhere"
    BY <1>4, <1>6, <1>7
<1>9. WillMatch(dir, c, T)
    <2>1. CASE \E k \in DOMAIN T : T[k].on = "nowhere"
        BY <1>3, <1>6, <2>1 DEF WillMatch
    <2>2. CASE /\ DeviceWrite("dir", NewSlot, NewEntry(n), "stop") \in Range(T)
               /\ x = FreeClusters[1]
        <3> DEFINE D == DeviceWrite("dir", NewSlot, NewEntry(n), "stop")
        <3>1. /\ Enters(D) /\ Firm(D) /\ D.at = NewSlot
              /\ D.value.name = n /\ D.value.cluster = x
            <4>1. NewEntry(n) # NoEntry
                BY NameAssumption DEF NewEntry, NoEntry
            <4> QED BY <2>2, <4>1 DEF DeviceWrite, NewEntry, Enters, Firm
        <3> HIDE DEF D
        <3>2. PICK k \in DOMAIN T : T[k] = D
            BY <2>2 DEF Range, D
        <3> QED BY <1>3, <1>6, <3>1, <3>2 DEF WillMatch
    <2> QED BY <1>8, <2>1, <2>2
<1>10. short' \subseteq Names /\ faults' \in 0 .. MaxFaults
    BY <1>1 DEF IInv, Types
<1>11. n \notin DOMAIN open
    BY <1>1, <1>2, AtStart DEF Matching, Exists
<1>12. OldTorn \cup c.doubt = t /\ \A m \in c.doubt : m \notin OldTorn /\ m \notin DOMAIN open
    BY <1>2, <1>6, <1>11
<1> QED BY <1>1, <1>2, <1>6, <1>8, <1>9, <1>10, <1>12, StartStep

-----------------------------------------------------------------------------
(* Writing *)

LEMMA WriteStep ==
    ASSUME IInv, NEW n \in DOMAIN open, NEW size \in 1 .. MaxSize, Write(n, size)
    PROVE  IInv' /\ Whole(call'.todo)
<1> DEFINE h == open[n]
           s == h.slot
           x == h.cluster
           t == OldTorn
           existing == IF h.size = 0 THEN 1 ELSE h.size
           needed == IF size > existing THEN size - existing ELSE 0
           e == [name |-> n, cluster |-> x, size |-> size]
           D == DeviceWrite("dir", s, e, "ignore")
           B == <<D>>
<1>1. short' = short
      /\ \E seen \in Seen(x) :
           LET todo == Extend(FreeClusters, LastOf(seen, existing), needed) IN
           /\ faults' = faults + ReadFaults(x, seen)
           /\ Start([Idle EXCEPT !.op = "write", !.name = n, !.slot = s,
                                 !.cluster = x, !.size = size,
                                 !.got = Allocated(todo), !.missed = seen # Chain(fat, x),
                                 !.todo = todo \o B])
    BY DEF Write
<1>2. PICK seen \in Seen(x) :
        LET todo == Extend(FreeClusters, LastOf(seen, existing), needed) IN
        /\ faults' = faults + ReadFaults(x, seen)
        /\ Start([Idle EXCEPT !.op = "write", !.name = n, !.slot = s,
                              !.cluster = x, !.size = size,
                              !.got = Allocated(todo), !.missed = seen # Chain(fat, x),
                                 !.todo = todo \o B])
    BY <1>1
<1> DEFINE a == LastOf(seen, existing)
           A == Extend(FreeClusters, a, needed)
           T == A \o B
           G == Allocated(A)
           c == [Idle EXCEPT !.op = "write", !.name = n, !.slot = s, !.cluster = x,
                             !.size = size, !.got = G, !.missed = seen # Chain(fat, x), !.todo = T]
<1>3. Start(c) /\ faults' = faults + ReadFaults(x, seen)
    BY <1>2
<1>4. call = Idle
    BY <1>3 DEF Start
<1>5. /\ Linked(fat) /\ fat[Root] # Free /\ Unled(fat, Root) /\ Root \in Clusters
      /\ Owned(fat, dir, OldTorn) /\ NamesApart(dir) /\ Matching(dir, open, torn)
      /\ Entries(dir) /\ DOMAIN open \subseteq Names /\ DOMAIN dir \subseteq 0 .. SlotCount - 1
    BY <1>4, AtStart
<1>6. /\ s \in DOMAIN dir /\ dir[s].name = n /\ dir[s].cluster = x /\ n \notin torn /\ n \in Names
      /\ s \in Nat
    BY <1>5 DEF Matching
<1>7. h.size \in 0 .. MaxSize /\ MaxSize \in Nat
    BY BoundAssumption DEF IInv, Types
<1>8. n \notin OldTorn /\ Exists(n)
    BY <1>6 DEF OldTorn, Exists
<1>9. /\ x \in Clusters /\ fat[x] # Free /\ x # Root /\ Unled(fat, x)
      /\ \A u \in DOMAIN dir : u # s /\ dir[u].name \notin OldTorn => dir[u].cluster # x
      /\ \A y \in Range(Chain(fat, x)) : y \in Clusters /\ fat[y] # Free
    <2>1. SlotOf(n) = s
        BY <1>5, <1>6, <1>8, SlotShape DEF NamesApart
    <2> HIDE DEF s
    <2> QED BY <1>4, <1>6, <1>8, <2>1, SoundShape
<1> HIDE DEF c, x, s
<1>10. /\ seen \in Seq(Clusters) /\ Range(seen) \subseteq Range(Chain(fat, x))
       /\ faults + ReadFaults(x, seen) \in 0 .. MaxFaults
    BY <1>9, SeenShape
<1>11. existing \in Nat \ {0} /\ needed \in Nat
    BY <1>7
<1> HIDE DEF existing, needed, h
<1>12. a = ENDOFCHAIN \/ a \in Range(seen)
    <2>1. DOMAIN seen = 1 .. Len(seen) /\ Len(seen) \in Nat
        BY <1>10, LenProperties
    <2>2. existing <= Len(seen) => existing \in DOMAIN seen
        BY <1>11, <2>1
    <2> QED BY <2>2 DEF LastOf, Range
<1> HIDE DEF a
<1>13. FreeList(FreeClusters) /\ a \notin Range(FreeClusters)
    BY <1>9, <1>10, <1>12, FreeShape, Constants DEF FreeList
<1>14. A \in Seq(DeviceWrites) /\ Whole(A) /\ Grows(Range(FreeClusters), a, A)
    BY <1>11, <1>13, ExtendShape DEF FreeList
<1>15. e \in Entry
    BY <1>6, <1>7, <1>9 DEF Entry
<1>16. e.name = n /\ e.cluster = x
    OBVIOUS
<1> HIDE DEF e
<1>17. /\ D \in DeviceWrites /\ Enters(D) /\ D.at = s /\ D.value = e
       /\ ~Clears(D) /\ ~Links(D) /\ ~Frees(D) /\ ~Marks(D) /\ D.on = "dir"
    BY <1>6, <1>15, EntryShape
<1> HIDE DEF D
<1>18. /\ B \in Seq(DeviceWrites) /\ Whole(B) /\ DOMAIN B = {1} /\ B[1] = D
       /\ Range(B) = {D} /\ Before(B, 1) = {}
    BY <1>17, OneWrite
<1>19. \A w \in Range(A) : /\ ~Frees(w) /\ ~Enters(w) /\ ~Clears(w)
                           /\ Links(w) => w.value \in Range(FreeClusters)
    BY <1>14, GrowsWrites
<1> HIDE DEF A, B
<1>20. T \in Seq(DeviceWrites) /\ Range(T) = Range(A) \cup Range(B)
    BY <1>14, <1>18, CatShape
<1>21. Whole(T)
    BY <1>14, <1>18, WholeCat
<1>22. G \subseteq Clusters
    BY <1>14, AllocatedShape
<1>23. /\ c \in Calls /\ c.op = "write" /\ c.name = n /\ c.slot = s /\ c.cluster = x
       /\ c.doubt = {} /\ c.todo = T /\ c.failed = FALSE
    <2> HIDE DEF T, G
    <2>1. size \in 0 .. MaxSize
        BY <1>7
    <2> QED BY <1>6, <1>9, <1>20, <1>22, <2>1 DEF Idle, Calls, c
<1> HIDE DEF T
<1>24. Doubted(dir, c, t) = t
    BY <1>23 DEF Doubted
<1>25. \A w \in Range(T) : /\ ~Frees(w)
                           /\ Links(w) => fat[w.value] = Free
                           /\ Enters(w) => w = D
    BY <1>13, <1>17, <1>18, <1>19, <1>20 DEF FreeList
<1>26. a \in Clusters => Beside(fat, dir, n, t, a)
    <2> SUFFICES ASSUME a \in Clusters PROVE Beside(fat, dir, n, t, a)
        OBVIOUS
    <2>1. a \in Range(Chain(fat, x))
        BY <1>10, <1>12, Constants
    <2>2. a \notin Range(Chain(fat, Root))
        BY <1>5, <1>9, <2>1, ChainsDisjoint
    <2>3. ASSUME NEW u \in DOMAIN dir, dir[u].name \notin {n} \cup t
          PROVE  a \notin Range(Chain(fat, dir[u].cluster))
        <3>1. dir[u].cluster \in Clusters /\ Unled(fat, dir[u].cluster)
            BY <1>5, <2>3 DEF Entries, Entry, Owned, Unled
        <3>2. dir[u].cluster # x
            BY <1>6, <1>9, <2>3
        <3> QED BY <1>5, <1>9, <2>1, <3>1, <3>2, ChainsDisjoint
    <2> QED BY <2>2, <2>3 DEF Beside
<1>27. ReadyIn(fat, dir, open, c, t, {}, Range(T), A)
    <2> DEFINE F == Range(FreeClusters)
    <2>1. F \subseteq Clusters /\ \A y \in F : fat[y] = Free
        BY <1>13 DEF FreeList
    <2>2. \A p \in {} : ~Links(p) /\ (p.on = "fat" => p.at \notin F)
        OBVIOUS
    <2>3. \A p \in Range(T) : Enters(p) => p.value.cluster \notin F
        BY <1>9, <1>16, <1>17, <1>25, <2>1
    <2>4. F # {} /\ a \in Clusters => Beside(fat, dir, c.name, t, a)
        BY <1>23, <1>26
    <2>5. Owned(fat, dir, Doubted(dir, c, t))
        BY <1>5, <1>24
    <2> HIDE DEF F, t
    <2>6. Grows(F, a, A)
        BY <1>14 DEF F
    <2> QED BY <1>5, <2>1, <2>2, <2>3, <2>4, <2>5, <2>6, GrowsReady
<1>28. ReadyIn(fat, dir, open, c, t, Range(A), Range(T), B)
    <2>1. CanEnter(fat, dir, c.name, t, Range(A), D)
        <3>1. D.value \in Entry /\ D.value.name = c.name
            BY <1>15, <1>16, <1>17, <1>23
        <3>2. D.at \in DOMAIN dir /\ dir[D.at].name = c.name /\ dir[D.at].cluster = D.value.cluster
            BY <1>6, <1>16, <1>17, <1>23
        <3>3. /\ D.value.cluster # Root /\ fat[D.value.cluster] # Free
              /\ \A y \in Clusters : fat[y] # D.value.cluster
              /\ \A u \in DOMAIN dir :
                   dir[u].name \notin t /\ dir[u].cluster = D.value.cluster => u = D.at
            BY <1>9, <1>16, <1>17 DEF Unled
        <3> QED BY <1>19, <3>1, <3>2, <3>3 DEF CanEnter
    <2>2. Safe(fat, dir, open, c, t, Range(A) \cup Before(B, 1), Range(T), D)
        BY <1>17, <1>18, <2>1 DEF Safe
    <2> QED BY <1>18, <2>2 DEF ReadyIn
<1>29. ReadyIn(fat, dir, open, c, t, {}, Range(T), T)
    <2>1. {} \cup Range(A) = Range(A)
        OBVIOUS
    <2> QED BY <2>1, <1>14, <1>18, <1>27, <1>28, ReadyCat DEF T
<1>30. Ready(fat, dir, open, c, t, T)
    BY <1>21, <1>29, WholeReady
<1>31. ASSUME NEW u \in DOMAIN dir, dir[u].name \notin OldTorn
       PROVE  Held(fat, T, dir[u].cluster)
    BY <1>4, <1>25, <1>31, OthersHeld
<1>32. WillBeOwned(fat, dir, OldTorn, T)
    <2>1. \A k \in DOMAIN T : Enters(T[k]) => T[k].value.cluster = x /\ T[k].at = s
        BY <1>16, <1>17, <1>25 DEF Range
    <2>2. Held(fat, T, x)
        BY <1>6, <1>8, <1>31
    <2> QED BY <1>5, <1>9, <1>31, <2>1, <2>2 DEF WillBeOwned, Owned
<1>33. WillMatch(dir, c, T)
    BY <1>6, <1>9, <1>23 DEF WillMatch
<1>34. short' \subseteq Names /\ faults' \in 0 .. MaxFaults
    BY <1>1, <1>3, <1>10 DEF IInv, Types
<1>35. OldTorn \cup c.doubt = t /\ \A m \in c.doubt : m \notin OldTorn /\ m \notin DOMAIN open
    BY <1>23
<1> QED BY <1>21, <1>3, <1>8, <1>23, <1>30, <1>32, <1>33, <1>34, <1>35, StartStep

-----------------------------------------------------------------------------
(* The invariant, and what follows from it *)

LEMMA InitHolds ==
    ASSUME Init
    PROVE  IInv
<1>1. /\ fat = [c \in Clusters |-> IF c = Root THEN ENDOFCHAIN ELSE Free]
      /\ bak = fat /\ dir = <<>> /\ open = <<>> /\ call = Idle /\ faults = 0
      /\ lost = {} /\ torn = {} /\ short = {}
    BY DEF Init
<1>2. DOMAIN dir = {} /\ DOMAIN open = {}
    BY <1>1
<1>3. Types
    BY <1>1, <1>2, BoundAssumption DEF Types, Values
<1>4. Linked(fat) /\ fat[Root] # Free
    BY <1>1, Constants DEF Linked
<1>5. Sane(fat, dir, open, Idle, torn)
    BY <1>2, <1>4 DEF Sane, Owned, NamesApart, Matching
<1>6. Owned(fat, dir, torn) /\ Matching(dir, open, torn)
    BY <1>2 DEF Owned, Matching
<1>7. /\ Ready(fat, dir, open, Idle, torn, <<>>) /\ Ending(fat, dir, Idle, torn, <<>>)
    BY <1>5, <1>6, IdleHolds
<1> QED BY <1>1, <1>3, <1>5, <1>7, IdleShape DEF IInv

LEMMA StutterStep ==
    ASSUME IInv, UNCHANGED vars
    PROVE  IInv'
<1>1. UNCHANGED <<fat, bak, dir, open, call, faults, lost, torn, short>>
    BY DEF vars
<1>2. Types'
    BY <1>1 DEF IInv, Types
<1> QED BY <1>1, <1>2 DEF IInv

\* The steps on which a call goes astray, and what it is from then on.
Strays ==
    \/ \E n \in DOMAIN open : WriteStrays(n)
    \/ DataStrays
    \/ EntryStrays
    \/ \E n \in Names : TornUsed(n)

Adrift == Astray /\ call.todo = <<>>

LEMMA StraysAdrift ==
    ASSUME Strays
    PROVE  Adrift' /\ UNCHANGED <<fat, bak, dir, open, lost, torn, short>>
<1>1. PICK n, s : GoAstray(n, s)
    BY DEF Strays, WriteStrays, DataStrays, EntryStrays, TornUsed
<1>2. call' = [Idle EXCEPT !.op = "astray", !.name = n, !.slot = s]
    BY <1>1 DEF GoAstray
<1>3. call'.op = "astray" /\ call'.todo = <<>>
    BY <1>2 DEF Idle
<1> QED BY <1>1, <1>3 DEF GoAstray, Adrift, Astray

\* Nothing is followed any further.
LEMMA AdriftStays ==
    ASSUME Adrift, [Next]_vars
    PROVE  UNCHANGED vars
<1>1. call # Idle /\ call.todo = <<>> /\ call.op # "write" /\ Astray
    BY DEF Adrift, Astray, Idle
<1>2. ASSUME NEW n \in Names, OpenExisting(n) \/ OpenTruncated(n) \/ Delete(n)
      PROVE  FALSE
    BY <1>1, <1>2 DEF OpenExisting, OpenTruncated, Delete, Start
<1>3. ASSUME NEW n \in Names, NEW trunc \in BOOLEAN, OpenNew(n, trunc)
      PROVE  FALSE
    BY <1>1, <1>3 DEF OpenNew, Start
<1>4. ASSUME NEW n \in DOMAIN open, NEW size \in 1 .. MaxSize, Write(n, size)
      PROVE  FALSE
    BY <1>1, <1>4 DEF Write, Start
<1>5. ASSUME NEW n \in Names, NEW m \in Names, Move(n, m) PROVE FALSE
    BY <1>1, <1>5 DEF Move, Start
<1>6. ASSUME NEW n \in DOMAIN open, Close(n) PROVE FALSE
    BY <1>1, <1>6 DEF Close
<1>7. CASE WriteLands \/ WriteFails \/ ReadFails
    BY <1>1, <1>7 DEF WriteLands, WriteFails, ReadFails
<1>8. CASE Return \/ Crash
    BY <1>1, <1>8 DEF Return, Crash
<1>9. CASE Strays
    BY <1>1, <1>9 DEF Strays, WriteStrays, DataStrays, EntryStrays, TornUsed
<1> QED BY <1>2, <1>3, <1>4, <1>5, <1>6, <1>7, <1>8, <1>9 DEF Next, Strays

LEMMA NotAdrift ==
    ASSUME IInv
    PROVE  ~Astray /\ ~Adrift
BY DEF IInv, Calls, Astray, Adrift

\* Nothing else writes the table.
LEMMA OnlyLandings ==
    ASSUME [Next]_vars
    PROVE  WriteLands \/ UNCHANGED <<fat, bak>>
<1>1. ASSUME NEW n \in Names, OpenExisting(n) \/ OpenTruncated(n) \/ Delete(n)
      PROVE  UNCHANGED <<fat, bak>>
    BY <1>1 DEF OpenExisting, OpenTruncated, Delete, Start
<1>2. ASSUME NEW n \in Names, NEW trunc \in BOOLEAN, OpenNew(n, trunc)
      PROVE  UNCHANGED <<fat, bak>>
    BY <1>2 DEF OpenNew, Start
<1>3. ASSUME NEW n \in DOMAIN open, NEW size \in 1 .. MaxSize, Write(n, size)
      PROVE  UNCHANGED <<fat, bak>>
    BY <1>3 DEF Write, Start
<1>4. ASSUME NEW n \in Names, NEW m \in Names, Move(n, m) PROVE UNCHANGED <<fat, bak>>
    BY <1>4 DEF Move, Start
<1>5. ASSUME NEW n \in DOMAIN open, Close(n) PROVE UNCHANGED <<fat, bak>>
    BY <1>5 DEF Close
<1>6. CASE WriteFails \/ ReadFails
    BY <1>6 DEF WriteFails, ReadFails
<1>7. CASE Return
    BY <1>7 DEF Return
<1>8. CASE Crash
    BY <1>8 DEF Crash
<1>9. CASE UNCHANGED vars
    BY <1>9 DEF vars
<1>10. CASE Strays
    BY <1>10, StraysAdrift
<1> QED BY <1>1, <1>2, <1>3, <1>4, <1>5, <1>6, <1>7, <1>8, <1>9, <1>10 DEF Next, Strays

\* Every other step keeps the invariant.
LEMMA StepHolds ==
    ASSUME IInv, [Next]_vars, ~Strays
    PROVE  IInv'
<1>1. ASSUME NEW n \in Names, OpenExisting(n) \/ OpenTruncated(n) \/ Delete(n)
      PROVE  IInv'
    BY <1>1, OpenExistingStep, OpenTruncatedStep, DeleteStep
<1>2. ASSUME NEW n \in Names, NEW trunc \in BOOLEAN, OpenNew(n, trunc) PROVE IInv'
    BY <1>2, OpenNewStep
<1>3. ASSUME NEW n \in DOMAIN open, NEW size \in 1 .. MaxSize, Write(n, size) PROVE IInv'
    BY <1>3, WriteStep
<1>4. ASSUME NEW n \in Names, NEW m \in Names, Move(n, m) PROVE IInv'
    BY <1>4, MoveStep
<1>5. ASSUME NEW n \in DOMAIN open, Close(n) PROVE IInv'
    BY <1>5, CloseStep
<1>6. CASE WriteLands
    BY <1>6, LandStep
<1>7. CASE WriteFails
    BY <1>7, WriteFailsStep
<1>8. CASE ReadFails
    BY <1>8, ReadFailsStep
<1>9. CASE Return
    BY <1>9, ReturnStep
<1>10. CASE Crash
    BY <1>10, CrashStep
<1>11. CASE UNCHANGED vars
    BY <1>11, StutterStep
<1> QED BY <1>1, <1>2, <1>3, <1>4, <1>5, <1>6, <1>7, <1>8, <1>9, <1>10, <1>11 DEF Next, Strays

\* The invariant holds in every state, or a call has gone astray.
THEOREM Inductive == Spec => [](IInv \/ Adrift)
<1>1. Init => IInv
    BY InitHolds
<1>2. (IInv \/ Adrift) /\ [Next]_vars => (IInv \/ Adrift)'
    <2>1. CASE Adrift /\ [Next]_vars
        BY <2>1, AdriftStays DEF Adrift, Astray, vars
    <2>2. CASE IInv /\ [Next]_vars /\ Strays
        BY <2>2, StraysAdrift
    <2>3. CASE IInv /\ [Next]_vars /\ ~Strays
        BY <2>3, StepHolds
    <2> QED BY <2>1, <2>2, <2>3
<1> QED BY <1>1, <1>2, PTL DEF Spec

\* The table and the directory hold what they are to hold: what a call writes
\* is never a mark where a file's first cluster is expected.
THEOREM TypeCorrect == Spec => []TypeOK
<1>1. IInv \/ Adrift => TypeOK
    BY DEF IInv, Adrift, Types, TypeOK
<1> QED BY <1>1, Inductive, PTL

\* Whatever write or read fails and wherever the machine stops, no cluster is
\* linked to from two places, and none leads into free space or to the root:
\* extendFAT32File and resetFAT32ClusterChain order their writes so.
THEOREM ChainsStayApart == Spec => []ChainsApart
<1>1. IInv \/ Adrift => ChainsApart
    BY DEF IInv, Adrift, Sane, Linked, ChainsApart
<1> QED BY <1>1, Inductive, PTL

\* The first cluster of an entry is allocated and belongs to that entry alone,
\* but for the files that a truncation or rename was cut short on.
THEOREM HeadsStayOwned == Spec => []HeadsOwned
<1>1. IInv => HeadsOwned
    <2>1. IInv => Owned(fat, dir, torn)
        BY DEF IInv, Sane, Owned, Doubted
    <2> QED BY <2>1 DEF Owned, HeadsOwned
<1>2. Adrift => HeadsOwned
    BY DEF Adrift, HeadsOwned
<1> QED BY <1>1, <1>2, Inductive, PTL

\* A call changes the chain of no file but its own, as long as no access to the
\* end mark succeeds (setNextCluster, getNextCluster).
THEOREM OthersStay == Spec => OthersUntouched
<1> DEFINE A == \/ Astray \/ Astray'
                \/ \A s \in DOMAIN dir :
                      \/ dir[s].name \in {call.name} \cup torn
                      \/ Chain(fat', dir[s].cluster) = Chain(fat, dir[s].cluster)
<1>1. (IInv \/ Adrift) /\ [Next]_vars => [A]_vars
    <2> SUFFICES ASSUME IInv \/ Adrift, [Next]_vars PROVE A \/ UNCHANGED vars
        OBVIOUS
    <2>1. CASE IInv /\ WriteLands
        BY <2>1, LandStep
    <2>2. CASE fat' = fat
        BY <2>2
    <2>3. CASE Adrift
        BY <2>3 DEF Adrift
    <2>4. WriteLands \/ fat' = fat
        BY OnlyLandings
    <2> QED BY <2>1, <2>2, <2>3, <2>4
<1> QED BY <1>1, Inductive, PTL DEF Spec, OthersUntouched

-----------------------------------------------------------------------------
(* The second copy of the table *)

LEMMA FewClusters ==
    ASSUME NEW A, NEW B, A \subseteq Clusters, B \subseteq Clusters, NEW x
    PROVE  /\ Cardinality(A) \in Nat
           /\ A \subseteq B => Cardinality(A) <= Cardinality(B)
           /\ A \subseteq B \cup {x} => Cardinality(A) <= Cardinality(B) + 1
<1>1. IsFiniteSet(A) /\ IsFiniteSet(B)
    BY Constants, FS_Subset
<1>2. Cardinality(A) \in Nat /\ Cardinality(B) \in Nat
    BY <1>1, FS_CardinalityType
<1>3. A \subseteq B => Cardinality(A) <= Cardinality(B)
    BY <1>1, FS_Subset
<1>4. IsFiniteSet(B \cup {x}) /\ Cardinality(B \cup {x}) <= Cardinality(B) + 1
    <2>1. Cardinality(B \cup {x}) = IF x \in B THEN Cardinality(B) ELSE Cardinality(B) + 1
        BY <1>1, FS_AddElement
    <2> QED BY <1>1, <1>2, <2>1, FS_AddElement
<1>5. A \subseteq B \cup {x} => Cardinality(A) <= Cardinality(B) + 1
    <2>1. A \subseteq B \cup {x} => Cardinality(A) <= Cardinality(B \cup {x})
        BY <1>4, FS_Subset
    <2>2. Cardinality(B \cup {x}) \in Nat
        BY <1>4, FS_CardinalityType
    <2> QED BY <1>2, <1>4, <2>1, <2>2
<1> QED BY <1>2, <1>3, <1>5

\* The clusters whose entry the second copy b does not have as the first, f.
Behind(f, b) == {c \in Clusters : f[c] # b[c]}

\* The write of the second copy comes next.
Mirrors(T) == 1 \in DOMAIN T /\ T[1].on = "bak"

\* The second copy is behind by no more than the failed writes q, and by the
\* write in progress.
Trailing(f, b, T, q) ==
    IF Mirrors(T) THEN
        IF f[T[1].at] = T[1].value THEN Cardinality(Behind(f, b) \ {T[1].at}) <= q
        ELSE Cardinality(Behind(f, b) \ {T[1].at}) + 1 <= q
    ELSE Cardinality(Behind(f, b)) <= q

\* What the invariant says, when one write more has failed.
LEMMA OneMore ==
    ASSUME NEW f, NEW b, NEW T, NEW q \in Nat, Trailing(f, b, T, q)
    PROVE  /\ Cardinality(Behind(f, b)) <= q + 1
           /\ ~Mirrors(T) => Cardinality(Behind(f, b)) <= q
<1> DEFINE A == Behind(f, b)
           B == A \ {T[1].at}
<1>1. A \subseteq Clusters /\ B \subseteq Clusters /\ A \subseteq B \cup {T[1].at}
    BY DEF Behind
<1> HIDE DEF A, B
<1>2. /\ Cardinality(A) \in Nat /\ Cardinality(B) \in Nat
      /\ Cardinality(A) <= Cardinality(B) + 1
    BY <1>1, FewClusters
<1>3. CASE Mirrors(T)
    BY <1>2, <1>3 DEF Trailing, A, B
<1>4. CASE ~Mirrors(T)
    BY <1>2, <1>4 DEF Trailing, A, B
<1> QED BY <1>3, <1>4 DEF A

LEMMA NothingMirrors ==
    ASSUME NEW f, NEW b, NEW T, NEW q, ~Mirrors(T), Cardinality(Behind(f, b)) <= q
    PROVE  Trailing(f, b, T, q)
BY DEF Trailing

\* In a call's writes no second copy comes twice.
LEMMA MirrorsOnce ==
    ASSUME NEW T, NEW U, Follows(T, U), Paired(T)
    PROVE  /\ T[1].on # "fat" => ~Mirrors(U)
           /\ T[1].on = "fat" => Mirrors(U) /\ U[1].at = T[1].at /\ U[1].value = T[1].value
<1>1. 1 \in DOMAIN T
    BY EarlierWrites
<1>2. 1 \in DOMAIN U => 2 \in DOMAIN T /\ U[1] = T[2]
    <2>1. \A k \in DOMAIN U : k + 1 \in DOMAIN T /\ U[k] = T[k + 1]
        BY DEF Follows
    <2> QED BY <2>1
<1>3. 2 \in DOMAIN T => 1 \in DOMAIN U
    <2>1. \A j \in DOMAIN T : j # 1 => j - 1 \in DOMAIN U
        BY DEF Follows
    <2> QED BY <2>1
<1>4. 2 \in DOMAIN T /\ T[2].on = "bak" => T[1].on = "fat"
    <2>1. \A k \in DOMAIN T : T[k].on = "bak" /\ k # 1 => T[k - 1].on = "fat"
        BY DEF Paired
    <2>2. 2 - 1 = 1
        OBVIOUS
    <2> QED BY <2>1, <2>2
<1>5. T[1].on = "fat" =>
        2 \in DOMAIN T /\ T[2].on = "bak" /\ T[2].at = T[1].at /\ T[2].value = T[1].value
    <2>1. 1 + 1 = 2
        OBVIOUS
    <2> QED BY <1>1, <2>1 DEF Paired
<1> QED BY <1>2, <1>3, <1>4, <1>5 DEF Mirrors

LEMMA WholeMirrors ==
    ASSUME NEW T, Whole(T)
    PROVE  ~Mirrors(T)
BY DEF Whole, Mirrors

LEMMA LandTrails ==
    ASSUME IInv, WriteLands, Trailing(fat, bak, call.todo, faults)
    PROVE  Trailing(fat', bak', call'.todo, faults')
<1> DEFINE T == call.todo
           U == Tail(T)
           h == T[1]
<1>1. Types /\ call \in Calls /\ Paired(T)
    BY DEF IInv, Ready
<1>2. T # <<>>
    BY DEF WriteLands
<1>3. Follows(T, U) /\ Head(T) = h /\ h \in DeviceWrites
    BY <1>1, <1>2, TypeShape
<1>4. /\ fat' = IF h.on = "fat" THEN [fat EXCEPT ![h.at] = h.value] ELSE fat
      /\ bak' = IF h.on = "bak" THEN Mirrored(h.at, h.value) ELSE bak
      /\ faults' = faults
    BY <1>3 DEF WriteLands
<1>5. call'.todo = U
    <2>1. call' = [call EXCEPT !.todo = U]
        BY DEF WriteLands
    <2> HIDE DEF U
    <2> QED BY <1>1, <2>1 DEF Calls
<1>6. fat \in [Clusters -> Values] /\ bak \in [Clusters -> Values] /\ faults \in Nat
    BY <1>1, BoundAssumption DEF Types
<1>7. /\ h.on # "fat" => ~Mirrors(U)
      /\ h.on = "fat" => Mirrors(U) /\ U[1].at = h.at /\ U[1].value = h.value
    BY <1>1, <1>3, MirrorsOnce
<1>8. h.on \in {"fat", "bak"} => h.at \in Clusters
    BY <1>3, WriteShape
<1>9. 1 \in DOMAIN T
    BY <1>3, EarlierWrites
<1> HIDE DEF U, h
<1>10. Mirrors(T) <=> h.on = "bak"
    BY <1>9 DEF Mirrors, h
<1> DEFINE A == Behind(fat, bak)
           C == Behind(fat', bak')
<1>11. A \subseteq Clusters /\ C \subseteq Clusters
    BY DEF Behind
<1>12. CASE h.on = "fat"
    <2>1. C \ {h.at} \subseteq A
        BY <1>4, <1>6, <1>12 DEF Behind
    <2>2. fat'[h.at] = h.value
        BY <1>4, <1>6, <1>8, <1>12
    <2>3. Cardinality(A) <= faults
        BY <1>10, <1>12 DEF Trailing
    <2>4. /\ Cardinality(C \ {h.at}) <= Cardinality(A)
          /\ Cardinality(A) \in Nat /\ Cardinality(C \ {h.at}) \in Nat
        <3>1. C \ {h.at} \subseteq Clusters
            BY <1>11
        <3> HIDE DEF A, C
        <3> QED BY <1>11, <2>1, <3>1, FewClusters
    <2>5. Cardinality(C \ {h.at}) <= faults'
        BY <1>4, <1>6, <2>3, <2>4
    <2> QED BY <1>5, <1>7, <1>12, <2>2, <2>5 DEF Trailing
<1>13. CASE h.on = "bak"
    <2> DEFINE B == A \ {h.at}
    <2>1. fat' = fat /\ \A d \in Clusters :
            bak'[d] = IF d \div PerSector # h.at \div PerSector THEN bak[d]
                      ELSE IF d = h.at THEN h.value ELSE fat[d]
        BY <1>4, <1>13 DEF Mirrored
    <2>2. C \subseteq B \cup {h.at} /\ (fat[h.at] = h.value => C \subseteq B)
        <3>1. \A d \in C : d = h.at \/ d \in B
            BY <2>1 DEF Behind
        <3>2. fat[h.at] = h.value => h.at \notin C
            <4>1. bak'[h.at] = h.value
                BY <1>8, <1>13, <2>1
            <4> QED BY <2>1, <4>1 DEF Behind
        <3> QED BY <3>1, <3>2
    <2>3. B \subseteq Clusters
        BY <1>11
    <2> HIDE DEF A, B, C
    <2>4. /\ Cardinality(B) \in Nat /\ Cardinality(C) \in Nat
          /\ Cardinality(C) <= Cardinality(B) + 1
          /\ fat[h.at] = h.value => Cardinality(C) <= Cardinality(B)
        BY <1>11, <2>2, <2>3, FewClusters
    <2>5. IF fat[h.at] = h.value THEN Cardinality(B) <= faults ELSE Cardinality(B) + 1 <= faults
        BY <1>10, <1>13 DEF Trailing, A, B, h
    <2>6. Cardinality(C) <= faults'
        BY <1>4, <1>6, <2>4, <2>5
    <2> QED BY <1>5, <1>7, <1>13, <2>6, NothingMirrors DEF C
<1>14. CASE h.on \notin {"fat", "bak"}
    <2>1. fat' = fat /\ bak' = bak
        BY <1>4, <1>14
    <2>2. Cardinality(A) <= faults'
        BY <1>4, <1>10, <1>14 DEF Trailing
    <2> QED BY <1>5, <1>7, <1>14, <2>1, <2>2, NothingMirrors
<1> QED BY <1>12, <1>13, <1>14

\* A write or read fails.
LEMMA FailTrails ==
    ASSUME IInv, WriteFails \/ ReadFails, Trailing(fat, bak, call.todo, faults)
    PROVE  Trailing(fat', bak', call'.todo, faults')
<1> DEFINE T == call.todo
           U == Tail(T)
           h == T[1]
<1>1. Types /\ call \in Calls /\ Paired(T)
    BY DEF IInv, Ready
<1>2. T # <<>> /\ fat' = fat /\ bak' = bak
    BY DEF WriteFails, ReadFails
<1>3. Follows(T, U) /\ Head(T) = h /\ h \in DeviceWrites /\ U \in Seq(DeviceWrites)
    BY <1>1, <1>2, TypeShape
<1>4. faults \in Nat /\ faults' \in Nat
      /\ (h.on \in {"fat", "bak"} => faults' = faults + 1) /\ faults' >= faults
    <2>1. faults \in Nat
        BY <1>1, BoundAssumption DEF Types
    <2>2. CASE ReadFails
        BY <2>1, <2>2 DEF ReadFails
    <2>3. CASE WriteFails
        <3>1. IF Refused(h) THEN faults' = faults ELSE faults' = faults + 1
            BY <1>3, <2>3 DEF WriteFails
        <3>2. h.on \in {"fat", "bak"} => ~Refused(h)
            BY DEF Refused
        <3> QED BY <2>1, <3>1, <3>2
    <2> QED BY <2>2, <2>3
<1>5. /\ h.on # "fat" => ~Mirrors(U)
      /\ h.on = "fat" => Mirrors(U) /\ U[1].at = h.at /\ U[1].value = h.value
    BY <1>1, <1>3, MirrorsOnce
<1>6. 1 \in DOMAIN T
    BY <1>3, EarlierWrites
<1> DEFINE V == call'.todo
<1>7. V = U \/ ~Mirrors(V) \/ (h.on = "fat" /\ V = <<T[2]>>)
    <2>1. call.todo \in Seq(DeviceWrites)
        BY <1>1, CallShape
    <2>2. CASE WriteFails
        <3>1. V = AfterFailure(T)
            BY <1>1, <2>2 DEF WriteFails, Calls
        <3>2. CASE h.onFail = "ignore"
            BY <1>3, <3>1, <3>2 DEF AfterFailure
        <3>3. CASE h.onFail = "stop"
            <4>1. V = <<>>
                BY <1>3, <3>1, <3>3 DEF AfterFailure
            <4>2. DOMAIN <<>> = {}
                OBVIOUS
            <4> HIDE DEF V
            <4> QED BY <4>1, <4>2 DEF Mirrors
        <3>4. CASE h.onFail = "finish"
            <4>1. V = <<T[2]>>
                BY <1>3, <3>1, <3>4 DEF AfterFailure
            <4>2. h.on = "fat"
                BY <1>3, <3>4 DEF DeviceWrites
            <4> QED BY <4>1, <4>2
        <3>5. h.onFail \in {"ignore", "stop", "finish"}
            BY <1>3 DEF DeviceWrites
        <3> QED BY <3>2, <3>3, <3>4, <3>5
    <2>3. CASE ReadFails
        <3>1. h.on = "fat" /\ V = IF h.onFail = "ignore" THEN Tail(U) ELSE <<>>
            BY <1>1, <1>3, <2>3 DEF ReadFails, Calls
        <3>2. CASE V = <<>>
            <4>1. DOMAIN <<>> = {}
                OBVIOUS
            <4> HIDE DEF V
            <4> QED BY <3>2, <4>1 DEF Mirrors
        <3>3. CASE V = Tail(U)
            <4>1. Mirrors(U)
                BY <1>5, <3>1
            <4>2. U # <<>>
                <5>1. DOMAIN <<>> = {}
                    OBVIOUS
                <5> HIDE DEF U
                <5> QED BY <4>1, <5>1 DEF Mirrors
            <4>3. Follows(U, Tail(U))
                BY <1>3, <4>2, TailFollows
            <4>4. ~Mirrors(Tail(U))
                <5> SUFFICES ASSUME Mirrors(Tail(U)) PROVE FALSE
                    OBVIOUS
                <5> DEFINE X == Tail(U)
                <5> HIDE DEF X, U
                <5>1. 1 \in DOMAIN X /\ X[1].on = "bak"
                    BY DEF Mirrors, X
                <5>2. 2 \in DOMAIN U /\ U[2] = X[1]
                    <6>1. \A k \in DOMAIN X : k + 1 \in DOMAIN U /\ X[k] = U[k + 1]
                        BY <4>3 DEF Follows, X
                    <6> QED BY <5>1, <6>1
                <5>3. 3 \in DOMAIN T /\ T[3] = U[2] /\ 2 \in DOMAIN T /\ T[2] = U[1]
                    <6>1. \A k \in DOMAIN U : k + 1 \in DOMAIN T /\ U[k] = T[k + 1]
                        BY <1>3 DEF Follows
                    <6> QED BY <4>1, <5>2, <6>1 DEF Mirrors
                <5>4. T[2].on = "fat"
                    <6>1. \A k \in DOMAIN T : T[k].on = "bak" /\ k # 1 => T[k - 1].on = "fat"
                        BY <1>1 DEF Paired
                    <6>2. 3 - 1 = 2
                        OBVIOUS
                    <6> QED BY <5>1, <5>2, <5>3, <6>1, <6>2
                <5> QED BY <4>1, <5>3, <5>4 DEF Mirrors
            <4> QED BY <3>3, <4>4
        <3> QED BY <3>1, <3>2, <3>3
    <2> QED BY <2>2, <2>3
<1>8. h.on = "fat" => U[1] = T[2]
    <2>1. 1 \in DOMAIN U => U[1] = T[1 + 1]
        BY <1>3 DEF Follows
    <2> QED BY <1>5, <2>1 DEF Mirrors
<1> HIDE DEF U, V, h
<1> DEFINE A == Behind(fat, bak)
<1>9. Mirrors(T) <=> h.on = "bak"
    BY <1>6 DEF Mirrors, h
<1>10. Cardinality(A) <= faults + 1 /\ (h.on # "bak" => Cardinality(A) <= faults)
    BY <1>4, <1>9, OneMore
<1>11. Cardinality(A) \in Nat /\ Cardinality(A \ {h.at}) \in Nat
       /\ Cardinality(A \ {h.at}) <= Cardinality(A)
    <2>1. A \subseteq Clusters /\ A \ {h.at} \subseteq Clusters /\ A \ {h.at} \subseteq A
        BY DEF Behind
    <2> HIDE DEF A
    <2> QED BY <2>1, FewClusters
<1>12. CASE ~Mirrors(V)
    <2>1. Cardinality(A) <= faults'
        <3>1. CASE h.on = "bak"
            BY <1>4, <1>10, <1>11, <3>1
        <3>2. CASE h.on # "bak"
            BY <1>4, <1>10, <1>11, <3>2
        <3> QED BY <3>1, <3>2
    <2> QED BY <1>2, <1>12, <2>1, NothingMirrors DEF V
<1>13. CASE Mirrors(V)
    <2>1. h.on = "fat" /\ V[1] = T[2]
        <3>1. V = U => h.on = "fat"
            BY <1>5, <1>13
        <3>2. h.on = "fat" /\ V = U => V[1] = T[2]
            BY <1>8
        <3> QED BY <1>7, <1>13, <3>1, <3>2
    <2>2. V[1].at = h.at
        BY <1>5, <1>8, <2>1
    <2>3. Cardinality(A \ {h.at}) + 1 <= faults'
        BY <1>4, <1>10, <1>11, <2>1
    <2>4. Cardinality(A \ {h.at}) <= faults'
        BY <1>4, <1>11, <2>3
    <2> QED BY <1>2, <1>13, <2>2, <2>3, <2>4 DEF Trailing, V
<1> QED BY <1>12, <1>13

\* A call starts, ends, or is cut short.
LEMMA RestTrails ==
    ASSUME IInv, [Next]_vars, ~WriteLands, ~WriteFails, ~ReadFails, ~Strays,
           Trailing(fat, bak, call.todo, faults)
    PROVE  Trailing(fat', bak', call'.todo, faults')
<1>1. fat' = fat /\ bak' = bak
    BY OnlyLandings
<1>2. faults \in Nat
    BY BoundAssumption DEF IInv, Types
<1>3. ~Mirrors(<<>>)
    <2>1. DOMAIN <<>> = {}
        OBVIOUS
    <2> QED BY <2>1 DEF Mirrors
<1> DEFINE k == Cardinality(Behind(fat, bak))
<1>4. k \in Nat
    <2>1. Behind(fat, bak) \subseteq Clusters
        BY DEF Behind
    <2> QED BY <2>1, FewClusters
<1>5. k <= faults + 1 /\ (call.todo = <<>> => k <= faults)
    BY <1>2, <1>3, OneMore
<1>6. ASSUME call.todo = <<>>, Mirrors(call'.todo) => FALSE, faults' \in Nat, faults <= faults'
      PROVE  Trailing(fat', bak', call'.todo, faults')
    <2>1. k <= faults'
        BY <1>2, <1>4, <1>5, <1>6
    <2> QED BY <1>1, <1>6, <2>1, NothingMirrors
<1>7. call = Idle => call.todo = <<>>
    BY IdleShape
<1>8. \A c, seen : ReadFaults(c, seen) \in {0, 1}
    BY DEF ReadFaults
<1>9. ASSUME NEW n \in Names, OpenTruncated(n) \/ Delete(n)
      PROVE  Trailing(fat', bak', call'.todo, faults')
    <2>1. Whole(call'.todo)
        BY <1>9, OpenTruncatedStep, DeleteStep
    <2>2. call = Idle /\ \E c, seen : faults' = faults + ReadFaults(c, seen)
        BY <1>9 DEF OpenTruncated, Delete, Start
    <2> QED BY <1>2, <1>6, <1>7, <1>8, <2>1, <2>2, WholeMirrors
<1>10. ASSUME NEW n \in DOMAIN open, NEW size \in 1 .. MaxSize, Write(n, size)
       PROVE  Trailing(fat', bak', call'.todo, faults')
    <2>1. Whole(call'.todo)
        BY <1>10, WriteStep
    <2>2. call = Idle /\ \E c, seen : faults' = faults + ReadFaults(c, seen)
        BY <1>10 DEF Write, Start
    <2> QED BY <1>2, <1>6, <1>7, <1>8, <2>1, <2>2, WholeMirrors
<1>11. ASSUME NEW n \in Names, NEW trunc \in BOOLEAN, OpenNew(n, trunc)
       PROVE  Trailing(fat', bak', call'.todo, faults')
    <2>1. Whole(call'.todo)
        BY <1>11, OpenNewStep
    <2>2. call = Idle /\ faults' = faults
        BY <1>11 DEF OpenNew, Start
    <2> QED BY <1>2, <1>6, <1>7, <2>1, <2>2, WholeMirrors
<1>12. ASSUME NEW n \in Names, NEW m \in Names, Move(n, m)
       PROVE  Trailing(fat', bak', call'.todo, faults')
    <2>1. Whole(call'.todo)
        BY <1>12, MoveStep
    <2>2. call = Idle /\ faults' = faults
        BY <1>12 DEF Move, Start
    <2> QED BY <1>2, <1>6, <1>7, <2>1, <2>2, WholeMirrors
<1>13. ASSUME call' = call, faults' = faults
       PROVE  Trailing(fat', bak', call'.todo, faults')
    BY <1>1, <1>13
<1>14. ASSUME NEW n \in Names, OpenExisting(n)
       PROVE  Trailing(fat', bak', call'.todo, faults')
    BY <1>13, <1>14 DEF OpenExisting
<1>15. ASSUME NEW n \in DOMAIN open, Close(n)
       PROVE  Trailing(fat', bak', call'.todo, faults')
    BY <1>13, <1>15 DEF Close
<1>16. CASE Return
    <2>1. call.todo = <<>> /\ call' = Idle /\ faults' = faults
        BY <1>16 DEF Return
    <2> QED BY <1>2, <1>3, <1>6, <2>1, IdleShape
<1>17. CASE Crash
    <2>1. call' = Idle /\ faults' = faults + 1
        BY <1>17 DEF Crash
    <2>2. ~Mirrors(call'.todo) /\ k <= faults'
        BY <1>3, <1>5, <2>1, IdleShape
    <2> QED BY <1>1, <2>2, NothingMirrors
<1>18. CASE UNCHANGED vars
    BY <1>13, <1>18 DEF vars
<1> QED BY <1>9, <1>10, <1>11, <1>12, <1>14, <1>15, <1>16, <1>17, <1>18 DEF Next, Strays

\* The two copies of the table never drift apart by more than the write in
\* progress and the writes that failed.
THEOREM MirrorsStayClose == Spec => []MirrorsClose
<1> DEFINE Near == Trailing(fat, bak, call.todo, faults)
<1>1. Init => Near
    <2> SUFFICES ASSUME Init PROVE Near
        OBVIOUS
    <2>1. bak = fat /\ call.todo = <<>> /\ faults = 0
        BY IdleShape DEF Init
    <2>2. Behind(fat, bak) = {} /\ DOMAIN <<>> = {}
        BY <2>1 DEF Behind
    <2>3. Cardinality(Behind(fat, bak)) <= faults
        BY <2>1, <2>2, FS_EmptySet
    <2>4. ~Mirrors(call.todo)
        BY <2>1, <2>2 DEF Mirrors
    <2> QED BY <2>3, <2>4, NothingMirrors
<1>2. IInv /\ [Next]_vars /\ Near => Near' \/ Adrift'
    <2> SUFFICES ASSUME IInv, [Next]_vars, Near, ~Strays
                 PROVE  Trailing(fat', bak', call'.todo, faults')
        BY StraysAdrift
    <2> QED BY LandTrails, FailTrails, RestTrails
<1>3. Adrift /\ [Next]_vars => Adrift'
    BY AdriftStays DEF Adrift, Astray, vars
<1>4. Adrift => MirrorsClose
    BY DEF Adrift, MirrorsClose
<1>5. IInv /\ Near => MirrorsClose
    <2> SUFFICES ASSUME IInv, Near PROVE MirrorsClose
        OBVIOUS
    <2>1. faults \in Nat
        BY BoundAssumption DEF IInv, Types
    <2> QED BY <2>1, OneMore DEF MirrorsClose, Behind
<1> HIDE DEF Near
<1> QED BY <1>1, <1>2, <1>3, <1>4, <1>5, Inductive, PTL DEF Spec
=============================================================================
