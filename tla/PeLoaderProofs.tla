---------------------------- MODULE PeLoaderProofs ----------------------------
(***************************************************************************)
(* The proofs about the PE loader, for every set of files, every directory *)
(* and any number of modules and of failed allocations: its structures     *)
(* keep their types, and the four safety properties of PeLoader hold.  The *)
(* four follow from one inductive invariant, IInv.                         *)
(*                                                                         *)
(* The lemmas Core... say what one change of the state does to the part of *)
(* the invariant that is about the disk, the modules, the cache, the stack *)
(* and the client; the lemmas ...Keeps put them together for the actions.  *)
(***************************************************************************)
EXTENDS PeLoader, SequenceTheorems, FiniteSetTheorems, WellFoundedInduction, TLAPS

\* A set of natural numbers has a least one.
LEMMA LeastOfNats ==
    ASSUME NEW s, s \subseteq Nat, s # {}
    PROVE  \E i \in s : \A j \in s : i <= j
<1>1. \E i \in s : \A j \in s : ~(<<j, i>> \in OpToRel(<, Nat))
    BY NatLessThanWellFounded, WFMin
<1>2. PICK i \in s : \A j \in s : ~(<<j, i>> \in OpToRel(<, Nat))
    BY <1>1
<1>3. \A j \in s : ~(j < i)
    BY <1>2 DEF OpToRel
<1> QED BY <1>3

\* What a call in progress, and the rest of the stack below it, look like.
LEMMA TopType ==
    ASSUME TypeOK, stack # <<>>
    PROVE  /\ Len(stack) \in Nat \ {0}
           /\ Top \in Frame /\ Self \in Ids /\ Top.at \in Nat \ {0}
           /\ Rest \in Seq(Frame)
<1>1. Len(stack) \in Nat \ {0} /\ stack \in Seq(Frame)
    BY EmptySeq DEF TypeOK
<1>2. stack[Len(stack)] \in Frame
    BY <1>1, ElementOfSeq
<1>3. Rest \in Seq(Frame)
    BY <1>1 DEF Rest
<1> QED BY <1>1, <1>2, <1>3 DEF Top, Self, Frame

LEMMA UnloadType ==
    ASSUME NEW m \in Ids PROVE Unload(m) \in Frame
BY DEF Unload, Frame

LEMMA NewType ==
    ASSUME NEW n \in Names PROVE New(n) \in Module
BY DEF New, Module

\* The call on top goes on to its next import or reference.
LEMMA NextType ==
    ASSUME TypeOK, stack # <<>>
    PROVE  [stack EXCEPT ![Len(stack)].at = @ + 1] \in Seq(Frame)
<1>1. stack \in Seq(Frame) /\ Len(stack) \in 1..Len(stack)
    BY TopType DEF TypeOK
<1>2. [stack[Len(stack)] EXCEPT !.at = @ + 1] \in Frame
    BY TopType DEF Top, Frame
<1>3. [stack EXCEPT ![Len(stack)] = [stack[Len(stack)] EXCEPT !.at = @ + 1]] \in Seq(Frame)
    BY <1>1, <1>2, ExceptSeq
<1> QED BY <1>3

\* What the imports are, and the libraries of a bucket.
LEMMA ImportsType ==
    ASSUME TypeOK, stack # <<>>
    PROVE  /\ module[Self].name \in Names
           /\ disk[module[Self].name] \in Image
           /\ Imports \in Seq(Import)
<1>1. module[Self] \in Module
    BY TopType DEF TypeOK
<1>2. module[Self].name \in Names
    BY <1>1 DEF Module
<1>3. disk[module[Self].name] \in Image
    BY <1>2, DiskAssumption DEF TypeOK
<1> QED BY <1>2, <1>3 DEF Imports, Image

LEMMA WantedType ==
    ASSUME TypeOK, Importing PROVE Wanted.dll \in Names
<1>1. Imports \in Seq(Import) /\ Top.at \in 1..Len(Imports)
    BY ImportsType, TopType DEF Importing, Resolving
<1>2. Imports[Top.at] \in Import
    BY <1>1, ElementOfSeq
<1> QED BY <1>2 DEF Wanted, Import

LEMMA FoundType ==
    ASSUME TypeOK, NEW n \in Names PROVE Found(n) \subseteq Ids
<1>1. cache[BucketOf[n]] \in Seq(Ids)
    BY BucketAssumption DEF TypeOK
<1> QED BY <1>1 DEF Found, Cached, CachedIn

LEMMA UncachedType ==
    ASSUME TypeOK, NEW l \in Ids PROVE Uncached(l) \in [Buckets -> Seq(Ids)]
<1> DEFINE b == BucketOf[module[l].name]
           s == CachedIn(b, module[l].name)
           k == CHOOSE i \in s : \A j \in s : i <= j
           to == IF s = {} THEN cache[b]
                 ELSE SubSeq(cache[b], 1, k - 1) \o SubSeq(cache[b], k + 1, Len(cache[b]))
<1>1. b \in Buckets
    BY BucketAssumption DEF TypeOK, Module
<1>2. cache[b] \in Seq(Ids)
    BY <1>1 DEF TypeOK
<1>3. to \in Seq(Ids)
    <2>1. CASE s = {}
        BY <2>1, <1>2
    <2>2. CASE s # {}
        <3>1. s \subseteq 1..Len(cache[b]) /\ s # {}
            BY <1>2, <2>2 DEF CachedIn
        <3>2. \E i \in s : \A j \in s : i <= j
            BY <3>1, LeastOfNats, <1>2
        <3>3. k \in 1..Len(cache[b])
            BY <3>1, <3>2
        <3>4. SubSeq(cache[b], 1, k - 1) \in Seq(Ids)
            <4>1. \A i \in 1..(k - 1) : cache[b][i] \in Ids
                BY <1>2, <3>3, ElementOfSeq
            <4> QED BY <3>3, <4>1, <1>2, SubSeqProperties
        <3>5. SubSeq(cache[b], k + 1, Len(cache[b])) \in Seq(Ids)
            <4>1. \A i \in (k + 1)..Len(cache[b]) : cache[b][i] \in Ids
                BY <1>2, <3>3, ElementOfSeq
            <4> QED BY <3>3, <4>1, <1>2, SubSeqProperties
        <3> QED BY <2>2, <3>4, <3>5, ConcatProperties
    <2> QED BY <2>1, <2>2
<1>4. Uncached(l) = [cache EXCEPT ![b] = to]
    BY DEF Uncached
<1> QED BY <1>1, <1>3, <1>4 DEF TypeOK

-----------------------------------------------------------------------------
(* What the parts of the actions do to the types *)

\* The stack of a failed load: its module is to be unloaded.
LEMMA FailType ==
    ASSUME TypeOK, stack # <<>>, Fail
    PROVE  stack' \in Seq(Frame) /\ answer' \in Ids \cup {Null, Nothing, Overrun}
<1>1. Rest \in Seq(Frame) /\ Unload(Self) \in Frame
    BY TopType, UnloadType
<1>2. Append(Rest, Unload(Self)) \in Seq(Frame)
    BY <1>1, AppendProperties
<1> QED BY <1>2 DEF Fail

LEMMA FaultType ==
    ASSUME TypeOK, Fault PROVE faults' \in 0..Faults
BY FaultAssumption DEF TypeOK, Fault

LEMMA RefuseType ==
    ASSUME TypeOK, Refuse, faults' \in 0..Faults PROVE TypeOK'
BY DEF Refuse, TypeOK

LEMMA EnterType ==
    ASSUME TypeOK, NEW n \in Names, NEW lib \in BOOLEAN, Enter(n, lib)
    PROVE  TypeOK'
<1>1. CASE Refuse /\ UNCHANGED faults
    BY <1>1, RefuseType DEF TypeOK
<1>2. CASE Fault /\ Refuse
    BY <1>2, RefuseType, FaultType
<1>3. CASE live # Ids /\ ~Refuse
    <2> DEFINE m == CHOOSE i \in Ids \ live : TRUE
               frame == [op |-> "resolve", id |-> m, at |-> 1, lib |-> lib]
    <2>1. /\ live' = live \cup {m} /\ module' = [module EXCEPT ![m] = New(n)]
          /\ stack' = Append(stack, frame)
          /\ UNCHANGED <<disk, cache, answer, held, faults>>
        BY <1>3 DEF Enter
    <2>2. m \in Ids
        BY <1>3 DEF TypeOK
    <2>3. frame \in Frame
        BY <2>2 DEF Frame
    <2>4. stack' \in Seq(Frame)
        BY <2>1, <2>3, AppendProperties DEF TypeOK
    <2>5. module' \in [Ids -> Module]
        BY <2>1, NewType DEF TypeOK
    <2> QED BY <2>1, <2>2, <2>4, <2>5 DEF TypeOK
<1> QED BY <1>1, <1>2, <1>3 DEF Enter

\* One field of a module changes.
LEMMA FieldType ==
    ASSUME NEW r \in Module
    PROVE  /\ r.count \in Int /\ r.refs \in Seq(Ids) /\ r.name \in Names
           /\ \A c \in Int : [r EXCEPT !.count = c] \in Module
           /\ \A s \in Seq(Ids) : [r EXCEPT !.refs = s] \in Module
           /\ \A f \in SUBSET Functions : [r EXCEPT !.funcs = f] \in Module
BY DEF Module

\* Counting and recording a reference.
LEMMA CountedType ==
    ASSUME TypeOK, stack # <<>>, NEW l \in Ids, Counted(l)
    PROVE  module' \in [Ids -> Module]
<1> DEFINE m1 == [module EXCEPT ![l].count = @ + 1]
<1>1. Self \in Ids
    BY TopType
<1>2. m1 \in [Ids -> Module]
    <2>1. module \in [Ids -> Module] /\ module[l] \in Module
        BY DEF TypeOK
    <2>2. module[l].count + 1 \in Int
        BY <2>1, FieldType
    <2>3. [module[l] EXCEPT !.count = module[l].count + 1] \in Module
        BY <2>1, <2>2, FieldType, Zenon
    <2> QED BY <2>1, <2>3
<1>3. Append(m1[Self].refs, l) \in Seq(Ids)
    BY <1>1, <1>2, FieldType, AppendProperties
<1>4. module' = [m1 EXCEPT ![Self].refs = Append(@, l)]
    BY DEF Counted
<1>5. [m1[Self] EXCEPT !.refs = Append(m1[Self].refs, l)] \in Module
    BY <1>1, <1>2, <1>3, FieldType
<1> QED BY <1>1, <1>2, <1>4, <1>5

LEMMA AdoptType ==
    ASSUME TypeOK, stack # <<>>, NEW l \in Ids, Adopt(l)
    PROVE  TypeOK'
<1>1. module' \in [Ids -> Module]
    BY CountedType DEF Adopt
<1>2. stack' \in Seq(Frame) /\ answer' \in Ids \cup {Null, Nothing, Overrun}
    <2>1. CASE Wanted.funcs \subseteq module[l].funcs
        BY <2>1, NextType DEF Adopt
    <2>2. CASE ~(Wanted.funcs \subseteq module[l].funcs)
        BY <2>2, FailType DEF Adopt
    <2> QED BY <2>1, <2>2
<1> QED BY <1>1, <1>2 DEF Adopt, TypeOK

LEMMA AdoptFailsType ==
    ASSUME TypeOK, stack # <<>>, NEW l \in Ids, AdoptFails(l)
    PROVE  TypeOK'
<1>1. /\ Rest \in Seq(Frame) /\ Unload(Self) \in Frame /\ Unload(l) \in Frame
    BY TopType, UnloadType
<1>2. Rest \o <<Unload(Self), Unload(l)>> \in Seq(Frame)
    <2>1. <<Unload(Self), Unload(l)>> \in Seq(Frame)
        BY <1>1
    <2> QED BY <1>1, <2>1, ConcatProperties
<1>3. Append(Rest, Unload(Self)) \in Seq(Frame)
    BY <1>1, AppendProperties
<1>4. stack' \in Seq(Frame)
    BY <1>2, <1>3 DEF AdoptFails
<1>5. cache' \in [Buckets -> Seq(Ids)]
    BY UncachedType DEF AdoptFails, TypeOK
<1> QED BY <1>4, <1>5, FaultType DEF AdoptFails, TypeOK

LEMMA LoadedLibraryType ==
    ASSUME TypeOK, LoadedLibrary PROVE TypeOK'
<1> DEFINE n == module[Self].name
<1>1. stack # <<>> /\ Self \in Ids /\ Rest \in Seq(Frame)
    BY TopType DEF LoadedLibrary, Resolved, Resolving
<1>2. n \in Names /\ disk[n] \in Image /\ BucketOf[n] \in Buckets
    BY <1>1, ImportsType, BucketAssumption
<1>3. PICK lost \in SUBSET disk[n].exports :
            /\ Cardinality(lost) <= faults /\ faults' = faults - Cardinality(lost)
            /\ module' = [module EXCEPT ![Self].funcs = disk[n].exports \ lost,
                                        ![Self].count = 0]
    BY DEF LoadedLibrary
<1>4. disk[n].exports \subseteq Functions
    BY <1>2 DEF Image
<1>5. faults' \in 0..Faults
    <2>1. IsFiniteSet(lost)
        BY <1>4, NameAssumption, FS_Subset
    <2>2. Cardinality(lost) \in Nat
        BY <2>1, FS_CardinalityType
    <2> QED BY <1>3, <2>2, FaultAssumption DEF TypeOK
<1>6. module' \in [Ids -> Module]
    <2> DEFINE r == [module[Self] EXCEPT !.funcs = disk[n].exports \ lost]
    <2>1. module \in [Ids -> Module] /\ module[Self] \in Module
        BY <1>1 DEF TypeOK
    <2>2. r \in Module
        BY <1>4, <2>1, FieldType
    <2>3. [r EXCEPT !.count = 0] \in Module
        <3>1. 0 \in Int
            OBVIOUS
        <3> QED BY <2>2, <3>1, FieldType, Zenon
    <2>4. module' = [module EXCEPT ![Self] = [r EXCEPT !.count = 0]]
        BY <1>1, <1>3, <2>1
    <2> QED BY <1>1, <2>1, <2>3, <2>4
<1>7. cache' \in [Buckets -> Seq(Ids)]
    <2>1. Append(cache[BucketOf[n]], Self) \in Seq(Ids)
        BY <1>1, <1>2, AppendProperties DEF TypeOK
    <2> QED BY <1>2, <2>1 DEF LoadedLibrary, TypeOK
<1> QED BY <1>1, <1>5, <1>6, <1>7 DEF LoadedLibrary, TypeOK

\* The reference a module gives back is to a library.
LEMMA ReleaseReferenceType ==
    ASSUME TypeOK, ReleaseReference PROVE TypeOK'
<1> DEFINE l == module[Self].refs[Top.at]
           next == [stack EXCEPT ![Len(stack)].at = @ + 1]
<1>1. stack # <<>> /\ Self \in Ids /\ Top.at \in Nat \ {0} /\ next \in Seq(Frame)
    BY TopType, NextType DEF ReleaseReference
<1>2. l \in Ids
    <2>1. module[Self].refs \in Seq(Ids)
        BY <1>1 DEF TypeOK, Module
    <2>2. Top.at \in 1..Len(module[Self].refs)
        BY <1>1, <2>1 DEF ReleaseReference
    <2> QED BY <2>1, <2>2, ElementOfSeq
<1>3. module' \in [Ids -> Module]
    <2>1. module \in [Ids -> Module] /\ module[l] \in Module
        BY <1>2 DEF TypeOK
    <2>2. module[l].count - 1 \in Int
        BY <2>1, FieldType
    <2>3. [module[l] EXCEPT !.count = module[l].count - 1] \in Module
        BY <2>1, <2>2, FieldType, Zenon
    <2> QED BY <2>1, <2>3 DEF ReleaseReference
<1>4. Append(next, Unload(l)) \in Seq(Frame)
    BY <1>1, <1>2, UnloadType, AppendProperties
<1>5. stack' \in Seq(Frame)
    BY <1>1, <1>4 DEF ReleaseReference
<1>6. cache' \in [Buckets -> Seq(Ids)]
    BY <1>2, UncachedType DEF ReleaseReference, TypeOK
<1> QED BY <1>3, <1>5, <1>6 DEF ReleaseReference, TypeOK

LEMMA FreeModuleType ==
    ASSUME TypeOK, FreeModule PROVE TypeOK'
<1>1. Rest \in Seq(Frame)
    BY TopType DEF FreeModule
<1>2. New(CHOOSE n \in Names : TRUE) \in Module
    BY NewType, NameAssumption
<1> QED BY <1>1, <1>2 DEF FreeModule, TypeOK

-----------------------------------------------------------------------------
LEMMA InitType == Init => TypeOK
<1> SUFFICES ASSUME Init PROVE TypeOK
    OBVIOUS
<1>1. New(CHOOSE n \in Names : TRUE) \in Module
    BY NewType, NameAssumption
<1>2. <<>> \in Seq(Ids) /\ <<>> \in Seq(Frame)
    BY EmptySeq
<1> QED BY <1>1, <1>2, FaultAssumption DEF Init, TypeOK

\* Every step keeps the types.
LEMMA StepType == TypeOK /\ [Next]_vars => TypeOK'
<1> SUFFICES ASSUME TypeOK, [Next]_vars PROVE TypeOK'
    OBVIOUS
<1>1. ASSUME NEW n \in Names, Load(n) PROVE TypeOK'
    BY <1>1, EnterType DEF Load
<1>2. ASSUME NEW m \in held, UnloadModule(m) PROVE TypeOK'
    <2>1. Unload(m) \in Frame
        BY UnloadType DEF TypeOK
    <2>2. <<Unload(m)>> \in Seq(Frame)
        BY <2>1
    <2> QED BY <1>2, <2>2 DEF UnloadModule, TypeOK
<1>3. CASE ImportCached
    <2>1. PICK l \in Found(Wanted.dll) : Adopt(l) \/ AdoptFails(l)
        BY <1>3 DEF ImportCached
    <2>2. l \in Ids /\ stack # <<>>
        BY <1>3, WantedType, FoundType DEF ImportCached, Importing, Resolving
    <2> QED BY <2>1, <2>2, AdoptType, AdoptFailsType
<1>4. CASE ImportLoad
    BY <1>4, WantedType, EnterType DEF ImportLoad
<1>o. CASE ImportOverruns
    BY <1>o DEF ImportOverruns, TypeOK
<1>5. CASE ImportLoaded
    BY <1>5, AdoptType, AdoptFailsType DEF ImportLoaded, Importing, Resolving
<1>6. CASE ImportFailed
    BY <1>6, FailType DEF ImportFailed, Resolving, TypeOK
<1>7. CASE NotRelocated
    BY <1>7, FailType DEF NotRelocated, Resolved, Resolving, TypeOK
<1>8. CASE LoadedModule
    BY <1>8, TopType DEF LoadedModule, Resolved, Resolving, TypeOK
<1>9. CASE LibraryRefused
    <2>1. stack' \in Seq(Frame) /\ answer' \in Ids \cup {Null, Nothing, Overrun}
        BY <1>9, FailType DEF LibraryRefused, Resolved, Resolving
    <2>2. faults' \in 0..Faults
        BY <1>9, FaultType DEF LibraryRefused, TypeOK
    <2> QED BY <1>9, <2>1, <2>2 DEF LibraryRefused, TypeOK
<1>10. CASE LoadedLibrary
    BY <1>10, LoadedLibraryType
<1>11. CASE ReleaseReference
    BY <1>11, ReleaseReferenceType
<1>12. CASE FreeModule
    BY <1>12, FreeModuleType
<1>13. CASE Return
    BY <1>13 DEF Return, TypeOK
<1>14. CASE UNCHANGED vars
    BY <1>14 DEF vars, TypeOK
<1> QED BY <1>1, <1>2, <1>3, <1>4, <1>5, <1>6, <1>7, <1>8, <1>9, <1>10, <1>11,
           <1>12, <1>13, <1>14, <1>o DEF Next, Step

\* For every directory of files, every placement in buckets and any number of
\* modules and failures, the loader's structures keep their types: what is
\* released or unlinked is a library, also when a load fails half-way
\* (ResolvePEImports, UnloadPEFile, UnloadPELibrary).
THEOREM TypeCorrect == Spec => []TypeOK
BY InitType, StepType, PTL DEF Spec

-----------------------------------------------------------------------------
(* The invariant, of a disk D, the modules L and what M says of them, the   *)
(* cache C, the stack S and the client's modules H *)

\* A reference that a module being unloaded has given back.
Given(S, m, i) ==
    \E k \in DOMAIN S : S[k].op = "unload" /\ S[k].id = m /\ i < S[k].at

\* The references that have not been: modules and places in dllRefs.
Kept(L, M, S) ==
    {r \in L \X Nat : r[2] \in DOMAIN M[r[1]].refs /\ ~Given(S, r[1], r[2])}

Target(M, r)  == M[r[1]].refs[r[2]]
RefsTo(M, K, l) == {r \in K : Target(M, r) = l}

\* The libraries of the cache.
Libs(C) == {l \in Ids : \E b \in Buckets : \E i \in DOMAIN C[b] : C[b][i] = l}

Typed(D, L, M, C, S, H) ==
    /\ D \in Disks
    /\ L \subseteq Ids /\ H \subseteq Ids
    /\ M \in [Ids -> Module]
    /\ C \in [Buckets -> Seq(Ids)]
    /\ S \in Seq(Frame)

\* The cache has libraries with all their imports, in the bucket of their name,
\* and each name once.
CacheOK(D, L, M, C) ==
    \A b \in Buckets : \A i \in DOMAIN C[b] :
        /\ C[b][i] \in L /\ BucketOf[M[C[b][i]].name] = b
        /\ Len(M[C[b][i]].refs) = Len(D[M[C[b][i]].name].imports)
        /\ \A j \in DOMAIN C[b] : i # j => M[C[b][i]].name # M[C[b][j]].name

\* What is in the hands of a call or of the client is in no one else's.
OwnerOK(L, P, S, H) ==
    /\ \A k \in DOMAIN S :
         /\ S[k].id \in L /\ S[k].id \notin H /\ S[k].id \notin P
         /\ \A j \in DOMAIN S : j # k => S[j].id # S[k].id
    /\ H \subseteq L /\ H \cap P = {}

\* A module being loaded has taken the references before its place.  If it is
\* a library it is the next import of the one below it, and the cache has none
\* of its name.
FrameOK(D, M, P, S, k) ==
    /\ S[k].at = Len(M[S[k].id].refs) + 1
    /\ Len(M[S[k].id].refs) <= Len(D[M[S[k].id].name].imports)
    /\ S[k].lib = (k # 1)
    /\ \A j \in 1 .. k : S[j].op = "resolve"
    /\ k # 1 =>
         /\ S[k - 1].at <= Len(D[M[S[k - 1].id].name].imports)
         /\ M[S[k].id].name = D[M[S[k - 1].id].name].imports[S[k - 1].at].dll
         /\ \A l \in P : M[l].name # M[S[k].id].name

StackOK(D, M, P, S) ==
    \A k \in DOMAIN S : S[k].op = "resolve" => FrameOK(D, M, P, S, k)

\* A reference that is kept is to a library of the cache, the one imported.
BoundOK(D, M, P, K) ==
    \A r \in K :
        /\ Target(M, r) \in P
        /\ r[2] \in DOMAIN D[M[r[1]].name].imports
        /\ M[Target(M, r)].name = D[M[r[1]].name].imports[r[2]].dll

CountOK(L, M, K) ==
    \A l \in L : /\ IsFiniteSet(RefsTo(M, K, l))
                 /\ M[l].count = Cardinality(RefsTo(M, K, l))

\* References lead downwards in some order.
Ranked(M, K, rank) == \A r \in K : rank[Target(M, r)] < rank[r[1]]
RankOK(M, K) == \E N \in Nat : \E rank \in [Ids -> 0 .. N] : Ranked(M, K, rank)

Core(D, L, M, C, S, H) ==
    /\ Typed(D, L, M, C, S, H)
    /\ CacheOK(D, L, M, C)
    /\ OwnerOK(L, Libs(C), S, H)
    /\ StackOK(D, M, Libs(C), S)
    /\ BoundOK(D, M, Libs(C), Kept(L, M, S))
    /\ CountOK(L, M, Kept(L, M, S))
    /\ RankOK(M, Kept(L, M, S))

\* What was loaded last is the library wanted, or nobody's yet.
AnswerInv ==
    answer \in Ids =>
        /\ answer \in live
        /\ stack = <<>> => answer \notin Libs(cache)
        /\ stack # <<>> =>
             Importing /\ answer \in Libs(cache) /\ module[answer].name = Wanted.dll

\* Every module is somebody's.
KnownInv ==
    \A l \in live : \/ l \in held \/ l = answer \/ module[l].count > 0
                    \/ \E k \in DOMAIN stack : stack[k].id = l

IInv ==
    /\ TypeOK
    /\ Core(disk, live, module, cache, stack, held)
    /\ AnswerInv
    /\ KnownInv

-----------------------------------------------------------------------------
(* What stays when modules keep their names and references *)

Agree(M, M2, X) == \A m \in X : M2[m].name = M[m].name /\ M2[m].refs = M[m].refs

SameGiven(S, S2, X) == \A m \in X, i \in Nat \ {0} : Given(S2, m, i) <=> Given(S, m, i)

\* The modules L2 \ L are new and have no references, those of L \ L2 have none left.
LEMMA KeptSame ==
    ASSUME NEW D, NEW L, NEW M, NEW C, NEW S, NEW H, Typed(D, L, M, C, S, H),
           NEW L2, NEW M2, NEW S2, L2 \subseteq Ids, M2 \in [Ids -> Module],
           Agree(M, M2, L \cap L2), SameGiven(S, S2, L \cap L2),
           \A m \in L2 \ L : M2[m].refs = <<>>,
           \A m \in L \ L2 : \A i \in DOMAIN M[m].refs : Given(S, m, i)
    PROVE  Kept(L2, M2, S2) = Kept(L, M, S)
<1>1. \A m \in Ids : DOMAIN M[m].refs \subseteq Nat \ {0} /\ DOMAIN M2[m].refs \subseteq Nat \ {0}
    <2> SUFFICES ASSUME NEW m \in Ids
                 PROVE  DOMAIN M[m].refs \subseteq Nat \ {0}
                        /\ DOMAIN M2[m].refs \subseteq Nat \ {0}
        OBVIOUS
    <2>1. M[m].refs \in Seq(Ids) /\ M2[m].refs \in Seq(Ids)
        BY DEF Typed, Module
    <2> QED BY <2>1
<1>2. ASSUME NEW m \in L2, NEW i \in Nat, i \in DOMAIN M2[m].refs, ~Given(S2, m, i)
      PROVE  m \in L /\ i \in DOMAIN M[m].refs /\ ~Given(S, m, i)
    <2>1. m \in L
        BY <1>2
    <2> QED BY <1>1, <1>2, <2>1 DEF Agree, SameGiven
<1>3. ASSUME NEW m \in L, NEW i \in Nat, i \in DOMAIN M[m].refs, ~Given(S, m, i)
      PROVE  m \in L2 /\ i \in DOMAIN M2[m].refs /\ ~Given(S2, m, i)
    <2>1. m \in L2 /\ m \in Ids
        BY <1>3 DEF Typed
    <2> QED BY <1>1, <1>3, <2>1 DEF Agree, SameGiven
<1> QED BY <1>2, <1>3 DEF Kept

\* Fewer references, to the same libraries, all still in the cache.
LEMMA BoundFewer ==
    ASSUME NEW D, NEW M, NEW P, NEW K, BoundOK(D, M, P, K),
           NEW M2, NEW P2, NEW K2, K2 \subseteq K,
           \A r \in K2 : /\ Target(M2, r) = Target(M, r)
                         /\ M2[r[1]].name = M[r[1]].name
                         /\ Target(M, r) \in P2
                         /\ M2[Target(M, r)].name = M[Target(M, r)].name
    PROVE  BoundOK(D, M2, P2, K2)
BY DEF BoundOK

LEMMA RankFewer ==
    ASSUME NEW M, NEW K, RankOK(M, K),
           NEW M2, NEW K2, K2 \subseteq K,
           \A r \in K2 : Target(M2, r) = Target(M, r)
    PROVE  RankOK(M2, K2)
BY DEF RankOK, Ranked

\* The counts, when the references are the same.
LEMMA CountSame ==
    ASSUME NEW L, NEW M, NEW K, CountOK(L, M, K), NEW L2, NEW M2,
           \A r \in K : Target(M2, r) = Target(M, r),
           \A l \in L2 : \/ l \in L /\ M2[l].count = M[l].count
                         \/ M2[l].count = 0 /\ \A r \in K : Target(M, r) # l
    PROVE  CountOK(L2, M2, K)
<1> SUFFICES ASSUME NEW l \in L2
             PROVE  /\ IsFiniteSet(RefsTo(M2, K, l))
                    /\ M2[l].count = Cardinality(RefsTo(M2, K, l))
    BY DEF CountOK
<1>1. RefsTo(M2, K, l) = RefsTo(M, K, l)
    BY DEF RefsTo
<1>2. CASE l \in L /\ M2[l].count = M[l].count
    BY <1>1, <1>2 DEF CountOK
<1>3. CASE M2[l].count = 0 /\ \A r \in K : Target(M, r) # l
    <2>1. RefsTo(M2, K, l) = {}
        BY <1>1, <1>3 DEF RefsTo
    <2> QED BY <2>1, <1>3, FS_EmptySet
<1> QED BY <1>2, <1>3

\* The frames below the m-th stay, and those above it are as they should.
FramesStay(S, M, P, S2, M2, P2, m) ==
    /\ \A k \in 1 .. m : S2[k] = S[k] /\ M2[S[k].id].name = M[S[k].id].name
                         /\ M2[S[k].id].refs = M[S[k].id].refs
    /\ \A l \in P2 : \/ l \in P /\ M2[l].name = M[l].name
                     \/ \A k \in 2 .. m : S[k].op = "resolve" => M2[l].name # M[S[k].id].name

FramesAbove(D, M, P, S, m) ==
    \A k \in m + 1 .. Len(S) : S[k].op = "resolve" => FrameOK(D, M, P, S, k)

LEMMA StackKeep ==
    ASSUME NEW D, NEW M, NEW P, NEW S \in Seq(Frame), StackOK(D, M, P, S),
           NEW M2, NEW P2, NEW S2 \in Seq(Frame), NEW m \in Nat,
           m <= Len(S), m <= Len(S2),
           FramesStay(S, M, P, S2, M2, P2, m), FramesAbove(D, M2, P2, S2, m)
    PROVE  StackOK(D, M2, P2, S2)
<1>s. /\ \A k \in 1 .. m : S2[k] = S[k] /\ M2[S[k].id].name = M[S[k].id].name
                         /\ M2[S[k].id].refs = M[S[k].id].refs
      /\ \A l \in P2 : \/ l \in P /\ M2[l].name = M[l].name
                     \/ \A k \in 2 .. m : S[k].op = "resolve" => M2[l].name # M[S[k].id].name
      /\ \A k \in m + 1 .. Len(S2) : S2[k].op = "resolve" => FrameOK(D, M2, P2, S2, k)
    BY DEF FramesStay, FramesAbove
<1> SUFFICES ASSUME NEW k \in 1 .. Len(S2), S2[k].op = "resolve"
             PROVE  FrameOK(D, M2, P2, S2, k)
    BY DEF StackOK
<1>1. CASE k \in m + 1 .. Len(S2)
    BY <1>1, <1>s
<1>2. CASE k \in 1 .. m
    <2>1. FrameOK(D, M, P, S, k)
        BY <1>2, <1>s DEF StackOK
    <2>2. \A j \in 1 .. k : j \in 1 .. m /\ S2[j] = S[j]
        BY <1>2, <1>s
    <2>3. k # 1 => k - 1 \in 1 .. m /\ k \in 2 .. m
        BY <1>2
    <2>4. M2[S[k].id].name = M[S[k].id].name /\ M2[S[k].id].refs = M[S[k].id].refs
          /\ S2[k] = S[k]
        BY <1>2, <1>s
    <2>5. ASSUME k # 1, NEW l \in P2 PROVE M2[l].name # M[S[k].id].name
        <3>1. k \in 2 .. m /\ S[k].op = "resolve"
            BY <1>2, <2>4, <2>5
        <3>2. l \in P => M[l].name # M[S[k].id].name
            BY <2>1, <2>5 DEF FrameOK
        <3> QED BY <3>1, <3>2, <1>s
    <2>6. k # 1 => S2[k - 1] = S[k - 1] /\ M2[S[k - 1].id].name = M[S[k - 1].id].name
        BY <2>3, <1>s
    <2>7. \A j \in 1 .. k : S2[j].op = "resolve"
        BY <2>1, <2>2 DEF FrameOK
    <2>8. /\ S2[k].at = Len(M2[S2[k].id].refs) + 1
          /\ Len(M2[S2[k].id].refs) <= Len(D[M2[S2[k].id].name].imports)
          /\ S2[k].lib = (k # 1)
        BY <2>1, <2>4 DEF FrameOK
    <2>9. ASSUME k # 1
          PROVE  /\ S2[k - 1].at <= Len(D[M2[S2[k - 1].id].name].imports)
                 /\ M2[S2[k].id].name = D[M2[S2[k - 1].id].name].imports[S2[k - 1].at].dll
                 /\ \A l \in P2 : M2[l].name # M2[S2[k].id].name
        <3>1. /\ S[k - 1].at <= Len(D[M[S[k - 1].id].name].imports)
              /\ M[S[k].id].name = D[M[S[k - 1].id].name].imports[S[k - 1].at].dll
            BY <2>1, <2>9 DEF FrameOK
        <3> QED BY <3>1, <2>9, <2>4, <2>5, <2>6
    <2> QED BY <2>7, <2>8, <2>9 DEF FrameOK
<1> QED BY <1>1, <1>2

-----------------------------------------------------------------------------
(* What each kind of step keeps *)

LEMMA RestIs ==
    ASSUME NEW S \in Seq(Frame), S # <<>>
    PROVE  /\ Len(S) \in Nat \ {0} /\ DOMAIN S = 1 .. Len(S)
           /\ SubSeq(S, 1, Len(S) - 1) \in Seq(Frame)
           /\ Len(SubSeq(S, 1, Len(S) - 1)) = Len(S) - 1
           /\ \A k \in 1 .. Len(S) - 1 : SubSeq(S, 1, Len(S) - 1)[k] = S[k]
<1>1. Len(S) \in Nat \ {0} /\ DOMAIN S = 1 .. Len(S)
    BY EmptySeq
<1>2. \A k \in 1 .. Len(S) - 1 : S[k] \in Frame
    BY <1>1, ElementOfSeq
<1> QED BY <1>1, <1>2, SubSeqProperties

\* The parts of the invariant that the stack's frames are about.
LEMMA FrameFacts ==
    ASSUME NEW D, NEW L, NEW M, NEW C, NEW S, NEW H, Core(D, L, M, C, S, H),
           NEW n \in DOMAIN S
    PROVE  /\ DOMAIN S = 1 .. Len(S) /\ Len(S) \in Nat /\ n \in 1 .. Len(S)
           /\ S[n] \in Frame /\ S[n].id \in L /\ S[n].id \in Ids
           /\ S[n].id \notin Libs(C) /\ S[n].id \notin H
           /\ M[S[n].id] \in Module
           /\ S[n].op = "resolve" => FrameOK(D, M, Libs(C), S, n)
<1>1. S \in Seq(Frame) /\ L \subseteq Ids /\ M \in [Ids -> Module]
    BY DEF Core, Typed
<1>2. DOMAIN S = 1 .. Len(S) /\ Len(S) \in Nat
    BY <1>1
<1>3. S[n] \in Frame
    BY <1>1, <1>2, ElementOfSeq
<1>4. S[n].id \in L /\ S[n].id \notin Libs(C) /\ S[n].id \notin H
    BY DEF Core, OwnerOK
<1>5. S[n].op = "resolve" => FrameOK(D, M, Libs(C), S, n)
    BY DEF Core, StackOK
<1> QED BY <1>1, <1>2, <1>3, <1>4, <1>5

\* A module of the stack is there once.
LEMMA OnStackOnce ==
    ASSUME NEW D, NEW L, NEW M, NEW C, NEW S, NEW H, Core(D, L, M, C, S, H),
           NEW n \in DOMAIN S
    PROVE  \A k \in DOMAIN S : S[k].id = S[n].id => k = n
BY DEF Core, OwnerOK

\* No reference is to a module of the stack or of the client.
LEMMA RefsLead ==
    ASSUME NEW D, NEW L, NEW M, NEW C, NEW S, NEW H, Core(D, L, M, C, S, H),
           NEW r \in Kept(L, M, S)
    PROVE  /\ Target(M, r) \in Libs(C) /\ r[1] \in L
           /\ Target(M, r) \in L /\ Target(M, r) \in Ids
           /\ r[2] \in DOMAIN D[M[r[1]].name].imports
<1>1. Target(M, r) \in Libs(C) /\ r[1] \in L /\ r[2] \in DOMAIN D[M[r[1]].name].imports
    BY DEF Core, BoundOK, Kept
<1>2. Libs(C) \subseteq L
    BY DEF Core, CacheOK, Libs
<1> QED BY <1>1, <1>2 DEF Libs

\* A load that fails: its module is to be unloaded, nothing given back yet.
LEMMA CoreFail ==
    ASSUME NEW D, NEW L, NEW M, NEW C, NEW S, NEW H, Core(D, L, M, C, S, H),
           NEW n \in DOMAIN S, S[n].op = "resolve",
           \A k \in n + 1 .. Len(S) : S[k].op # "resolve",
           NEW S2 \in Seq(Frame), Len(S2) = Len(S), S2[n] = Unload(S[n].id),
           \A k \in DOMAIN S : k # n => S2[k] = S[k]
    PROVE  Core(D, L, M, C, S2, H)
<1>0. S \in Seq(Frame) /\ DOMAIN S = 1 .. Len(S) /\ DOMAIN S2 = DOMAIN S /\ n \in Nat
    BY FrameFacts DEF Core, Typed
<1>a. /\ S2[n].id = S[n].id /\ S2[n].op = "unload" /\ S2[n].at = 1
    BY DEF Unload
<1>1. SameGiven(S, S2, L \cap L)
    BY <1>0, <1>a DEF SameGiven, Given
<1>2. Kept(L, M, S2) = Kept(L, M, S)
    <2>1. Agree(M, M, L \cap L) /\ L \subseteq Ids /\ M \in [Ids -> Module]
          /\ Typed(D, L, M, C, S, H)
        BY DEF Agree, Core, Typed
    <2>2. (\A m \in L \ L : M[m].refs = <<>>)
          /\ \A m \in L \ L : \A i \in DOMAIN M[m].refs : Given(S, m, i)
        OBVIOUS
    <2> QED BY <1>1, <2>1, <2>2, KeptSame
<1>3. Typed(D, L, M, C, S2, H)
    BY DEF Core, Typed
<1>4. OwnerOK(L, Libs(C), S2, H)
    <2>1. \A k \in DOMAIN S : S2[k].id = S[k].id
        BY <1>a
    <2> QED BY <1>0, <2>1 DEF Core, OwnerOK
<1>5. StackOK(D, M, Libs(C), S2)
    <2>1. StackOK(D, M, Libs(C), S)
        BY DEF Core
    <2>2. n - 1 \in Nat /\ n - 1 <= Len(S) /\ n - 1 <= Len(S2)
        BY <1>0
    <2>3. \A k \in 1 .. n - 1 : S2[k] = S[k] /\ M[S[k].id].name = M[S[k].id].name
                             /\ M[S[k].id].refs = M[S[k].id].refs
        BY <1>0
    <2>4. \A l \in Libs(C) : \/ l \in Libs(C) /\ M[l].name = M[l].name
                         \/ \A k \in 2 .. n - 1 : S[k].op = "resolve" =>
                              M[l].name # M[S[k].id].name
        OBVIOUS
    <2>5. \A k \in (n - 1) + 1 .. Len(S2) :
             S2[k].op = "resolve" => FrameOK(D, M, Libs(C), S2, k)
        BY <1>0, <1>a
    <2>6. FramesStay(S, M, Libs(C), S2, M, Libs(C), n - 1)
        BY <2>3, <2>4 DEF FramesStay
    <2>7. FramesAbove(D, M, Libs(C), S2, n - 1)
        BY <2>5 DEF FramesAbove
    <2> QED BY <1>0, <2>1, <2>2, <2>6, <2>7, StackKeep
<1> QED BY <1>2, <1>3, <1>4, <1>5 DEF Core

\* A load that is done leaves the stack.
LEMMA CorePop ==
    ASSUME NEW D, NEW L, NEW M, NEW C, NEW S, NEW H, Core(D, L, M, C, S, H),
           S # <<>>, S[Len(S)].op = "resolve"
    PROVE  Core(D, L, M, C, SubSeq(S, 1, Len(S) - 1), H)
<1> DEFINE n == Len(S)
           S2 == SubSeq(S, 1, n - 1)
<1>0. /\ S \in Seq(Frame) /\ DOMAIN S = 1 .. n /\ n \in Nat \ {0}
      /\ S2 \in Seq(Frame) /\ Len(S2) = n - 1 /\ DOMAIN S2 = 1 .. n - 1
      /\ \A k \in 1 .. n - 1 : S2[k] = S[k]
    BY RestIs DEF Core, Typed
<1> HIDE DEF S2
<1>1. SameGiven(S, S2, L \cap L)
    <2>1. \A k \in DOMAIN S : S[k].op = "unload" => k \in DOMAIN S2 /\ S2[k] = S[k]
        BY <1>0
    <2>2. \A k \in DOMAIN S2 : k \in DOMAIN S /\ S2[k] = S[k]
        BY <1>0
    <2> QED BY <2>1, <2>2 DEF SameGiven, Given
<1>2. Kept(L, M, S2) = Kept(L, M, S)
    <2>1. Agree(M, M, L \cap L) /\ L \subseteq Ids /\ M \in [Ids -> Module]
          /\ Typed(D, L, M, C, S, H)
        BY DEF Agree, Core, Typed
    <2>2. (\A m \in L \ L : M[m].refs = <<>>)
          /\ \A m \in L \ L : \A i \in DOMAIN M[m].refs : Given(S, m, i)
        OBVIOUS
    <2> QED BY <1>1, <2>1, <2>2, KeptSame
<1>3. Typed(D, L, M, C, S2, H)
    BY <1>0 DEF Core, Typed
<1>4. OwnerOK(L, Libs(C), S2, H)
    BY <1>0 DEF Core, OwnerOK
<1>5. StackOK(D, M, Libs(C), S2)
    <2>1. StackOK(D, M, Libs(C), S)
        BY DEF Core
    <2>2. n - 1 \in Nat /\ n - 1 <= Len(S) /\ n - 1 <= Len(S2)
        BY <1>0
    <2>3. \A k \in 1 .. n - 1 : S2[k] = S[k] /\ M[S[k].id].name = M[S[k].id].name
                             /\ M[S[k].id].refs = M[S[k].id].refs
        BY <1>0
    <2>4. \A l \in Libs(C) : \/ l \in Libs(C) /\ M[l].name = M[l].name
                         \/ \A k \in 2 .. n - 1 : S[k].op = "resolve" =>
                              M[l].name # M[S[k].id].name
        OBVIOUS
    <2>5. \A k \in (n - 1) + 1 .. Len(S2) :
             S2[k].op = "resolve" => FrameOK(D, M, Libs(C), S2, k)
        BY <1>0
    <2>6. FramesStay(S, M, Libs(C), S2, M, Libs(C), n - 1)
        BY <2>3, <2>4 DEF FramesStay
    <2>7. FramesAbove(D, M, Libs(C), S2, n - 1)
        BY <2>5 DEF FramesAbove
    <2> QED BY <1>0, <2>1, <2>2, <2>6, <2>7, StackKeep
<1>6. Core(D, L, M, C, S2, H)
    BY <1>2, <1>3, <1>4, <1>5 DEF Core
<1> QED BY <1>6 DEF S2

\* The client is given a module.
LEMMA CoreHold ==
    ASSUME NEW D, NEW L, NEW M, NEW C, NEW H, Core(D, L, M, C, <<>>, H),
           NEW X, X \subseteq L, X \cap Libs(C) = {}
    PROVE  Core(D, L, M, C, <<>>, H \cup X)
<1>1. OwnerOK(L, Libs(C), <<>>, H \cup X)
    <2>1. DOMAIN <<>> = {}
        OBVIOUS
    <2> QED BY <2>1 DEF Core, OwnerOK
<1>2. Typed(D, L, M, C, <<>>, H \cup X)
    BY DEF Core, Typed
<1> QED BY <1>1, <1>2 DEF Core

\* It gives one back.
LEMMA CoreUnload ==
    ASSUME NEW D, NEW L, NEW M, NEW C, NEW H, Core(D, L, M, C, <<>>, H), NEW m \in H
    PROVE  Core(D, L, M, C, <<Unload(m)>>, H \ {m})
<1> DEFINE S2 == <<Unload(m)>>
<1>0. /\ DOMAIN <<>> = {} /\ DOMAIN S2 = {1} /\ S2[1].id = m /\ S2[1].op = "unload"
      /\ S2[1].at = 1
    BY DEF Unload
<1>1. Typed(D, L, M, C, S2, H \ {m})
    <2>1. m \in Ids
        BY DEF Core, Typed
    <2>2. Unload(m) \in Frame
        BY <2>1, UnloadType
    <2> QED BY <2>2 DEF Core, Typed
<1> HIDE DEF S2
<1>2. SameGiven(<<>>, S2, L \cap L)
    BY <1>0 DEF SameGiven, Given
<1>3. Kept(L, M, S2) = Kept(L, M, <<>>)
    <2>1. Agree(M, M, L \cap L) /\ L \subseteq Ids /\ M \in [Ids -> Module]
          /\ Typed(D, L, M, C, <<>>, H)
        BY DEF Agree, Core, Typed
    <2>2. (\A x \in L \ L : M[x].refs = <<>>)
          /\ \A x \in L \ L : \A i \in DOMAIN M[x].refs : Given(<<>>, x, i)
        OBVIOUS
    <2> QED BY <1>2, <2>1, <2>2, KeptSame
<1>4. OwnerOK(L, Libs(C), S2, H \ {m})
    BY <1>0 DEF Core, OwnerOK
<1>5. StackOK(D, M, Libs(C), S2)
    BY <1>0 DEF StackOK
<1>6. Core(D, L, M, C, S2, H \ {m})
    BY <1>1, <1>3, <1>4, <1>5 DEF Core
<1> QED BY <1>6 DEF S2

\* What a load may begin with: a client's, or that of an import the cache has not.
MayLoad(D, M, P, S, n, lib) ==
    \/ S = <<>> /\ lib = FALSE
    \/ /\ lib = TRUE /\ S # <<>> /\ S[Len(S)].op = "resolve"
       /\ S[Len(S)].at <= Len(D[M[S[Len(S)].id].name].imports)
       /\ n = D[M[S[Len(S)].id].name].imports[S[Len(S)].at].dll
       /\ \A l \in P : M[l].name # n

LEMMA CoreEnter ==
    ASSUME NEW D, NEW L, NEW M, NEW C, NEW S, NEW H, Core(D, L, M, C, S, H),
           NEW m \in Ids \ L, NEW n \in Names, NEW lib \in BOOLEAN,
           MayLoad(D, M, Libs(C), S, n, lib)
    PROVE  Core(D, L \cup {m}, [M EXCEPT ![m] = New(n)], C,
                Append(S, [op |-> "resolve", id |-> m, at |-> 1, lib |-> lib]), H)
<1> DEFINE f == [op |-> "resolve", id |-> m, at |-> 1, lib |-> lib]
           S2 == Append(S, f)
           M2 == [M EXCEPT ![m] = New(n)]
           L2 == L \cup {m}
           N == Len(S)
<1>0. /\ S \in Seq(Frame) /\ L \subseteq Ids /\ M \in [Ids -> Module] /\ f \in Frame
      /\ D \in Disks
    BY DEF Core, Typed, Frame
<1>1. /\ S2 \in Seq(Frame) /\ Len(S2) = N + 1 /\ N \in Nat /\ DOMAIN S = 1 .. N
      /\ DOMAIN S2 = 1 .. N + 1 /\ S2[N + 1] = f /\ \A k \in 1 .. N : S2[k] = S[k]
    BY <1>0, AppendProperties
<1>2. /\ M2 \in [Ids -> Module] /\ M2[m].name = n /\ M2[m].refs = <<>> /\ M2[m].count = 0
      /\ \A x \in Ids : x # m => M2[x] = M[x]
    <2>1. New(n) \in Module
        BY NewType
    <2>2. M2[m] = New(n)
        BY <1>0
    <2> QED BY <1>0, <2>1, <2>2 DEF New
<1>f. f.op = "resolve" /\ f.id = m /\ f.at = 1 /\ f.lib = lib
    OBVIOUS
<1> HIDE DEF f, M2, S2
<1>3. Typed(D, L2, M2, C, S2, H)
    BY <1>0, <1>1, <1>2 DEF Core, Typed
<1>c. Libs(C) \subseteq L /\ \A b \in Buckets : \A i \in DOMAIN C[b] : C[b][i] \in L
    BY DEF Core, CacheOK, Libs
<1>4. CacheOK(D, L2, M2, C)
    BY <1>0, <1>2, <1>c DEF Core, CacheOK
<1>5. OwnerOK(L2, Libs(C), S2, H)
    BY <1>1, <1>f, <1>c DEF Core, OwnerOK
<1>6. SameGiven(S, S2, L \cap L2)
    BY <1>1, <1>f DEF SameGiven, Given
<1>7. Kept(L2, M2, S2) = Kept(L, M, S)
    <2>1. Agree(M, M2, L \cap L2) /\ L2 \subseteq Ids /\ Typed(D, L, M, C, S, H)
        BY <1>0, <1>2 DEF Agree, Core
    <2>2. (\A x \in L2 \ L : M2[x].refs = <<>>)
          /\ \A x \in L \ L2 : \A i \in DOMAIN M[x].refs : Given(S, x, i)
        BY <1>2
    <2> QED BY <1>2, <1>6, <2>1, <2>2, KeptSame
<1> DEFINE K == Kept(L, M, S)
<1>8. \A r \in K : /\ r[1] \in L /\ Target(M, r) \in L /\ Target(M, r) \in Libs(C)
                   /\ Target(M2, r) = Target(M, r)
                   /\ M2[r[1]].name = M[r[1]].name
                   /\ M2[Target(M, r)].name = M[Target(M, r)].name
    BY <1>0, <1>2, RefsLead DEF Target
<1> HIDE DEF K
<1>9. BoundOK(D, M2, Libs(C), K)
    <2>1. BoundOK(D, M, Libs(C), K)
        BY DEF Core, K
    <2> QED BY <1>8, <2>1, BoundFewer
<1>10. CountOK(L2, M2, K)
    <2>1. CountOK(L, M, K)
        BY DEF Core, K
    <2>2. \A l \in L2 : \/ l \in L /\ M2[l].count = M[l].count
                        \/ M2[l].count = 0 /\ \A r \in K : Target(M, r) # l
        BY <1>0, <1>2, <1>8
    <2>3. \A r \in K : Target(M2, r) = Target(M, r)
        BY <1>8
    <2> QED BY <2>1, <2>2, <2>3, CountSame
<1>11. RankOK(M2, K)
    <2>1. RankOK(M, K)
        BY DEF Core, K
    <2> QED BY <1>8, <2>1, RankFewer
<1>12. StackOK(D, M2, Libs(C), S2)
    <2>1. StackOK(D, M, Libs(C), S)
        BY DEF Core
    <2>2. \A k \in 1 .. N : S2[k] = S[k] /\ M2[S[k].id].name = M[S[k].id].name
                             /\ M2[S[k].id].refs = M[S[k].id].refs
        <3>1. \A k \in 1 .. N : S[k].id \in L
            BY <1>1 DEF Core, OwnerOK
        <3> QED BY <3>1, <1>0, <1>1, <1>2
    <2>3. \A l \in Libs(C) : l \in Libs(C) /\ M2[l].name = M[l].name
        BY <1>0, <1>2, <1>c
    <2>4. FrameOK(D, M2, Libs(C), S2, N + 1)
        <3>1. S2[N + 1].at = 1 /\ S2[N + 1].id = m /\ S2[N + 1].op = "resolve"
              /\ S2[N + 1].lib = lib /\ Len(M2[m].refs) = 0 /\ M2[m].name = n
            BY <1>1, <1>f, <1>2
        <3>2. D[n].imports \in Seq(Import)
            BY <1>0, DiskAssumption DEF Image
        <3>3. CASE S = <<>> /\ lib = FALSE
            <4>1. N = 0
                BY <3>3
            <4> QED BY <3>1, <3>2, <3>3, <4>1 DEF FrameOK
        <3>4. CASE ~(S = <<>> /\ lib = FALSE)
            <4>1. /\ lib = TRUE /\ S # <<>> /\ S[N].op = "resolve"
                  /\ S[N].at <= Len(D[M[S[N].id].name].imports)
                  /\ n = D[M[S[N].id].name].imports[S[N].at].dll
                  /\ \A l \in Libs(C) : M[l].name # n
                BY <3>4 DEF MayLoad
            <4>2. N \in DOMAIN S /\ N # 0
                <5>1. S \in Seq(Frame) /\ S # <<>>
                    BY <4>1, <1>0
                <5> QED BY <5>1, RestIs
            <4>3. FrameOK(D, M, Libs(C), S, N)
                BY <4>1, <4>2, <2>1 DEF StackOK
            <4>4. \A j \in 1 .. N + 1 : S2[j].op = "resolve"
                <5>1. \A j \in 1 .. N : S[j].op = "resolve"
                    BY <4>3 DEF FrameOK
                <5> QED BY <5>1, <1>1, <3>1
            <4>5. S2[N] = S[N] /\ M2[S[N].id].name = M[S[N].id].name
                BY <2>2, <4>2, <1>1
            <4>6. \A l \in Libs(C) : M2[l].name # n
                BY <4>1, <2>3
            <4>7. (N + 1) - 1 = N /\ N + 1 # 1
                BY <4>2, <1>1
            <4>8. /\ S2[N].at <= Len(D[M2[S2[N].id].name].imports)
                  /\ n = D[M2[S2[N].id].name].imports[S2[N].at].dll
                BY <4>1, <4>5
            <4>9. 0 <= Len(D[n].imports)
                BY <3>2
            <4>10. S2[N + 1].lib = (N + 1 # 1)
                BY <3>1, <4>1, <4>7
            <4>11. /\ S2[N + 1].at = Len(M2[S2[N + 1].id].refs) + 1
                   /\ Len(M2[S2[N + 1].id].refs) <= Len(D[M2[S2[N + 1].id].name].imports)
                BY <3>1, <4>9
            <4>12. M2[S2[N + 1].id].name = n
                BY <3>1
            <4> QED BY <4>4, <4>6, <4>7, <4>8, <4>10, <4>11, <4>12 DEF FrameOK
        <3> QED BY <3>3, <3>4
    <2>5. \A k \in N + 1 .. Len(S2) : S2[k].op = "resolve" => FrameOK(D, M2, Libs(C), S2, k)
        BY <1>1, <2>4
    <2>6. \A l \in Libs(C) : \/ l \in Libs(C) /\ M2[l].name = M[l].name
                         \/ \A k \in 2 .. N : S[k].op = "resolve" =>
                              M2[l].name # M[S[k].id].name
        BY <2>3
    <2>7. /\ N \in Nat /\ N <= Len(S) /\ N <= Len(S2)
          /\ S \in Seq(Frame) /\ S2 \in Seq(Frame)
        BY <1>0, <1>1
    <2>8. FramesStay(S, M, Libs(C), S2, M2, Libs(C), N)
        BY <2>2, <2>6 DEF FramesStay
    <2>9. FramesAbove(D, M2, Libs(C), S2, N)
        BY <2>5 DEF FramesAbove
    <2> QED BY <2>1, <2>7, <2>8, <2>9, StackKeep
<1>13. Core(D, L2, M2, C, S2, H)
    BY <1>3, <1>4, <1>5, <1>7, <1>9, <1>10, <1>11, <1>12 DEF Core, K
<1> QED BY <1>13 DEF M2, S2, f

\* A module that has given back all it had is freed.
LEMMA CoreFree ==
    ASSUME NEW D, NEW L, NEW M, NEW C, NEW S, NEW H, Core(D, L, M, C, S, H),
           S # <<>>, S[Len(S)].op = "unload",
           S[Len(S)].at > Len(M[S[Len(S)].id].refs), NEW n \in Names
    PROVE  Core(D, L \ {S[Len(S)].id}, [M EXCEPT ![S[Len(S)].id] = New(n)], C,
                SubSeq(S, 1, Len(S) - 1), H)
<1> DEFINE N == Len(S)
           s == S[N].id
           S2 == SubSeq(S, 1, N - 1)
           M2 == [M EXCEPT ![s] = New(n)]
           L2 == L \ {s}
           K == Kept(L, M, S)
<1>0. /\ S \in Seq(Frame) /\ DOMAIN S = 1 .. N /\ N \in Nat \ {0}
      /\ S2 \in Seq(Frame) /\ Len(S2) = N - 1 /\ DOMAIN S2 = 1 .. N - 1
      /\ \A k \in 1 .. N - 1 : S2[k] = S[k]
    BY RestIs DEF Core, Typed
<1>1. /\ L \subseteq Ids /\ M \in [Ids -> Module] /\ N \in DOMAIN S
      /\ s \in L /\ s \in Ids /\ s \notin Libs(C) /\ s \notin H
    <2>1. N \in DOMAIN S
        BY <1>0
    <2> QED BY <2>1, FrameFacts DEF Core, Typed
<1>2. /\ M2 \in [Ids -> Module] /\ \A x \in Ids : x # s => M2[x] = M[x]
    <2>1. New(n) \in Module
        BY NewType
    <2> QED BY <1>1, <2>1
<1>3. \A k \in 1 .. N - 1 : S[k].id # s
    BY <1>0, <1>1, OnStackOnce
<1> HIDE DEF S2, M2
<1>c. Libs(C) \subseteq L /\ \A b \in Buckets : \A i \in DOMAIN C[b] : C[b][i] \in L /\ C[b][i] \in Libs(C)
    BY <1>1 DEF Core, CacheOK, Libs
<1>4. Typed(D, L2, M2, C, S2, H)
    BY <1>0, <1>2 DEF Core, Typed
<1>5. CacheOK(D, L2, M2, C)
    <2>1. \A b \in Buckets : \A i \in DOMAIN C[b] : C[b][i] \in L2 /\ M2[C[b][i]] = M[C[b][i]]
        BY <1>1, <1>2, <1>c
    <2>2. CacheOK(D, L, M, C)
        BY DEF Core
    <2> HIDE DEF L2
    <2> QED BY <2>1, <2>2 DEF CacheOK
<1>6. OwnerOK(L2, Libs(C), S2, H)
    <2>1. \A k \in DOMAIN S2 : k \in DOMAIN S /\ S2[k] = S[k] /\ S[k].id # s
        BY <1>0, <1>3
    <2>2. OwnerOK(L, Libs(C), S, H)
        BY DEF Core
    <2>3. \A x : x \in L2 <=> x \in L /\ x # s
        OBVIOUS
    <2> HIDE DEF L2, s, N
    <2> QED BY <2>1, <2>2, <2>3, <1>1 DEF OwnerOK
<1>7. SameGiven(S, S2, L \cap L2)
    <2>1. \A k \in DOMAIN S2 : k \in DOMAIN S /\ S2[k] = S[k]
        BY <1>0
    <2>2. \A k \in DOMAIN S : S[k].id # s => k \in DOMAIN S2 /\ S2[k] = S[k]
        BY <1>0
    <2> QED BY <2>1, <2>2 DEF SameGiven, Given
<1>8. Kept(L2, M2, S2) = K
    <2>1. Agree(M, M2, L \cap L2) /\ L2 \subseteq Ids /\ Typed(D, L, M, C, S, H)
        BY <1>1, <1>2 DEF Agree, Core
    <2>2. \A x \in L2 \ L : M2[x].refs = <<>>
        OBVIOUS
    <2>3. \A x \in L \ L2 : \A i \in DOMAIN M[x].refs : Given(S, x, i)
        <3> SUFFICES ASSUME NEW i \in DOMAIN M[s].refs PROVE Given(S, s, i)
            OBVIOUS
        <3>1. M[s].refs \in Seq(Ids)
            BY <1>1 DEF Module
        <3>2. i \in 1 .. Len(M[s].refs) /\ Len(M[s].refs) \in Nat
            BY <3>1
        <3>3. S[N].at \in Nat
            BY <1>1, FrameFacts DEF Frame
        <3>4. i < S[N].at
            BY <3>2, <3>3
        <3> QED BY <1>1, <3>4 DEF Given
    <2> QED BY <1>2, <1>7, <2>1, <2>2, <2>3, KeptSame
<1> HIDE DEF K
<1>9. \A r \in K : /\ r[1] # s /\ Target(M, r) # s /\ Target(M, r) \in Libs(C)
                   /\ Target(M2, r) = Target(M, r)
                   /\ M2[r[1]].name = M[r[1]].name
                   /\ M2[Target(M, r)].name = M[Target(M, r)].name
    <2> SUFFICES ASSUME NEW r \in K
                 PROVE  /\ r[1] # s /\ Target(M, r) # s /\ Target(M, r) \in Libs(C)
                        /\ Target(M2, r) = Target(M, r)
                        /\ M2[r[1]].name = M[r[1]].name
                        /\ M2[Target(M, r)].name = M[Target(M, r)].name
        OBVIOUS
    <2>1. r[1] \in L2
        BY <1>8 DEF Kept
    <2>2. Target(M, r) \in Libs(C) /\ r[1] \in L
        BY RefsLead DEF K
    <2>3. r[1] \in Ids /\ r[1] # s /\ Target(M, r) # s /\ Target(M, r) \in Ids
        BY <2>1, <2>2, <1>1, <1>c
    <2> QED BY <1>2, <2>2, <2>3 DEF Target
<1>10. BoundOK(D, M2, Libs(C), K)
    <2>1. BoundOK(D, M, Libs(C), K)
        BY DEF Core, K
    <2> QED BY <1>9, <2>1, BoundFewer
<1>11. CountOK(L2, M2, K)
    <2>1. CountOK(L, M, K)
        BY DEF Core, K
    <2>2. \A l \in L2 : l \in L /\ M2[l].count = M[l].count
        BY <1>1, <1>2
    <2>3. \A l \in L2 : \/ l \in L /\ M2[l].count = M[l].count
                        \/ M2[l].count = 0 /\ \A r \in K : Target(M, r) # l
        BY <2>2
    <2>4. \A r \in K : Target(M2, r) = Target(M, r)
        BY <1>9
    <2> QED BY <2>1, <2>3, <2>4, CountSame
<1>12. RankOK(M2, K)
    <2>1. RankOK(M, K)
        BY DEF Core, K
    <2> QED BY <1>9, <2>1, RankFewer
<1>13. StackOK(D, M2, Libs(C), S2)
    <2>1. StackOK(D, M, Libs(C), S)
        BY DEF Core
    <2>2. \A k \in 1 .. N - 1 : S2[k] = S[k] /\ M2[S[k].id].name = M[S[k].id].name
                             /\ M2[S[k].id].refs = M[S[k].id].refs
        <3>1. \A k \in 1 .. N - 1 : S[k].id \in Ids
            BY <1>0, <1>1 DEF Core, OwnerOK
        <3> QED BY <3>1, <1>0, <1>2, <1>3
    <2>3. \A l \in Libs(C) : M2[l].name = M[l].name
        BY <1>1, <1>2, <1>c
    <2>4. \A l \in Libs(C) : \/ l \in Libs(C) /\ M2[l].name = M[l].name
                         \/ \A k \in 2 .. N - 1 : S[k].op = "resolve" =>
                              M2[l].name # M[S[k].id].name
        BY <2>3
    <2>5. \A k \in (N - 1) + 1 .. Len(S2) :
             S2[k].op = "resolve" => FrameOK(D, M2, Libs(C), S2, k)
        BY <1>0
    <2>6. /\ N - 1 \in Nat /\ N - 1 <= Len(S) /\ N - 1 <= Len(S2)
          /\ S \in Seq(Frame) /\ S2 \in Seq(Frame)
        BY <1>0
    <2>7. FramesStay(S, M, Libs(C), S2, M2, Libs(C), N - 1)
        BY <2>2, <2>4 DEF FramesStay
    <2>8. FramesAbove(D, M2, Libs(C), S2, N - 1)
        BY <2>5 DEF FramesAbove
    <2> QED BY <2>1, <2>6, <2>7, <2>8, StackKeep
<1>14. Core(D, L2, M2, C, S2, H)
    BY <1>4, <1>5, <1>6, <1>8, <1>10, <1>11, <1>12, <1>13 DEF Core, K
<1> QED BY <1>14 DEF M2, S2

\* A reference is given back.
LEMMA CoreRelease ==
    ASSUME NEW D, NEW L, NEW M, NEW C, NEW S, NEW H, Core(D, L, M, C, S, H),
           S # <<>>, S[Len(S)].op = "unload",
           S[Len(S)].at <= Len(M[S[Len(S)].id].refs),
           NEW l, l = M[S[Len(S)].id].refs[S[Len(S)].at]
    PROVE  /\ l \in Libs(C) /\ l \in L /\ M[l].count \in Nat \ {0}
           /\ Core(D, L, [M EXCEPT ![l].count = @ - 1], C,
                   [S EXCEPT ![Len(S)].at = @ + 1], H)
<1> DEFINE N == Len(S)
           s == S[N].id
           a == S[N].at
           r0 == <<s, a>>
           S2 == [S EXCEPT ![N].at = @ + 1]
           M2 == [M EXCEPT ![l].count = @ - 1]
           K == Kept(L, M, S)
           K2 == Kept(L, M2, S2)
<1>0. /\ S \in Seq(Frame) /\ DOMAIN S = 1 .. N /\ N \in Nat \ {0} /\ N \in DOMAIN S
    BY RestIs DEF Core, Typed
<1>1. /\ L \subseteq Ids /\ M \in [Ids -> Module]
      /\ s \in L /\ s \in Ids /\ S[N] \in Frame /\ a \in Nat \ {0}
    <2>1. L \subseteq Ids /\ M \in [Ids -> Module]
        BY DEF Core, Typed
    <2>2. s \in L /\ s \in Ids /\ S[N] \in Frame
        BY <1>0, FrameFacts
    <2>3. a \in Nat \ {0}
        BY <2>2 DEF Frame
    <2> QED BY <2>1, <2>2, <2>3
<1>2. a \in DOMAIN M[s].refs /\ a \in 1 .. Len(M[s].refs)
    <2>1. M[s].refs \in Seq(Ids)
        BY <1>1 DEF Module
    <2> QED BY <1>1, <2>1
<1>3. r0 \in K /\ Target(M, r0) = l
    <2>1. ~Given(S, s, a)
        <3>1. \A k \in DOMAIN S : S[k].id = s => k = N
            BY <1>0, OnStackOnce
        <3> QED BY <3>1, <1>1 DEF Given
    <2> QED BY <1>1, <1>2, <2>1 DEF Kept, Target
<1>4. l \in Libs(C) /\ l \in L /\ l \in Ids
    BY <1>3, RefsLead
<1>5. CountOK(L, M, K)
    BY DEF Core
<1>6. M[l].count \in Nat \ {0} /\ IsFiniteSet(RefsTo(M, K, l))
    <2>1. r0 \in RefsTo(M, K, l)
        BY <1>3 DEF RefsTo
    <2>2. IsFiniteSet(RefsTo(M, K, l)) /\ M[l].count = Cardinality(RefsTo(M, K, l))
        BY <1>4, <1>5 DEF CountOK
    <2> QED BY <2>1, <2>2, FS_CardinalityType, FS_EmptySet
<1>7. /\ M2 \in [Ids -> Module] /\ M2[l].count = M[l].count - 1
      /\ \A x \in Ids : M2[x].name = M[x].name /\ M2[x].refs = M[x].refs
                        /\ (x # l => M2[x].count = M[x].count)
    <2>1. M[l] \in Module /\ M[l].count - 1 \in Int
        <3>1. M[l] \in Module
            BY <1>1, <1>4
        <3>2. \A c \in Nat \ {0} : c - 1 \in Int
            OBVIOUS
        <3>3. M[l].count - 1 \in Int
            BY <1>6, <3>2, Zenon
        <3> QED BY <3>1, <3>3
    <2>2. [M[l] EXCEPT !.count = M[l].count - 1] \in Module
        BY <2>1, FieldType, Zenon
    <2>3. M2 = [M EXCEPT ![l] = [M[l] EXCEPT !.count = M[l].count - 1]]
        OBVIOUS
    <2>4. M2 \in [Ids -> Module]
        BY <1>1, <1>4, <2>2, <2>3
    <2>5. \A x \in Ids : x # l => M2[x] = M[x]
        BY <1>1, <2>3
    <2>6. M2[l] = [M[l] EXCEPT !.count = M[l].count - 1]
        BY <1>1, <1>4, <2>3
    <2>7. M2[l].name = M[l].name /\ M2[l].refs = M[l].refs /\ M2[l].count = M[l].count - 1
        <3> DEFINE r == M[l]
                   c == M[l].count - 1
                   r2 == M2[l]
        <3>1. r \in Module /\ c \in Int /\ r2 = [r EXCEPT !.count = c]
            BY <2>1, <2>6
        <3> HIDE DEF r, c, r2
        <3>2. r2.name = r.name /\ r2.refs = r.refs /\ r2.count = c
            BY <3>1 DEF Module
        <3> QED BY <3>2 DEF r, c, r2
    <2> QED BY <2>4, <2>5, <2>7
<1>8. /\ S2 \in Seq(Frame) /\ DOMAIN S2 = DOMAIN S /\ Len(S2) = N
      /\ \A k \in DOMAIN S : k # N => S2[k] = S[k]
      /\ S2[N].id = s /\ S2[N].op = "unload" /\ S2[N].at = a + 1
    <2>1. S2 = [S EXCEPT ![N] = [S[N] EXCEPT !.at = S[N].at + 1]]
        OBVIOUS
    <2>2. [S[N] EXCEPT !.at = S[N].at + 1] \in Frame
        BY <1>1 DEF Frame
    <2>3. [S[N] EXCEPT !.at = S[N].at + 1].id = s
          /\ [S[N] EXCEPT !.at = S[N].at + 1].op = "unload"
          /\ [S[N] EXCEPT !.at = S[N].at + 1].at = a + 1
        BY <1>1 DEF Frame
    <2> HIDE DEF S2
    <2> QED BY <1>0, <2>1, <2>2, <2>3, ExceptSeq
<1> HIDE DEF S2, M2
<1>9. K2 = K \ {r0}
    <2>1. \A m \in L, i \in Nat : Given(S2, m, i) <=> Given(S, m, i) \/ (m = s /\ i < a + 1)
        <3> SUFFICES ASSUME NEW m \in L, NEW i \in Nat
                     PROVE  Given(S2, m, i) <=> Given(S, m, i) \/ (m = s /\ i < a + 1)
            OBVIOUS
        <3>1. CASE m = s
            <4>1. \A k \in DOMAIN S : S[k].id = s => k = N
                BY <1>0, OnStackOnce
            <4>2. \A k \in DOMAIN S2 : S2[k].id = s => k = N
                BY <4>1, <1>8
            <4> QED BY <3>1, <4>1, <4>2, <1>0, <1>1, <1>8 DEF Given
        <3>2. CASE m # s
            <4>1. \A k \in DOMAIN S : S[k].id = m => k # N /\ S2[k] = S[k]
                BY <3>2, <1>8
            <4>2. \A k \in DOMAIN S2 : S2[k].id = m => k # N /\ S2[k] = S[k]
                BY <3>2, <1>8
            <4> QED BY <3>2, <4>1, <4>2, <1>8 DEF Given
        <3> QED BY <3>1, <3>2
    <2>2. \A i \in Nat : i < a + 1 /\ ~Given(S, s, i) => i = a
        <3>1. S[N].op = "unload" /\ S[N].id = s /\ S[N].at = a
            OBVIOUS
        <3> QED BY <3>1, <1>0, <1>1 DEF Given
    <2>3. \A m \in L : M2[m].refs = M[m].refs
        BY <1>1, <1>7
    <2>4. \A m \in L, i \in Nat : <<m, i>> \in K2 <=> <<m, i>> \in K /\ <<m, i>> # r0
        <3> SUFFICES ASSUME NEW m \in L, NEW i \in Nat
                     PROVE  <<m, i>> \in K2 <=> <<m, i>> \in K /\ <<m, i>> # r0
            OBVIOUS
        <3>1. <<m, i>> \in K2 <=> i \in DOMAIN M[m].refs /\ ~Given(S2, m, i)
            BY <2>3 DEF Kept
        <3>2. <<m, i>> \in K <=> i \in DOMAIN M[m].refs /\ ~Given(S, m, i)
            BY DEF Kept
        <3>3. Given(S2, m, i) <=> Given(S, m, i) \/ (m = s /\ i < a + 1)
            BY <2>1
        <3>4. <<m, i>> = r0 <=> m = s /\ i = a
            OBVIOUS
        <3> QED BY <3>1, <3>2, <3>3, <3>4, <2>2, <1>1
    <2>5. K2 \subseteq L \X Nat /\ K \subseteq L \X Nat
        BY DEF Kept
    <2> HIDE DEF K, K2
    <2> QED BY <2>4, <2>5
<1>10. \A r \in K : /\ Target(M2, r) = Target(M, r) /\ Target(M, r) \in Libs(C)
                    /\ M2[r[1]].name = M[r[1]].name
                    /\ M2[Target(M, r)].name = M[Target(M, r)].name
    <2> SUFFICES ASSUME NEW r \in K
                 PROVE  /\ Target(M2, r) = Target(M, r) /\ Target(M, r) \in Libs(C)
                        /\ M2[r[1]].name = M[r[1]].name
                        /\ M2[Target(M, r)].name = M[Target(M, r)].name
        OBVIOUS
    <2>1. r[1] \in Ids /\ Target(M, r) \in Libs(C) /\ Target(M, r) \in Ids
        BY <1>1, RefsLead
    <2> QED BY <1>7, <2>1 DEF Target
<1> HIDE DEF K, K2
<1>11. Typed(D, L, M2, C, S2, H)
    BY <1>7, <1>8 DEF Core, Typed
<1>12. CacheOK(D, L, M2, C)
    <2>1. CacheOK(D, L, M, C)
        BY DEF Core
    <2>2. \A b \in Buckets : \A i \in DOMAIN C[b] :
             M2[C[b][i]].name = M[C[b][i]].name /\ M2[C[b][i]].refs = M[C[b][i]].refs
        <3>1. \A b \in Buckets : \A i \in DOMAIN C[b] : C[b][i] \in Ids
            BY <2>1, <1>1 DEF CacheOK
        <3> QED BY <3>1, <1>7
    <2> QED BY <2>1, <2>2 DEF CacheOK
<1>13. OwnerOK(L, Libs(C), S2, H)
    <2>1. \A k \in DOMAIN S : S2[k].id = S[k].id
        BY <1>8
    <2> QED BY <2>1, <1>8 DEF Core, OwnerOK
<1>14. BoundOK(D, M2, Libs(C), K2)
    <2>1. BoundOK(D, M, Libs(C), K)
        BY DEF Core, K
    <2>2. K2 \subseteq K
        BY <1>9
    <2> QED BY <1>10, <2>1, <2>2, BoundFewer
<1>15. CountOK(L, M2, K2)
    <2> SUFFICES ASSUME NEW x \in L
                 PROVE  /\ IsFiniteSet(RefsTo(M2, K2, x))
                        /\ M2[x].count = Cardinality(RefsTo(M2, K2, x))
        BY DEF CountOK
    <2>1. IsFiniteSet(RefsTo(M, K, x)) /\ M[x].count = Cardinality(RefsTo(M, K, x))
        BY <1>5 DEF CountOK
    <2>2. CASE x = l
        <3>1. RefsTo(M2, K2, x) = RefsTo(M, K, x) \ {r0} /\ r0 \in RefsTo(M, K, x)
            BY <1>3, <1>9, <1>10, <2>2 DEF RefsTo
        <3>2. IsFiniteSet(RefsTo(M2, K2, x))
              /\ Cardinality(RefsTo(M2, K2, x)) = Cardinality(RefsTo(M, K, x)) - 1
            <4>1. /\ IsFiniteSet(RefsTo(M, K, x) \ {r0})
                  /\ Cardinality(RefsTo(M, K, x) \ {r0}) = Cardinality(RefsTo(M, K, x)) - 1
                <5> DEFINE R == RefsTo(M, K, x)
                <5>1. IsFiniteSet(R) /\ r0 \in R
                    BY <2>1, <3>1
                <5> HIDE DEF R, r0
                <5>2. IsFiniteSet(R \ {r0}) /\ Cardinality(R \ {r0}) = Cardinality(R) - 1
                    BY <5>1, FS_RemoveElement
                <5> QED BY <5>2 DEF R
            <4> HIDE DEF r0
            <4> QED BY <3>1, <4>1
        <3> QED BY <2>1, <2>2, <3>2, <1>7
    <2>3. CASE x # l
        <3>1. RefsTo(M2, K2, x) = RefsTo(M, K, x)
            BY <1>3, <1>9, <1>10, <2>3 DEF RefsTo
        <3> QED BY <2>1, <2>3, <3>1, <1>1, <1>7
    <2> QED BY <2>2, <2>3
<1>16. RankOK(M2, K2)
    <2>1. RankOK(M, K)
        BY DEF Core, K
    <2>2. K2 \subseteq K
        BY <1>9
    <2> QED BY <1>10, <2>1, <2>2, RankFewer
<1>17. StackOK(D, M2, Libs(C), S2)
    <2> DEFINE J == N - 1
    <2>1. StackOK(D, M, Libs(C), S)
        BY DEF Core
    <2>2. \A k \in 1 .. J : S2[k] = S[k] /\ M2[S[k].id].name = M[S[k].id].name
                             /\ M2[S[k].id].refs = M[S[k].id].refs
        <3> SUFFICES ASSUME NEW k \in 1 .. J
                     PROVE  S2[k] = S[k] /\ M2[S[k].id].name = M[S[k].id].name
                            /\ M2[S[k].id].refs = M[S[k].id].refs
            OBVIOUS
        <3>1. k \in DOMAIN S /\ k # N
            <4>1. DOMAIN S = 1 .. N /\ N \in Nat
                BY <1>0
            <4> HIDE DEF N
            <4> QED BY <4>1
        <3>2. S[k].id \in Ids
            BY <3>1, <1>1 DEF Core, OwnerOK
        <3> QED BY <3>1, <3>2, <1>7, <1>8
    <2>3. \A x \in Libs(C) : M2[x].name = M[x].name
        BY <1>7 DEF Libs
    <2>4. \A x \in Libs(C) : \/ x \in Libs(C) /\ M2[x].name = M[x].name
                         \/ \A k \in 2 .. J : S[k].op = "resolve" =>
                              M2[x].name # M[S[k].id].name
        BY <2>3
    <2>5. \A k \in J + 1 .. Len(S2) :
             S2[k].op = "resolve" => FrameOK(D, M2, Libs(C), S2, k)
        BY <1>0, <1>8
    <2>6. /\ J \in Nat /\ J <= Len(S) /\ J <= Len(S2)
          /\ S \in Seq(Frame) /\ S2 \in Seq(Frame)
        BY <1>0, <1>8
    <2>7. FramesStay(S, M, Libs(C), S2, M2, Libs(C), J)
        BY <2>2, <2>4 DEF FramesStay
    <2>8. FramesAbove(D, M2, Libs(C), S2, J)
        BY <2>5 DEF FramesAbove
    <2> QED BY <2>1, <2>6, <2>7, <2>8, StackKeep
<1>18. Core(D, L, M2, C, S2, H)
    BY <1>11, <1>12, <1>13, <1>14, <1>15, <1>16, <1>17 DEF Core, K2
<1> QED BY <1>4, <1>6, <1>18 DEF M2, S2

\* Nothing has been given back of a module being loaded.
LEMMA NothingGiven ==
    ASSUME NEW D, NEW L, NEW M, NEW C, NEW S, NEW H, Core(D, L, M, C, S, H),
           NEW n \in DOMAIN S, S[n].op = "resolve"
    PROVE  \A i : ~Given(S, S[n].id, i)
<1>1. \A k \in DOMAIN S : S[k].id = S[n].id => k = n
    BY OnStackOnce
<1> QED BY <1>1 DEF Given

\* The call on top goes on: one place further, all else as it was.
LEMMA AdvanceIs ==
    ASSUME NEW S \in Seq(Frame), S # <<>>
    PROVE  /\ [S EXCEPT ![Len(S)].at = @ + 1] \in Seq(Frame)
           /\ Len([S EXCEPT ![Len(S)].at = @ + 1]) = Len(S)
           /\ DOMAIN [S EXCEPT ![Len(S)].at = @ + 1] = DOMAIN S
           /\ \A k \in DOMAIN S : k # Len(S) => [S EXCEPT ![Len(S)].at = @ + 1][k] = S[k]
           /\ [S EXCEPT ![Len(S)].at = @ + 1][Len(S)].id = S[Len(S)].id
           /\ [S EXCEPT ![Len(S)].at = @ + 1][Len(S)].op = S[Len(S)].op
           /\ [S EXCEPT ![Len(S)].at = @ + 1][Len(S)].lib = S[Len(S)].lib
           /\ [S EXCEPT ![Len(S)].at = @ + 1][Len(S)].at = S[Len(S)].at + 1
<1> DEFINE N == Len(S)
           f == [S[N] EXCEPT !.at = S[N].at + 1]
           S2 == [S EXCEPT ![N] = f]
<1>1. N \in DOMAIN S /\ S[N] \in Frame
    BY RestIs, ElementOfSeq
<1>2. f \in Frame
    BY <1>1 DEF Frame
<1>3. /\ f.id = S[N].id /\ f.op = S[N].op /\ f.lib = S[N].lib /\ f.at = S[N].at + 1
    BY <1>1 DEF Frame
<1>4. S2 = [S EXCEPT ![Len(S)].at = @ + 1]
    OBVIOUS
<1> HIDE DEF f
<1>5. S2 \in Seq(Frame) /\ Len(S2) = N /\ DOMAIN S2 = DOMAIN S
      /\ (\A k \in DOMAIN S : k # N => S2[k] = S[k]) /\ S2[N] = f
    BY <1>1, <1>2, ExceptSeq
<1> QED BY <1>3, <1>4, <1>5

\* The pairs of modules, and of stacks, before and after.
Counting(M, M2, s, l) ==
    M2 = [M EXCEPT ![l].count = @ + 1, ![s].refs = Append(@, l)]
Wants(D, M, s, a, l) ==
    a <= Len(D[M[s].name].imports) /\ M[l].name = D[M[s].name].imports[a].dll
Advancing(S, S2) == S2 = [S EXCEPT ![Len(S)].at = @ + 1]

\* A reference to a library of the cache is counted and recorded.
LEMMA CountedIs ==
    ASSUME NEW M \in [Ids -> Module], NEW s \in Ids, NEW l \in Ids, s # l,
           NEW M2, Counting(M, M2, s, l)
    PROVE  /\ M2 \in [Ids -> Module]
           /\ M2[l].count = M[l].count + 1 /\ M2[s].refs = Append(M[s].refs, l)
           /\ \A x \in Ids : /\ M2[x].name = M[x].name
                             /\ x # s => M2[x].refs = M[x].refs
                             /\ x # l => M2[x].count = M[x].count
<1> DEFINE rl == [M[l] EXCEPT !.count = M[l].count + 1]
           rs == [M[s] EXCEPT !.refs = Append(M[s].refs, l)]
<1>1. M[l] \in Module /\ M[s] \in Module
    OBVIOUS
<1>2. M[l].count + 1 \in Int /\ Append(M[s].refs, l) \in Seq(Ids)
    <2>1. M[l].count \in Int /\ M[s].refs \in Seq(Ids)
        BY <1>1, FieldType
    <2> QED BY <2>1, AppendProperties
<1>3. rl \in Module /\ rs \in Module
    BY <1>1, <1>2, FieldType, Zenon
<1>4. /\ rl.name = M[l].name /\ rl.refs = M[l].refs /\ rl.count = M[l].count + 1
      /\ rs.name = M[s].name /\ rs.refs = Append(M[s].refs, l) /\ rs.count = M[s].count
    BY <1>1 DEF Module
<1>5. M2 = [[M EXCEPT ![l] = rl] EXCEPT ![s] = rs]
    BY DEF Counting
<1> HIDE DEF rl, rs
<1>6. M2 \in [Ids -> Module] /\ M2[l] = rl /\ M2[s] = rs
      /\ \A x \in Ids : x # l /\ x # s => M2[x] = M[x]
    BY <1>3, <1>5
<1> QED BY <1>4, <1>6

\* An import is resolved.
LEMMA CoreAdopt ==
    ASSUME NEW D, NEW L, NEW M, NEW C, NEW S, NEW H, Core(D, L, M, C, S, H),
           NEW N, N = Len(S), S # <<>>, S[N].op = "resolve",
           NEW s, s = S[N].id, NEW a, a = S[N].at,
           NEW l \in Libs(C), Wants(D, M, s, a, l),
           NEW M2, Counting(M, M2, s, l), NEW S2, Advancing(S, S2)
    PROVE  Core(D, L, M2, C, S2, H)
<1> DEFINE r0 == <<s, a>>
           K == Kept(L, M, S)
           K2 == Kept(L, M2, S2)
<1> HIDE DEF r0, K, K2
<1>0. /\ S \in Seq(Frame) /\ DOMAIN S = 1 .. N /\ N \in Nat \ {0} /\ N \in DOMAIN S
    BY RestIs DEF Core, Typed
<1>1. /\ L \subseteq Ids /\ M \in [Ids -> Module] /\ D \in Disks
      /\ s \in L /\ s \in Ids /\ s \notin Libs(C) /\ a \in Nat \ {0}
      /\ FrameOK(D, M, Libs(C), S, N)
    <2>1. L \subseteq Ids /\ M \in [Ids -> Module] /\ D \in Disks
        BY DEF Core, Typed
    <2>2. s \in L /\ s \in Ids /\ S[N] \in Frame /\ s \notin Libs(C)
          /\ FrameOK(D, M, Libs(C), S, N)
        BY <1>0, FrameFacts
    <2>3. a \in Nat \ {0}
        BY <2>2 DEF Frame
    <2> QED BY <2>1, <2>2, <2>3
<1>2. l \in Ids /\ l \in L /\ l # s
    <2>1. \E b \in Buckets : \E i \in DOMAIN C[b] : C[b][i] = l
        BY DEF Libs
    <2>2. l \in L
        BY <2>1 DEF Core, CacheOK
    <2> QED BY <1>1, <2>2
<1>3. /\ M2 \in [Ids -> Module]
      /\ M2[l].count = M[l].count + 1 /\ M2[s].refs = Append(M[s].refs, l)
      /\ \A x \in Ids : /\ M2[x].name = M[x].name
                        /\ x # s => M2[x].refs = M[x].refs
                        /\ x # l => M2[x].count = M[x].count
    BY <1>1, <1>2, CountedIs, SMTT(30)
<1>4. /\ a = Len(M[s].refs) + 1 /\ DOMAIN M[s].refs = 1 .. a - 1
      /\ Len(M2[s].refs) = a /\ DOMAIN M2[s].refs = 1 .. a /\ M2[s].refs[a] = l
      /\ \A i \in 1 .. a - 1 : M2[s].refs[i] = M[s].refs[i]
    <2>1. M[s].refs \in Seq(Ids)
        BY <1>1, FieldType
    <2>2. a = Len(M[s].refs) + 1
        BY <1>1 DEF FrameOK
    <2> DEFINE q == M[s].refs
               q2 == Append(q, l)
    <2>3. M2[s].refs = q2
        BY <1>3
    <2>4. q \in Seq(Ids) /\ a = Len(q) + 1
        BY <2>1, <2>2
    <2> HIDE DEF q
    <2>5. /\ q2 \in Seq(Ids) /\ Len(q2) = Len(q) + 1 /\ q2[Len(q) + 1] = l
          /\ \A i \in 1 .. Len(q) : q2[i] = q[i]
        BY <2>4, <1>2, AppendProperties
    <2> HIDE DEF q2
    <2>6. Len(q) \in Nat /\ Len(q) = a - 1 /\ DOMAIN q = 1 .. a - 1 /\ DOMAIN q2 = 1 .. a
        BY <2>4, <2>5
    <2> QED BY <2>2, <2>3, <2>4, <2>5, <2>6 DEF q
<1>5. /\ S2 \in Seq(Frame) /\ DOMAIN S2 = DOMAIN S /\ Len(S2) = N
      /\ \A k \in DOMAIN S : k # N => S2[k] = S[k]
      /\ S2[N].id = s /\ S2[N].op = "resolve" /\ S2[N].at = a + 1 /\ S2[N].lib = S[N].lib
    BY <1>0, AdvanceIs DEF Advancing
<1>6. \A i : ~Given(S, s, i)
    BY <1>0, NothingGiven
<1>7. \A m \in L, i \in Nat : Given(S2, m, i) <=> Given(S, m, i)
    <2>1. \A k \in DOMAIN S : S[k].op = "unload" => k # N /\ S2[k] = S[k]
        BY <1>5
    <2>2. \A k \in DOMAIN S2 : S2[k].op = "unload" => k # N /\ S2[k] = S[k]
        BY <1>5
    <2> QED BY <2>1, <2>2, <1>5 DEF Given
<1>8. K2 = K \cup {r0} /\ r0 \notin K
    <2>1. \A m \in L, i \in Nat : <<m, i>> \in K2 <=> <<m, i>> \in K \/ <<m, i>> = r0
        <3> SUFFICES ASSUME NEW m \in L, NEW i \in Nat
                     PROVE  <<m, i>> \in K2 <=> <<m, i>> \in K \/ <<m, i>> = r0
            OBVIOUS
        <3>1. <<m, i>> \in K2 <=> i \in DOMAIN M2[m].refs /\ ~Given(S, m, i)
            BY <1>7 DEF Kept, K2
        <3>2. <<m, i>> \in K <=> i \in DOMAIN M[m].refs /\ ~Given(S, m, i)
            BY DEF Kept, K
        <3>3. CASE m # s
            BY <3>1, <3>2, <3>3, <1>1, <1>3 DEF r0
        <3>4. CASE m = s
            <4>1. i \in 1 .. a <=> i \in 1 .. a - 1 \/ i = a
                BY <1>1
            <4>2. <<m, i>> = r0 <=> i = a
                BY <3>4 DEF r0
            <4> QED BY <3>1, <3>2, <3>4, <4>1, <4>2, <1>4, <1>6
        <3> QED BY <3>3, <3>4
    <2>2. K2 \subseteq L \X Nat /\ K \subseteq L \X Nat /\ r0 \in L \X Nat
        BY <1>1 DEF Kept, K, K2, r0
    <2>3. r0 \notin K
        <3>1. a \notin DOMAIN M[s].refs
            <4>1. a \in Nat /\ DOMAIN M[s].refs = 1 .. a - 1
                BY <1>1, <1>4
            <4> QED BY <4>1
        <3> QED BY <3>1 DEF Kept, K, r0
    <2> QED BY <2>1, <2>2, <2>3
<1>9. /\ r0[1] = s /\ r0[2] = a /\ Target(M2, r0) = l
    BY <1>4 DEF Target, r0
<1>10. \A r \in K : /\ Target(M2, r) = Target(M, r) /\ Target(M, r) \in Libs(C)
                    /\ Target(M, r) \in Ids /\ Target(M, r) # s /\ r[1] \in Ids
                    /\ M2[r[1]].name = M[r[1]].name
                    /\ M2[Target(M, r)].name = M[Target(M, r)].name
    <2> SUFFICES ASSUME NEW r \in K
                 PROVE  /\ Target(M2, r) = Target(M, r) /\ Target(M, r) \in Libs(C)
                        /\ Target(M, r) \in Ids /\ Target(M, r) # s /\ r[1] \in Ids
                        /\ M2[r[1]].name = M[r[1]].name
                        /\ M2[Target(M, r)].name = M[Target(M, r)].name
        OBVIOUS
    <2>1. r[1] \in Ids /\ Target(M, r) \in Libs(C) /\ Target(M, r) \in Ids
        BY <1>1, RefsLead DEF K
    <2>2. r[2] \in DOMAIN M[r[1]].refs
        BY DEF Kept, K
    <2>3. Target(M2, r) = Target(M, r)
        <3>1. CASE r[1] = s
            <4>1. r[2] \in 1 .. a - 1
                BY <3>1, <2>2, <1>4
            <4>2. M2[s].refs[r[2]] = M[s].refs[r[2]]
                BY <4>1, <1>4
            <4> QED BY <3>1, <4>2 DEF Target
        <3>2. CASE r[1] # s
            BY <3>2, <2>1, <1>3 DEF Target
        <3> QED BY <3>1, <3>2
    <2> QED BY <1>1, <1>3, <2>1, <2>3
<1>11. Typed(D, L, M2, C, S2, H)
    BY <1>3, <1>5 DEF Core, Typed
<1>12. CacheOK(D, L, M2, C)
    <2>1. CacheOK(D, L, M, C)
        BY DEF Core
    <2>2. \A b \in Buckets : \A i \in DOMAIN C[b] :
             M2[C[b][i]].name = M[C[b][i]].name /\ M2[C[b][i]].refs = M[C[b][i]].refs
        <3>1. \A b \in Buckets : \A i \in DOMAIN C[b] : C[b][i] \in Ids /\ C[b][i] \in Libs(C)
            BY <2>1, <1>1 DEF CacheOK, Libs
        <3> QED BY <3>1, <1>1, <1>3
    <2> QED BY <2>1, <2>2 DEF CacheOK
<1>13. OwnerOK(L, Libs(C), S2, H)
    <2>1. \A k \in DOMAIN S : S2[k].id = S[k].id
        BY <1>5
    <2> QED BY <2>1, <1>5 DEF Core, OwnerOK
<1>14. BoundOK(D, M2, Libs(C), K2)
    <2>1. BoundOK(D, M, Libs(C), K)
        BY DEF Core, K
    <2>2. ASSUME NEW r \in K
          PROVE  /\ Target(M2, r) \in Libs(C)
                 /\ r[2] \in DOMAIN D[M2[r[1]].name].imports
                 /\ M2[Target(M2, r)].name = D[M2[r[1]].name].imports[r[2]].dll
        BY <2>1, <1>10 DEF BoundOK
    <2>3. a \in DOMAIN D[M[s].name].imports
        <3>1. M[s].name \in Names
            BY <1>1, FieldType
        <3>2. D[M[s].name].imports \in Seq(Import)
            BY <3>1, <1>1, DiskAssumption DEF Image
        <3>3. a \in Nat \ {0} /\ a <= Len(D[M[s].name].imports)
            BY <1>1 DEF Wants
        <3> QED BY <3>2, <3>3
    <2>4. /\ Target(M2, r0) \in Libs(C)
          /\ r0[2] \in DOMAIN D[M2[r0[1]].name].imports
          /\ M2[Target(M2, r0)].name = D[M2[r0[1]].name].imports[r0[2]].dll
        <3>1. M2[s].name = M[s].name /\ M2[l].name = M[l].name
            BY <1>1, <1>2, <1>3
        <3> QED BY <3>1, <2>3, <1>9 DEF Wants
    <2> QED BY <2>2, <2>4, <1>8 DEF BoundOK
<1>15. CountOK(L, M2, K2)
    <2> SUFFICES ASSUME NEW x \in L
                 PROVE  /\ IsFiniteSet(RefsTo(M2, K2, x))
                        /\ M2[x].count = Cardinality(RefsTo(M2, K2, x))
        BY DEF CountOK
    <2> DEFINE R == RefsTo(M, K, x)
    <2>1. IsFiniteSet(R) /\ M[x].count = Cardinality(R)
        BY DEF CountOK, Core, K
    <2>2. CASE x = l
        <3>1. RefsTo(M2, K2, x) = R \cup {r0} /\ r0 \notin R
            BY <1>8, <1>9, <1>10, <2>2 DEF RefsTo
        <3> HIDE DEF R
        <3>2. IsFiniteSet(R \cup {r0}) /\ Cardinality(R \cup {r0}) = Cardinality(R) + 1
            BY <2>1, <3>1, FS_AddElement
        <3> QED BY <2>1, <2>2, <3>1, <3>2, <1>3
    <2>3. CASE x # l
        <3>1. RefsTo(M2, K2, x) = R
            BY <1>8, <1>9, <1>10, <2>3 DEF RefsTo
        <3> QED BY <2>1, <2>3, <3>1, <1>1, <1>3
    <2> QED BY <2>2, <2>3
<1>16. RankOK(M2, K2)
    <2>0. PICK T \in Nat : \E rank \in [Ids -> 0 .. T] : Ranked(M, K, rank)
        BY DEF Core, K, RankOK
    <2>1. PICK rank \in [Ids -> 0 .. T] : Ranked(M, K, rank)
        BY <2>0
    <2> DEFINE top == IF rank[l] < rank[s] THEN rank[s] ELSE rank[l] + 1
               rank2 == [rank EXCEPT ![s] = top]
    <2>2. top \in 0 .. T + 1 /\ rank[l] < top /\ rank[s] <= top
        BY <2>1, <1>1, <1>2
    <2> HIDE DEF top
    <2>3. rank2 \in [Ids -> 0 .. T + 1] /\ rank2[s] = top
          /\ \A x \in Ids : x # s => rank2[x] = rank[x]
        BY <2>1, <2>2, <1>1
    <2> HIDE DEF rank2
    <2>4. ASSUME NEW r \in K PROVE rank2[Target(M2, r)] < rank2[r[1]]
        <3>1. rank[Target(M, r)] < rank[r[1]]
            BY <2>1 DEF Ranked
        <3>2. Target(M2, r) = Target(M, r) /\ Target(M, r) \in Ids /\ Target(M, r) # s
              /\ r[1] \in Ids
            BY <1>10
        <3>3. /\ \A x \in Ids : rank[x] \in Int /\ rank2[x] \in Int /\ rank[x] <= rank2[x]
            BY <2>0, <2>1, <2>2, <2>3, SMTT(30)
        <3>4. rank2[Target(M2, r)] = rank[Target(M, r)] /\ rank[r[1]] <= rank2[r[1]]
              /\ rank[r[1]] \in Int /\ rank2[r[1]] \in Int /\ rank[Target(M, r)] \in Int
            BY <2>3, <3>2, <3>3
        <3> QED BY <3>1, <3>4
    <2>5. rank2[Target(M2, r0)] < rank2[r0[1]]
        BY <2>2, <2>3, <1>2, <1>9
    <2>6. Ranked(M2, K2, rank2)
        BY <2>4, <2>5, <1>8 DEF Ranked
    <2> QED BY <2>1, <2>3, <2>6 DEF RankOK
<1>17. StackOK(D, M2, Libs(C), S2)
    <2> DEFINE J == N - 1
    <2>1. StackOK(D, M, Libs(C), S)
        BY DEF Core
    <2>2. \A k \in 1 .. J : S2[k] = S[k] /\ M2[S[k].id].name = M[S[k].id].name
                             /\ M2[S[k].id].refs = M[S[k].id].refs
        <3>1. \A k \in 1 .. J : S[k].id \in Ids /\ S[k].id # s
            BY <1>0, <1>1, OnStackOnce DEF Core, OwnerOK
        <3> QED BY <3>1, <1>0, <1>3, <1>5, SMTT(30)
    <2>3. \A x \in Libs(C) : M2[x].name = M[x].name
        BY <1>3 DEF Libs
    <2>4. \A x \in Libs(C) : \/ x \in Libs(C) /\ M2[x].name = M[x].name
                         \/ \A k \in 2 .. J : S[k].op = "resolve" =>
                              M2[x].name # M[S[k].id].name
        BY <2>3
    <2>5. FrameOK(D, M2, Libs(C), S2, N)
        <3>1. M2[s].name = M[s].name
            BY <1>1, <1>3
        <3>2. \A j \in 1 .. N : S2[j].op = "resolve"
            BY <1>0, <1>1, <1>5 DEF FrameOK
        <3>3. /\ S2[N].at = Len(M2[S2[N].id].refs) + 1
              /\ Len(M2[S2[N].id].refs) <= Len(D[M2[S2[N].id].name].imports)
            BY <3>1, <1>4, <1>5 DEF Wants
        <3>4. S2[N].lib = (N # 1)
            BY <1>1, <1>5 DEF FrameOK
        <3>5. ASSUME N # 1
              PROVE  /\ S2[N - 1].at <= Len(D[M2[S2[N - 1].id].name].imports)
                     /\ M2[S2[N].id].name = D[M2[S2[N - 1].id].name].imports[S2[N - 1].at].dll
                     /\ \A x \in Libs(C) : M2[x].name # M2[S2[N].id].name
            <4>1. /\ S[N - 1].at <= Len(D[M[S[N - 1].id].name].imports)
                  /\ M[s].name = D[M[S[N - 1].id].name].imports[S[N - 1].at].dll
                  /\ \A x \in Libs(C) : M[x].name # M[s].name
                BY <1>1, <3>5 DEF FrameOK
            <4>2. S2[N - 1] = S[N - 1] /\ M2[S[N - 1].id].name = M[S[N - 1].id].name
                BY <3>5, <1>0, <2>2
            <4> QED BY <4>1, <4>2, <3>1, <2>3, <1>5
        <3> QED BY <3>2, <3>3, <3>4, <3>5 DEF FrameOK
    <2>6. \A k \in J + 1 .. Len(S2) :
             S2[k].op = "resolve" => FrameOK(D, M2, Libs(C), S2, k)
        <3>1. \A k \in J + 1 .. Len(S2) : k = N
            BY <1>0, <1>5
        <3> QED BY <3>1, <2>5
    <2>7. /\ J \in Nat /\ J <= Len(S) /\ J <= Len(S2)
          /\ S \in Seq(Frame) /\ S2 \in Seq(Frame)
        BY <1>0, <1>5
    <2>8. FramesStay(S, M, Libs(C), S2, M2, Libs(C), J)
        BY <2>2, <2>4 DEF FramesStay
    <2>9. FramesAbove(D, M2, Libs(C), S2, J)
        BY <2>6 DEF FramesAbove
    <2> QED BY <2>1, <2>7, <2>8, <2>9, StackKeep
<1>18. Core(D, L, M2, C, S2, H)
    BY <1>11, <1>12, <1>13, <1>14, <1>15, <1>16, <1>17 DEF Core, K2
<1> QED BY <1>18

\* A list without its k-th element.
Without(q, k) == SubSeq(q, 1, k - 1) \o SubSeq(q, k + 1, Len(q))

LEMMA WithoutIs ==
    ASSUME NEW q \in Seq(Ids), NEW k \in DOMAIN q
    PROVE  /\ Without(q, k) \in Seq(Ids)
           /\ Len(Without(q, k)) = Len(q) - 1
           /\ \A i \in 1 .. Len(q) - 1 : Without(q, k)[i] = q[IF i < k THEN i ELSE i + 1]
<1> DEFINE a == SubSeq(q, 1, k - 1)
           b == SubSeq(q, k + 1, Len(q))
<1>1. Len(q) \in Nat /\ k \in 1 .. Len(q) /\ \A i \in 1 .. Len(q) : q[i] \in Ids
    BY ElementOfSeq
<1>2. a \in Seq(Ids) /\ Len(a) = k - 1 /\ \A i \in 1 .. k - 1 : a[i] = q[i]
    <2>1. \A i \in 1 .. k - 1 : q[i] \in Ids
        BY <1>1
    <2>2. /\ a \in Seq(Ids) /\ Len(a) = IF 1 <= k - 1 THEN (k - 1) - 1 + 1 ELSE 0
          /\ \A i \in 1 .. (k - 1) - 1 + 1 : a[i] = q[1 + i - 1]
        BY <1>1, <2>1, SubSeqProperties
    <2> HIDE DEF a
    <2>3. Len(a) = k - 1
        BY <1>1, <2>2
    <2>4. \A i \in 1 .. k - 1 : i \in 1 .. (k - 1) - 1 + 1 /\ 1 + i - 1 = i
        BY <1>1
    <2>5. \A i \in 1 .. k - 1 : a[i] = q[i]
        BY <2>2, <2>4
    <2> QED BY <2>2, <2>3, <2>5
<1>3. b \in Seq(Ids) /\ Len(b) = Len(q) - k /\ \A i \in 1 .. Len(q) - k : b[i] = q[k + i]
    <2>1. \A i \in k + 1 .. Len(q) : q[i] \in Ids
        BY <1>1
    <2>2. /\ b \in Seq(Ids) /\ Len(b) = IF k + 1 <= Len(q) THEN Len(q) - (k + 1) + 1 ELSE 0
          /\ \A i \in 1 .. Len(q) - (k + 1) + 1 : b[i] = q[(k + 1) + i - 1]
        BY <1>1, <2>1, SubSeqProperties
    <2> HIDE DEF b
    <2>3. \A i \in 1 .. Len(q) - k : (k + 1) + i - 1 = k + i
        BY <1>1
    <2> QED BY <1>1, <2>2, <2>3
<1>4. Without(q, k) = a \o b
    BY DEF Without
<1> HIDE DEF a, b
<1>5. /\ a \o b \in Seq(Ids) /\ Len(a \o b) = Len(a) + Len(b)
      /\ \A i \in 1 .. Len(a) + Len(b) : (a \o b)[i] = IF i <= Len(a) THEN a[i] ELSE b[i - Len(a)]
    BY <1>2, <1>3, ConcatProperties
<1>6. \A i \in 1 .. Len(q) - 1 : (a \o b)[i] = q[IF i < k THEN i ELSE i + 1]
    <2> TAKE i \in 1 .. Len(q) - 1
    <2>1. CASE i < k
        <3>1. i \in 1 .. k - 1 /\ i <= Len(a) /\ i \in 1 .. Len(a) + Len(b)
            BY <2>1, <1>1, <1>2, <1>3
        <3> QED BY <3>1, <2>1, <1>2, <1>5
    <2>2. CASE ~(i < k)
        <3>1. i - (k - 1) \in 1 .. Len(q) - k /\ ~(i <= Len(a)) /\ i \in 1 .. Len(a) + Len(b)
              /\ k + (i - (k - 1)) = i + 1 /\ i - Len(a) = i - (k - 1)
            BY <2>2, <1>1, <1>2, <1>3
        <3>2. (a \o b)[i] = b[i - (k - 1)]
            BY <3>1, <1>5
        <3>3. b[i - (k - 1)] = q[i + 1]
            BY <3>1, <1>3
        <3> QED BY <2>2, <3>2, <3>3
    <2> QED BY <2>1, <2>2
<1>7. Len(a \o b) = Len(q) - 1
    BY <1>1, <1>2, <1>3, <1>5
<1> QED BY <1>4, <1>5, <1>6, <1>7

\* The cache C2 is C without the library l.
Unlinked(C, C2, l) ==
    \E b \in Buckets : \E k \in DOMAIN C[b] :
        C[b][k] = l /\ C2 = [C EXCEPT ![b] = Without(C[b], k)]

\* It has all the others, in an order that does not matter, and no new ones.
LEMMA UnlinkedIs ==
    ASSUME NEW D, NEW L, NEW M, NEW C \in [Buckets -> Seq(Ids)], CacheOK(D, L, M, C),
           NEW l, NEW C2, Unlinked(C, C2, l)
    PROVE  /\ C2 \in [Buckets -> Seq(Ids)] /\ CacheOK(D, L, M, C2)
           /\ Libs(C2) = Libs(C) \ {l} /\ l \in Libs(C)
<1>1. PICK b \in Buckets : \E k \in DOMAIN C[b] :
          C[b][k] = l /\ C2 = [C EXCEPT ![b] = Without(C[b], k)]
    BY DEF Unlinked
<1>2. PICK k \in DOMAIN C[b] : C[b][k] = l /\ C2 = [C EXCEPT ![b] = Without(C[b], k)]
    BY <1>1
<1> DEFINE q == C[b]
           p == Without(q, k)
           at(i) == IF i < k THEN i ELSE i + 1
<1>3. /\ q \in Seq(Ids) /\ Len(q) \in Nat /\ DOMAIN q = 1 .. Len(q) /\ k \in 1 .. Len(q)
    BY <1>2
<1>4. /\ p \in Seq(Ids) /\ Len(p) = Len(q) - 1 /\ DOMAIN p = 1 .. Len(q) - 1
      /\ \A i \in 1 .. Len(q) - 1 : p[i] = q[at(i)]
    <2>1. /\ p \in Seq(Ids) /\ Len(p) = Len(q) - 1
          /\ \A i \in 1 .. Len(q) - 1 : p[i] = q[IF i < k THEN i ELSE i + 1]
        BY <1>2, <1>3, WithoutIs
    <2> HIDE DEF p
    <2>2. DOMAIN p = 1 .. Len(q) - 1
        BY <2>1
    <2> QED BY <2>1, <2>2
<1>5. /\ C2 \in [Buckets -> Seq(Ids)] /\ C2[b] = p
      /\ \A x \in Buckets : x # b => C2[x] = C[x]
    BY <1>2, <1>4
<1>6. \A i \in DOMAIN p : at(i) \in DOMAIN q /\ at(i) # k
    BY <1>3, <1>4
<1>7. \A i, j \in DOMAIN p : i # j => at(i) # at(j)
    BY <1>3, <1>4
<1>8. \A i \in DOMAIN q : i # k => \E j \in DOMAIN p : at(j) = i
    <2> TAKE i \in DOMAIN q
    <2>1. CASE i < k
        <3>1. i \in DOMAIN p /\ at(i) = i
            BY <2>1, <1>3, <1>4
        <3> QED BY <3>1
    <2>2. CASE k < i
        <3>1. i - 1 \in DOMAIN p /\ at(i - 1) = i
            BY <2>2, <1>3, <1>4
        <3> QED BY <3>1
    <2> QED BY <2>1, <2>2, <1>3
<1>9. \A i \in DOMAIN p : p[i] = q[at(i)]
    BY <1>4
<1> HIDE DEF p, at
<1>10. CacheOK(D, L, M, C2)
    <2> SUFFICES ASSUME NEW x \in Buckets, NEW i \in DOMAIN C2[x]
                 PROVE  /\ C2[x][i] \in L /\ BucketOf[M[C2[x][i]].name] = x
                        /\ Len(M[C2[x][i]].refs) = Len(D[M[C2[x][i]].name].imports)
                        /\ \A j \in DOMAIN C2[x] : i # j => M[C2[x][i]].name # M[C2[x][j]].name
        BY DEF CacheOK
    <2>1. CASE x # b
        BY <2>1, <1>5 DEF CacheOK
    <2>2. CASE x = b
        <3>1. i \in DOMAIN p /\ C2[x] = p
            BY <2>2, <1>5
        <3>2. /\ q[at(i)] \in L /\ BucketOf[M[q[at(i)]].name] = b
              /\ Len(M[q[at(i)]].refs) = Len(D[M[q[at(i)]].name].imports)
              /\ \A j \in DOMAIN q : at(i) # j => M[q[at(i)]].name # M[q[j]].name
            BY <3>1, <1>6 DEF CacheOK
        <3>3. \A j \in DOMAIN p : i # j => M[p[i]].name # M[p[j]].name
            BY <3>1, <3>2, <1>6, <1>7, <1>9
        <3> QED BY <2>2, <3>1, <3>2, <3>3, <1>9
    <2> QED BY <2>1, <2>2
<1>11. l \in Libs(C)
    <2>1. l \in Ids
        BY <1>2, <1>3, ElementOfSeq
    <2> QED BY <2>1, <1>2 DEF Libs
<1>12. ASSUME NEW x \in Libs(C2) PROVE x \in Libs(C) /\ x # l
    <2>1. PICK c \in Buckets : \E i \in DOMAIN C2[c] : C2[c][i] = x
        BY DEF Libs
    <2>2. PICK i \in DOMAIN C2[c] : C2[c][i] = x
        BY <2>1
    <2>3. BucketOf[M[l].name] = b /\ \A j \in DOMAIN q : j # k => M[l].name # M[q[j]].name
        BY <1>2 DEF CacheOK
    <2>4. CASE c # b
        <3>1. i \in DOMAIN C[c] /\ C[c][i] = x
            BY <2>2, <2>4, <1>5
        <3>2. BucketOf[M[x].name] = c
            BY <3>1 DEF CacheOK
        <3> QED BY <3>1, <3>2, <2>3, <2>4 DEF Libs
    <2>5. CASE c = b
        <3>1. i \in DOMAIN p /\ p[i] = x
            BY <2>2, <2>5, <1>5
        <3>2. at(i) \in DOMAIN q /\ at(i) # k /\ q[at(i)] = x
            BY <3>1, <1>6, <1>9
        <3> QED BY <3>2, <2>3 DEF Libs
    <2> QED BY <2>4, <2>5
<1>13. ASSUME NEW x \in Libs(C), x # l PROVE x \in Libs(C2)
    <2>1. PICK c \in Buckets : \E i \in DOMAIN C[c] : C[c][i] = x
        BY DEF Libs
    <2>2. PICK i \in DOMAIN C[c] : C[c][i] = x
        BY <2>1
    <2>3. CASE c # b
        BY <2>2, <2>3, <1>5 DEF Libs
    <2>4. CASE c = b
        <3>1. PICK j \in DOMAIN p : at(j) = i
            BY <2>2, <2>4, <1>2, <1>8, <1>13
        <3> QED BY <2>2, <2>4, <3>1, <1>5, <1>9 DEF Libs
    <2> QED BY <2>3, <2>4
<1>14. Libs(C2) = Libs(C) \ {l}
    BY <1>12, <1>13
<1> QED BY <1>5, <1>10, <1>11, <1>14

\* A library nobody refers to leaves the cache and is to be unloaded.
LEMMA CoreDrop ==
    ASSUME NEW D, NEW L, NEW M, NEW C, NEW S, NEW H, Core(D, L, M, C, S, H),
           NEW l, NEW C2, Unlinked(C, C2, l),
           \A r \in Kept(L, M, S) : Target(M, r) # l
    PROVE  Core(D, L, M, C2, Append(S, Unload(l)), H)
<1> DEFINE N == Len(S)
           S2 == Append(S, Unload(l))
           K == Kept(L, M, S)
<1>0. /\ S \in Seq(Frame) /\ L \subseteq Ids /\ M \in [Ids -> Module]
      /\ C \in [Buckets -> Seq(Ids)] /\ CacheOK(D, L, M, C)
    BY DEF Core, Typed
<1>1. /\ C2 \in [Buckets -> Seq(Ids)] /\ CacheOK(D, L, M, C2)
      /\ Libs(C2) = Libs(C) \ {l} /\ l \in Libs(C)
    BY <1>0, UnlinkedIs
<1>2. l \in Ids /\ l \in L
    BY <1>0, <1>1 DEF Libs, CacheOK
<1>3. /\ S2 \in Seq(Frame) /\ Len(S2) = N + 1 /\ N \in Nat /\ DOMAIN S = 1 .. N
      /\ DOMAIN S2 = 1 .. N + 1 /\ S2[N + 1] = Unload(l) /\ \A k \in 1 .. N : S2[k] = S[k]
    BY <1>0, <1>2, UnloadType, AppendProperties
<1>4. S2[N + 1].id = l /\ S2[N + 1].op = "unload" /\ S2[N + 1].at = 1
    BY <1>3 DEF Unload
<1> HIDE DEF S2
<1>5. Kept(L, M, S2) = K
    <2>1. SameGiven(S, S2, L \cap L)
        BY <1>3, <1>4 DEF SameGiven, Given
    <2>2. Agree(M, M, L \cap L) /\ Typed(D, L, M, C, S, H)
        BY DEF Agree, Core
    <2>3. (\A m \in L \ L : M[m].refs = <<>>)
          /\ \A m \in L \ L : \A i \in DOMAIN M[m].refs : Given(S, m, i)
        OBVIOUS
    <2> QED BY <1>0, <2>1, <2>2, <2>3, KeptSame
<1> HIDE DEF K
<1>6. Typed(D, L, M, C2, S2, H)
    BY <1>1, <1>3 DEF Core, Typed
<1>7. OwnerOK(L, Libs(C2), S2, H)
    <2>1. OwnerOK(L, Libs(C), S, H)
        BY DEF Core
    <2>2. \A k \in DOMAIN S2 : k = N + 1 \/ (k \in DOMAIN S /\ S2[k] = S[k])
        BY <1>3
    <2> HIDE DEF N
    <2> QED BY <1>1, <1>2, <1>4, <2>1, <2>2 DEF OwnerOK
<1>8. BoundOK(D, M, Libs(C2), K)
    <2>1. BoundOK(D, M, Libs(C), K)
        BY DEF Core, K
    <2>2. \A r \in K : Target(M, r) \in Libs(C2)
        BY <1>1, <2>1 DEF BoundOK, K
    <2> QED BY <2>1, <2>2 DEF BoundOK
<1>9. StackOK(D, M, Libs(C2), S2)
    <2>1. StackOK(D, M, Libs(C), S)
        BY DEF Core
    <2>2. FramesStay(S, M, Libs(C), S2, M, Libs(C2), N)
        BY <1>1, <1>3 DEF FramesStay
    <2>3. FramesAbove(D, M, Libs(C2), S2, N)
        <3>1. \A k \in N + 1 .. Len(S2) : k = N + 1
            BY <1>3
        <3> QED BY <3>1, <1>4 DEF FramesAbove
    <2>4. /\ N \in Nat /\ N <= Len(S) /\ N <= Len(S2)
          /\ S \in Seq(Frame) /\ S2 \in Seq(Frame)
        BY <1>0, <1>3
    <2> QED BY <2>1, <2>2, <2>3, <2>4, StackKeep
<1>10. CountOK(L, M, K) /\ RankOK(M, K)
    BY DEF Core, K
<1>11. Core(D, L, M, C2, S2, H)
    BY <1>1, <1>5, <1>6, <1>7, <1>8, <1>9, <1>10 DEF Core
<1> QED BY <1>11 DEF S2

\* The cache of modules that keep their names and references.
LEMMA CacheSame ==
    ASSUME NEW D, NEW L, NEW M, NEW C, CacheOK(D, L, M, C), NEW M2,
           \A b \in Buckets : \A i \in DOMAIN C[b] :
               M2[C[b][i]].name = M[C[b][i]].name /\ M2[C[b][i]].refs = M[C[b][i]].refs
    PROVE  CacheOK(D, L, M2, C)
<1> SUFFICES ASSUME NEW b \in Buckets, NEW i \in DOMAIN C[b]
             PROVE  /\ C[b][i] \in L /\ BucketOf[M2[C[b][i]].name] = b
                    /\ Len(M2[C[b][i]].refs) = Len(D[M2[C[b][i]].name].imports)
                    /\ \A j \in DOMAIN C[b] : i # j => M2[C[b][i]].name # M2[C[b][j]].name
    BY DEF CacheOK
<1>1. M2[C[b][i]].name = M[C[b][i]].name /\ M2[C[b][i]].refs = M[C[b][i]].refs
    OBVIOUS
<1>2. /\ C[b][i] \in L /\ BucketOf[M[C[b][i]].name] = b
      /\ Len(M[C[b][i]].refs) = Len(D[M[C[b][i]].name].imports)
    BY DEF CacheOK
<1>3. \A j \in DOMAIN C[b] : i # j => M2[C[b][i]].name # M2[C[b][j]].name
    BY DEF CacheOK
<1> QED BY <1>1, <1>2, <1>3

\* The library s joins the cache C.
Linked(M, C, C2, s) ==
    C2 = [C EXCEPT ![BucketOf[M[s].name]] = Append(@, s)]

Complete(D, L, M, C, s) ==
    /\ M \in [Ids -> Module] /\ C \in [Buckets -> Seq(Ids)] /\ L \subseteq Ids
    /\ CacheOK(D, L, M, C)
    /\ s \in L /\ Len(M[s].refs) = Len(D[M[s].name].imports)
    /\ \A l \in Libs(C) : M[l].name # M[s].name

LEMMA LinkedIs ==
    ASSUME NEW D, NEW L, NEW M, NEW C, NEW s, Complete(D, L, M, C, s),
           NEW C2, Linked(M, C, C2, s)
    PROVE  /\ C2 \in [Buckets -> Seq(Ids)] /\ CacheOK(D, L, M, C2)
           /\ Libs(C2) = Libs(C) \cup {s}
<1> DEFINE b == BucketOf[M[s].name]
           p == Append(C[b], s)
<1>c. /\ M \in [Ids -> Module] /\ C \in [Buckets -> Seq(Ids)] /\ L \subseteq Ids
      /\ CacheOK(D, L, M, C) /\ s \in L /\ Len(M[s].refs) = Len(D[M[s].name].imports)
      /\ \A l \in Libs(C) : M[l].name # M[s].name
    BY DEF Complete
<1>1. b \in Buckets /\ s \in Ids
    <2>1. s \in Ids
        BY <1>c
    <2>2. M[s].name \in Names
        BY <2>1, <1>c, FieldType
    <2> QED BY <2>1, <2>2, BucketAssumption
<1>2. /\ C[b] \in Seq(Ids) /\ Len(C[b]) \in Nat /\ DOMAIN C[b] = 1 .. Len(C[b])
      /\ \A i \in DOMAIN C[b] : C[b][i] \in Ids /\ C[b][i] \in Libs(C)
    <2>1. C[b] \in Seq(Ids)
        BY <1>1, <1>c
    <2>2. DOMAIN C[b] = 1 .. Len(C[b]) /\ Len(C[b]) \in Nat
        BY <2>1
    <2>3. \A i \in DOMAIN C[b] : C[b][i] \in Ids
        BY <2>1, <2>2, ElementOfSeq
    <2> QED BY <1>1, <2>1, <2>2, <2>3 DEF Libs
<1>3. /\ p \in Seq(Ids) /\ DOMAIN p = 1 .. Len(C[b]) + 1 /\ p[Len(C[b]) + 1] = s
      /\ \A i \in 1 .. Len(C[b]) : p[i] = C[b][i]
    BY <1>1, <1>2, AppendProperties
<1>4. /\ C2 \in [Buckets -> Seq(Ids)] /\ C2[b] = p
      /\ \A x \in Buckets : x # b => C2[x] = C[x]
    BY <1>1, <1>3, <1>c DEF Linked
<1>5. \A i \in DOMAIN p : i = Len(C[b]) + 1 \/ (i \in DOMAIN C[b] /\ p[i] = C[b][i])
    BY <1>2, <1>3
<1>6. Len(C[b]) + 1 \in DOMAIN p /\ \A i \in DOMAIN C[b] : i \in DOMAIN p /\ p[i] = C[b][i]
    <2> DEFINE n == Len(C[b])
    <2>1. n \in Nat /\ DOMAIN C[b] = 1 .. n /\ DOMAIN p = 1 .. n + 1
          /\ \A i \in 1 .. n : p[i] = C[b][i]
        BY <1>2, <1>3
    <2> HIDE DEF n, p, b
    <2>2. n + 1 \in DOMAIN p /\ \A i \in DOMAIN C[b] : i \in DOMAIN p /\ p[i] = C[b][i]
        BY <2>1
    <2> QED BY <2>2 DEF n
<1>7. BucketOf[M[s].name] = b
    OBVIOUS
<1> DEFINE e == Len(C[b]) + 1
<1>8. p[e] = s
    BY <1>3
<1> HIDE DEF p, e, b
<1>9. CacheOK(D, L, M, C2)
    <2> SUFFICES ASSUME NEW x \in Buckets, NEW i \in DOMAIN C2[x]
                 PROVE  /\ C2[x][i] \in L /\ BucketOf[M[C2[x][i]].name] = x
                        /\ Len(M[C2[x][i]].refs) = Len(D[M[C2[x][i]].name].imports)
                        /\ \A j \in DOMAIN C2[x] : i # j => M[C2[x][i]].name # M[C2[x][j]].name
        BY DEF CacheOK
    <2>1. CASE x # b
        BY <2>1, <1>4, <1>c DEF CacheOK
    <2>2. CASE x = b
        <3>1. i \in DOMAIN p /\ C2[x] = p
            BY <2>2, <1>4
        <3>2. CASE i = e
            <4>1. \A j \in DOMAIN p : i # j => M[p[j]].name # M[s].name
                BY <3>2, <1>2, <1>5, <1>c DEF e
            <4> QED BY <2>2, <3>1, <3>2, <4>1, <1>7, <1>8, <1>c
        <3>3. CASE i # e
            <4>1. i \in DOMAIN C[b] /\ p[i] = C[b][i]
                BY <3>1, <3>3, <1>5 DEF e
            <4>2. /\ p[i] \in L /\ BucketOf[M[p[i]].name] = b
                  /\ Len(M[p[i]].refs) = Len(D[M[p[i]].name].imports)
                  /\ \A j \in DOMAIN C[b] : i # j => M[p[i]].name # M[C[b][j]].name
                BY <4>1, <1>1, <1>c DEF CacheOK
            <4>3. M[p[i]].name # M[s].name
                BY <4>1, <1>2, <1>c
            <4>4. \A j \in DOMAIN p : j = e \/ (j \in DOMAIN C[b] /\ p[j] = C[b][j])
                BY <1>5 DEF e
            <4>5. \A j \in DOMAIN p : i # j => M[p[i]].name # M[p[j]].name
                BY <4>2, <4>3, <4>4, <1>8
            <4> QED BY <2>2, <3>1, <4>2, <4>5
        <3> QED BY <3>2, <3>3
    <2> QED BY <2>1, <2>2
<1>10. ASSUME NEW x \in Libs(C2) PROVE x \in Libs(C) \/ x = s
    <2>1. PICK c \in Buckets : \E i \in DOMAIN C2[c] : C2[c][i] = x
        BY DEF Libs
    <2>2. PICK i \in DOMAIN C2[c] : C2[c][i] = x
        BY <2>1
    <2>3. CASE c # b
        BY <2>2, <2>3, <1>4 DEF Libs
    <2>4. CASE c = b
        BY <2>2, <2>4, <1>2, <1>4, <1>5, <1>8 DEF e
    <2> QED BY <2>3, <2>4
<1>11. ASSUME NEW x \in Libs(C) PROVE x \in Libs(C2)
    <2>1. PICK c \in Buckets : \E i \in DOMAIN C[c] : C[c][i] = x
        BY DEF Libs
    <2>2. PICK i \in DOMAIN C[c] : C[c][i] = x
        BY <2>1
    <2>3. CASE c # b
        BY <2>2, <2>3, <1>4 DEF Libs
    <2>4. CASE c = b
        BY <2>2, <2>4, <1>4, <1>6 DEF Libs
    <2> QED BY <2>3, <2>4
<1>12. s \in Libs(C2)
    BY <1>1, <1>4, <1>6, <1>8 DEF Libs, e
<1>13. Libs(C2) = Libs(C) \cup {s}
    BY <1>10, <1>11, <1>12
<1> QED BY <1>4, <1>9, <1>13

\* The modules M2 are those of M, but s has its functions and no count.
Published(M, M2, s) ==
    /\ M2 \in [Ids -> Module] /\ M2[s].count = 0
    /\ \A x \in Ids : /\ M2[x].name = M[x].name /\ M2[x].refs = M[x].refs
                      /\ x # s => M2[x].count = M[x].count

\* A library that has all its imports joins the cache: no library being loaded
\* has its name, since that one would wait for an import that is in the cache.
LEMMA CoreLibrary ==
    ASSUME NEW D, NEW L, NEW M, NEW C, NEW S, NEW H, Core(D, L, M, C, S, H),
           NEW N, N = Len(S), S # <<>>, S[N].op = "resolve", S[N].lib = TRUE,
           NEW s, s = S[N].id, S[N].at > Len(D[M[s].name].imports),
           NEW M2, Published(M, M2, s), NEW C2, Linked(M, C, C2, s)
    PROVE  Core(D, L, M2, C2, SubSeq(S, 1, N - 1), H)
<1> DEFINE S2 == SubSeq(S, 1, N - 1)
           K == Kept(L, M, S)
<1> HIDE DEF S2, K
<1>0. /\ S \in Seq(Frame) /\ DOMAIN S = 1 .. N /\ N \in Nat \ {0} /\ N \in DOMAIN S
      /\ S2 \in Seq(Frame) /\ Len(S2) = N - 1 /\ DOMAIN S2 = 1 .. N - 1
      /\ \A k \in 1 .. N - 1 : S2[k] = S[k]
    BY RestIs DEF Core, Typed, S2
<1>1. /\ L \subseteq Ids /\ M \in [Ids -> Module] /\ D \in Disks
      /\ C \in [Buckets -> Seq(Ids)] /\ CacheOK(D, L, M, C)
    BY DEF Core, Typed
<1>2. /\ s \in L /\ s \in Ids /\ s \notin Libs(C) /\ s \notin H
      /\ FrameOK(D, M, Libs(C), S, N)
    BY <1>0, FrameFacts
<1>3. /\ M[s].name \in Names /\ D[M[s].name].imports \in Seq(Import) /\ M[s].refs \in Seq(Ids)
    <2>1. M[s].name \in Names /\ M[s].refs \in Seq(Ids)
        BY <1>1, <1>2, FieldType
    <2> QED BY <2>1, <1>1, DiskAssumption DEF Image
<1>4. Len(M[s].refs) = Len(D[M[s].name].imports)
    <2>1. /\ S[N].at = Len(M[s].refs) + 1
          /\ Len(M[s].refs) <= Len(D[M[s].name].imports)
        BY <1>2 DEF FrameOK
    <2>2. Len(M[s].refs) \in Nat /\ Len(D[M[s].name].imports) \in Nat
        <3>1. M[s].refs \in Seq(Ids) /\ D[M[s].name].imports \in Seq(Import)
            BY <1>3
        <3> QED BY <3>1, LenProperties
    <2> DEFINE x == Len(M[s].refs)
               y == Len(D[M[s].name].imports)
    <2>3. x \in Nat /\ y \in Nat /\ x <= y /\ x + 1 > y
        BY <2>1, <2>2
    <2> HIDE DEF x, y
    <2>4. x = y
        BY <2>3
    <2> QED BY <2>4 DEF x, y
<1>5. N # 1 /\ \A l \in Libs(C) : M[l].name # M[s].name
    BY <1>2 DEF FrameOK
<1>6. /\ C2 \in [Buckets -> Seq(Ids)] /\ CacheOK(D, L, M, C2)
      /\ Libs(C2) = Libs(C) \cup {s}
    <2>1. Complete(D, L, M, C, s)
        BY <1>1, <1>2, <1>4, <1>5 DEF Complete
    <2>2. Linked(M, C, C2, s)
        OBVIOUS
    <2>3. C2 \in [Buckets -> Seq(Ids)]
        BY <2>1, <2>2, LinkedIs
    <2>4. CacheOK(D, L, M, C2)
        BY <2>1, <2>2, LinkedIs
    <2>5. Libs(C2) = Libs(C) \cup {s}
        BY <2>1, <2>2, LinkedIs
    <2> QED BY <2>3, <2>4, <2>5
<1>7. /\ M2 \in [Ids -> Module] /\ M2[s].count = 0
      /\ \A x \in Ids : /\ M2[x].name = M[x].name /\ M2[x].refs = M[x].refs
                        /\ x # s => M2[x].count = M[x].count
    BY DEF Published
<1>8. CacheOK(D, L, M2, C2)
    <2>1. \A b \in Buckets : \A i \in DOMAIN C2[b] :
             M2[C2[b][i]].name = M[C2[b][i]].name /\ M2[C2[b][i]].refs = M[C2[b][i]].refs
        <3>1. \A b \in Buckets : \A i \in DOMAIN C2[b] : C2[b][i] \in Ids
            BY <1>1, <1>6 DEF CacheOK
        <3> QED BY <3>1, <1>7
    <2>2. CacheOK(D, L, M, C2)
        BY <1>6
    <2> QED BY <2>1, <2>2, CacheSame
<1>9. SameGiven(S, S2, L \cap L)
    <2>1. \A k \in DOMAIN S : S[k].op = "unload" => k \in DOMAIN S2 /\ S2[k] = S[k]
        BY <1>0
    <2>2. \A k \in DOMAIN S2 : k \in DOMAIN S /\ S2[k] = S[k]
        BY <1>0
    <2> QED BY <2>1, <2>2 DEF SameGiven, Given
<1>10. Kept(L, M2, S2) = K
    <2>1. Agree(M, M2, L \cap L) /\ Typed(D, L, M, C, S, H)
        BY <1>1, <1>7 DEF Agree, Core
    <2>2. (\A m \in L \ L : M2[m].refs = <<>>)
          /\ \A m \in L \ L : \A i \in DOMAIN M[m].refs : Given(S, m, i)
        OBVIOUS
    <2> QED BY <1>1, <1>7, <1>9, <2>1, <2>2, KeptSame DEF K
<1>11. \A r \in K : /\ r[1] \in L /\ Target(M, r) \in L /\ Target(M, r) \in Libs(C)
                    /\ Target(M, r) # s /\ Target(M2, r) = Target(M, r)
                    /\ M2[r[1]].name = M[r[1]].name
                    /\ M2[Target(M, r)].name = M[Target(M, r)].name
    <2> TAKE r \in K
    <2>1. r[1] \in L /\ Target(M, r) \in L /\ Target(M, r) \in Libs(C)
        BY RefsLead DEF K
    <2> QED BY <2>1, <1>1, <1>2, <1>7 DEF Target
<1>12. BoundOK(D, M2, Libs(C2), K)
    <2>1. BoundOK(D, M, Libs(C), K)
        BY DEF Core, K
    <2> QED BY <1>6, <1>11, <2>1, BoundFewer
<1>13. CountOK(L, M2, K)
    <2>1. CountOK(L, M, K)
        BY DEF Core, K
    <2>2. \A l \in L : \/ l \in L /\ M2[l].count = M[l].count
                       \/ M2[l].count = 0 /\ \A r \in K : Target(M, r) # l
        BY <1>1, <1>7, <1>11
    <2>3. \A r \in K : Target(M2, r) = Target(M, r)
        BY <1>11
    <2> QED BY <2>1, <2>2, <2>3, CountSame
<1>14. RankOK(M2, K)
    <2>1. RankOK(M, K)
        BY DEF Core, K
    <2> QED BY <1>11, <2>1, RankFewer
<1>15. OwnerOK(L, Libs(C2), S2, H)
    <2>1. OwnerOK(L, Libs(C), S, H)
        BY DEF Core
    <2>2. \A k \in DOMAIN S2 : k \in DOMAIN S /\ S2[k] = S[k] /\ S[k].id # s
        BY <1>0, OnStackOnce
    <2> QED BY <1>2, <1>6, <2>1, <2>2 DEF OwnerOK
<1>16. ASSUME NEW k \in 2 .. N - 1, S[k].op = "resolve", M[S[k].id].name = M[s].name
       PROVE  FALSE
    <2>1. k \in DOMAIN S /\ k + 1 \in DOMAIN S /\ k + 1 # 1 /\ (k + 1) - 1 = k /\ k + 1 \in 1 .. N
        BY <1>0
    <2>2. S[k + 1].op = "resolve"
        BY <1>2, <2>1 DEF FrameOK
    <2>3. FrameOK(D, M, Libs(C), S, k + 1)
        BY <2>1, <2>2 DEF Core, StackOK
    <2>4. /\ S[k].at <= Len(D[M[s].name].imports)
          /\ M[S[k + 1].id].name = D[M[s].name].imports[S[k].at].dll
          /\ \A l \in Libs(C) : M[l].name # M[S[k + 1].id].name
        BY <1>16, <2>1, <2>3 DEF FrameOK
    <2>5. S[k].at \in Nat \ {0}
        <3>1. S[k] \in Frame
            BY <2>1, FrameFacts
        <3> QED BY <3>1 DEF Frame
    <2> DEFINE r == <<s, S[k].at>>
    <2>6. r \in K
        <3>1. S[k].at \in DOMAIN M[s].refs
            <4>1. DOMAIN M[s].refs = 1 .. Len(M[s].refs) /\ Len(M[s].refs) \in Nat
                BY <1>3
            <4>2. S[k].at <= Len(M[s].refs)
                BY <1>4, <2>4
            <4> QED BY <4>1, <4>2, <2>5
        <3>2. ~Given(S, s, S[k].at)
            BY <1>0, NothingGiven
        <3> QED BY <3>1, <3>2, <1>2, <2>5 DEF K, Kept
    <2>7. Target(M, r) \in Libs(C) /\ M[Target(M, r)].name = D[M[r[1]].name].imports[r[2]].dll
        <3> HIDE DEF r
        <3> QED BY <2>6 DEF Core, BoundOK, K
    <2>8. r[1] = s /\ r[2] = S[k].at
        OBVIOUS
    <2> QED BY <2>4, <2>7, <2>8
<1>17. StackOK(D, M2, Libs(C2), S2)
    <2> DEFINE J == N - 1
    <2>1. StackOK(D, M, Libs(C), S)
        BY DEF Core
    <2>2. \A k \in 1 .. J : S2[k] = S[k] /\ M2[S[k].id].name = M[S[k].id].name
                             /\ M2[S[k].id].refs = M[S[k].id].refs
        <3>1. \A k \in 1 .. J : S[k].id \in Ids
            <4>1. OwnerOK(L, Libs(C), S, H)
                BY DEF Core
            <4>2. \A k \in 1 .. J : k \in DOMAIN S
                BY <1>0
            <4> QED BY <4>1, <4>2, <1>1 DEF OwnerOK
        <3> QED BY <3>1, <1>0, <1>7
    <2>3. ASSUME NEW l \in Libs(C2)
          PROVE  \/ l \in Libs(C) /\ M2[l].name = M[l].name
                 \/ \A k \in 2 .. J : S[k].op = "resolve" => M2[l].name # M[S[k].id].name
        <3>1. CASE l \in Libs(C)
            BY <3>1, <1>7 DEF Libs
        <3>2. CASE l = s
            BY <3>2, <1>2, <1>7, <1>16
        <3> QED BY <3>1, <3>2, <1>6
    <2>4. FramesStay(S, M, Libs(C), S2, M2, Libs(C2), J)
        <3> HIDE DEF J
        <3> QED BY <2>2, <2>3 DEF FramesStay
    <2>5. FramesAbove(D, M2, Libs(C2), S2, J)
        <3>1. \A k \in J + 1 .. Len(S2) : FALSE
            BY <1>0
        <3> QED BY <3>1 DEF FramesAbove
    <2>6. /\ J \in Nat /\ J <= Len(S) /\ J <= Len(S2)
          /\ S \in Seq(Frame) /\ S2 \in Seq(Frame)
        BY <1>0
    <2> HIDE DEF J
    <2> QED BY <2>1, <2>4, <2>5, <2>6, StackKeep
<1>18. Typed(D, L, M2, C2, S2, H)
    BY <1>0, <1>6, <1>7 DEF Core, Typed
<1>19. Core(D, L, M2, C2, S2, H)
    BY <1>8, <1>10, <1>12, <1>13, <1>14, <1>15, <1>17, <1>18 DEF Core
<1> QED BY <1>19 DEF S2

-----------------------------------------------------------------------------
(* Every action keeps the invariant *)

\* What the cache finds under a name, and what it is after a library goes.
LEMMA CachedIs ==
    ASSUME TypeOK, CacheOK(disk, live, module, cache), NEW n \in Names
    PROVE  Cached(n) = {l \in Libs(cache) : module[l].name = n}
<1> DEFINE b == BucketOf[n]
<1>1. /\ b \in Buckets /\ cache[b] \in Seq(Ids)
      /\ \A i \in DOMAIN cache[b] : cache[b][i] \in Ids
    <2>1. b \in Buckets /\ cache[b] \in Seq(Ids)
        BY BucketAssumption DEF TypeOK
    <2> QED BY <2>1, ElementOfSeq
<1>2. Cached(n) = {cache[b][i] : i \in {i \in DOMAIN cache[b] : module[cache[b][i]].name = n}}
    BY DEF Cached, CachedIn
<1> HIDE DEF b
<1>3. ASSUME NEW l \in Cached(n) PROVE l \in Libs(cache) /\ module[l].name = n
    BY <1>1, <1>2, <1>3 DEF Libs
<1>4. ASSUME NEW l \in Libs(cache), module[l].name = n PROVE l \in Cached(n)
    <2>1. PICK c \in Buckets : \E i \in DOMAIN cache[c] : cache[c][i] = l
        BY DEF Libs
    <2>2. PICK i \in DOMAIN cache[c] : cache[c][i] = l
        BY <2>1
    <2>3. c = b
        BY <2>2, <1>4 DEF CacheOK, b
    <2> QED BY <2>2, <2>3, <1>2, <1>4
<1> QED BY <1>3, <1>4

LEMMA UncachedIs ==
    ASSUME TypeOK, CacheOK(disk, live, module, cache), NEW l \in Libs(cache)
    PROVE  Unlinked(cache, Uncached(l), l)
<1> DEFINE b == BucketOf[module[l].name]
           s == CachedIn(b, module[l].name)
           k == CHOOSE i \in s : \A j \in s : i <= j
<1>1. PICK c \in Buckets : \E i \in DOMAIN cache[c] : cache[c][i] = l
    BY DEF Libs
<1>2. PICK i \in DOMAIN cache[c] : cache[c][i] = l
    BY <1>1
<1>3. c = b /\ cache[c] \in Seq(Ids)
    BY <1>2 DEF CacheOK, TypeOK
<1>4. s = {i}
    <2>1. i \in s
        BY <1>2, <1>3 DEF CachedIn
    <2>2. \A j \in s : j = i
        <3>1. \A j \in DOMAIN cache[b] : i # j => module[cache[b][i]].name # module[cache[b][j]].name
            BY <1>2, <1>3 DEF CacheOK
        <3>2. \A j \in s : j \in DOMAIN cache[b] /\ module[cache[b][j]].name = module[l].name
            BY DEF CachedIn
        <3>3. cache[b][i] = l
            BY <1>2, <1>3
        <3> HIDE DEF b, s
        <3> QED BY <3>1, <3>2, <3>3
    <2> HIDE DEF s
    <2> QED BY <2>1, <2>2
<1>5. k = i
    <2>1. i \in Nat
        BY <1>2, <1>3
    <2> HIDE DEF s
    <2> QED BY <1>4, <2>1
<1>6. Uncached(l) = [cache EXCEPT ![b] =
          IF s = {} THEN @ ELSE SubSeq(@, 1, k - 1) \o SubSeq(@, k + 1, Len(@))]
    BY DEF Uncached
<1> HIDE DEF s, k
<1>7. Uncached(l) = [cache EXCEPT ![b] = Without(cache[b], i)]
    BY <1>4, <1>5, <1>6 DEF Without
<1> HIDE DEF b
<1> QED BY <1>2, <1>3, <1>7 DEF Unlinked

\* Two frames put on a stack.
LEMMA TwoFrames ==
    ASSUME NEW S \in Seq(Frame), NEW f \in Frame, NEW g \in Frame
    PROVE  S \o <<f, g>> = Append(Append(S, f), g)
<1> DEFINE T == Append(Append(S, f), g)
           U == S \o <<f, g>>
<1>1. <<f, g>> \in Seq(Frame) /\ Len(<<f, g>>) = 2 /\ <<f, g>>[1] = f /\ <<f, g>>[2] = g
    OBVIOUS
<1>2. /\ T \in Seq(Frame) /\ Len(T) = Len(S) + 2 /\ T[Len(S) + 1] = f /\ T[Len(S) + 2] = g
      /\ \A i \in 1 .. Len(S) : T[i] = S[i]
    BY AppendProperties
<1>3. /\ U \in Seq(Frame) /\ Len(U) = Len(S) + 2
      /\ \A i \in 1 .. Len(S) + 2 : U[i] = IF i <= Len(S) THEN S[i] ELSE <<f, g>>[i - Len(S)]
    BY <1>1, ConcatProperties
<1> HIDE DEF T, U
<1>4. Len(S) \in Nat
    OBVIOUS
<1>5. \A i \in 1 .. Len(S) + 2 : T[i] = U[i]
    <2> TAKE i \in 1 .. Len(S) + 2
    <2>1. i \in 1 .. Len(S) \/ i = Len(S) + 1 \/ i = Len(S) + 2
        BY <1>4
    <2>2. CASE i \in 1 .. Len(S)
        BY <2>2, <1>2, <1>3, <1>4
    <2>3. CASE i = Len(S) + 1
        BY <2>3, <1>1, <1>2, <1>3, <1>4
    <2>4. CASE i = Len(S) + 2
        BY <2>4, <1>1, <1>2, <1>3, <1>4
    <2> QED BY <2>1, <2>2, <2>3, <2>4
<1>6. T = U
    BY <1>2, <1>3, <1>5, SeqEqual
<1> QED BY <1>6 DEF T, U

\* The call on top.
LEMMA TopIs ==
    ASSUME IInv, stack # <<>>
    PROVE  /\ Len(stack) \in Nat \ {0} /\ Len(stack) \in DOMAIN stack
           /\ stack \in Seq(Frame) /\ DOMAIN stack = 1 .. Len(stack)
           /\ Top = stack[Len(stack)] /\ Self = stack[Len(stack)].id
           /\ Rest = SubSeq(stack, 1, Len(stack) - 1)
           /\ Self \in live /\ Self \in Ids /\ Self \notin held /\ Self \notin Libs(cache)
           /\ Unload(Self) \in Frame
           /\ Top.op = "resolve" => FrameOK(disk, module, Libs(cache), stack, Len(stack))
           /\ Imports = disk[module[Self].name].imports
           /\ Rest \in Seq(Frame) /\ Len(Rest) = Len(stack) - 1
           /\ \A k \in 1 .. Len(stack) - 1 : Rest[k] = stack[k]
<1>1. stack \in Seq(Frame) /\ Core(disk, live, module, cache, stack, held)
    BY DEF IInv, TypeOK
<1>2. /\ Len(stack) \in Nat \ {0} /\ DOMAIN stack = 1 .. Len(stack)
      /\ SubSeq(stack, 1, Len(stack) - 1) \in Seq(Frame)
      /\ Len(SubSeq(stack, 1, Len(stack) - 1)) = Len(stack) - 1
      /\ \A k \in 1 .. Len(stack) - 1 : SubSeq(stack, 1, Len(stack) - 1)[k] = stack[k]
    BY <1>1, RestIs
<1>3. Len(stack) \in DOMAIN stack
    BY <1>2
<1> DEFINE N == Len(stack)
<1>4. /\ stack[N].id \in live /\ stack[N].id \in Ids
      /\ stack[N].id \notin Libs(cache) /\ stack[N].id \notin held
      /\ stack[N].op = "resolve" => FrameOK(disk, module, Libs(cache), stack, N)
    BY <1>1, <1>3, FrameFacts
<1> QED BY <1>1, <1>2, <1>3, <1>4, UnloadType DEF Top, Self, Rest, Imports

\* The stack of a load that fails: the place of the call is its module's unloading.
LEMMA Replaced ==
    ASSUME IInv, stack # <<>>, NEW S, S = Append(Rest, Unload(Self))
    PROVE  /\ S \in Seq(Frame) /\ Len(S) = Len(stack) /\ DOMAIN S = DOMAIN stack
           /\ S[Len(stack)] = Unload(Self) /\ S[Len(stack)].id = Self
           /\ \A k \in DOMAIN stack : k # Len(stack) => S[k] = stack[k]
<1>1. Rest \in Seq(Frame) /\ Unload(Self) \in Frame /\ Len(Rest) = Len(stack) - 1
      /\ (\A k \in 1 .. Len(stack) - 1 : Rest[k] = stack[k])
      /\ Len(stack) \in Nat \ {0} /\ DOMAIN stack = 1 .. Len(stack)
    BY TopIs
<1>2. /\ S \in Seq(Frame) /\ Len(S) = Len(Rest) + 1 /\ S[Len(Rest) + 1] = Unload(Self)
      /\ \A k \in 1 .. Len(Rest) : S[k] = Rest[k]
    BY <1>1, AppendProperties
<1>3. Unload(Self).id = Self
    BY DEF Unload
<1>4. Len(S) = Len(stack) /\ DOMAIN S = DOMAIN stack /\ S[Len(stack)] = Unload(Self)
    BY <1>1, <1>2
<1>5. \A k \in DOMAIN stack : k # Len(stack) => S[k] = stack[k]
    BY <1>1, <1>2
<1> QED BY <1>2, <1>3, <1>4, <1>5

\* The file is not loaded: the caller is told.
LEMMA RefuseKeeps ==
    ASSUME IInv, TypeOK', Refuse, answer = Nothing PROVE IInv'
<1>1. UNCHANGED <<disk, live, module, cache, stack, held>> /\ answer' \notin Ids
    BY IdAssumption DEF Refuse
<1>2. Core(disk, live, module, cache, stack, held)'
    BY <1>1 DEF IInv
<1>3. AnswerInv'
    BY <1>1 DEF AnswerInv
<1>4. KnownInv'
    <2>1. \A l \in live : l # answer
        BY IdAssumption DEF IInv, TypeOK
    <2> QED BY <1>1, <2>1 DEF IInv, KnownInv
<1> QED BY <1>2, <1>3, <1>4 DEF IInv

\* The kernel's stack is overrun: the call has no answer, for ever.
LEMMA ImportOverrunsKeeps ==
    ASSUME IInv, TypeOK', ImportOverruns PROVE IInv'
<1>1. UNCHANGED <<disk, live, module, cache, stack, held>> /\ answer' \notin Ids
    BY IdAssumption DEF ImportOverruns
<1>2. Core(disk, live, module, cache, stack, held)'
    BY <1>1 DEF IInv
<1>3. AnswerInv'
    BY <1>1 DEF AnswerInv
<1>4. KnownInv'
    <2>1. \A l \in live : l # answer
        BY IdAssumption DEF IInv, TypeOK, ImportOverruns
    <2> QED BY <1>1, <2>1 DEF IInv, KnownInv
<1> QED BY <1>2, <1>3, <1>4 DEF IInv

\* A load begins.
LEMMA EnterKeeps ==
    ASSUME IInv, TypeOK', answer = Nothing, NEW n \in Names, NEW lib \in BOOLEAN,
           MayLoad(disk, module, Libs(cache), stack, n, lib), Enter(n, lib)
    PROVE  IInv'
<1>1. CASE Refuse
    BY <1>1, RefuseKeeps
<1>2. CASE ~Refuse
    <2> DEFINE m == CHOOSE i \in Ids \ live : TRUE
               frame == [op |-> "resolve", id |-> m, at |-> 1, lib |-> lib]
    <2>1. /\ live # Ids /\ live' = live \cup {m}
          /\ module' = [module EXCEPT ![m] = New(n)]
          /\ stack' = Append(stack, frame)
          /\ UNCHANGED <<disk, cache, answer, held, faults>>
        BY <1>2 DEF Enter
    <2>2. m \in Ids \ live
        BY <2>1 DEF IInv, TypeOK
    <2>f. frame \in Frame /\ frame.id = m
        BY <2>2 DEF Frame
    <2> DEFINE T == Append(stack, frame)
    <2>3. Core(disk, live \cup {m}, [module EXCEPT ![m] = New(n)], cache, T, held)
        <3>1. Core(disk, live, module, cache, stack, held)
            BY DEF IInv
        <3> HIDE DEF m
        <3> QED BY <3>1, <2>2, CoreEnter
    <2>s. stack \in Seq(Frame) /\ module \in [Ids -> Module]
        BY DEF IInv, TypeOK
    <2>4. /\ \A k \in DOMAIN stack : k \in DOMAIN T /\ T[k].id = stack[k].id
          /\ Len(stack) + 1 \in DOMAIN T /\ T[Len(stack) + 1].id = m
        <3> HIDE DEF frame
        <3> QED BY <2>f, <2>s, AppendProperties
    <2> HIDE DEF m, frame, T
    <2>5. Core(disk, live, module, cache, stack, held)'
        BY <2>1, <2>3 DEF T
    <2>6. AnswerInv'
        BY <2>1, IdAssumption DEF AnswerInv
    <2>7. KnownInv'
        <3> SUFFICES ASSUME NEW l \in live'
                     PROVE  \/ l \in held' \/ l = answer' \/ module'[l].count > 0
                            \/ \E k \in DOMAIN stack' : stack'[k].id = l
            BY DEF KnownInv
        <3>1. CASE l = m
            BY <3>1, <2>1, <2>4 DEF T
        <3>2. CASE l # m
            <4>1. l \in live /\ module'[l] = module[l] /\ l # answer
                BY <3>2, <2>1, <2>s, IdAssumption DEF IInv, TypeOK
            <4>2. \/ l \in held \/ module[l].count > 0
                  \/ \E k \in DOMAIN stack : stack[k].id = l
                BY <4>1 DEF IInv, KnownInv
            <4> QED BY <4>1, <4>2, <2>1, <2>4 DEF T
        <3> QED BY <3>1, <3>2
    <2> QED BY <2>5, <2>6, <2>7 DEF IInv
<1> QED BY <1>1, <1>2

\* A client's load: nothing is in progress.
LEMMA LoadKeeps ==
    ASSUME IInv, TypeOK', NEW n \in Names, Load(n) PROVE IInv'
<1>1. stack = <<>> /\ answer = Nothing /\ Enter(n, FALSE)
    BY DEF Load, Idle
<1>2. MayLoad(disk, module, Libs(cache), stack, n, FALSE)
    BY <1>1 DEF MayLoad
<1> QED BY <1>1, <1>2, EnterKeeps

\* That of an import: the cache has no library of its name.
LEMMA ImportLoadKeeps ==
    ASSUME IInv, TypeOK', ImportLoad PROVE IInv'
<1>1. /\ stack # <<>> /\ Top.op = "resolve" /\ Top.at <= Len(Imports)
      /\ answer = Nothing /\ Cached(Wanted.dll) = {} /\ Enter(Wanted.dll, TRUE)
    BY DEF ImportLoad, Importing, Resolving, Found
<1>2. Wanted.dll \in Names
    BY WantedType DEF IInv, ImportLoad
<1>3. \A l \in Libs(cache) : module[l].name # Wanted.dll
    <2>1. Cached(Wanted.dll) = {l \in Libs(cache) : module[l].name = Wanted.dll}
        BY <1>2, CachedIs DEF IInv, Core
    <2> QED BY <1>1, <2>1
<1>4. /\ Top = stack[Len(stack)] /\ Imports = disk[module[stack[Len(stack)].id].name].imports
    BY <1>1, TopIs
<1>5. MayLoad(disk, module, Libs(cache), stack, Wanted.dll, TRUE)
    BY <1>1, <1>3, <1>4 DEF MayLoad, Wanted
<1> QED BY <1>1, <1>2, <1>5, EnterKeeps

\* The load on top fails, and nothing else changes.
LEMMA FailKeeps ==
    ASSUME IInv, TypeOK', Resolving, answer \notin Ids, Fail,
           UNCHANGED <<disk, live, module, cache, held>>
    PROVE  IInv'
<1> DEFINE S == Append(Rest, Unload(Self))
<1>1. stack # <<>> /\ Top.op = "resolve" /\ stack' = S /\ answer' = Null
    BY DEF Resolving, Fail
<1>2. /\ S \in Seq(Frame) /\ Len(S) = Len(stack) /\ DOMAIN S = DOMAIN stack
      /\ S[Len(stack)] = Unload(Self) /\ S[Len(stack)].id = Self
      /\ \A k \in DOMAIN stack : k # Len(stack) => S[k] = stack[k]
    BY <1>1, Replaced
<1>3. /\ Len(stack) \in DOMAIN stack /\ Top = stack[Len(stack)] /\ Self = stack[Len(stack)].id
      /\ Len(stack) \in Nat
    BY <1>1, TopIs
<1> HIDE DEF S
<1>4. Core(disk, live, module, cache, S, held)
    <2>1. Core(disk, live, module, cache, stack, held)
        BY DEF IInv
    <2>2. \A k \in Len(stack) + 1 .. Len(stack) : stack[k].op # "resolve"
        BY <1>3
    <2>3. stack[Len(stack)].op = "resolve" /\ S[Len(stack)] = Unload(stack[Len(stack)].id)
        BY <1>1, <1>2, <1>3
    <2> QED BY <2>1, <2>2, <2>3, <1>2, <1>3, CoreFail
<1>5. Core(disk, live, module, cache, stack, held)'
    BY <1>1, <1>4
<1>6. AnswerInv'
    BY <1>1, IdAssumption DEF AnswerInv
<1>7. KnownInv'
    <2> SUFFICES ASSUME NEW l \in live
                 PROVE  \/ l \in held \/ module[l].count > 0
                        \/ \E k \in DOMAIN S : S[k].id = l
        BY <1>1 DEF KnownInv
    <2>1. l # answer
        BY DEF IInv, TypeOK
    <2>2. \/ l \in held \/ module[l].count > 0 \/ \E k \in DOMAIN stack : stack[k].id = l
        BY <2>1 DEF IInv, KnownInv
    <2>3. \A k \in DOMAIN stack : S[k].id = stack[k].id
        BY <1>2, <1>3
    <2> QED BY <2>2, <2>3, <1>2
<1> QED BY <1>5, <1>6, <1>7 DEF IInv

LEMMA LoadFailsKeeps ==
    ASSUME IInv, TypeOK', ImportFailed \/ NotRelocated \/ LibraryRefused PROVE IInv'
<1>1. /\ Resolving /\ Fail /\ answer \in {Null, Nothing}
      /\ UNCHANGED <<disk, live, module, cache, held>>
    BY DEF ImportFailed, NotRelocated, LibraryRefused, Resolved
<1> QED BY <1>1, FailKeeps, IdAssumption

\* The library that is wanted is found: it is in the cache, and counted.
LEMMA FoundFacts ==
    ASSUME IInv, Importing, NEW l \in Libs(cache), module[l].name = Wanted.dll
    PROVE  /\ stack # <<>> /\ stack[Len(stack)].op = "resolve"
           /\ Wants(disk, module, Self, stack[Len(stack)].at, l)
           /\ l \in live /\ l \in Ids /\ l # Self /\ module[l].count \in Nat
<1>1. stack # <<>> /\ Top.op = "resolve" /\ Top.at <= Len(Imports)
    BY DEF Importing, Resolving
<1>2. Top = stack[Len(stack)] /\ Imports = disk[module[Self].name].imports /\ Self \notin Libs(cache)
    BY <1>1, TopIs
<1>3. Wants(disk, module, Self, stack[Len(stack)].at, l)
    BY <1>1, <1>2 DEF Wants, Wanted
<1>4. l \in live /\ l \in Ids
    BY DEF IInv, Core, CacheOK, Libs
<1>5. module[l].count \in Nat
    BY <1>4, FS_CardinalityType DEF IInv, Core, CountOK
<1> QED BY <1>1, <1>2, <1>3, <1>4, <1>5

\* It is counted and recorded, and the load goes on, or fails for a function
\* the library has not.
LEMMA AdoptKeeps ==
    ASSUME IInv, TypeOK', Importing, NEW l \in Libs(cache),
           module[l].name = Wanted.dll, answer \in {Nothing, l}, Adopt(l)
    PROVE  IInv'
<1> DEFINE S == Append(Rest, Unload(Self))
           T == [stack EXCEPT ![Len(stack)].at = @ + 1]
<1>1. /\ stack # <<>> /\ stack[Len(stack)].op = "resolve"
      /\ Wants(disk, module, Self, stack[Len(stack)].at, l)
      /\ l \in live /\ l \in Ids /\ l # Self /\ module[l].count \in Nat
    BY FoundFacts
<1>2. /\ Len(stack) \in Nat \ {0} /\ Len(stack) \in DOMAIN stack /\ stack \in Seq(Frame)
      /\ Self = stack[Len(stack)].id /\ Self \in Ids
    BY <1>1, TopIs
<1>3. /\ UNCHANGED <<disk, live, cache, held>>
      /\ \/ stack' = T /\ answer' = Nothing
         \/ stack' = S /\ answer' = Null
    BY DEF Adopt, Fail
<1>4. Counting(module, module', Self, l)
    BY DEF Counting, Adopt, Counted
<1>5. /\ module'[l].count = module[l].count + 1
      /\ \A x \in Ids : x # l => module'[x].count = module[x].count
    BY <1>1, <1>2, <1>4, CountedIs DEF IInv, TypeOK
<1>6. /\ T \in Seq(Frame) /\ Len(T) = Len(stack) /\ DOMAIN T = DOMAIN stack
      /\ \A k \in DOMAIN stack : k # Len(stack) => T[k] = stack[k]
      /\ T[Len(stack)].id = Self /\ T[Len(stack)].op = "resolve"
    BY <1>1, <1>2, AdvanceIs
<1>7. /\ S \in Seq(Frame) /\ Len(S) = Len(stack) /\ DOMAIN S = DOMAIN stack
      /\ S[Len(stack)] = Unload(Self) /\ S[Len(stack)].id = Self
      /\ \A k \in DOMAIN stack : k # Len(stack) => S[k] = stack[k]
    BY <1>1, Replaced
<1>8. Advancing(stack, T)
    BY DEF Advancing
<1> HIDE DEF S, T
<1>9. Core(disk, live, module', cache, T, held)
    <2>1. Core(disk, live, module, cache, stack, held)
        BY DEF IInv
    <2> QED BY <2>1, <1>1, <1>2, <1>4, <1>8, CoreAdopt
<1>10. Core(disk, live, module', cache, S, held)
    <2>1. \A k \in Len(stack) + 1 .. Len(T) : T[k].op # "resolve"
        BY <1>2, <1>6
    <2>2. /\ Len(stack) \in DOMAIN T /\ T[Len(stack)].op = "resolve"
          /\ S \in Seq(Frame) /\ Len(S) = Len(T) /\ S[Len(stack)] = Unload(T[Len(stack)].id)
        BY <1>2, <1>6, <1>7
    <2>3. \A k \in DOMAIN T : k # Len(stack) => S[k] = T[k]
        BY <1>6, <1>7
    <2> QED BY <2>1, <2>2, <2>3, <1>9, CoreFail
<1>11. Core(disk, live, module, cache, stack, held)'
    BY <1>3, <1>9, <1>10
<1>12. AnswerInv'
    BY <1>3, IdAssumption DEF AnswerInv
<1>13. KnownInv'
    <2> SUFFICES ASSUME NEW x \in live
                 PROVE  \/ x \in held \/ module'[x].count > 0
                        \/ \E k \in DOMAIN stack' : stack'[k].id = x
        BY <1>3 DEF KnownInv
    <2>1. CASE x = l
        BY <2>1, <1>1, <1>5
    <2>2. CASE x # l
        <3>1. x # answer /\ x \in Ids
            BY <2>2, IdAssumption DEF IInv, TypeOK
        <3>2. \/ x \in held \/ module[x].count > 0 \/ \E k \in DOMAIN stack : stack[k].id = x
            BY <3>1 DEF IInv, KnownInv
        <3>3. \A k \in DOMAIN stack : k \in DOMAIN stack' /\ stack'[k].id = stack[k].id
            BY <1>2, <1>3, <1>6, <1>7
        <3> QED BY <3>1, <3>2, <3>3, <2>2, <1>5
    <2> QED BY <2>1, <2>2
<1> QED BY <1>11, <1>12, <1>13 DEF IInv

\* There is no memory to record it: the load fails, and a library that was
\* loaded for it alone goes.
LEMMA AdoptFailsKeeps ==
    ASSUME IInv, TypeOK', Importing, NEW l \in Libs(cache),
           module[l].name = Wanted.dll, answer \in {Nothing, l}, AdoptFails(l)
    PROVE  IInv'
<1> DEFINE S == Append(Rest, Unload(Self))
           T == Append(S, Unload(l))
<1>1. /\ stack # <<>> /\ stack[Len(stack)].op = "resolve"
      /\ l \in live /\ l \in Ids /\ module[l].count \in Nat
    BY FoundFacts
<1>2. /\ Len(stack) \in Nat \ {0} /\ Len(stack) \in DOMAIN stack
      /\ Self = stack[Len(stack)].id /\ Self \in Ids
      /\ Rest \in Seq(Frame) /\ Unload(Self) \in Frame
    BY <1>1, TopIs
<1>3. Unload(l) \in Frame /\ Unload(l).id = l
    BY <1>1, UnloadType DEF Unload
<1>4. /\ UNCHANGED <<disk, live, module, held>> /\ answer' = Null
      /\ \/ module[l].count = 0 /\ cache' = Uncached(l) /\ stack' = T
         \/ module[l].count > 0 /\ cache' = cache /\ stack' = S
    <2>1. Rest \o <<Unload(Self), Unload(l)>> = T
        BY <1>2, <1>3, TwoFrames
    <2> QED BY <2>1, <1>1 DEF AdoptFails
<1>5. /\ S \in Seq(Frame) /\ Len(S) = Len(stack) /\ DOMAIN S = DOMAIN stack
      /\ S[Len(stack)] = Unload(Self) /\ S[Len(stack)].id = Self
      /\ \A k \in DOMAIN stack : k # Len(stack) => S[k] = stack[k]
    BY <1>1, Replaced
<1> HIDE DEF S
<1>6. /\ \A k \in DOMAIN S : k \in DOMAIN T /\ T[k] = S[k]
      /\ Len(S) + 1 \in DOMAIN T /\ T[Len(S) + 1].id = l
    BY <1>3, <1>5, AppendProperties
<1>7. Core(disk, live, module, cache, S, held)
    <2>1. Core(disk, live, module, cache, stack, held)
        BY DEF IInv
    <2>2. \A k \in Len(stack) + 1 .. Len(stack) : stack[k].op # "resolve"
        BY <1>2
    <2> QED BY <2>1, <2>2, <1>1, <1>2, <1>5, CoreFail
<1>8. ASSUME module[l].count = 0
      PROVE  Core(disk, live, module, Uncached(l), T, held)
    <2>1. Unlinked(cache, Uncached(l), l)
        BY UncachedIs DEF IInv, Core
    <2>2. \A r \in Kept(live, module, S) : Target(module, r) # l
        <3> DEFINE K == Kept(live, module, S)
        <3>1. IsFiniteSet(RefsTo(module, K, l)) /\ Cardinality(RefsTo(module, K, l)) = 0
            BY <1>1, <1>7, <1>8 DEF Core, CountOK
        <3>2. RefsTo(module, K, l) = {}
            BY <3>1, FS_EmptySet
        <3> QED BY <3>2 DEF RefsTo
    <2> QED BY <2>1, <2>2, <1>7, CoreDrop
<1> HIDE DEF T
<1>9. Core(disk, live, module, cache, stack, held)'
    BY <1>4, <1>7, <1>8
<1>10. AnswerInv'
    BY <1>4, IdAssumption DEF AnswerInv
<1>11. KnownInv'
    <2> SUFFICES ASSUME NEW x \in live
                 PROVE  \/ x \in held \/ module[x].count > 0
                        \/ \E k \in DOMAIN stack' : stack'[k].id = x
        BY <1>4 DEF KnownInv
    <2>1. CASE x = l
        BY <2>1, <1>4, <1>6
    <2>2. CASE x # l
        <3>1. x # answer
            BY <2>2, IdAssumption DEF IInv, TypeOK
        <3>2. \/ x \in held \/ module[x].count > 0 \/ \E k \in DOMAIN stack : stack[k].id = x
            BY <3>1 DEF IInv, KnownInv
        <3>3. \A k \in DOMAIN stack : k \in DOMAIN stack' /\ stack'[k].id = stack[k].id
            BY <1>2, <1>4, <1>5, <1>6
        <3> QED BY <3>2, <3>3
    <2> QED BY <2>1, <2>2
<1> QED BY <1>9, <1>10, <1>11 DEF IInv

LEMMA ImportCachedKeeps ==
    ASSUME IInv, TypeOK', ImportCached PROVE IInv'
<1>1. PICK l \in Cached(Wanted.dll) : Adopt(l) \/ AdoptFails(l)
    BY DEF ImportCached, Found
<1>2. Importing /\ answer = Nothing /\ Wanted.dll \in Names
    BY WantedType DEF ImportCached, IInv
<1>3. l \in Libs(cache) /\ module[l].name = Wanted.dll
    BY <1>1, <1>2, CachedIs DEF IInv, Core
<1> QED BY <1>1, <1>2, <1>3, AdoptKeeps, AdoptFailsKeeps

LEMMA ImportLoadedKeeps ==
    ASSUME IInv, TypeOK', ImportLoaded PROVE IInv'
<1>1. Importing /\ answer \in Ids /\ (Adopt(answer) \/ AdoptFails(answer)) /\ stack # <<>>
    BY DEF ImportLoaded, Importing, Resolving
<1>2. answer \in Libs(cache) /\ module[answer].name = Wanted.dll
    BY <1>1 DEF IInv, AnswerInv
<1> QED BY <1>1, <1>2, AdoptKeeps, AdoptFailsKeeps

\* A load that has all of its imports is not in the cache yet.
LEMMA ResolvedFacts ==
    ASSUME IInv, Resolved
    PROVE  /\ stack # <<>> /\ stack[Len(stack)].op = "resolve" /\ answer = Nothing
           /\ stack[Len(stack)].at > Len(disk[module[Self].name].imports)
           /\ FrameOK(disk, module, Libs(cache), stack, Len(stack))
           /\ Len(stack) \in Nat \ {0} /\ Self = stack[Len(stack)].id
           /\ stack[Len(stack)].lib = Top.lib
BY TopIs DEF Resolved, Resolving

\* Of the modules of the stack that are not on top none is the one on top.
LEMMA BelowKeeps ==
    ASSUME IInv, stack # <<>>, NEW k \in DOMAIN stack, stack[k].id # Self
    PROVE  k \in DOMAIN Rest /\ Rest[k] = stack[k]
<1>1. /\ Len(stack) \in Nat \ {0} /\ DOMAIN stack = 1 .. Len(stack)
      /\ Self = stack[Len(stack)].id /\ Rest \in Seq(Frame) /\ Len(Rest) = Len(stack) - 1
      /\ \A j \in 1 .. Len(stack) - 1 : Rest[j] = stack[j]
    BY TopIs
<1>2. k # Len(stack)
    BY <1>1
<1> QED BY <1>1, <1>2

\* The client's load is done: it was the only call.
LEMMA LoadedModuleKeeps ==
    ASSUME IInv, TypeOK', LoadedModule PROVE IInv'
<1>1. /\ ~Top.lib /\ stack' = Rest /\ answer' = Self /\ Resolved
      /\ UNCHANGED <<disk, live, module, cache, held, faults>>
    BY DEF LoadedModule
<1>2. /\ stack # <<>> /\ stack[Len(stack)].op = "resolve" /\ answer = Nothing
      /\ Len(stack) = 1
    <2>1. stack[Len(stack)].lib = (Len(stack) # 1)
        BY <1>1, ResolvedFacts DEF FrameOK
    <2> QED BY <1>1, <2>1, ResolvedFacts
<1>3. /\ Rest = SubSeq(stack, 1, Len(stack) - 1) /\ Self \in live /\ Self \notin Libs(cache)
      /\ Rest \in Seq(Frame) /\ Len(Rest) = Len(stack) - 1
    BY <1>2, TopIs
<1>4. Rest = <<>>
    BY <1>2, <1>3
<1>5. Core(disk, live, module, cache, Rest, held)
    BY <1>2, <1>3, CorePop DEF IInv
<1>6. Core(disk, live, module, cache, stack, held)'
    BY <1>1, <1>5
<1>7. AnswerInv'
    BY <1>1, <1>3, <1>4 DEF AnswerInv
<1>8. KnownInv'
    <2> SUFFICES ASSUME NEW x \in live, x # Self
                 PROVE  x \in held \/ module[x].count > 0 \/ \E k \in DOMAIN Rest : Rest[k].id = x
        BY <1>1 DEF KnownInv
    <2>1. x # answer
        BY <1>2, IdAssumption DEF IInv, TypeOK
    <2>2. \/ x \in held \/ module[x].count > 0 \/ \E k \in DOMAIN stack : stack[k].id = x
        BY <2>1 DEF IInv, KnownInv
    <2> QED BY <1>2, <2>2, BelowKeeps
<1> QED BY <1>6, <1>7, <1>8 DEF IInv

\* A library's is done: it is the one that the load below waits for.
LEMMA LoadedLibraryKeeps ==
    ASSUME IInv, TypeOK', LoadedLibrary PROVE IInv'
<1> DEFINE N == Len(stack)
<1>1. /\ Top.lib = TRUE /\ stack' = Rest /\ answer' = Self /\ Resolved
      /\ UNCHANGED <<disk, live, held>>
      /\ cache' = [cache EXCEPT ![BucketOf[module[Self].name]] = Append(@, Self)]
    <2>1. Top \in Frame /\ Top.lib
        BY TopType DEF IInv, LoadedLibrary, Resolved, Resolving
    <2>2. Top.lib = TRUE
        BY <2>1 DEF Frame
    <2> QED BY <2>2 DEF LoadedLibrary
<1>2. PICK lost : module' = [module EXCEPT ![Self].funcs = disk[module[Self].name].exports \ lost,
                                           ![Self].count = 0]
    BY DEF LoadedLibrary
<1>3. /\ stack # <<>> /\ stack[N].op = "resolve" /\ answer = Nothing
      /\ stack[N].at > Len(disk[module[Self].name].imports)
      /\ FrameOK(disk, module, Libs(cache), stack, N)
      /\ N \in Nat \ {0} /\ Self = stack[N].id /\ stack[N].lib = TRUE
    BY <1>1, ResolvedFacts
<1>4. N # 1
    BY <1>3 DEF FrameOK
<1>n. N \in Nat /\ N >= 2 /\ N - 1 \in 1 .. N
    <2>1. N \in Nat \ {0}
        BY <1>3
    <2> HIDE DEF N
    <2> QED BY <2>1, <1>4
<1>5. /\ Rest = SubSeq(stack, 1, N - 1) /\ Self \in live /\ Self \in Ids
      /\ Rest \in Seq(Frame) /\ Len(Rest) = N - 1 /\ \A k \in 1 .. N - 1 : Rest[k] = stack[k]
    BY <1>3, TopIs
<1>6. Published(module, module', Self)
    <2>1. module \in [Ids -> Module] /\ module' \in [Ids -> Module]
        BY DEF IInv, TypeOK
    <2>2. \A x \in Ids : x # Self => module'[x] = module[x]
        BY <1>2, <1>5, <2>1
    <2>3. /\ module'[Self].name = module[Self].name /\ module'[Self].refs = module[Self].refs
          /\ module'[Self].count = 0
        BY <1>2, <1>5, <2>1 DEF Module
    <2>4. \A x \in Ids : module'[x].name = module[x].name /\ module'[x].refs = module[x].refs
        BY <2>2, <2>3
    <2> QED BY <2>1, <2>2, <2>3, <2>4 DEF Published
<1>7. Linked(module, cache, cache', Self)
    BY <1>1 DEF Linked
<1>c. Core(disk, live, module, cache, stack, held)
    BY DEF IInv
<1>8. Core(disk, live, module', cache', Rest, held)
    <2>1. Core(disk, live, module', cache', SubSeq(stack, 1, N - 1), held)
        BY <1>3, <1>6, <1>7, <1>c, CoreLibrary
    <2> QED BY <2>1, <1>5
<1>9. Core(disk, live, module, cache, stack, held)'
    BY <1>1, <1>8
<1>10. Self \in Libs(cache')
    <2>1. Len(module[Self].refs) = Len(disk[module[Self].name].imports)
        <3>1. /\ stack[N].at = Len(module[Self].refs) + 1
              /\ Len(module[Self].refs) <= Len(disk[module[Self].name].imports)
            BY <1>3 DEF FrameOK
        <3>2. Len(module[Self].refs) \in Nat /\ Len(disk[module[Self].name].imports) \in Nat
            <4>1. module[Self].refs \in Seq(Ids)
                BY <1>5, FieldType DEF IInv, TypeOK
            <4>2. disk[module[Self].name].imports \in Seq(Import)
                BY <1>3, ImportsType DEF IInv, Imports
            <4> QED BY <4>1, <4>2
        <3> QED BY <1>3, <3>1, <3>2
    <2>2. \A l \in Libs(cache) : module[l].name # module[Self].name
        BY <1>3, <1>4 DEF FrameOK
    <2>3. Complete(disk, live, module, cache, Self)
        BY <1>5, <2>1, <2>2, <1>c DEF Complete, Core, Typed
    <2> QED BY <2>3, <1>7, LinkedIs
<1>11. AnswerInv'
    <2>1. /\ stack' # <<>> /\ Len(stack') = N - 1 /\ stack'[Len(stack')] = stack[N - 1]
          /\ stack[N - 1].op = "resolve"
        <3>1. N - 1 \in 1 .. N - 1 /\ N - 1 \in 1 .. N
            BY <1>n
        <3>2. stack[N - 1].op = "resolve"
            BY <1>3, <3>1 DEF FrameOK
        <3>3. stack' # <<>> /\ Len(stack') = N - 1
            <4>1. stack' = Rest /\ Len(Rest) = N - 1 /\ Rest \in Seq(Frame)
                BY <1>1, <1>5
            <4> QED BY <4>1, <1>n
        <3> QED BY <3>1, <3>2, <3>3, <1>1, <1>5
    <2> DEFINE b == stack[N - 1].id
    <2>2. /\ stack[N - 1].at <= Len(disk[module[b].name].imports)
          /\ module[Self].name = disk[module[b].name].imports[stack[N - 1].at].dll
        BY <1>3, <1>4 DEF FrameOK
    <2>3. b \in Ids
        <3>1. N - 1 \in DOMAIN stack
            BY <1>n DEF IInv, TypeOK
        <3> QED BY <3>1, <1>c, FrameFacts
    <2>4. module'[b].name = module[b].name /\ module'[Self].name = module[Self].name
        BY <2>3, <1>5, <1>6 DEF Published
    <2>5. Top' = stack[N - 1] /\ Imports' = disk[module[b].name].imports
        BY <2>1, <2>4, <1>1 DEF Top, Imports, Self
    <2>6. Importing' /\ module'[Self].name = Wanted'.dll
        BY <2>1, <2>2, <2>4, <2>5 DEF Importing, Resolving, Wanted
    <2> QED BY <2>1, <2>6, <1>1, <1>5, <1>10 DEF AnswerInv
<1>12. KnownInv'
    <2> SUFFICES ASSUME NEW x \in live, x # Self
                 PROVE  x \in held \/ module'[x].count > 0 \/ \E k \in DOMAIN Rest : Rest[k].id = x
        BY <1>1 DEF KnownInv
    <2>1. x # answer /\ x \in Ids
        BY <1>3, IdAssumption DEF IInv, TypeOK
    <2>2. \/ x \in held \/ module[x].count > 0 \/ \E k \in DOMAIN stack : stack[k].id = x
        BY <2>1 DEF IInv, KnownInv
    <2>3. module'[x].count = module[x].count
        BY <2>1, <1>6 DEF Published
    <2> QED BY <1>3, <2>2, <2>3, BelowKeeps
<1> QED BY <1>9, <1>11, <1>12 DEF IInv

\* While a module is being unloaded no answer is waited for.
LEMMA NoAnswer ==
    ASSUME IInv, stack # <<>>, Top.op = "unload" PROVE answer \notin Ids
BY DEF IInv, AnswerInv, Importing, Resolving

\* A reference is given back, and the library goes with the last.
LEMMA ReleaseReferenceKeeps ==
    ASSUME IInv, TypeOK', ReleaseReference PROVE IInv'
<1> DEFINE N == Len(stack)
           l == module[Self].refs[Top.at]
           next == [stack EXCEPT ![Len(stack)].at = @ + 1]
           M == [module EXCEPT ![l].count = @ - 1]
           T == Append(next, Unload(l))
<1>1. /\ stack # <<>> /\ Top.op = "unload" /\ Top.at <= Len(module[Self].refs)
      /\ module' = M /\ UNCHANGED <<disk, live, answer, held>>
      /\ \/ module[l].count = 1 /\ cache' = Uncached(l) /\ stack' = T
         \/ module[l].count # 1 /\ cache' = cache /\ stack' = next
    BY DEF ReleaseReference, LastReference
<1>2. /\ Top = stack[N] /\ Self = stack[N].id /\ stack \in Seq(Frame)
    BY <1>1, TopIs
<1>c. Core(disk, live, module, cache, stack, held)
    BY DEF IInv
<1>3. /\ l \in Libs(cache) /\ l \in live /\ module[l].count \in Nat \ {0}
      /\ Core(disk, live, M, cache, next, held)
    <2> HIDE DEF l
    <2>1. /\ stack # <<>> /\ stack[Len(stack)].op = "unload"
          /\ stack[Len(stack)].at <= Len(module[stack[Len(stack)].id].refs)
          /\ l = module[stack[Len(stack)].id].refs[stack[Len(stack)].at]
        BY <1>1, <1>2 DEF l
    <2>4. /\ l \in Libs(cache) /\ l \in live /\ module[l].count \in Nat \ {0}
          /\ Core(disk, live, [module EXCEPT ![l].count = @ - 1], cache,
                  [stack EXCEPT ![Len(stack)].at = @ + 1], held)
        BY <1>c, <2>1, CoreRelease
    <2>2. l \in Libs(cache) /\ l \in live /\ module[l].count \in Nat \ {0}
        BY <2>4
    <2>3. Core(disk, live, M, cache, next, held)
        BY <2>4
    <2> QED BY <2>2, <2>3
<1>4. /\ next \in Seq(Frame) /\ DOMAIN next = DOMAIN stack
      /\ \A k \in DOMAIN stack : next[k].id = stack[k].id
    BY <1>1, <1>2, AdvanceIs
<1>5. module \in [Ids -> Module] /\ live \subseteq Ids /\ l \in Ids
    BY <1>3 DEF IInv, TypeOK
<1>6. Unload(l) \in Frame /\ Unload(l).id = l
    BY <1>5, UnloadType DEF Unload
<1> HIDE DEF next, l
<1>7. /\ \A k \in DOMAIN next : k \in DOMAIN T /\ T[k] = next[k]
      /\ Len(next) + 1 \in DOMAIN T /\ T[Len(next) + 1].id = l
    BY <1>4, <1>6, AppendProperties
<1>8. M[l].count = module[l].count - 1 /\ \A x \in Ids : x # l => M[x].count = module[x].count
    BY <1>5 DEF Module
<1> HIDE DEF M
<1>9. ASSUME module[l].count = 1
      PROVE  Core(disk, live, M, Uncached(l), T, held)
    <2>1. Unlinked(cache, Uncached(l), l)
        BY <1>3, UncachedIs DEF IInv, Core
    <2>2. \A r \in Kept(live, M, next) : Target(M, r) # l
        <3> DEFINE K == Kept(live, M, next)
        <3>1. IsFiniteSet(RefsTo(M, K, l)) /\ Cardinality(RefsTo(M, K, l)) = 0
            BY <1>3, <1>8, <1>9 DEF Core, CountOK
        <3>2. RefsTo(M, K, l) = {}
            BY <3>1, FS_EmptySet
        <3> QED BY <3>2 DEF RefsTo
    <2> QED BY <2>1, <2>2, <1>3, CoreDrop
<1> HIDE DEF T
<1>10. Core(disk, live, module, cache, stack, held)'
    BY <1>1, <1>3, <1>9
<1>11. AnswerInv'
    BY <1>1, NoAnswer DEF AnswerInv
<1>12. KnownInv'
    <2> SUFFICES ASSUME NEW x \in live
                 PROVE  \/ x \in held \/ M[x].count > 0
                        \/ \E k \in DOMAIN stack' : stack'[k].id = x
        BY <1>1 DEF KnownInv
    <2>1. CASE x = l
        BY <2>1, <1>1, <1>3, <1>7, <1>8
    <2>2. CASE x # l
        <3>1. x # answer /\ x \in Ids
            BY <1>1, <1>5, NoAnswer
        <3>2. \/ x \in held \/ module[x].count > 0 \/ \E k \in DOMAIN stack : stack[k].id = x
            BY <3>1 DEF IInv, KnownInv
        <3>3. \A k \in DOMAIN stack : k \in DOMAIN stack' /\ stack'[k].id = stack[k].id
            BY <1>1, <1>4, <1>7
        <3> QED BY <3>1, <3>2, <3>3, <2>2, <1>8
    <2> QED BY <2>1, <2>2
<1> QED BY <1>10, <1>11, <1>12 DEF IInv

\* A module that has nothing left to give back is freed.
LEMMA FreeModuleKeeps ==
    ASSUME IInv, TypeOK', FreeModule PROVE IInv'
<1> DEFINE n == CHOOSE n \in Names : TRUE
<1>1. /\ stack # <<>> /\ Top.op = "unload" /\ Top.at > Len(module[Self].refs)
      /\ live' = live \ {Self} /\ module' = [module EXCEPT ![Self] = New(n)]
      /\ stack' = Rest /\ UNCHANGED <<disk, cache, answer, held>>
    BY DEF FreeModule
<1>2. /\ Top = stack[Len(stack)] /\ Self = stack[Len(stack)].id
      /\ Rest = SubSeq(stack, 1, Len(stack) - 1)
    BY <1>1, TopIs
<1>3. n \in Names
    BY NameAssumption
<1> HIDE DEF n
<1>4. Core(disk, live \ {Self}, [module EXCEPT ![Self] = New(n)], cache, Rest, held)
    <2>1. stack[Len(stack)].op = "unload" /\ stack[Len(stack)].at > Len(module[stack[Len(stack)].id].refs)
        BY <1>1, <1>2
    <2>2. Core(disk, live, module, cache, stack, held)
        BY DEF IInv
    <2>3. Core(disk, live \ {stack[Len(stack)].id}, [module EXCEPT ![stack[Len(stack)].id] = New(n)], cache,
               SubSeq(stack, 1, Len(stack) - 1), held)
        BY <1>1, <1>3, <2>1, <2>2, CoreFree
    <2> QED BY <2>3, <1>2
<1>5. Core(disk, live, module, cache, stack, held)'
    BY <1>1, <1>4
<1>6. AnswerInv'
    BY <1>1, NoAnswer DEF AnswerInv
<1>7. KnownInv'
    <2> SUFFICES ASSUME NEW x \in live, x # Self
                 PROVE  x \in held \/ module'[x].count > 0 \/ \E k \in DOMAIN Rest : Rest[k].id = x
        BY <1>1 DEF KnownInv
    <2>1. x # answer /\ x \in Ids /\ module \in [Ids -> Module]
        BY <1>1, NoAnswer DEF IInv, TypeOK
    <2>2. \/ x \in held \/ module[x].count > 0 \/ \E k \in DOMAIN stack : stack[k].id = x
        BY <2>1 DEF IInv, KnownInv
    <2>3. module'[x].count = module[x].count
        BY <1>1, <2>1
    <2> QED BY <1>1, <2>2, <2>3, BelowKeeps
<1> QED BY <1>5, <1>6, <1>7 DEF IInv

LEMMA UnloadModuleKeeps ==
    ASSUME IInv, TypeOK', NEW m \in held, UnloadModule(m) PROVE IInv'
<1>1. /\ stack = <<>> /\ answer = Nothing /\ held' = held \ {m} /\ stack' = <<Unload(m)>>
      /\ UNCHANGED <<disk, live, module, cache, answer>>
    BY DEF UnloadModule, Idle
<1>2. Core(disk, live, module, cache, <<Unload(m)>>, held \ {m})
    BY <1>1, CoreUnload DEF IInv
<1>3. Core(disk, live, module, cache, stack, held)'
    BY <1>1, <1>2
<1>4. AnswerInv'
    BY <1>1, IdAssumption DEF AnswerInv
<1>5. KnownInv'
    <2>1. Unload(m).id = m
        BY DEF Unload
    <2>2. 1 \in DOMAIN stack' /\ stack'[1].id = m
        BY <1>1, <2>1
    <2>3. \A x \in live : x \in held \/ module[x].count > 0
        BY <1>1, IdAssumption DEF IInv, KnownInv, TypeOK
    <2> QED BY <1>1, <2>2, <2>3 DEF KnownInv
<1> QED BY <1>3, <1>4, <1>5 DEF IInv

LEMMA ReturnKeeps ==
    ASSUME IInv, TypeOK', Return PROVE IInv'
<1> DEFINE X == {answer} \cap Ids
<1>1. /\ stack = <<>> /\ held' = held \cup X /\ answer' = Nothing
      /\ UNCHANGED <<disk, live, module, cache, stack>>
    BY DEF Return
<1>2. X \subseteq live /\ X \cap Libs(cache) = {}
    BY <1>1 DEF IInv, AnswerInv
<1>3. Core(disk, live, module, cache, <<>>, held \cup X)
    <2> HIDE DEF X
    <2> QED BY <1>1, <1>2, CoreHold DEF IInv
<1>4. Core(disk, live, module, cache, stack, held)'
    BY <1>1, <1>3
<1>5. AnswerInv'
    BY <1>1, IdAssumption DEF AnswerInv
<1>6. KnownInv'
    <2> SUFFICES ASSUME NEW x \in live PROVE x \in held \cup X \/ module[x].count > 0
        BY <1>1 DEF KnownInv
    <2>1. x \in Ids
        BY DEF IInv, TypeOK
    <2> QED BY <1>1, <2>1 DEF IInv, KnownInv
<1> QED BY <1>4, <1>5, <1>6 DEF IInv

-----------------------------------------------------------------------------
LEMMA InitIInv == Init => IInv
<1> SUFFICES ASSUME Init PROVE IInv
    OBVIOUS
<1>1. TypeOK /\ Typed(disk, live, module, cache, stack, held)
    BY InitType DEF TypeOK, Typed
<1>2. live = {} /\ held = {} /\ stack = <<>> /\ answer = Nothing /\ cache = [b \in Buckets |-> <<>>]
    BY DEF Init
<1>3. Kept(live, module, stack) = {} /\ Libs(cache) = {}
    BY <1>2 DEF Kept, Libs
<1>4. CacheOK(disk, live, module, cache) /\ OwnerOK(live, Libs(cache), stack, held)
      /\ StackOK(disk, module, Libs(cache), stack)
    BY <1>2 DEF CacheOK, OwnerOK, StackOK
<1>5. RankOK(module, {})
    <2>1. [i \in Ids |-> 0] \in [Ids -> 0 .. 0] /\ 0 \in Nat
        OBVIOUS
    <2>2. Ranked(module, {}, [i \in Ids |-> 0])
        BY DEF Ranked
    <2> QED BY <2>1, <2>2 DEF RankOK
<1>6. BoundOK(disk, module, {}, {}) /\ CountOK({}, module, {})
    BY DEF BoundOK, CountOK
<1>7. AnswerInv /\ KnownInv
    BY <1>2, IdAssumption DEF AnswerInv, KnownInv
<1> QED BY <1>1, <1>2, <1>3, <1>4, <1>5, <1>6, <1>7 DEF IInv, Core

\* Every step keeps the invariant.
LEMMA StepIInv == IInv /\ [Next]_vars => IInv'
<1> SUFFICES ASSUME IInv, [Next]_vars PROVE IInv'
    OBVIOUS
<1>t. TypeOK'
    BY StepType DEF IInv
<1>1. CASE \E n \in Names : Load(n)
    BY <1>1, <1>t, LoadKeeps
<1>2. CASE \E m \in held : UnloadModule(m)
    BY <1>2, <1>t, UnloadModuleKeeps
<1>3. CASE ImportCached
    BY <1>3, <1>t, ImportCachedKeeps
<1>4. CASE ImportLoad
    BY <1>4, <1>t, ImportLoadKeeps
<1>o. CASE ImportOverruns
    BY <1>o, <1>t, ImportOverrunsKeeps
<1>5. CASE ImportLoaded
    BY <1>5, <1>t, ImportLoadedKeeps
<1>6. CASE ImportFailed \/ NotRelocated \/ LibraryRefused
    BY <1>6, <1>t, LoadFailsKeeps
<1>7. CASE LoadedModule
    BY <1>7, <1>t, LoadedModuleKeeps
<1>8. CASE LoadedLibrary
    BY <1>8, <1>t, LoadedLibraryKeeps
<1>9. CASE ReleaseReference
    BY <1>9, <1>t, ReleaseReferenceKeeps
<1>10. CASE FreeModule
    BY <1>10, <1>t, FreeModuleKeeps
<1>11. CASE Return
    BY <1>11, <1>t, ReturnKeeps
<1>12. CASE UNCHANGED vars
    <2>1. UNCHANGED <<disk, live, module, cache, stack, held, answer>>
        BY <1>12 DEF vars
    <2>2. Core(disk, live, module, cache, stack, held)'
        BY <2>1 DEF IInv
    <2>3. AnswerInv' /\ KnownInv'
        BY <2>1 DEF IInv, AnswerInv, KnownInv, Importing, Resolving, Wanted, Imports, Top, Self
    <2> QED BY <1>t, <2>2, <2>3 DEF IInv
<1> QED BY <1>1, <1>2, <1>3, <1>4, <1>5, <1>6, <1>7, <1>8, <1>9, <1>10, <1>11, <1>12,
           <1>o DEF Next, Step

LEMMA Invariant == Spec => []IInv
BY InitIInv, StepIInv, PTL DEF Spec

\* The references not given back are those of the invariant.
LEMMA ReferencesAre ==
    ASSUME IInv, NEW l
    PROVE  References(l) = RefsTo(module, Kept(live, module, stack), l)
<1>1. \A m \in live : DOMAIN module[m].refs \subseteq Nat
    <2> SUFFICES ASSUME NEW m \in live PROVE DOMAIN module[m].refs \subseteq Nat
        OBVIOUS
    <2>1. module[m].refs \in Seq(Ids)
        BY FieldType DEF IInv, TypeOK
    <2> QED BY <2>1
<1>2. \A k \in DOMAIN stack : stack[k].at \in Nat
    <2>1. stack \in Seq(Frame)
        BY DEF IInv, TypeOK
    <2>2. \A k \in DOMAIN stack : stack[k] \in Frame
        BY <2>1, ElementOfSeq
    <2> QED BY <2>2 DEF Frame
<1>3. ASSUME NEW m \in live, NEW i \in DOMAIN module[m].refs
      PROVE  ~Given(stack, m, i) <=>
               \A k \in DOMAIN stack : stack[k].op = "unload" /\ stack[k].id = m => stack[k].at <= i
    BY <1>1, <1>2 DEF Given
<1>4. ASSUME NEW r \in References(l)
      PROVE  r \in RefsTo(module, Kept(live, module, stack), l)
    <2>1. PICK m \in live : r \in {m} \X DOMAIN module[m].refs
        BY DEF References
    <2>2. r = <<m, r[2]>> /\ r[1] = m /\ r[2] \in DOMAIN module[m].refs /\ r[2] \in Nat
        BY <2>1, <1>1
    <2>3. \A k \in DOMAIN stack : stack[k].op = "unload" /\ stack[k].id = r[1] => stack[k].at <= r[2]
        BY DEF References
    <2>4. ~Given(stack, m, r[2])
        BY <1>3, <2>2, <2>3
    <2> QED BY <2>2, <2>4 DEF References, RefsTo, Kept, Target
<1>5. ASSUME NEW r \in RefsTo(module, Kept(live, module, stack), l)
      PROVE  r \in References(l)
    <2>1. /\ r \in live \X Nat /\ r[2] \in DOMAIN module[r[1]].refs /\ ~Given(stack, r[1], r[2])
          /\ module[r[1]].refs[r[2]] = l
        BY DEF RefsTo, Kept, Target
    <2>2. r[1] \in live /\ r \in {r[1]} \X DOMAIN module[r[1]].refs
        BY <2>1
    <2>3. \A k \in DOMAIN stack : stack[k].op = "unload" /\ stack[k].id = r[1] => stack[k].at <= r[2]
        BY <1>3, <2>1, <2>2
    <2> QED BY <2>1, <2>2, <2>3 DEF References
<1> QED BY <1>4, <1>5

\* What the four properties are in a state of the invariant.
LEMMA CountsFollow == IInv => CountsExact
BY ReferencesAre DEF IInv, Core, CountOK, CountsExact

\* A library is never being unloaded.
LEMMA LibraryStays ==
    ASSUME IInv, NEW l \in Libs(cache) PROVE l \in Images
<1>1. l \in live
    BY DEF IInv, Core, CacheOK, Libs
<1>2. ~Unloading(l)
    BY DEF IInv, Core, OwnerOK, Unloading
<1> QED BY <1>1, <1>2 DEF Images

LEMMA BindingsFollow == IInv => BindingsLive
<1> SUFFICES ASSUME IInv, NEW m \in Images, NEW i \in DOMAIN module[m].refs
             PROVE  module[m].refs[i] \in Images
    BY DEF BindingsLive
<1>1. m \in live /\ ~Given(stack, m, i)
    BY DEF Images, Unloading, Given
<1>2. i \in Nat
    <2>1. module[m].refs \in Seq(Ids)
        BY <1>1, FieldType DEF IInv, TypeOK
    <2> QED BY <2>1
<1>3. <<m, i>> \in Kept(live, module, stack)
    BY <1>1, <1>2 DEF Kept
<1>4. module[m].refs[i] \in Libs(cache)
    BY <1>3 DEF IInv, Core, BoundOK, Target
<1> QED BY <1>4, LibraryStays

LEMMA OnceFollows == IInv => LoadedOnce
<1> SUFFICES ASSUME IInv, NEW b \in Buckets, NEW i \in DOMAIN cache[b]
             PROVE  /\ cache[b][i] \in Images
                    /\ Len(module[cache[b][i]].refs) = Len(disk[module[cache[b][i]].name].imports)
                    /\ \A j \in DOMAIN cache[b] : i # j =>
                         module[cache[b][i]].name # module[cache[b][j]].name
    BY DEF LoadedOnce
<1>1. CacheOK(disk, live, module, cache)
    BY DEF IInv, Core
<1>2. cache[b][i] \in Libs(cache)
    <2>1. cache[b][i] \in live
        BY <1>1 DEF CacheOK
    <2> QED BY <2>1 DEF Libs, IInv, TypeOK
<1>3. cache[b][i] \in Images
    BY <1>2, LibraryStays
<1> QED BY <1>1, <1>3 DEF CacheOK

\* References lead downwards, so that not every module can have a user.
LEMMA SomeUnused ==
    ASSUME IInv, \A l \in live : module[l].count > 0 PROVE live = {}
<1> SUFFICES ASSUME live # {} PROVE FALSE
    OBVIOUS
<1> DEFINE K == Kept(live, module, stack)
<1>1. \A l \in live : IsFiniteSet(RefsTo(module, K, l))
                      /\ module[l].count = Cardinality(RefsTo(module, K, l))
    BY DEF IInv, Core, CountOK
<1>2. \A l \in live : RefsTo(module, K, l) # {}
    <2> SUFFICES ASSUME NEW l \in live, RefsTo(module, K, l) = {} PROVE FALSE
        OBVIOUS
    <2>1. module[l].count = 0
        BY <1>1, FS_EmptySet
    <2> QED BY <2>1
<1>3. \A r \in K : r[1] \in live
    BY DEF Kept
<1>4. PICK N \in Nat : \E rank \in [Ids -> 0 .. N] : Ranked(module, K, rank)
    BY DEF IInv, Core, RankOK
<1>5. PICK rank \in [Ids -> 0 .. N] : Ranked(module, K, rank)
    BY <1>4
<1> HIDE DEF K
<1>6. \A l \in live : \E m \in live : rank[l] < rank[m]
    <2> SUFFICES ASSUME NEW l \in live PROVE \E m \in live : rank[l] < rank[m]
        OBVIOUS
    <2>1. PICK r \in K : Target(module, r) = l
        BY <1>2 DEF RefsTo
    <2> QED BY <2>1, <1>3, <1>5 DEF Ranked
<1>7. \A l \in live : rank[l] \in 0 .. N
    BY <1>5 DEF IInv, TypeOK
<1> DEFINE s == {N - rank[l] : l \in live}
<1>8. s \subseteq Nat /\ s # {}
    BY <1>7, <1>4
<1>9. PICK i \in s : \A j \in s : i <= j
    <2> HIDE DEF s
    <2> QED BY <1>8, LeastOfNats
<1>10. PICK l \in live : i = N - rank[l]
    BY <1>9
<1>11. PICK m \in live : rank[l] < rank[m]
    BY <1>6
<1>12. N - rank[l] <= N - rank[m]
    BY <1>9, <1>10
<1> QED BY <1>7, <1>11, <1>12, <1>4

LEMMA NothingFollows == IInv => NothingForgotten
<1> SUFFICES ASSUME IInv, Idle
             PROVE  /\ \A l \in live \ held : module[l].count > 0
                    /\ held = {} => live = {} /\ \A b \in Buckets : cache[b] = <<>>
    BY DEF NothingForgotten
<1>1. \A l \in live \ held : module[l].count > 0
    BY IdAssumption DEF IInv, TypeOK, KnownInv, Idle
<1>2. ASSUME held = {} PROVE live = {}
    BY <1>1, <1>2, SomeUnused
<1>3. ASSUME live = {}, NEW b \in Buckets PROVE cache[b] = <<>>
    <2>1. DOMAIN cache[b] = {}
        BY <1>3 DEF IInv, Core, CacheOK
    <2>2. cache[b] \in Seq(Ids)
        BY DEF IInv, TypeOK
    <2> DEFINE q == cache[b]
    <2>3. q \in Seq(Ids) /\ \A i \in DOMAIN q : FALSE
        BY <2>1, <2>2
    <2> HIDE DEF q
    <2>4. q = <<>>
        <3>1. Len(q) \in Nat /\ DOMAIN q = 1 .. Len(q)
            BY <2>3
        <3>2. ~(1 \in 1 .. Len(q))
            BY <2>3, <3>1
        <3>3. Len(q) = 0
            BY <3>1, <3>2
        <3> QED BY <2>3, <3>3
    <2> QED BY <2>4 DEF q
<1> QED BY <1>1, <1>2, <1>3

\* While a module has its image, every library that it took a reference to,
\* and may call, has its own: in any cascade of loads and unloads, also of
\* one that fails, no library goes below a module that is bound to it
\* (ResolvePEImports, UnloadPEFile, UnloadPELibrary).
THEOREM BindingsHold == Spec => []BindingsLive
BY Invariant, BindingsFollow, PTL

\* refCount is in every step the number of references that are recorded in
\* dllRefs and not given back, whatever the calls in progress and wherever an
\* allocation failed, the one for the reference itself too (ResolvePEImports).
THEOREM CountsHold == Spec => []CountsExact
BY Invariant, CountsFollow, PTL

\* However libraries import each other, the cache never has two of one name,
\* and those it has are complete and not being unloaded (LoadPELibrary puts a
\* library there at its end, after the loads that its own imports made).
THEOREM OnceHolds == Spec => []LoadedOnce
BY Invariant, OnceFollows, PTL

\* When no call is in progress every module is the client's or in use by
\* another, and when the client has none, none is left and the cache is empty:
\* neither a failed load nor a cycle of imports leaves a module behind
\* (UnloadPEFile gives back all that a module has).
THEOREM NothingStays == Spec => []NothingForgotten
BY Invariant, NothingFollows, PTL

-----------------------------------------------------------------------------
(* When the kernel's stack is overrun. *)

Deep == answer = Overrun => Importing /\ Len(stack) >= MaxDepth

LEMMA DeepKept == TypeOK /\ Deep /\ [Next]_vars => Deep'
<1> SUFFICES ASSUME TypeOK, Deep, [Next]_vars PROVE Deep'
    OBVIOUS
<1>1. CASE answer = Overrun
    <2>1. stack # <<>> /\ Top.op = "resolve" /\ answer \notin Ids \cup {Null, Nothing}
        BY <1>1, IdAssumption, AnswerAssumption DEF Deep, Importing, Resolving
    <2>2. ~Idle /\ ~Resolved /\ Top.op # "unload"
        BY <2>1 DEF Idle, Resolved
    <2>3. ASSUME Next PROVE FALSE
        BY <2>1, <2>2, <2>3
        DEF Next, Step, Load, UnloadModule, ImportCached, ImportLoad, ImportOverruns,
            ImportLoaded, ImportFailed, NotRelocated, LoadedModule, LibraryRefused,
            LoadedLibrary, ReleaseReference, FreeModule, Return
    <2>4. UNCHANGED vars
        BY <2>3
    <2> QED BY <2>4 DEF vars, Deep, Importing, Resolving, Imports, Top, Self
<1>2. CASE ImportOverruns
    BY <1>2 DEF ImportOverruns, Deep, Importing, Resolving, Imports, Top, Self
<1>3. CASE answer # Overrun /\ ~ImportOverruns
    <2>1. ASSUME NEW n, NEW lib, Enter(n, lib) PROVE answer' # Overrun
        BY <1>3, <2>1, AnswerAssumption DEF Enter, Refuse
    <2>2. ASSUME NEW l, Adopt(l) \/ AdoptFails(l) PROVE answer' # Overrun
        BY <2>2, AnswerAssumption DEF Adopt, AdoptFails, Fail
    <2>3. ASSUME Resolving PROVE Self # Overrun
        BY <2>3, TopType, IdAssumption DEF Resolving
    <2>4. ASSUME Next PROVE answer' # Overrun
        <3>1. CASE \E n \in Names : Load(n)
            BY <3>1, <2>1 DEF Load
        <3>2. CASE \E m \in held : UnloadModule(m)
            BY <3>2, <1>3 DEF UnloadModule
        <3>3. CASE ImportCached \/ ImportLoaded
            BY <3>3, <2>2 DEF ImportCached, ImportLoaded
        <3>4. CASE ImportLoad
            BY <3>4, <2>1 DEF ImportLoad
        <3>5. CASE ImportFailed \/ NotRelocated \/ LibraryRefused
            BY <3>5, AnswerAssumption DEF ImportFailed, NotRelocated, LibraryRefused, Fail
        <3>6. CASE LoadedModule \/ LoadedLibrary
            BY <3>6, <2>3 DEF LoadedModule, LoadedLibrary, Resolved
        <3>7. CASE ReleaseReference \/ FreeModule \/ Return
            BY <3>7, <1>3, AnswerAssumption DEF ReleaseReference, FreeModule, Return
        <3> QED BY <1>3, <2>4, <3>1, <3>2, <3>3, <3>4, <3>5, <3>6, <3>7 DEF Next, Step
    <2> QED BY <1>3, <2>4 DEF vars, Deep
<1> QED BY <1>1, <1>2, <1>3

\* More loads in progress than there are files: one of them is loaded twice.
LEMMA DeepIsCyclic ==
    ASSUME TypeOK, Deep, answer = Overrun, IsFiniteSet(Names), Cardinality(Names) <= MaxDepth
    PROVE  Cyclic
<1> DEFINE n == Len(stack)
           S == 1 .. n + 1
           f == [i \in S |-> IF i <= n THEN module[stack[i].id].name ELSE Wanted.dll]
<1>1. Importing /\ n >= MaxDepth
    BY DEF Deep
<1>2. n \in Nat /\ \A i \in 1..n : stack[i] \in Frame
    BY ElementOfSeq DEF TypeOK
<1>3. \A i \in 1..n : module[stack[i].id].name \in Names
    BY <1>2 DEF TypeOK, Frame, Module
<1>4. f \in [S -> Names]
    BY <1>1, <1>2, <1>3, WantedType
<1>5. IsFiniteSet(S) /\ Cardinality(S) = n + 1
    BY <1>2, FS_Interval
<1>6. Cardinality(Names) \in Nat
    BY FS_CardinalityType
<1>7. Cardinality(Names) < Cardinality(S)
    BY <1>1, <1>2, <1>5, <1>6, DepthAssumption
<1>8. \E i, j \in S : i # j /\ f[i] = f[j]
    <2> HIDE DEF S, f
    <2> QED BY <1>4, <1>5, <1>7, FS_PigeonHole
<1>9. PICK i \in S, j \in S : i # j /\ f[i] = f[j]
    BY <1>8
<1>10. DOMAIN stack = 1..n
    BY DEF TypeOK
<1>11. CASE i <= n /\ j <= n
    BY <1>2, <1>9, <1>10, <1>11 DEF Cyclic
<1>12. CASE i > n
    <2>1. i = n + 1 /\ j <= n
        BY <1>2, <1>9, <1>12
    <2> QED BY <1>2, <1>9, <1>10, <2>1 DEF Cyclic
<1>13. CASE j > n
    <2>1. j = n + 1 /\ i <= n
        BY <1>2, <1>9, <1>13
    <2> QED BY <1>2, <1>9, <1>10, <2>1 DEF Cyclic
<1> QED BY <1>2, <1>11, <1>12, <1>13

\* Where the kernel's stack has room for as many nested loads as there are
\* files, only files that import each other overrun it: whatever is in the
\* cache, a file is never loaded below itself otherwise (LoadPELibrary).
THEOREM OverrunsAreCycles ==
    IsFiniteSet(Names) /\ Cardinality(Names) <= MaxDepth
        => (Spec => [](answer = Overrun => Cyclic))
<1> SUFFICES ASSUME IsFiniteSet(Names), Cardinality(Names) <= MaxDepth
             PROVE  Spec => [](answer = Overrun => Cyclic)
    OBVIOUS
<1>1. Init => Deep
    BY AnswerAssumption DEF Init, Deep
<1>2. TypeOK /\ Deep => (answer = Overrun => Cyclic)
    BY DeepIsCyclic
<1> QED BY <1>1, <1>2, DeepKept, TypeCorrect, PTL DEF Spec
=============================================================================
