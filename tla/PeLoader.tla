------------------------------- MODULE PeLoader -------------------------------
(***************************************************************************)
(* The PE loader (file-formats/pe.c): modules, the cache of libraries and  *)
(* their reference counts.  Loading and unloading call each other, so the  *)
(* state has the stack of the calls in progress; one step is one import    *)
(* resolved or one reference given back.  A client is kernelMain: it loads *)
(* executables and unloads them.  Nothing but the resolver calls           *)
(* LoadPELibrary, and nothing calls GetPEFunctionAddress.                  *)
(*                                                                         *)
(* A name stands for a file up to case, as strihsh and the file system     *)
(* take it; hashes are taken to be free of collisions.  An image is what   *)
(* the loader reads of it.  Any malloc may fail: `faults` counts down how  *)
(* often that still happens, and it always does when no module is free.    *)
(*                                                                         *)
(* The calls nest on the kernel's stack, a static array with no guard page *)
(* below it.  What happens once a load has written past its end is not     *)
(* defined: the model stops there, and nothing returns any more.           *)
(***************************************************************************)
EXTENDS Integers, Sequences, FiniteSets

CONSTANTS
    Names,        \* files of the directory
    Functions,    \* names of functions
    Disks,        \* the contents the directory may have: [Names -> Image]
    Buckets, BucketOf,
    Ids,          \* room on the heap: one id per module
    Faults,       \* how many allocations fail
    MaxDepth,     \* how many nested loads the kernel's stack has room for
    Null, Nothing, \* what LoadPEFile returned: NULL; no call has returned
    Overrun       \* none ever will: a load has written behind the stack

Import == [dll : Names, funcs : SUBSET Functions]
Image  == [valid : BOOLEAN,            \* present, and the headers are accepted
           imports : Seq(Import),
           exports : SUBSET Functions, \* {}: no export table
           relocates : BOOLEAN]

ASSUME NameAssumption == Names # {} /\ IsFiniteSet(Functions)
ASSUME DiskAssumption == Disks \subseteq [Names -> Image]
ASSUME IdAssumption == IsFiniteSet(Ids) /\ {Null, Nothing, Overrun} \cap Ids = {}
ASSUME AnswerAssumption == Null # Nothing /\ Overrun \notin {Null, Nothing}
ASSUME BucketAssumption == BucketOf \in [Names -> Buckets]
ASSUME FaultAssumption == Faults \in Nat
ASSUME DepthAssumption == MaxDepth \in Nat \ {0}

VARIABLES
    disk,
    live,     \* the modules allocated
    module,   \* of each: its name, dllRefs, and as a library refCount and the functions
    cache,    \* dllBuckets
    stack,    \* the calls of LoadPEFile and UnloadPEFile in progress
    answer,   \* what the call that ended last returned, until its caller looks
    held,     \* the modules of the client
    faults

vars == <<disk, live, module, cache, stack, answer, held, faults>>

Module == [name : Names, refs : Seq(Ids), count : Int, funcs : SUBSET Functions]
Frame  == [op : {"resolve", "unload"}, id : Ids, at : Nat \ {0}, lib : BOOLEAN]

New(n) == [name |-> n, refs |-> <<>>, count |-> 0, funcs |-> {}]

Init ==
    /\ disk \in Disks
    /\ live = {} /\ held = {}
    /\ module = [i \in Ids |-> New(CHOOSE n \in Names : TRUE)]
    /\ cache = [b \in Buckets |-> <<>>]
    /\ stack = <<>> /\ answer = Nothing /\ faults = Faults

Top     == stack[Len(stack)]
Rest    == SubSeq(stack, 1, Len(stack) - 1)
Self    == Top.id
Idle    == stack = <<>> /\ answer = Nothing
Imports == disk[module[Self].name].imports

Fault == faults > 0 /\ faults' = faults - 1

\* UnloadPEFile frees the image first, and the module at its end.
Unloading(m) == \E i \in DOMAIN stack : stack[i].op = "unload" /\ stack[i].id = m
Images       == {m \in live : ~Unloading(m)}

Unload(m) == [op |-> "unload", id |-> m, at |-> 1, lib |-> FALSE]

\* The library a bucket has under a name.
CachedIn(b, n) == {i \in DOMAIN cache[b] : module[cache[b][i]].name = n}
Cached(n)      == {cache[BucketOf[n]][i] : i \in CachedIn(BucketOf[n], n)}

\* UnloadPELibrary unlinks the first library of the bucket with the same hash.
Uncached(l) ==
    LET b == BucketOf[module[l].name]
        s == CachedIn(b, module[l].name)
        k == CHOOSE i \in s : \A j \in s : i <= j
    IN  [cache EXCEPT ![b] =
            IF s = {} THEN @ ELSE SubSeq(@, 1, k - 1) \o SubSeq(@, k + 1, Len(@))]

-----------------------------------------------------------------------------
(* LoadPEFile, from its first line to ResolvePEImports, and the reads of   *)
(* the same file before it in LoadPELibrary. *)

(* (A slip: a load that failed is tried again.) *)
RefuseAgain ==
    UNCHANGED <<disk, live, module, cache, stack, held, answer>>

Refuse ==
    /\ answer' = Null
    /\ UNCHANGED <<disk, live, module, cache, stack, held>>

Enter(n, lib) ==
    \/ /\ ~disk[n].valid \/ live = Ids
       /\ Refuse /\ UNCHANGED faults
    \/ Fault /\ Refuse
    \/ /\ disk[n].valid /\ live # Ids /\ Len(stack) < MaxDepth
       /\ LET m == CHOOSE i \in Ids \ live : TRUE IN
          /\ live' = live \cup {m}
          /\ module' = [module EXCEPT ![m] = New(n)]
          /\ stack' = Append(stack, [op |-> "resolve", id |-> m, at |-> 1, lib |-> lib])
       /\ UNCHANGED <<disk, cache, answer, held, faults>>

Load(n) == Idle /\ Enter(n, FALSE)

(* The loop of ResolvePEImports *)

Resolving == stack # <<>> /\ Top.op = "resolve"
Wanted    == Imports[Top.at]
Importing == Resolving /\ Top.at <= Len(Imports)

\* A failed load unloads what it has: UnloadPEFile, then NULL.
Fail == stack' = Append(Rest, Unload(Self)) /\ answer' = Null

(* (A slip: the reference is recorded and not counted.) *)
CountedNot(l) ==
    module' = [module EXCEPT ![Self].refs = Append(@, l)]

Counted(l) ==
    module' = [module EXCEPT ![l].count = @ + 1, ![Self].refs = Append(@, l)]

\* The library is found: it is counted and recorded, and the functions are bound.
Adopt(l) ==
    /\ Counted(l)
    /\ IF Wanted.funcs \subseteq module[l].funcs
       THEN /\ stack' = [stack EXCEPT ![Len(stack)].at = @ + 1]
            /\ answer' = Nothing
       ELSE Fail
    /\ UNCHANGED <<disk, live, cache, held, faults>>

\* realloc fails: the count is taken back and a library nobody uses goes.
AdoptFails(l) ==
    /\ Fault /\ answer' = Null
    /\ IF module[l].count = 0
       THEN /\ cache' = Uncached(l)
            /\ stack' = Rest \o <<Unload(Self), Unload(l)>>
       ELSE /\ stack' = Append(Rest, Unload(Self))
            /\ UNCHANGED cache
    /\ UNCHANGED <<disk, live, module, held>>

(* (A slip: only the head of the bucket is looked at.) *)
FoundHead(n) ==
    LET b == cache[BucketOf[n]] IN
    IF b # <<>> /\ module[b[1]].name = n THEN {b[1]} ELSE {}

Found(n) == Cached(n)

ImportCached ==
    /\ Importing /\ answer = Nothing
    /\ \E l \in Found(Wanted.dll) : Adopt(l) \/ AdoptFails(l)

ImportLoad ==
    /\ Importing /\ answer = Nothing
    /\ Found(Wanted.dll) = {}
    /\ Enter(Wanted.dll, TRUE)

\* The stack has no room for one more load.
ImportOverruns ==
    /\ Importing /\ answer = Nothing
    /\ Found(Wanted.dll) = {}
    /\ Len(stack) >= MaxDepth
    /\ answer' = Overrun
    /\ UNCHANGED <<disk, live, module, cache, stack, held, faults>>

ImportLoaded ==
    /\ Importing /\ answer \in Ids
    /\ Adopt(answer) \/ AdoptFails(answer)

(* (A slip: the module is freed, the references it took are kept.) *)
ImportFailedForgets ==
    /\ Resolving /\ answer = Null
    /\ stack' = Rest /\ live' = live \ {Self} /\ answer' = Null
    /\ UNCHANGED <<disk, module, cache, held, faults>>

ImportFailed ==
    /\ Resolving /\ answer = Null
    /\ Fail
    /\ UNCHANGED <<disk, live, module, cache, held, faults>>

(* After the imports: ResolvePERelocations, and the end of LoadPELibrary *)

Resolved == Resolving /\ answer = Nothing /\ Top.at > Len(Imports)

NotRelocated ==
    /\ Resolved /\ ~disk[module[Self].name].relocates
    /\ Fail
    /\ UNCHANGED <<disk, live, module, cache, held, faults>>

LoadedModule ==
    /\ Resolved /\ disk[module[Self].name].relocates /\ ~Top.lib
    /\ stack' = Rest /\ answer' = Self
    /\ UNCHANGED <<disk, live, module, cache, held, faults>>

\* No export table, or no memory for the library.
LibraryRefused ==
    /\ Resolved /\ disk[module[Self].name].relocates /\ Top.lib
    /\ \/ disk[module[Self].name].exports = {} /\ UNCHANGED faults
       \/ Fault
    /\ Fail
    /\ UNCHANGED <<disk, live, module, cache, held>>

\* A function for which there is no memory is left out of the library.
LoadedLibrary ==
    /\ Resolved /\ disk[module[Self].name].relocates /\ Top.lib
    /\ LET n == module[Self].name IN
       /\ disk[n].exports # {}
       /\ \E lost \in SUBSET disk[n].exports :
            /\ Cardinality(lost) <= faults
            /\ faults' = faults - Cardinality(lost)
            /\ module' = [module EXCEPT ![Self].funcs = disk[n].exports \ lost,
                                        ![Self].count = 0]
       /\ cache' = [cache EXCEPT ![BucketOf[n]] = Append(@, Self)]
    /\ stack' = Rest /\ answer' = Self
    /\ UNCHANGED <<disk, live, held>>

-----------------------------------------------------------------------------
(* UnloadPEFile, and UnloadPELibrary when a count comes down to zero *)

UnloadModule(m) ==
    /\ Idle
    /\ held' = held \ {m}
    /\ stack' = <<Unload(m)>>
    /\ UNCHANGED <<disk, live, module, cache, answer, faults>>

(* (A slip: the library goes with the first of its users.) *)
LastAlways(l) == module[l].count > 0

LastReference(l) == module[l].count = 1

ReleaseReference ==
    /\ stack # <<>> /\ Top.op = "unload" /\ Top.at <= Len(module[Self].refs)
    /\ LET l == module[Self].refs[Top.at]
           next == [stack EXCEPT ![Len(stack)].at = @ + 1]
       IN  /\ module' = [module EXCEPT ![l].count = @ - 1]
           /\ IF LastReference(l)
              THEN cache' = Uncached(l) /\ stack' = Append(next, Unload(l))
              ELSE stack' = next /\ UNCHANGED cache
    /\ UNCHANGED <<disk, live, answer, held, faults>>

FreeModule ==
    /\ stack # <<>> /\ Top.op = "unload" /\ Top.at > Len(module[Self].refs)
    /\ live' = live \ {Self}
    /\ module' = [module EXCEPT ![Self] = New(CHOOSE n \in Names : TRUE)]
    /\ stack' = Rest
    /\ UNCHANGED <<disk, cache, answer, held, faults>>

\* The client has the answer.
Return ==
    /\ stack = <<>> /\ answer # Nothing
    /\ held' = held \cup ({answer} \cap Ids)
    /\ answer' = Nothing
    /\ UNCHANGED <<disk, live, module, cache, stack, faults>>

Step ==
    \/ ImportCached \/ ImportLoad \/ ImportOverruns \/ ImportLoaded \/ ImportFailed
    \/ NotRelocated \/ LoadedModule \/ LibraryRefused \/ LoadedLibrary
    \/ ReleaseReference \/ FreeModule \/ Return

Next ==
    \/ \E n \in Names : Load(n)
    \/ \E m \in held : UnloadModule(m)
    \/ Step

\* A call that has begun goes on; nobody has to make another.
Spec == Init /\ [][Next]_vars /\ WF_vars(Step)

-----------------------------------------------------------------------------
(* Properties *)

\* Every part of the state keeps its type (the structures of pe.c).
TypeOK ==
    /\ disk \in Disks
    /\ live \subseteq Ids /\ held \subseteq Ids
    /\ module \in [Ids -> Module]
    /\ cache \in [Buckets -> Seq(Ids)]
    /\ stack \in Seq(Frame)
    /\ answer \in Ids \cup {Null, Nothing, Overrun}
    /\ faults \in 0..Faults

\* As long as a module has its image, so does every library whose addresses
\* may stand in it: none is unloaded below a module that calls it
\* (UnloadPEFile, ResolvePEImports).
BindingsLive ==
    \A m \in Images : \A i \in DOMAIN module[m].refs : module[m].refs[i] \in Images

\* The references to a library that have not been given back.
References(l) ==
    {r \in UNION {{m} \X DOMAIN module[m].refs : m \in live} :
        /\ module[r[1]].refs[r[2]] = l
        /\ \A k \in DOMAIN stack :
            stack[k].op = "unload" /\ stack[k].id = r[1] => stack[k].at <= r[2]}

\* refCount is the number of references recorded in dllRefs, in every step of
\* a load or unload, also of one that fails half-way.
CountsExact == \A l \in live : module[l].count = Cardinality(References(l))

\* A library is loaded once: two of the cache never have the same name, and
\* one that is in the cache has its image and all of its imports
\* (LoadPELibrary puts it there at its end).
LoadedOnce ==
    \A b \in Buckets : \A i \in DOMAIN cache[b] :
        LET l == cache[b][i] IN
        /\ l \in Images
        /\ Len(module[l].refs) = Len(disk[module[l].name].imports)
        /\ \A j \in DOMAIN cache[b] : i # j => module[l].name # module[cache[b][j]].name

\* Between calls every module still allocated is a client's or a library that
\* one of them needs, directly or not: when the last client's module is
\* unloaded, no module is left, also not of a load that failed (UnloadPEFile).
NothingForgotten ==
    Idle => /\ \A l \in live \ held : module[l].count > 0
            /\ held = {} => live = {} /\ \A b \in Buckets : cache[b] = <<>>

\* A file is being loaded on behalf of itself.
Cyclic ==
    LET names == [i \in DOMAIN stack |-> module[stack[i].id].name] IN
    \/ \E i, j \in DOMAIN stack : i # j /\ names[i] = names[j]
    \/ \E i \in DOMAIN stack : names[i] = Wanted.dll

\* Every load and unload returns, whatever is missing or fails on its way, unless
\* files import each other: they are loaded again and again, until the heap is
\* exhausted, and then the load fails, or until the kernel's stack is overrun.
CallsReturn == (stack # <<>>) ~> (Idle \/ (answer = Overrun /\ Cyclic))

=============================================================================
