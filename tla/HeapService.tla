----------------------------- MODULE HeapService -----------------------------
(***************************************************************************)
(* What memory/alloc.h promises its callers, with no word on how: a set of *)
(* buffers, each a pointer with a size and an alignment, that never        *)
(* overlap.  malloc and aalloc add one, realloc resizes or replaces one,   *)
(* free removes one; each but free may also refuse and change nothing.     *)
(***************************************************************************)
EXTENDS Integers

CONSTANTS Sizes, Aligns

VARIABLE live     \* pointer -> [size, align]

\* [p, p + n) is apart from every buffer of f.
Clear(f, p, n) ==
    \A q \in DOMAIN f : p + n <= q \/ q + f[q].size <= p

Multiple(p, a) == a # 0 => p % a = 0

\* g is f with the buffer p added, or set, to n bytes at a multiple of a.
With(f, g, p, n, a) ==
    /\ DOMAIN g = DOMAIN f \cup {p}
    /\ g[p] = [size |-> n, align |-> a]
    /\ \A q \in DOMAIN f : q # p => g[q] = f[q]

Without(f, p) == [q \in DOMAIN f \ {p} |-> f[q]]

Init == live = <<>>

\* The new pointer is whatever the allocator answers, provided that it is
\* new, aligned and clear of the others.
Alloc(n, a) ==
    \E p \in DOMAIN live' :
        /\ p \notin DOMAIN live
        /\ Multiple(p, a)
        /\ Clear(live, p, n)
        /\ With(live, live', p, n, a)

\* The buffer keeps its address, and its alignment.
Resize(p, n) ==
    /\ Clear(Without(live, p), p, n)
    /\ With(live, live', p, n, live[p].align)

\* The buffer gets a new address, clear of every buffer and of its own old
\* place, from which its contents are copied.
Move(p, n) ==
    \E q \in DOMAIN live' :
        /\ q \notin DOMAIN live
        /\ Clear(live, q, n)
        /\ With(Without(live, p), live', q, n, 1)

Release(p) == live' = Without(live, p)

Next ==
    \/ \E n \in Sizes, a \in Aligns \cup {1} : Alloc(n, a)
    \/ \E p \in DOMAIN live, n \in Sizes : Resize(p, n) \/ Move(p, n)
    \/ \E p \in DOMAIN live : Release(p)

Spec == Init /\ [][Next]_live
=============================================================================
