----------------------------- MODULE MCPeLoader -----------------------------
EXTENDS PeLoader

CONSTANTS exe, lib1, lib2, fn1, fn2

Import1(n, fs) == [dll |-> n, funcs |-> fs]
Img(is, es) == [valid |-> TRUE, imports |-> is, exports |-> es, relocates |-> TRUE]
NoImage     == [valid |-> FALSE, imports |-> <<>>, exports |-> {}, relocates |-> TRUE]

\* An executable exe needs lib1 and lib2, or lib1 twice; lib1 may need lib2, or exe again.
ImagesA == {Img(<<Import1(lib1, {fn1}), Import1(lib2, {fn2})>>, {fn1}),
            Img(<<Import1(lib1, {fn1}), Import1(lib1, {fn2})>>, {fn1})}
ImagesB == {Img(<<>>, {fn1}), Img(<<Import1(lib2, {fn1})>>, {fn1, fn2}), Img(<<Import1(exe, {fn1})>>, {fn1})}
ImagesC == {NoImage, Img(<<>>, {fn1, fn2}), Img(<<>>, {}),
            [Img(<<>>, {fn1, fn2}) EXCEPT !.relocates = FALSE]}

MCDisks == {[n \in {exe, lib1, lib2} |-> CASE n = exe -> x [] n = lib1 -> y [] n = lib2 -> z] :
                x \in ImagesA, y \in ImagesB, z \in ImagesC}
MCIds     == 1..4
MCBuckets == 0..1
MCBucketOf == [n \in {exe, lib1, lib2} |-> IF n = exe THEN 0 ELSE 1]
=============================================================================
