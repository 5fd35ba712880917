----------------------------- MODULE MCFileLayer -----------------------------
EXTENDS FileLayer

S == "/"

\* On d1 a file m, with a directory d and a file f of five bytes in it; on d2
\* an empty directory, and no room.  One device is blank.
MCClusters == 1..4
MCVolumes ==
    [d1 |-> [entries |-> [k \in MCClusters |->
                 CASE k = 1 -> <<Entry(<<"m">>, TRUE, 2, 0)>>
                   [] k = 2 -> <<Entry(<<"f">>, FALSE, 3, 5)>>
                   [] OTHER -> <<>>],
             chain |-> [k \in 1..3 |-> IF k = 3 THEN 3 ELSE 1]],
     d2 |-> [entries |-> [k \in MCClusters |->
                 CASE k = 1 -> <<Entry(<<"m", "m">>, TRUE, 2, 0)>>
                   [] OTHER -> <<>>],
             chain |-> [k \in 1..4 |-> 1]],
     blank |-> Unformatted]

MCPoints == {<<S>>, <<S, "m">>, <<S, "m", S, "m", "m">>}
MCPaths ==
    {<<S>>, <<S, "m">>, <<S, "m", "m">>, <<S, "f">>, <<S, "m", S, "f">>,
     <<S, "m", S, "m", "m">>, <<S, "m", S, "m", "m", S, "f">>, <<S, "m", S>>,
     <<S, "m", S, "f", S>>, <<S, "m", S, "f", S, "x">>, <<S, "m", S, "x">>}
MCModes == {{"r", "b"}, {"w", "+"}, {"a"}}
=============================================================================
