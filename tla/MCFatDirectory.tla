--------------------------- MODULE MCFatDirectory ---------------------------
EXTENDS FatDirectory, Functions

Asked(n, p, ts) == [name |-> n, plain |-> p, tries |-> ts]

\* Fits 8.3, and is what the short name of "b" would be; lower case; 14
\* characters or more.
Tilde  == Asked(<<"B~1">>, TRUE, <<"B~1", "B~1~1", "B~1~2", "B~1~3">>)
Lower  == Asked(<<"b">>, FALSE, <<"B~1", "B~2", "B~3", "B~4">>)
Two    == Asked(<<"c1", "c2">>, FALSE, <<"C1~1", "C1~2", "C1~3", "C1~4">>)

MCSpellings == {Tilde, Lower, Two}
MCTexts     == UNION {Range(s.name) \cup Range(s.tries) : s \in MCSpellings}
MCFiles     == 1..2
MCTails     == {"B~1", "b", "c2"}

AllUnused == [i \in 1..3 |-> Unused]

\* Empty, or with a long name as other systems write it.
MCInitDirs ==
    {[slots |-> AllUnused, made |-> <<>>],
     [slots |-> <<LongSlot(2, TRUE, "c2", "C1~1"), LongSlot(1, FALSE, "c1", "C1~1"),
                  ShortSlot("C1~1", 1)>>,
      made |-> [f \in {1} |-> Two]]}
=============================================================================
