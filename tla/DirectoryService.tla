--------------------------- MODULE DirectoryService ---------------------------
(***************************************************************************)
(* What a directory promises, without slots, pieces or short names: a set  *)
(* of names, each of one file (the functions of FileSystem in              *)
(* file-systems/file-system.h that take a path).  `sound` says that the    *)
(* promise can be kept; while it cannot, nothing is promised.              *)
(***************************************************************************)
CONSTANTS Names, Files
VARIABLES files, sound

NamesOf == {e[1] : e \in files}
FilesOf == {e[2] : e \in files}

Init ==
    /\ sound \in BOOLEAN
    /\ sound => files \in SUBSET (Names \X Files)

Create(n, f) == n \notin NamesOf /\ f \notin FilesOf /\ files' = files \cup {<<n, f>>}
Remove(n)    == n \in NamesOf /\ files' = {e \in files : e[1] # n}
Rename(o, n) ==
    /\ o \in NamesOf /\ n \notin NamesOf
    /\ files' = {IF e[1] = o THEN <<n, e[2]>> ELSE e : e \in files}

Next ==
    \/ /\ sound /\ sound'
       /\ \/ \E n \in Names, f \in Files : Create(n, f)
          \/ \E n \in Names : Remove(n)
          \/ \E o, n \in Names : Rename(o, n)
    \/ ~(sound /\ sound')

Spec == Init /\ [][Next]_<<files, sound>>
=============================================================================
