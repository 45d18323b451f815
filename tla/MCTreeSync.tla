------------------------------ MODULE MCTreeSync ------------------------------
(* Instances of TreeSync for TLC: a directory d with two files in it. *)
EXTENDS TreeSync

CONSTANTS w1, w2

D == <<"d">>
F == <<"d", "f">>
G == <<"d", "g">>

TreePaths == {<<>>, D, F, G}
Tree(r, d, f, g) ==
  [p \in TreePaths |-> IF p = <<>> THEN r ELSE IF p = D THEN d
                       ELSE IF p = F THEN f ELSE g]

\* Two versions that differ in the content of a file of the same size, and one in
\* which d is a file.
Version1 == Tree(Dir, Dir, <<1, 2>>, <<3>>)
Version2 == Tree(Dir, Dir, <<4, 2>>, <<3>>)
FlatVersion == Tree(Dir, <<5>>, None, None)

OneVersion == {Version1}
AllVersions == {Version1, Version2, FlatVersion}

\* Nothing, an older copy, a file called d.
Absent == Tree(None, None, None, None)
Older == Tree(Dir, Dir, <<9, 9>>, None)
Flat == Tree(Dir, <<5>>, None, None)

AnyOld == {Absent, Older, Flat}
OnlyAbsent == {Absent}

TwoWorkers == {w1, w2}

AllStrategies == {"overwrite", "skip", "rename"}
Overwrite == {"overwrite"}
=============================================================================
