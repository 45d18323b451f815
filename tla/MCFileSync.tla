------------------------------ MODULE MCFileSync ------------------------------
(* Instances of FileSync for TLC: 0 is the unit of a hole, 9 a unit of a file *)
(* of the user's.                                                             *)
EXTENDS FileSync

Units == 0..9

\* A small source of two blocks; one of a block and a rest and a large one of two
\* chunks as versions of one file.
TwoBlocks == {<<1, 2, 3, 4>>}
Mixed == {<<1, 2, 3>>, <<4, 5, 6, 7, 8>>}

NewFile == {NoFile}
NewOrOld == {NoFile, <<9, 9>>}

AllStrategies == {"overwrite", "skip", "rename"}
Overwrite == {"overwrite"}
=============================================================================
