------------------------------ MODULE MCMerge -------------------------------
(* Merge with every input of up to two records, and some of more.  An empty  *)
(* record is one byte, 1 and 2 are two, and 3 is long; a reader asks for     *)
(* blocks of five bytes.                                                     *)
EXTENDS Merge

MCRecord == 0 .. 3
MCLong == {3}
MCAlone == {<<0>>, <<0, 0, 0, 0, 0, 0>>}
\* A file without a block, and files with a record that outgrows the buffer.
MCStray == {<<>>, <<0, 1, 3>>, <<1, 3, 3>>, <<3, 1, 2>>}
MCLists == BoundedSeq(0 .. 2, 2) \cup {<<0, 0, 1>>} \cup MCAlone \cup MCStray
=============================================================================
