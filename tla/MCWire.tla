------------------------------- MODULE MCWire -------------------------------
(* Wire with messages around the two limits: msgSizeLimit and the width of  *)
(* the size prefix.                                                         *)
EXTENDS Wire

Name(n) == <<96 + n>>
Names(n) == [i \in 1 .. n |-> Name(i)]
Task(type, args) == [type |-> type, args |-> args]

\* A message of 12 bytes, the limit; of 26, of which ten are announced and can
\* be decoded; of 18, of which two are; with a space in a name; of 14, too long.
MCWorkloads ==
  {<<Task(Sort, Names(4)), Task(Merge, Names(11)), Task(Merge, Names(3))>>,
   <<Task(Merge, Names(7)), Task(Sort, <<Name(1), Name(2), <<98, Sp, 99>>>>)>>,
   <<Task(Block, Names(4)), Task(Merge, Names(5))>>}
=============================================================================
