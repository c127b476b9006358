-------------------------- MODULE MCFilePartition ---------------------------
(* Instances of FilePartition for TLC. *)
EXTENDS FilePartition

\* Every file of up to five records of one to three bytes.
MCFiles ==
  {f \in SUBSET (0 .. 15) :
     /\ 0 \in f /\ Cardinality(f) <= 6
     /\ \A b \in f \ {0} : f \cap (b - 3) .. (b - 1) # {}}

\* A file of five records.  For two agents setNumIter makes the segments
\* [0, 6) and [6, 12) of it; with three cores the first has an interval of 2.
MCSharedRecord == {{0, 2, 5, 6, 9, 12}}
=============================================================================
