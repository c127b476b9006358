-------------------------- MODULE MCBufferedReader --------------------------
(* Instances of BufferedReader for TLC. *)
EXTENDS BufferedReader

\* Blocks of three bytes.  The files end in a short block, in a full one
\* (the record may reach beyond it), in an empty record, or are empty; the
\* first has more chunks than there are buffers.  In the last one a record of
\* four bytes is alone in a chunk, another fills its buffer, and a third does not
\* fit.
MCFiles == {<<3, 6, 7, 9, 12, 14, 17, 20, 22>>,
            <<1, 4, 6, 7, 8, 10, 12, 13>>,
            <<2, 4, 6, 9>>, <<1, 2, 3, 4>>, <<>>, <<4, 5, 9, 11, 15, 16>>}

\* A file that ends in a short block.
MCShort == {<<3, 5>>}
=============================================================================
