-------------------------- MODULE MCBufferedWriter --------------------------
(* Instances of BufferedWriter for TLC. *)
EXTENDS BufferedWriter

\* One-byte records (empty lines) and longer ones: with four bytes to a
\* buffer, buffers are filled to the last byte and short of it.
MCRecSize == <<2, 1, 3, 4, 1, 2, 3>>
=============================================================================
