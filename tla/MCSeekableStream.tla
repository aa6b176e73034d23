--------------------------- MODULE MCSeekableStream ---------------------------
(***************************************************************************)
(* Files of none to four different bytes, read through an array of two;    *)
(* positions and lengths go beyond the end of every file.                  *)
(***************************************************************************)
EXTENDS SeekableStream

MCContents == {[b \in 1..n |-> b] : n \in 0..4}
=============================================================================
