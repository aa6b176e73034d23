--------------------------- MODULE MCSharedArchive ---------------------------
(***************************************************************************)
(* Two calls at once, of two threads or one nested in the other, again and *)
(* again, of an archive of two entries of three bytes each, which are read *)
(* through an array of two bytes.                                          *)
(***************************************************************************)
EXTENDS SharedArchive, TLC

\* No call is told from another but by what it does.
Symmetry == Permutations(Calls)
=============================================================================
