--------------------------- MODULE MCPropertyValues ---------------------------
(***************************************************************************)
(* Bytes of one bit: a jchar has 4 values, an int 16 and a long 256, and   *)
(* every value of every variant type is tried.  The strings have up to     *)
(* three characters: bytes, a jchar that is no byte, and characters with a *)
(* high half.                                                              *)
(***************************************************************************)
EXTENDS PropertyValues

MCTexts == UNION {[1..n -> {1, 2, 3, 4, 7, 13}] : n \in 0..3}
=============================================================================
