--------------------------- MODULE MCExtractEntry ---------------------------
(***************************************************************************)
(* An archive of three entries of two chunks each, any of them encrypted   *)
(* or damaged, each of them asked for with every kind of password.         *)
(***************************************************************************)
EXTENDS ExtractEntry
=============================================================================
