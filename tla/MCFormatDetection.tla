-------------------------- MODULE MCFormatDetection --------------------------
(***************************************************************************)
(* Four formats: one whose signature lies further into the stream, one     *)
(* with two signatures of different lengths at offset 0, one without       *)
(* signatures, and one whose signature a signature of the second contains. *)
(* Every stream of up to three bytes of a two-byte alphabet.               *)
(***************************************************************************)
EXTENDS FormatDetection

MCFormats ==
  << [offset |-> 1, signatures |-> << <<2>> >>],
     [offset |-> 0, signatures |-> << <<1, 2>>, <<2>> >>],
     [offset |-> 0, signatures |-> << >>],
     [offset |-> 0, signatures |-> << <<1>> >>] >>

MCContents == UNION {[1..n -> {1, 2}] : n \in 0..3}
=============================================================================
