--------------------------- MODULE MCFormatLoading ---------------------------
(***************************************************************************)
(* Tables of up to two handlers.  Each property is given, missing          *)
(* or unreadable; the multi-signatures hold no signature, an empty one,    *)
(* two of them, and a last one that is cut off.                            *)
(***************************************************************************)
EXTENDS FormatLoading

Given(values) == {[state |-> "given", value |-> v] : v \in values}

Without(blank) == {[state |-> s, value |-> blank] : s \in {"missing", "fails"}}

MultiSignatures == {<< >>, <<0>>, <<1, 7, 2, 8, 9>>, <<1, 7, 2, 8>>}

MCHandlers ==
  [class_id         : Given({0}) \cup Without(0),
   name             : Given({0}) \cup Without(0),
   signature_offset : Given({5}) \cup Without(0),
   signature        : Given({<<3, 4>>}) \cup Without(<< >>),
   multi_signature  : Given(MultiSignatures) \cup Without(<< >>)]

\* The second handler of a table reads without failures but for its last property.
MCSecond ==
  {h \in MCHandlers : h.class_id.state = "given" /\ h.name.state = "given"
                        /\ h.signature_offset.state = "missing" /\ h.signature.state # "fails"}

MCTables == {<< >>} \cup {<<g>> : g \in MCHandlers} \cup {<<g, h>> : g \in MCHandlers, h \in MCSecond}
=============================================================================
