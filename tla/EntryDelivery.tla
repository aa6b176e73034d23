---------------------------- MODULE EntryDelivery ----------------------------
(***************************************************************************)
(* What extractEntry promises the owner of the sink: it is given the       *)
(* chunks of the entry asked for, from the first on, each of them once,    *)
(* and nothing when it is closed; and it is closed by the time the call    *)
(* ends.  A call that ends without an exception has given all of the       *)
(* entry, decoded well; how far another one got is not said.               *)
(***************************************************************************)
EXTENDS Naturals, Sequences

CONSTANT Contents   \* the contents of the entries: sequences of chunks

VARIABLES
  content,   \* that of the entry asked for
  sink,      \* the chunks that the sink was given
  closed,    \* the sink is closed
  answer     \* how the call has ended: "none", "normal" or "exception"

vars == <<content, sink, closed, answer>>

Init == content \in Contents /\ sink = << >> /\ closed = FALSE /\ answer = "none"

\* The next chunk, which may have been decoded badly.
Deliver ==
  /\ answer = "none" /\ ~closed /\ Len(sink) < Len(content)
  /\ \E good \in BOOLEAN :
       sink' = Append(sink, [content[Len(sink) + 1] EXCEPT !.good = good])
  /\ UNCHANGED <<content, closed, answer>>

Close ==
  /\ answer = "none" /\ closed' = TRUE
  /\ UNCHANGED <<content, sink, answer>>

Return ==
  /\ answer = "none" /\ closed' = TRUE
  /\ \/ answer' = "normal" /\ sink = content
     \/ answer' = "exception"
  /\ UNCHANGED <<content, sink>>

Next == Deliver \/ Close \/ Return

Spec == Init /\ [][Next]_vars
=============================================================================
