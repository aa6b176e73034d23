----------------------------- MODULE SeekableFile -----------------------------
(***************************************************************************)
(* What SeekableInputStream.java promises its readers: a file with a       *)
(* position, "measured from the beginning, at which the next read occurs", *)
(* that may lie beyond the end.  Every call answers in one step, and the   *)
(* reply holds what was asked.  A call may fail in Java; its reader then   *)
(* no longer knows where the position is.                                  *)
(***************************************************************************)
EXTENDS Integers, Sequences

CONSTANTS
  Contents, Positions,  \* the files, and the positions and lengths asked for
  Offsets               \* the offsets of a seek

VARIABLES content, pos, reply

vars == <<content, pos, reply>>

Smaller(a, b) == IF a <= b THEN a ELSE b

\* The n bytes after the position, or those that are there.
Ahead(n) == SubSeq(content, pos + 1, Smaller(pos + n, Len(content)))

Reply(op, asked, origin, result, number, bytes) ==
  reply' = [op |-> op, asked |-> asked, origin |-> origin, result |-> result,
            number |-> number, bytes |-> bytes]

Answer(op, asked, number, bytes) == Reply(op, asked, "none", "S_OK", number, bytes)

\* A read answers with at least one of the bytes it was asked for, and with -1 at
\* the end only.
Read(asked) ==
  \/ \E n \in 1..asked :
       /\ n = Len(Ahead(n))
       /\ Answer("read", asked, n, Ahead(n)) /\ pos' = pos + n
  \/ /\ asked = 0 \/ pos >= Len(content)
     /\ Answer("read", asked, IF asked = 0 THEN 0 ELSE -1, << >>) /\ pos' = pos

\* A full read stops short of what it was asked for at the end only.
ReadFully(asked) ==
  /\ Answer("fully", asked, Len(Ahead(asked)), Ahead(asked))
  /\ pos' = pos + Len(Ahead(asked))

\* Where each origin of a seek lies in the file.
Place == [STREAM_SEEK_SET |-> 0, STREAM_SEEK_CUR |-> pos, STREAM_SEEK_END |-> Len(content)]

\* A seek goes to the offset from its origin and answers with that position; one to
\* a place before the beginning is refused and moves nothing.
Seek(offset, origin) ==
  LET target == Place[origin] + offset IN
  \/ /\ target >= 0
     /\ Reply("seek", offset, origin, "S_OK", target, << >>) /\ pos' = target
  \/ /\ target < 0
     /\ Reply("seek", offset, origin, "E_INVALIDARG", 0, << >>) /\ pos' = pos

\* A tell is the seek that asks for no move.
Tell == Seek(0, "STREAM_SEEK_CUR")

Size == Answer("size", 0, Len(content), << >>) /\ pos' = pos

Fail ==
  /\ reply'.result = "E_JAVA_EXCEPTION" /\ reply'.bytes = << >>
  /\ pos' \in Positions

Init ==
  /\ content \in Contents /\ pos = 0
  /\ reply = [op |-> "none", asked |-> 0, origin |-> "none", result |-> "S_OK",
              number |-> 0, bytes |-> << >>]

Next ==
  /\ UNCHANGED content
  /\ \/ Size \/ Fail \/ Tell
     \/ \E p \in Positions : Read(p) \/ ReadFully(p)
     \/ \E offset \in Offsets, origin \in DOMAIN Place : Seek(offset, origin)

Spec == Init /\ [][Next]_vars
=============================================================================
