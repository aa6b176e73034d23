---------------------------- MODULE SeekableStream ----------------------------
(***************************************************************************)
(* A seekable stream on its way through the library: the Java stream, the  *)
(* native SeekableInputStream over it, and the native methods of           *)
(* NativeSeekableInputStream that give a native stream to Java again.      *)
(* p7zip and SevenZip::ReadFully call the native stream, a client of       *)
(* getEntryStream the Java one on top.  The stream objects of p7zip that   *)
(* lie between the two in an archive show a part of the stream below; here *)
(* they show all of it.                                                    *)
(*                                                                         *)
(* Each step makes one call of the Java stream at the bottom, which may    *)
(* throw an exception and then leaves its position anywhere.  A read of it *)
(* returns any number of the bytes that are there, but at least one.       *)
(***************************************************************************)
EXTENDS Integers, Sequences

CONSTANTS
  Contents,     \* the files
  ARRAY_SIZE,   \* the length of the Java array a read goes through
  MaxPosition   \* bound: positions, and lengths asked for

ASSUME SizesAssumption == ARRAY_SIZE \in Nat \ {0} /\ MaxPosition \in Nat

ASSUME ContentsAssumption ==
  \A c \in Contents : c \in Seq(Nat) /\ Len(c) <= MaxPosition

VARIABLES
  content,   \* the bytes of the Java stream
  position,  \* the position of the Java stream
  sized,     \* the native stream is an IStreamGetSize
  pc,        \* "idle", in ReadFully's loop ("fully"), or in NativeSize ("end", "back")
  asked,     \* ReadFully's size
  got,       \* the bytes that ReadFully has read
  saved,     \* the position when the call began; NativeSize's `cur'
  reply      \* what the last call answered

vars == <<content, position, sized, pc, asked, got, saved, reply>>

Positions == 0..MaxPosition

Offsets == (-MaxPosition)..MaxPosition

Origins == {"STREAM_SEEK_SET", "STREAM_SEEK_CUR", "STREAM_SEEK_END"}

-----------------------------------------------------------------------------

\* The slips after which TLC must find a property violated: a read asks for the
\* whole length again; each read goes to the beginning of the buffer; a seek from
\* the current position is one from the beginning, as if tell had not been called;
\* ReadFully goes on at the end of the stream.
AskAgain     == asked
Overwrite(b) == b \o SubSeq(got, Len(b) + 1, Len(got))
ForgetTell(o) == IF o = "STREAM_SEEK_END" THEN Len(content) ELSE 0
LoopAtEnd    == "fully"

Smaller(a, b) == IF a <= b THEN a ELSE b

\* What the Java stream may return for a read of n bytes: a number of bytes, 0 when
\* none is there (it returns -1, and `read <= 0').
Available(n) ==
  LET most == Smaller(Smaller(n, ARRAY_SIZE), Len(content) - position) IN
  IF most <= 0 THEN {0} ELSE 1..most

Bytes(k) == SubSeq(content, position + 1, position + k)

\* What ReadFully asks for in its next round.
StillWanted == asked - Len(got)

\* ReadFully's buffer after a read of the bytes b.
Extended(b) == got \o b

\* Where NativeSize seeks in the end.
BackTo == saved

\* NativeRead: no byte although some were asked for is the end of the stream.
Count(n, k) == IF n # 0 /\ k = 0 THEN -1 ELSE k

\* After a read of no byte ReadFully breaks out of its loop.
AtEnd == "idle"

\* The position a Seek starts from: method_tell or method_size.
OriginOf(o) ==
  CASE o = "STREAM_SEEK_SET" -> 0
    [] o = "STREAM_SEEK_CUR" -> position
    [] OTHER                 -> Len(content)

\* What a call answers, next to what it was asked.
Reply(op, n, origin, result, number, bytes) ==
  reply' = [op |-> op, asked |-> n, origin |-> origin, result |-> result,
            number |-> number, bytes |-> bytes]

Answer(op, n, number, bytes) == Reply(op, n, "none", "S_OK", number, bytes)

\* An exception of the Java stream leaves no answer.
Refuse(op) == Reply(op, 0, "none", "E_JAVA_EXCEPTION", 0, << >>)

Init ==
  /\ content \in Contents /\ position = 0 /\ sized \in BOOLEAN
  /\ pc = "idle" /\ asked = 0 /\ got = << >> /\ saved = 0
  /\ reply = [op |-> "none", asked |-> 0, origin |-> "none", result |-> "S_OK",
              number |-> 0, bytes |-> << >>]

\* NativeSeekableInputStream.read: one read of the native stream.
NativeRead(n) ==
  /\ pc = "idle"
  /\ \E k \in IF n = 0 THEN {0} ELSE Available(n) :
       /\ position' = position + k
       /\ Answer("read", n, Count(n, k), Bytes(k))
  /\ UNCHANGED <<content, sized, pc, asked, got, saved>>

\* SevenZip::ReadFully begins.
StartReadFully(n) ==
  /\ pc = "idle"
  /\ pc' = "fully" /\ asked' = n /\ got' = << >> /\ saved' = position
  /\ UNCHANGED <<content, position, sized, reply>>

\* A round of its loop.
ReadMore ==
  /\ pc = "fully" /\ Len(got) < asked
  /\ \E k \in Available(StillWanted) :
       /\ position' = position + k
       /\ got' = Extended(Bytes(k))
       /\ IF k = 0
          THEN pc' = AtEnd /\ Answer("fully", asked, Len(got), got)
          ELSE UNCHANGED <<pc, reply>>
  /\ UNCHANGED <<content, sized, asked, saved>>

ReadFullyReturns ==
  /\ pc = "fully" /\ Len(got) >= asked
  /\ pc' = "idle" /\ Answer("fully", asked, Len(got), got)
  /\ UNCHANGED <<content, position, sized, asked, got, saved>>

\* SeekableInputStream::Seek, NativeSeek and NativeTell: a position before the
\* beginning is refused without a call of the Java stream's seek.
Seek(offset, origin) ==
  /\ pc = "idle"
  /\ LET actual_offset == OriginOf(origin) + offset IN
       \/ /\ actual_offset < 0
          /\ Reply("seek", offset, origin, "E_INVALIDARG", 0, << >>)
          /\ UNCHANGED position
       \/ /\ actual_offset \in Positions
          /\ Reply("seek", offset, origin, "S_OK", actual_offset, << >>)
          /\ position' = actual_offset
  /\ UNCHANGED <<content, sized, pc, asked, got, saved>>

NativeSeek(pos) == Seek(pos, "STREAM_SEEK_SET")

NativeTell == Seek(0, "STREAM_SEEK_CUR")

\* SeekableInputStream::GetSize; NativeSize of a stream that has it.
GetSize ==
  /\ pc = "idle" /\ sized
  /\ Answer("size", 0, Len(content), << >>)
  /\ UNCHANGED <<content, position, sized, pc, asked, got, saved>>

\* NativeSize of a stream that has not: the position is asked for and kept ...
StartSize ==
  /\ pc = "idle" /\ ~sized
  /\ pc' = "end" /\ saved' = position
  /\ UNCHANGED <<content, position, sized, asked, got, reply>>

\* ... the stream is moved to its end ...
SeekEnd ==
  /\ pc = "end"
  /\ pc' = "back" /\ position' = Len(content)
  /\ UNCHANGED <<content, sized, asked, got, saved, reply>>

\* ... and back.
SeekBack ==
  /\ pc = "back"
  /\ pc' = "idle" /\ position' = BackTo
  /\ Answer("size", 0, Len(content), << >>)
  /\ UNCHANGED <<content, sized, asked, got, saved>>

\* The Java stream throws: E_JAVA_EXCEPTION goes up through every call, with no
\* byte and no position.
Fails ==
  /\ position' \in Positions
  /\ \/ pc = "idle" /\ \E op \in {"read", "seek", "size"} : Refuse(op)
     \/ pc = "fully" /\ Len(got) < asked /\ Refuse("fully")
     \/ pc \in {"end", "back"} /\ Refuse("size")
  /\ pc' = "idle" /\ got' = << >>
  /\ UNCHANGED <<content, sized, asked, saved>>

Next ==
  \/ \E n \in Positions : NativeRead(n) \/ StartReadFully(n) \/ NativeSeek(n)
  \/ \E offset \in Offsets, origin \in Origins : Seek(offset, origin)
  \/ ReadMore \/ ReadFullyReturns \/ NativeTell
  \/ GetSize \/ StartSize \/ SeekEnd \/ SeekBack \/ Fails

Spec == Init /\ [][Next]_vars

\* A call that has begun goes on, until it ends or the Java stream throws; nobody
\* has to make another.
GoOn == ReadMore \/ ReadFullyReturns \/ SeekEnd \/ SeekBack

FairSpec == Spec /\ WF_vars(GoOn)

-----------------------------------------------------------------------------

TypeOK ==
  /\ content \in Seq(Nat) /\ position \in Nat /\ sized \in BOOLEAN
  /\ pc \in {"idle", "fully", "end", "back"}
  /\ asked \in Nat /\ saved \in Nat
  /\ got \in Seq(Nat) /\ Len(got) <= asked
  /\ reply.result \in {"S_OK", "E_INVALIDARG", "E_JAVA_EXCEPTION"}
  /\ reply.number \in Int /\ reply.bytes \in Seq(Nat)

\* The bytes that ReadFully has put together are those of the file, one after the
\* other, from where it began, however the reads below were cut: what
\* FormatDetection takes ReadFully for.
ReadsAreContiguous ==
  pc = "fully" =>
    /\ position = saved + Len(got)
    /\ got = SubSeq(content, saved + 1, saved + Len(got))

\* The stack of streams is one seekable file: each call answers as if in one step,
\* and a call that answers moves the position by what it was asked: a read by the
\* bytes it yields, a seek to the offset from its origin, a tell and a size not at
\* all.  While a call is going on its reader sees the position from which it began.
File == INSTANCE SeekableFile WITH
  pos <- IF pc = "idle" THEN position ELSE saved

ImplementsFile == File!Spec

\* A call comes to its end, in however small pieces the Java stream answers.
CallsEnd == pc # "idle" ~> pc = "idle"
=============================================================================
