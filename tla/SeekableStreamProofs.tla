------------------------- MODULE SeekableStreamProofs -------------------------
(***************************************************************************)
(* Proofs about SeekableStream, for all files, lengths of the array and    *)
(* bounds: however the reads are cut, the stack of streams is the file of  *)
(* SeekableFile.                                                           *)
(***************************************************************************)
EXTENDS SeekableStream, SequenceTheorems, TLAPS

\* Where the stream is, and what a full read is for, lies within the bound; a full
\* read that has found bytes has not left the file.
Bounded ==
  /\ content \in Contents
  /\ position \in Positions /\ saved \in Positions /\ asked \in Positions
  /\ pc = "fully" /\ got # << >> => position <= Len(content)

IInv == TypeOK /\ ReadsAreContiguous /\ Bounded

-----------------------------------------------------------------------------

\* The files are sequences of numbers within the bound.
LEMMA FileTypes ==
  ASSUME NEW c \in Contents
  PROVE  c \in Seq(Nat) /\ Len(c) \in Positions /\ Len(c) \in Nat
BY ContentsAssumption, SizesAssumption DEF Positions

\* A piece of the file that does not go beyond its end has the length asked for.
LEMMA Piece ==
  ASSUME NEW c \in Seq(Nat), NEW a \in Nat, NEW k \in Nat, k = 0 \/ a + k <= Len(c)
  PROVE  SubSeq(c, a + 1, a + k) \in Seq(Nat) /\ Len(SubSeq(c, a + 1, a + k)) = k
<1>1. \A b \in (a + 1)..(a + k) : c[b] \in Nat
  <2> TAKE b \in (a + 1)..(a + k)
  <2>1. b \in 1..Len(c)
    OBVIOUS
  <2> QED BY <2>1, ElementOfSeq
<1> QED BY <1>1, SubSeqProperties

\* Two adjacent pieces of the file make one.
LEMMA Adjacent ==
  ASSUME NEW c \in Seq(Nat), NEW a \in Nat, NEW g \in Nat, NEW k \in Nat,
         a + g + k <= Len(c)
  PROVE  SubSeq(c, a + 1, a + g) \o SubSeq(c, a + g + 1, a + g + k)
           = SubSeq(c, a + 1, a + g + k)
<1>1. /\ a + 1 \in 1..(Len(c) + 1)
      /\ a + g \in ((a + 1) - 1)..Len(c)
      /\ a + g + k \in (a + g)..Len(c)
  OBVIOUS
<1> QED BY <1>1, ConcatAdjacentSubSeq

\* A read of the Java stream yields no byte only if none was asked for or the
\* position is at the end, and otherwise that many bytes of the file.
LEMMA ReadEffect ==
  ASSUME TypeOK, NEW n \in Nat, NEW k \in Available(n)
  PROVE  /\ k \in Nat /\ k <= n
         /\ k = 0 => n = 0 \/ position >= Len(content)
         /\ k > 0 => position + k <= Len(content)
         /\ Bytes(k) \in Seq(Nat) /\ Len(Bytes(k)) = k
<1> DEFINE most == Smaller(Smaller(n, ARRAY_SIZE), Len(content) - position)
<1>1. position \in Nat /\ content \in Seq(Nat) /\ Len(content) \in Nat
  BY DEF TypeOK
<1>2. most \in Int /\ most <= n /\ most <= Len(content) - position
      /\ (most <= 0 => n = 0 \/ position >= Len(content))
  BY <1>1, SizesAssumption DEF Smaller
<1>3. k \in IF most <= 0 THEN {0} ELSE 1..most
  BY DEF Available
<1> HIDE DEF most
<1>4. /\ k \in Nat /\ k <= n
      /\ k = 0 => n = 0 \/ position >= Len(content)
      /\ k > 0 => position + k <= Len(content)
  BY <1>1, <1>2, <1>3
<1>5. Bytes(k) \in Seq(Nat) /\ Len(Bytes(k)) = k
  BY <1>1, <1>4, Piece DEF Bytes
<1> QED BY <1>4, <1>5

\* A stream begins at the beginning of its file.
LEMMA InitIInv == Init => IInv
<1> SUFFICES ASSUME Init PROVE IInv
  OBVIOUS
<1>1. content \in Seq(Nat) /\ Len(content) \in Nat
  BY FileTypes DEF Init
<1>2. << >> \in Seq(Nat) /\ Len(<< >>) = 0
  OBVIOUS
<1>3. TypeOK
  BY <1>1, <1>2 DEF Init, TypeOK
<1>4. ReadsAreContiguous
  BY DEF Init, ReadsAreContiguous
<1>5. Bounded
  BY SizesAssumption DEF Init, Bounded, Positions
<1> QED BY <1>3, <1>4, <1>5 DEF IInv

\* A round of ReadFully adds the bytes that follow those it has.
LEMMA ReadMoreIInv == IInv /\ ReadMore => IInv'
<1> SUFFICES ASSUME IInv, ReadMore PROVE IInv'
  OBVIOUS
<1> USE DEF IInv
<1>1. /\ content \in Seq(Nat) /\ Len(content) \in Nat /\ position \in Nat
      /\ saved \in Nat /\ asked \in Nat /\ got \in Seq(Nat) /\ Len(got) \in Nat
      /\ Len(content) \in Positions
  BY FileTypes DEF TypeOK, Bounded
<1>2. /\ pc = "fully" /\ Len(got) < asked /\ UNCHANGED <<content, sized, asked, saved>>
      /\ \E k \in Available(StillWanted) :
           /\ position' = position + k
           /\ got' = Extended(Bytes(k))
           /\ IF k = 0
              THEN pc' = AtEnd /\ Answer("fully", asked, Len(got), got)
              ELSE UNCHANGED <<pc, reply>>
  BY DEF ReadMore
<1>3. PICK k \in Available(StillWanted) :
           /\ position' = position + k
           /\ got' = Extended(Bytes(k))
           /\ IF k = 0
              THEN pc' = AtEnd /\ Answer("fully", asked, Len(got), got)
              ELSE UNCHANGED <<pc, reply>>
  BY <1>2
<1>4. /\ k \in Nat /\ k <= asked - Len(got)
      /\ k > 0 => position + k <= Len(content)
      /\ Bytes(k) \in Seq(Nat) /\ Len(Bytes(k)) = k
  <2>1. StillWanted \in Nat
    BY <1>1, <1>2 DEF StillWanted
  <2> QED BY <1>2, <2>1, ReadEffect DEF StillWanted
<1>5. position = saved + Len(got) /\ got = SubSeq(content, saved + 1, saved + Len(got))
  BY <1>2 DEF ReadsAreContiguous
<1>6. got' = got \o Bytes(k) /\ got' \in Seq(Nat) /\ Len(got') = Len(got) + k
  <2>1. got' = got \o Bytes(k)
    BY <1>3 DEF Extended
  <2>2. got \o Bytes(k) \in Seq(Nat) /\ Len(got \o Bytes(k)) = Len(got) + Len(Bytes(k))
    BY <1>1, <1>4, ConcatProperties
  <2> QED BY <1>4, <2>1, <2>2
<1>7. CASE k = 0
  <2>1. pc' = "idle" /\ position' = position
        /\ reply' = [op |-> "fully", asked |-> asked, origin |-> "none", result |-> "S_OK",
                     number |-> Len(got), bytes |-> got]
    BY <1>1, <1>3, <1>7 DEF AtEnd, Answer, Reply
  <2>2. TypeOK'
    BY <1>1, <1>2, <1>6, <1>7, <2>1 DEF TypeOK
  <2>3. ReadsAreContiguous' /\ Bounded'
    BY <1>2, <2>1 DEF ReadsAreContiguous, Bounded, Positions
  <2> QED BY <2>2, <2>3
<1>8. CASE k > 0
  <2>1. pc' = "fully" /\ reply' = reply /\ position' = position + k
    BY <1>2, <1>3, <1>4, <1>8
  <2>2. TypeOK'
    BY <1>1, <1>2, <1>4, <1>6, <2>1 DEF TypeOK
  <2>3. position' \in Positions /\ position' <= Len(content')
    BY <1>1, <1>2, <1>4, <1>8, <2>1, SizesAssumption DEF Positions
  <2>4. got' = SubSeq(content, saved + 1, saved + Len(got'))
    <3>1. saved + Len(got) + k <= Len(content)
      BY <1>1, <1>4, <1>5, <1>8
    <3>2. Bytes(k) = SubSeq(content, saved + Len(got) + 1, saved + Len(got) + k)
      BY <1>5 DEF Bytes
    <3>3. got \o Bytes(k) = SubSeq(content, saved + 1, saved + Len(got) + k)
      BY <1>1, <1>4, <1>5, <3>1, <3>2, Adjacent
    <3>4. saved + Len(got') = saved + Len(got) + k
      BY <1>1, <1>4, <1>6
    <3> QED BY <1>6, <3>3, <3>4
  <2>5. position' = saved + Len(got')
    BY <1>1, <1>4, <1>5, <1>6, <2>1
  <2>6. ReadsAreContiguous'
    BY <1>2, <2>4, <2>5 DEF ReadsAreContiguous
  <2>7. Bounded'
    BY <1>2, <2>3 DEF Bounded, Positions
  <2> QED BY <2>2, <2>6, <2>7
<1> QED BY <1>4, <1>7, <1>8

\* The other steps of the stream keep its position and its answers in their bounds.
LEMMA NextIInv == IInv /\ [Next]_vars => IInv'
<1> SUFFICES ASSUME IInv, [Next]_vars PROVE IInv'
  OBVIOUS
<1> USE DEF IInv
<1>1. /\ content \in Seq(Nat) /\ Len(content) \in Nat /\ position \in Nat
      /\ saved \in Nat /\ asked \in Nat /\ got \in Seq(Nat) /\ Len(got) \in Nat
      /\ Len(content) \in Positions /\ MaxPosition \in Nat
  BY FileTypes, SizesAssumption DEF TypeOK, Bounded
<1>2. << >> \in Seq(Nat) /\ Len(<< >>) = 0
  OBVIOUS
<1>3. ASSUME NEW n \in Positions, NativeRead(n) PROVE IInv'
  <2>1. PICK k \in IF n = 0 THEN {0} ELSE Available(n) :
          position' = position + k /\ Answer("read", n, Count(n, k), Bytes(k))
    BY <1>3 DEF NativeRead
  <2>2. /\ k \in Nat /\ (k > 0 => position + k <= Len(content))
        /\ Bytes(k) \in Seq(Nat)
    <3>1. n \in Nat
      BY <1>1 DEF Positions
    <3>2. CASE n = 0
      BY <1>1, <2>1, <3>2, Piece DEF Bytes
    <3>3. CASE n # 0
      BY <2>1, <3>1, <3>3, ReadEffect
    <3> QED BY <3>2, <3>3
  <2>3. pc = "idle" /\ UNCHANGED <<content, sized, pc, asked, got, saved>>
    BY <1>3 DEF NativeRead
  <2>4. Count(n, k) \in Int
    BY <2>2 DEF Count
  <2>5. position' \in Nat /\ position' \in Positions
    BY <1>1, <2>1, <2>2 DEF Positions, Bounded
  <2>6. TypeOK'
    BY <1>1, <2>1, <2>2, <2>3, <2>4, <2>5 DEF TypeOK, Answer, Reply
  <2> QED BY <2>3, <2>5, <2>6 DEF ReadsAreContiguous, Bounded, Positions
<1>4. ASSUME NEW n \in Positions, StartReadFully(n) PROVE IInv'
  <2>1. /\ pc' = "fully" /\ asked' = n /\ got' = << >> /\ saved' = position
        /\ UNCHANGED <<content, position, sized, reply>>
    BY <1>4 DEF StartReadFully
  <2>2. n \in Nat
    BY <1>1 DEF Positions
  <2>3. TypeOK'
    BY <1>1, <1>2, <2>1, <2>2 DEF TypeOK
  <2>4. got' = SubSeq(content', saved' + 1, saved' + Len(got'))
    BY <1>1, <1>2, <2>1, SubSeqEmpty
  <2>5. position' = saved' + Len(got')
    BY <1>1, <1>2, <2>1
  <2> QED BY <2>1, <2>3, <2>4, <2>5 DEF ReadsAreContiguous, Bounded, Positions
<1>5. CASE ReadMore
  BY <1>5, ReadMoreIInv
<1>6. CASE ReadFullyReturns
  BY <1>1, <1>6 DEF ReadFullyReturns, Answer, Reply, TypeOK, ReadsAreContiguous, Bounded, Positions
<1>7. ASSUME NEW offset \in Int, NEW origin \in Origins, Seek(offset, origin) PROVE IInv'
  <2>1. pc = "idle" /\ UNCHANGED <<content, sized, pc, asked, got, saved>>
    BY <1>7 DEF Seek
  <2>2. \/ Reply("seek", offset, origin, "E_INVALIDARG", 0, << >>) /\ UNCHANGED position
        \/ \E p \in Positions :
             position' = p /\ Reply("seek", offset, origin, "S_OK", p, << >>)
    BY <1>7 DEF Seek
  <2>3. TypeOK' /\ position' \in Positions
    <3>1. CASE Reply("seek", offset, origin, "E_INVALIDARG", 0, << >>) /\ UNCHANGED position
      BY <1>1, <1>2, <2>1, <3>1 DEF TypeOK, Reply, Bounded
    <3>2. ASSUME NEW p \in Positions, position' = p,
                 Reply("seek", offset, origin, "S_OK", p, << >>)
          PROVE  TypeOK' /\ position' \in Positions
      <4>1. p \in Nat
        BY <1>1 DEF Positions
      <4> QED BY <1>1, <1>2, <2>1, <3>2, <4>1 DEF TypeOK, Reply
    <3> QED BY <2>2, <3>1, <3>2
  <2> QED BY <2>1, <2>3 DEF ReadsAreContiguous, Bounded, Positions
<1>8. CASE GetSize
  BY <1>1, <1>2, <1>8 DEF GetSize, Answer, Reply, TypeOK, ReadsAreContiguous, Bounded, Positions
<1>9. CASE StartSize
  BY <1>1, <1>9 DEF StartSize, TypeOK, ReadsAreContiguous, Bounded, Positions
<1>10. CASE SeekEnd
  BY <1>1, <1>10 DEF SeekEnd, TypeOK, ReadsAreContiguous, Bounded, Positions
<1>11. CASE SeekBack
  BY <1>1, <1>2, <1>11 DEF SeekBack, BackTo, Answer, Reply, TypeOK, ReadsAreContiguous, Bounded, Positions
<1>12. CASE Fails
  <2>1. /\ position' \in Positions /\ pc' = "idle" /\ got' = << >>
        /\ UNCHANGED <<content, sized, asked, saved>>
        /\ \E op \in {"read", "seek", "size", "fully"} : Refuse(op)
    BY <1>12 DEF Fails
  <2>2. /\ reply'.result \in {"S_OK", "E_INVALIDARG", "E_JAVA_EXCEPTION"}
        /\ reply'.number \in Int /\ reply'.bytes \in Seq(Nat)
    BY <1>2, <2>1 DEF Refuse, Reply
  <2>3. position' \in Nat
    BY <1>1, <2>1 DEF Positions
  <2>4. TypeOK'
    BY <1>1, <1>2, <2>1, <2>2, <2>3 DEF TypeOK
  <2> QED BY <2>1, <2>4 DEF ReadsAreContiguous, Bounded, Positions
<1>13. CASE UNCHANGED vars
  BY <1>13 DEF vars, TypeOK, ReadsAreContiguous, Bounded, Positions
<1>14. ASSUME NEW n \in Positions, NativeSeek(n) PROVE IInv'
  <2>1. n \in Int /\ Seek(n, "STREAM_SEEK_SET")
    BY <1>14, SizesAssumption DEF NativeSeek, Positions
  <2> QED BY <1>7, <2>1 DEF Origins
<1>15. CASE NativeTell
  BY <1>7, <1>15 DEF NativeTell, Origins
<1>16. ASSUME NEW offset \in Offsets, NEW origin \in Origins, Seek(offset, origin)
       PROVE IInv'
  BY <1>7, <1>16, SizesAssumption DEF Offsets
<1> HIDE DEF IInv
<1> QED
  BY <1>3, <1>4, <1>5, <1>6, <1>8, <1>9, <1>10, <1>11, <1>12, <1>13, <1>14, <1>15, <1>16
  DEF Next

\* The strengthened invariant holds in every reachable state.
THEOREM Invariance == Spec => []IInv
<1> QED BY InitIInv, NextIInv, PTL DEF Spec

\* Positions, lengths and answers are always of their types; a full read never has
\* more than it was asked for.
THEOREM TypeCorrect == Spec => []TypeOK
<1>1. IInv => TypeOK
  BY DEF IInv
<1> QED BY <1>1, Invariance, PTL

\* The bytes of a full read are those of the file from where it began, for every
\* file and every way in which the reads are cut.
THEOREM ReadsAreContiguousHolds == Spec => []ReadsAreContiguous
<1>1. IInv => ReadsAreContiguous
  BY DEF IInv
<1> QED BY <1>1, Invariance, PTL

-----------------------------------------------------------------------------

\* The position that the reader of the file sees.
Seen == IF pc = "idle" THEN position ELSE saved

\* What remains of the file, when more is asked for than there is or just as much.
LEMMA AheadIs ==
  ASSUME content \in Seq(Nat), Seen \in Nat, NEW n \in Nat
  PROVE  /\ Seen + n <= Len(content) => File!Ahead(n) = SubSeq(content, Seen + 1, Seen + n)
         /\ Seen + n >= Len(content) => File!Ahead(n) = SubSeq(content, Seen + 1, Len(content))
<1>1. File!Ahead(n) = SubSeq(content, Seen + 1,
                             IF Seen + n <= Len(content) THEN Seen + n ELSE Len(content))
  BY DEF File!Ahead, File!Smaller, Seen
<1>2. Len(content) \in Nat
  OBVIOUS
<1>3. CASE Seen + n <= Len(content)
  <2>1. File!Ahead(n) = SubSeq(content, Seen + 1, Seen + n)
    BY <1>1, <1>3
  <2>2. Seen + n >= Len(content) => Seen + n = Len(content)
    BY <1>2, <1>3
  <2> QED BY <2>1, <2>2
<1>4. CASE ~(Seen + n <= Len(content))
  BY <1>1, <1>4
<1> QED BY <1>3, <1>4

\* A read of the stream is a read of the file.
LEMMA ReadRefines ==
  ASSUME IInv, NEW n \in Positions, NativeRead(n)
  PROVE  File!Next
<1>1. /\ content \in Seq(Nat) /\ Len(content) \in Nat /\ position \in Nat /\ n \in Nat
      /\ pc = "idle" /\ pc' = "idle" /\ content' = content
  BY FileTypes, SizesAssumption DEF IInv, TypeOK, Bounded, NativeRead, Positions
<1>2. PICK k \in IF n = 0 THEN {0} ELSE Available(n) :
        position' = position + k /\ Answer("read", n, Count(n, k), Bytes(k))
  BY DEF NativeRead
<1>3. /\ k \in Nat /\ k <= n
      /\ k = 0 => n = 0 \/ position >= Len(content)
      /\ k > 0 => position + k <= Len(content)
      /\ Bytes(k) \in Seq(Nat) /\ Len(Bytes(k)) = k
  <2>1. CASE n = 0
    BY <1>1, <1>2, <2>1, Piece DEF Bytes
  <2>2. CASE n # 0
    BY <1>1, <1>2, <2>2, ReadEffect DEF IInv
  <2> QED BY <2>1, <2>2
<1>4. Seen = position /\ Seen' = position + k
  BY <1>1, <1>2 DEF Seen
<1>5. File!Read(n)
  <2>1. CASE k > 0
    <3>1. File!Ahead(k) = Bytes(k)
      BY <1>1, <1>3, <1>4, <2>1, AheadIs DEF Bytes
    <3>2. k \in 1..n /\ k = Len(File!Ahead(k)) /\ Count(n, k) = k
      BY <1>1, <1>3, <2>1, <3>1 DEF Count
    <3>3. File!Answer("read", n, k, File!Ahead(k))
      BY <1>2, <3>1, <3>2 DEF Answer, Reply, File!Answer, File!Reply
    <3> QED BY <1>4, <3>2, <3>3 DEF File!Read, Seen
  <2>2. CASE k = 0
    <3>1. Bytes(k) = << >>
      BY <1>3, <2>2, EmptySeq
    <3>2. Count(n, k) = IF n = 0 THEN 0 ELSE -1
      BY <1>1, <2>2 DEF Count
    <3>3. File!Answer("read", n, IF n = 0 THEN 0 ELSE -1, << >>)
      BY <1>2, <3>1, <3>2 DEF Answer, Reply, File!Answer, File!Reply
    <3>4. Seen' = Seen /\ (n = 0 \/ Seen >= Len(content))
      BY <1>1, <1>3, <1>4, <2>2
    <3> QED BY <3>3, <3>4 DEF File!Read, Seen
  <2> QED BY <1>3, <2>1, <2>2
<1> QED BY <1>1, <1>5 DEF File!Next

\* The end of a full read is a full read of the file, made in one step.
LEMMA FullyRefines ==
  ASSUME IInv, pc = "fully", pc' = "idle", content' = content, position' = position,
         Answer("fully", asked, Len(got), got),
         Len(got) >= asked \/ position >= Len(content)
  PROVE  File!Next
<1>1. /\ content \in Seq(Nat) /\ Len(content) \in Nat /\ position \in Nat
      /\ saved \in Nat /\ asked \in Nat /\ got \in Seq(Nat) /\ Len(got) \in Nat
      /\ Len(got) = asked \/ (Len(got) < asked /\ position >= Len(content))
  BY DEF IInv, TypeOK
<1>2. /\ position = saved + Len(got) /\ got = SubSeq(content, saved + 1, saved + Len(got))
      /\ got # << >> => position <= Len(content)
  BY DEF IInv, ReadsAreContiguous, Bounded
<1>3. Seen = saved /\ Seen' = saved + Len(got)
  BY <1>2 DEF Seen
<1>4. File!Ahead(asked) = got
  <2>1. CASE got = << >> /\ asked = 0
    BY <1>1, <1>3, <2>1, AheadIs, SubSeqEmpty DEF File!Ahead, File!Smaller, Seen
  <2>2. CASE got = << >> /\ asked > 0
    <3>1. Len(got) = 0
      BY <2>2
    <3>2. saved >= Len(content)
      BY <1>1, <1>2, <2>2, <3>1
    <3>3. File!Ahead(asked) = SubSeq(content, saved + 1, Len(content))
      BY <1>1, <1>3, <2>2, <3>2, AheadIs
    <3> QED BY <1>1, <2>2, <3>2, <3>3, SubSeqEmpty
  <2>3. CASE got # << >> /\ Len(got) = asked
    BY <1>1, <1>2, <1>3, <2>3, AheadIs
  <2>4. CASE got # << >> /\ Len(got) < asked
    <3>1. saved + Len(got) = Len(content)
      BY <1>1, <1>2, <2>4
    <3>2. saved + asked >= Len(content)
      BY <1>1, <2>4, <3>1
    <3> QED BY <1>1, <1>2, <1>3, <3>1, <3>2, AheadIs
  <2> QED BY <1>1, <2>1, <2>2, <2>3, <2>4
<1>5. File!ReadFully(asked)
  BY <1>3, <1>4 DEF File!ReadFully, File!Answer, File!Reply, Answer, Reply, Seen
<1>6. asked \in Positions
  BY DEF IInv, Bounded
<1> QED BY <1>5, <1>6 DEF File!Next

\* A step that keeps the file, the position seen and the answer is a stutter of
\* SeekableFile.
LEMMA StepStutters ==
  ASSUME UNCHANGED <<content, reply>>, Seen' = Seen
  PROVE  UNCHANGED File!vars
BY DEF File!vars, Seen

\* Both take the origins to be at the same places.
LEMMA SamePlaces ==
  ASSUME pc = "idle", NEW origin \in Origins
  PROVE  origin \in DOMAIN File!Place /\ File!Place[origin] = OriginOf(origin)
BY DEF Origins, OriginOf, File!Place

\* A seek of the stream is the seek of the file that was asked for.
LEMMA SeekRefines ==
  ASSUME IInv, NEW offset \in Offsets, NEW origin \in Origins, Seek(offset, origin)
  PROVE  File!Next
<1>1. pc = "idle" /\ pc' = "idle" /\ content' = content
  BY DEF Seek
<1>2. origin \in DOMAIN File!Place /\ File!Place[origin] = OriginOf(origin)
  BY <1>1, SamePlaces
<1>3. File!Seek(offset, origin)
  <2> DEFINE target == OriginOf(origin) + offset
  <2>1. CASE /\ target < 0 /\ UNCHANGED position
             /\ Reply("seek", offset, origin, "E_INVALIDARG", 0, << >>)
    BY <1>1, <1>2, <2>1 DEF File!Seek, File!Reply, Reply
  <2>2. CASE /\ target \in Positions /\ position' = target
             /\ Reply("seek", offset, origin, "S_OK", target, << >>)
    <3>1. target >= 0
      BY <2>2, SizesAssumption DEF Positions
    <3> QED BY <1>1, <1>2, <2>2, <3>1 DEF File!Seek, File!Reply, Reply
  <2> QED BY <2>1, <2>2 DEF Seek
<1> QED BY <1>1, <1>2, <1>3 DEF File!Next

\* Every step of the stack of streams is a step of the file or none at all.
LEMMA StepRefines == IInv /\ [Next]_vars => [File!Next]_File!vars
<1> SUFFICES ASSUME IInv, [Next]_vars PROVE File!Next \/ UNCHANGED File!vars
  OBVIOUS
<1>1. ASSUME NEW n \in Positions, NativeRead(n) PROVE File!Next
  BY <1>1, ReadRefines
<1>2. ASSUME NEW n \in Positions, StartReadFully(n) PROVE UNCHANGED File!vars
  BY <1>2, StepStutters DEF StartReadFully, Seen
<1>3. ASSUME NEW n \in Positions, NativeSeek(n) PROVE File!Next
  BY <1>3, SeekRefines, SizesAssumption DEF NativeSeek, Positions, Offsets, Origins
<1>4. ASSUME NEW offset \in Offsets, NEW origin \in Origins, Seek(offset, origin)
      PROVE  File!Next
  BY <1>4, SeekRefines
<1>5. CASE NativeTell
  BY <1>5, SeekRefines, SizesAssumption DEF NativeTell, Offsets, Origins
<1>6. CASE ReadMore
  <2>1. PICK k \in Available(StillWanted) :
           /\ position' = position + k
           /\ IF k = 0
              THEN pc' = AtEnd /\ Answer("fully", asked, Len(got), got)
              ELSE UNCHANGED <<pc, reply>>
    BY <1>6 DEF ReadMore
  <2>2. pc = "fully" /\ Len(got) < asked /\ UNCHANGED <<content, saved>>
    BY <1>6 DEF ReadMore
  <2>3. CASE k = 0
    <3>1. StillWanted \in Nat /\ StillWanted # 0 /\ Len(content) \in Nat /\ position \in Nat
      BY <2>2 DEF IInv, TypeOK, StillWanted
    <3>2. position >= Len(content)
      BY <2>3, <3>1, ReadEffect DEF IInv
    <3>3. position' = position /\ pc' = "idle" /\ Answer("fully", asked, Len(got), got)
      BY <2>1, <2>3, <3>1 DEF AtEnd
    <3> QED BY <2>2, <3>2, <3>3, FullyRefines
  <2>4. CASE k # 0
    BY <2>1, <2>2, <2>4, StepStutters DEF Seen
  <2> QED BY <2>3, <2>4
<1>7. CASE ReadFullyReturns
  <2>1. /\ pc = "fully" /\ pc' = "idle" /\ content' = content /\ position' = position
        /\ Answer("fully", asked, Len(got), got) /\ Len(got) >= asked
    BY <1>7 DEF ReadFullyReturns
  <2> QED BY <2>1, FullyRefines
<1>8. CASE GetSize
  BY <1>8 DEF GetSize, Answer, Reply, File!Size, File!Answer, File!Reply, File!Next
<1>9. CASE StartSize
  BY <1>9, StepStutters DEF StartSize, Seen
<1>10. CASE SeekEnd
  BY <1>10, StepStutters DEF SeekEnd, Seen
<1>11. CASE SeekBack
  BY <1>11 DEF SeekBack, BackTo, Answer, Reply, File!Size, File!Answer, File!Reply, File!Next
<1>12. CASE Fails
  <2>1. /\ position' \in Positions /\ pc' = "idle" /\ content' = content
        /\ reply'.result = "E_JAVA_EXCEPTION" /\ reply'.bytes = << >>
    BY <1>12 DEF Fails, Refuse, Reply
  <2> QED BY <2>1 DEF File!Fail, File!Next
<1>13. CASE UNCHANGED vars
  BY <1>13, StepStutters DEF vars, Seen
<1> QED
  BY <1>1, <1>2, <1>3, <1>4, <1>5, <1>6, <1>7, <1>8, <1>9, <1>10, <1>11, <1>12, <1>13
  DEF Next

\* Short reads, two boundaries and the size that seeks to the end are invisible to
\* the reader, for every file: the stack of streams implements SeekableFile.
THEOREM ImplementsFileHolds == Spec => ImplementsFile
<1>1. Init => File!Init
  BY DEF Init, File!Init
<1> QED BY <1>1, StepRefines, Invariance, PTL DEF Spec, ImplementsFile, File!Spec

-----------------------------------------------------------------------------

\* Every step of a call that has begun ends it or brings it nearer to its end, however
\* little the Java stream reads: ReadFully has more of the bytes it was asked for, of
\* which it never has too many, and NativeSize has one seek less before it.
CallAdvances ==
  \/ pc = "idle" \/ pc' = "idle"
  \/ /\ pc = "fully" /\ pc' = "fully" /\ asked' = asked
     /\ Len(got') > Len(got) /\ Len(got') <= asked
  \/ pc = "end" /\ pc' = "back"

\* A round of ReadFully that is not its last has read a byte at least.
LEMMA RoundAdvances == IInv /\ IInv' /\ ReadMore => CallAdvances
<1> SUFFICES ASSUME IInv, IInv', ReadMore PROVE CallAdvances
  OBVIOUS
<1>1. PICK k \in Available(StillWanted) :
         /\ got' = Extended(Bytes(k))
         /\ IF k = 0 THEN pc' = AtEnd ELSE pc' = pc
  BY DEF ReadMore
<1>2. pc = "fully" /\ Len(got) < asked /\ asked' = asked
  BY DEF ReadMore
<1>3. got \in Seq(Nat) /\ StillWanted \in Nat /\ TypeOK /\ Len(got') <= asked
  BY <1>2 DEF IInv, TypeOK, StillWanted
<1>4. k \in Nat /\ Bytes(k) \in Seq(Nat) /\ Len(Bytes(k)) = k
  BY <1>3, ReadEffect
<1>5. Len(got') = Len(got) + k
  BY <1>1, <1>3, <1>4, ConcatProperties DEF Extended
<1> QED BY <1>1, <1>2, <1>3, <1>4, <1>5 DEF CallAdvances, AtEnd

\* The other steps end the call or begin one.
LEMMA CallStep == IInv /\ IInv' /\ Next => CallAdvances
<1> SUFFICES ASSUME IInv, IInv', Next PROVE CallAdvances
  OBVIOUS
<1>1. CASE ReadMore BY <1>1, RoundAdvances
<1>2. CASE ReadFullyReturns BY <1>2 DEF ReadFullyReturns, CallAdvances
<1>3. CASE SeekEnd BY <1>3 DEF SeekEnd, CallAdvances
<1>4. CASE SeekBack BY <1>4 DEF SeekBack, CallAdvances
<1>5. CASE Fails BY <1>5 DEF Fails, CallAdvances
<1>6. CASE ~(ReadMore \/ ReadFullyReturns \/ SeekEnd \/ SeekBack \/ Fails)
  <2>1. pc = "idle"
    BY <1>6 DEF Next, NativeRead, StartReadFully, NativeSeek, Seek, NativeTell, GetSize, StartSize
  <2> QED BY <2>1 DEF CallAdvances
<1> QED BY <1>1, <1>2, <1>3, <1>4, <1>5, <1>6

\* What makes CallsEnd true for every file and array: no step of a call leaves it where
\* it was.
THEOREM CallAdvancesHolds == Spec => [][CallAdvances]_vars
<1>1. IInv /\ IInv' /\ [Next]_vars => [CallAdvances]_vars
  BY CallStep
<1> QED BY <1>1, Invariance, PTL DEF Spec
=============================================================================
