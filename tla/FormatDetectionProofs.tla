------------------------ MODULE FormatDetectionProofs ------------------------
(***************************************************************************)
(* Proofs about FormatDetection, for every table of formats, every stream  *)
(* and every answer of the handlers.                                       *)
(***************************************************************************)
EXTENDS FormatDetection, SequenceTheorems, TLAPS

\* What the marks and the loop variable say about the attempts made so far.
Bookkeeping ==
  /\ phase = "open" => i \in Fmt
  /\ phase \in {"check", "open"} =>
       \A f \in Fmt : /\ attempts[f] = IF f \in formats_checked THEN 1 ELSE 0
                      /\ f \in formats_checked => f < i
  /\ phase = "others" =>
       \A f \in Fmt : attempts[f] = IF f \in formats_checked \/ f < i THEN 1 ELSE 0
  /\ phase = "returned" => \A f \in Fmt : attempts[f] <= 1

\* Until the search returns nothing is decided and no handler is open.
Undecided ==
  phase # "returned" =>
    /\ handlers = {} /\ in_archive = NoFormat /\ result = "none"
    /\ \A f \in Fmt : outcome[f] \notin Decisive

\* Without an I/O failure, the formats the first pass has marked are those it
\* has passed and that match.
FirstPassExact ==
  ~ioFailed =>
    /\ \A f \in formats_checked : phase # "returned" => Matches(f)
    /\ phase \in {"check", "open"} =>
         \A f \in Fmt : f < i /\ Matches(f) => f \in formats_checked
    /\ phase = "check" /\ i \in Fmt =>
         \A k \in 1..Len(Signatures(i)) : k < j => ~Found(i, k)
    /\ phase = "open" => Matches(i)
    /\ phase = "others" => \A f \in Fmt : Matches(f) => f \in formats_checked

IInv == TypeOK /\ Bookkeeping /\ Undecided /\ FirstPassExact /\ VerdictIsJustified

-----------------------------------------------------------------------------

\* A signature table holds sequences of bytes.
LEMMA TableTypes ==
  ASSUME NEW f \in Fmt
  PROVE  /\ Formats[f].offset \in Nat
         /\ Signatures(f) \in Seq(Seq(Nat))
         /\ Len(Signatures(f)) \in Nat
         /\ \A k \in 1..Len(Signatures(f)) : Signatures(f)[k] \in Seq(Nat)
<1> DEFINE Format == [offset : Nat, signatures : Seq(Seq(Nat))]
<1>1. Formats[f] \in Format
  <2>1. Formats \in Seq(Format) /\ f \in 1..Len(Formats)
    BY FormatsAssumption DEF Fmt
  <2> HIDE DEF Format
  <2> QED BY <2>1, ElementOfSeq
<1>2. Formats[f].offset \in Nat /\ Signatures(f) \in Seq(Seq(Nat))
  BY <1>1 DEF Signatures
<1> HIDE DEF Format
<1>3. \A k \in 1..Len(Signatures(f)) : Signatures(f)[k] \in Seq(Nat)
  BY <1>2, ElementOfSeq
<1>4. Len(Signatures(f)) \in Nat
  BY <1>2, LenProperties
<1> QED
  BY <1>2, <1>3, <1>4

\* The stream has the bytes s at position `at'.
FoundAt(at, s) == \A b \in 1..Len(s) : at + b <= Len(content) /\ content[at + b] = s[b]

\* What ReadFully returns at a position equals a signature exactly when the stream has
\* that signature there.
LEMMA ReadFindsBytes ==
  ASSUME content \in Seq(Nat), NEW o \in Nat, NEW s \in Seq(Nat)
  PROVE  ReadFully(o, Len(s)) = s <=> FoundAt(o, s)
<1> DEFINE m == Smaller(o + Len(s), Len(content))
           r == SubSeq(content, o + 1, m)
<1>1. Len(s) \in Nat /\ Len(content) \in Nat
  BY LenProperties
<1>2. m \in Nat /\ m <= Len(content) /\ m <= o + Len(s)
      /\ (m = o + Len(s) \/ m = Len(content))
  BY <1>1 DEF Smaller
<1>3. /\ r \in Seq(Nat)
      /\ Len(r) = IF o + 1 <= m THEN m - o ELSE 0
      /\ \A b \in 1..Len(r) : r[b] = content[o + b]
  <2>1. o + 1 \in 1..(Len(content) + 1) \/ o + 1 > m
    BY <1>1, <1>2
  <2>2. \A b \in 1..(m - o) : o + b \in 1..Len(content)
    BY <1>1, <1>2
  <2> HIDE DEF m
  <2> QED BY <1>1, <1>2, <2>1, <2>2, SubSeqProperties
<1>4. r = s <=> Len(r) = Len(s) /\ \A b \in 1..Len(s) : r[b] = s[b]
  <2> HIDE DEF r
  <2> QED BY <1>1, <1>3, SeqEqual
<1>5. FoundAt(o, s) <=> \A b \in 1..Len(s) : o + b <= Len(content) /\ content[o + b] = s[b]
  BY DEF FoundAt
<1>6. ASSUME r = s PROVE FoundAt(o, s)
  <2> HIDE DEF m, r
  <2> QED BY <1>1, <1>2, <1>3, <1>4, <1>5, <1>6
<1>7. ASSUME FoundAt(o, s) PROVE r = s
  <2>0. \A b \in 1..Len(s) : o + b <= Len(content) /\ content[o + b] = s[b]
    BY <1>5, <1>7
  <2>1. Len(s) = 0 \/ o + Len(s) <= Len(content)
    <3>1. CASE Len(s) \in 1..Len(s)
      BY <2>0, <3>1
    <3>2. CASE Len(s) \notin 1..Len(s)
      BY <1>1, <3>2
    <3> QED BY <3>1, <3>2
  <2>2. Len(r) = Len(s)
    <3> HIDE DEF m, r
    <3>1. \A n, c \in Nat : /\ m \in Nat /\ m <= c /\ m <= o + n
                            /\ m = o + n \/ m = c
                            /\ n = 0 \/ o + n <= c
                            => (IF o + 1 <= m THEN m - o ELSE 0) = n
      OBVIOUS
    <3>2. (IF o + 1 <= m THEN m - o ELSE 0) = Len(s)
      BY <1>1, <1>2, <2>1, <3>1
    <3> QED BY <1>3, <3>2
  <2> HIDE DEF m, r
  <2> QED BY <1>1, <1>3, <1>4, <2>0, <2>2
<1> QED
  BY <1>6, <1>7 DEF ReadFully

\* At its format's offset a signature is read exactly when the stream has it there.
LEMMA ReadFindsSignature ==
  ASSUME content \in Seq(Nat), NEW f \in Fmt, NEW k \in 1..Len(Signatures(f))
  PROVE  ReadFully(Formats[f].offset, Len(Signatures(f)[k])) = Signatures(f)[k]
           <=> Found(f, k)
<1>1. Formats[f].offset \in Nat /\ Signatures(f)[k] \in Seq(Nat)
  BY TableTypes
<1> QED BY <1>1, ReadFindsBytes DEF FoundAt, Found

\* The matching of a format depends on the stream alone.
LEMMA MatchesStable ==
  ASSUME content' = content
  PROVE  /\ \A f \in Fmt : Matches(f)' <=> Matches(f)
         /\ \A f \in Fmt, k \in Nat : Found(f, k)' <=> Found(f, k)
BY DEF Matches, Found

\* What one attempt changes, whatever comes of it.
LEMMA AttemptEffect ==
  ASSUME TypeOK, NEW f \in Fmt, NEW r \in Results, TryFormat(f, r), UNCHANGED content
  PROVE  /\ pos' \in Nat /\ ioFailed' \in BOOLEAN /\ (ioFailed => ioFailed')
         /\ attempts' \in [Fmt -> Nat] /\ outcome' \in [Fmt -> Results \cup {"untried"}]
         /\ \A g \in Fmt : attempts'[g] = IF g = f THEN attempts[f] + 1 ELSE attempts[g]
         /\ \A g \in Fmt : outcome'[g] = IF g = f THEN r ELSE outcome[g]
         /\ handlers' = Keep(f, r)
         /\ in_archive' = IF r = "S_OK" THEN f ELSE NoFormat
<1>1. pos' \in Nat /\ ioFailed' \in BOOLEAN /\ (ioFailed => ioFailed')
  <2>1. Len(content) \in Nat
    BY DEF TypeOK
  <2>2. pos' = pos \/ pos' \in 0..Len(content)
    BY Zenon DEF TryFormat
  <2>3. pos' \in Nat
    BY <2>1, <2>2 DEF TypeOK
  <2>4. ioFailed' \in BOOLEAN /\ (ioFailed => ioFailed')
    BY Zenon DEF TryFormat, TypeOK
  <2> QED BY <2>3, <2>4
<1> QED BY <1>1 DEF TryFormat, TypeOK

\* The search begins with nothing tried, marked or open.
LEMMA InitIInv == Init => IInv
<1> SUFFICES ASSUME Init PROVE IInv
  OBVIOUS
<1>0. Len(Formats) \in Nat
  BY FormatsAssumption
<1>1. TypeOK
  <2>1. content \in Seq(Nat)
    BY ContentsAssumption DEF Init
  <2>2. attempts \in [Fmt -> Nat] /\ outcome \in [Fmt -> Results \cup {"untried"}]
    BY DEF Init
  <2>3. i \in 1..(Len(Formats) + 1) /\ j \in Nat \ {0} /\ pos \in Nat
    BY <1>0 DEF Init
  <2> QED BY <2>1, <2>2, <2>3 DEF Init, TypeOK
<1>2. Bookkeeping /\ Undecided /\ VerdictIsJustified
  BY <1>0 DEF Init, Bookkeeping, Undecided, VerdictIsJustified, Decisive, PasswordErrors, Fmt
<1>3. FirstPassExact
  BY <1>0 DEF Init, FirstPassExact, Fmt
<1> QED BY <1>1, <1>2, <1>3 DEF IInv

\* Every step of the search keeps the books of marks, attempts and handlers.
LEMMA NextIInv == IInv /\ [Next]_vars => IInv'
<1> SUFFICES ASSUME IInv, [Next]_vars PROVE IInv'
  OBVIOUS
<1> USE DEF IInv
<1>0. Len(Formats) \in Nat
  BY FormatsAssumption
<1>00. \A f \in Fmt : Len(Signatures(f)) \in Nat
  BY TableTypes
<1>1. CASE NextFormat
  <2> USE <1>1 DEF NextFormat, Untouched
  <2>1. TypeOK'
    BY <1>0 DEF TypeOK, Fmt
  <2>2. Bookkeeping' /\ Undecided' /\ VerdictIsJustified'
    BY <1>0 DEF TypeOK, Bookkeeping, Undecided, VerdictIsJustified, Fmt
  <2>3. FirstPassExact'
    <3>1. ~ioFailed => ~Matches(i)
      BY <1>00 DEF FirstPassExact, Matches, TypeOK
    <3>2. ~ioFailed' => \A f \in Fmt : f < i' /\ Matches(f) => f \in formats_checked
      BY <1>0, <3>1 DEF FirstPassExact, TypeOK, Fmt
    <3> QED BY <1>0, <1>00, <3>2, MatchesStable DEF FirstPassExact, TypeOK, Fmt
  <2> QED BY <2>1, <2>2, <2>3
<1>2. CASE SeekFails
  <2> USE <1>2 DEF SeekFails, Untouched, NextSignature
  <2>1. TypeOK'
    BY <1>0 DEF TypeOK
  <2>2. Bookkeeping' /\ Undecided' /\ VerdictIsJustified'
    BY DEF Bookkeeping, Undecided, VerdictIsJustified
  <2>3. FirstPassExact'
    BY DEF FirstPassExact
  <2> QED BY <2>1, <2>2, <2>3
<1>3. CASE SecondPass
  <2> USE <1>3 DEF SecondPass, Untouched
  <2>1. TypeOK'
    BY <1>0 DEF TypeOK
  <2>2. Bookkeeping' /\ Undecided' /\ VerdictIsJustified'
    BY <1>0 DEF TypeOK, Bookkeeping, Undecided, VerdictIsJustified, Fmt
  <2>3. FirstPassExact'
    BY <1>0, MatchesStable DEF FirstPassExact, TypeOK, Fmt
  <2> QED BY <2>1, <2>2, <2>3
<1>4. CASE SkipChecked
  <2> USE <1>4 DEF SkipChecked, Untouched
  <2>1. TypeOK'
    BY <1>0 DEF TypeOK, Fmt
  <2>2. Bookkeeping' /\ Undecided' /\ VerdictIsJustified'
    BY <1>0 DEF TypeOK, Bookkeeping, Undecided, VerdictIsJustified, Fmt
  <2>3. FirstPassExact'
    BY MatchesStable DEF FirstPassExact, TypeOK
  <2> QED BY <2>1, <2>2, <2>3
<1>5. CASE Exhausted
  <2> USE <1>5 DEF Exhausted
  <2>1. TypeOK'
    BY <1>0 DEF TypeOK
  <2>2. Bookkeeping' /\ Undecided' /\ VerdictIsJustified'
    BY <1>0 DEF TypeOK, Bookkeeping, Undecided, VerdictIsJustified, Fmt, Decisive, PasswordErrors
  <2>3. FirstPassExact'
    BY MatchesStable DEF FirstPassExact, TypeOK
  <2> QED BY <2>1, <2>2, <2>3
<1>6. ASSUME NEW sought \in BOOLEAN, NEW fetched \in BOOLEAN, CompareSignature(sought, fetched)
      PROVE  IInv'
  <2> DEFINE offset    == Formats[i].offset
             signature == Signatures(i)[j]
             at        == IF sought THEN offset ELSE pos
             bytes     == IF fetched THEN ReadFully(at, Len(signature)) ELSE << >>
  <2>1. /\ phase = "check" /\ i \in Fmt /\ j \in 1..Len(Signatures(i))
        /\ ioFailed' = (ioFailed \/ ~sought \/ ~fetched)
        /\ pos' \in IF fetched THEN {at + Len(bytes)} ELSE at..(at + Len(signature))
        /\ IF bytes = signature THEN phase' = "open" /\ j' = j
                               ELSE j' = j + 1 /\ phase' = phase
        /\ UNCHANGED <<formats_checked, handlers, in_archive, result, attempts, outcome>>
        /\ UNCHANGED <<content, password, i>>
    BY <1>6, <1>00 DEF CompareSignature, Untouched, NextSignature, TypeOK
  <2>2. signature \in Seq(Nat) /\ offset \in Nat /\ at \in Nat
    BY <2>1, TableTypes DEF TypeOK
  <2>3. pos' \in Nat
    <3>1. Len(content) \in Nat /\ content \in Seq(Nat)
      BY DEF TypeOK
    <3>2. Len(signature) \in Nat
      BY <2>2
    <3>3. Len(bytes) \in Nat
      <4> DEFINE m == Smaller(at + Len(signature), Len(content))
      <4>1. m \in Nat /\ m <= Len(content)
        BY <2>2, <3>1, <3>2 DEF Smaller
      <4>2. SubSeq(content, at + 1, m) \in Seq(Nat)
        <5> HIDE DEF at, m
        <5> QED BY <2>2, <3>1, <4>1
      <4>3. bytes \in Seq(Nat)
        BY <4>2 DEF ReadFully
      <4> HIDE DEF bytes
      <4> QED BY <4>3
    <3> HIDE DEF at, bytes, signature
    <3> QED BY <2>1, <2>2, <3>2, <3>3
  <2>4. ~ioFailed' => (bytes = signature <=> Found(i, j))
    BY <2>1, ReadFindsSignature DEF TypeOK
  <2> HIDE DEF at, bytes, signature, offset
  <2>5. TypeOK'
    BY <2>1, <2>3 DEF TypeOK
  <2>6. Bookkeeping' /\ Undecided' /\ VerdictIsJustified'
    BY <2>1 DEF TypeOK, Bookkeeping, Undecided, VerdictIsJustified
  <2>7. FirstPassExact'
    <3>1. SUFFICES ASSUME ~ioFailed' PROVE FirstPassExact'
      BY DEF FirstPassExact
    <3>2. CASE bytes = signature
      <4>1. Matches(i)
        BY <2>1, <2>4, <3>1, <3>2 DEF Matches
      <4> QED BY <2>1, <3>1, <3>2, <4>1, MatchesStable DEF FirstPassExact, TypeOK
    <3>3. CASE bytes # signature
      <4>1. \A k \in 1..Len(Signatures(i)) : k < j + 1 => ~Found(i, k)
        BY <1>00, <2>1, <2>4, <3>1, <3>3 DEF FirstPassExact, TypeOK
      <4> QED BY <1>00, <2>1, <3>1, <3>3, <4>1, MatchesStable DEF FirstPassExact, TypeOK
    <3> QED BY <3>2, <3>3
  <2> QED BY <2>5, <2>6, <2>7
<1>7. ASSUME NEW r \in Results, OpenMatched(r) PROVE IInv'
  <2>1. /\ phase = "open" /\ i \in Fmt /\ TryFormat(i, r)
        /\ formats_checked' = formats_checked \cup {i}
        /\ IF r \in Decisive
           THEN phase' = "returned" /\ result' = r /\ i' = i /\ j' = j
           ELSE phase' = "check" /\ i' = i + 1 /\ j' = 1 /\ result' = result
        /\ content' = content /\ password' = password
    BY <1>7 DEF OpenMatched, Mark, Ends, Bookkeeping
  <2>2. /\ pos' \in Nat /\ ioFailed' \in BOOLEAN /\ (ioFailed => ioFailed')
        /\ attempts' \in [Fmt -> Nat] /\ outcome' \in [Fmt -> Results \cup {"untried"}]
        /\ \A g \in Fmt : attempts'[g] = IF g = i THEN attempts[i] + 1 ELSE attempts[g]
        /\ \A g \in Fmt : outcome'[g] = IF g = i THEN r ELSE outcome[g]
        /\ handlers' = Keep(i, r)
        /\ in_archive' = IF r = "S_OK" THEN i ELSE NoFormat
    BY <2>1, AttemptEffect
  <2>3. TypeOK'
    BY <1>0, <2>1, <2>2 DEF TypeOK, Keep, Fmt
  <2>4. Bookkeeping'
    <3>1. attempts[i] = 0 /\ i \notin formats_checked
      BY <1>0, <2>1 DEF TypeOK, Bookkeeping, Fmt
    <3>2. \A g \in Fmt : g \in formats_checked' => g < i + 1
      BY <1>0, <2>1 DEF TypeOK, Bookkeeping, Fmt
    <3>3. \A g \in Fmt : attempts'[g] = IF g \in formats_checked' THEN 1 ELSE 0
      BY <2>1, <2>2, <3>1 DEF Bookkeeping
    <3> QED BY <2>1, <3>2, <3>3 DEF Bookkeeping
  <2>5. Undecided' /\ VerdictIsJustified'
    <3>1. CASE r \in Decisive
      <4>1. i # NoFormat /\ handlers = {} /\ r # "E_UNKNOWN_FORMAT"
        BY <1>0, <2>1, <3>1, NoFormatAssumption DEF Undecided, Fmt, Decisive, PasswordErrors
      <4>2. outcome'[i] = r
        BY <2>1, <2>2
      <4>3. handlers' = IF r = "S_OK" THEN {i} ELSE {}
        BY <2>2, <4>1 DEF Keep
      <4> QED BY <2>1, <2>2, <3>1, <4>1, <4>2, <4>3 DEF Undecided, VerdictIsJustified
    <3>2. CASE r \notin Decisive
      <4>1. r # "S_OK"
        BY <3>2 DEF Decisive
      <4> QED BY <2>1, <2>2, <3>2, <4>1 DEF Undecided, VerdictIsJustified, Keep
    <3> QED BY <3>1, <3>2
  <2>6. FirstPassExact'
    BY <1>0, <2>1, <2>2, MatchesStable DEF FirstPassExact, TypeOK, Fmt
  <2> QED BY <2>3, <2>4, <2>5, <2>6
<1>8. ASSUME NEW r \in Results, OpenUnchecked(r) PROVE IInv'
  <2>1. /\ phase = "others" /\ i \in Fmt \ formats_checked /\ TryFormat(i, r)
        /\ IF r \in Decisive
           THEN phase' = "returned" /\ result' = r /\ i' = i
           ELSE i' = i + 1 /\ phase' = phase /\ result' = result
        /\ UNCHANGED <<content, password, j, formats_checked>>
    BY <1>8 DEF OpenUnchecked, Ends
  <2>2. /\ pos' \in Nat /\ ioFailed' \in BOOLEAN /\ (ioFailed => ioFailed')
        /\ attempts' \in [Fmt -> Nat] /\ outcome' \in [Fmt -> Results \cup {"untried"}]
        /\ \A g \in Fmt : attempts'[g] = IF g = i THEN attempts[i] + 1 ELSE attempts[g]
        /\ \A g \in Fmt : outcome'[g] = IF g = i THEN r ELSE outcome[g]
        /\ handlers' = Keep(i, r)
        /\ in_archive' = IF r = "S_OK" THEN i ELSE NoFormat
    BY <2>1, AttemptEffect
  <2>3. TypeOK'
    BY <1>0, <2>1, <2>2 DEF TypeOK, Keep, Fmt
  <2>4. Bookkeeping'
    <3>1. attempts[i] = 0
      BY <1>0, <2>1 DEF TypeOK, Bookkeeping, Fmt
    <3>2. \A g \in Fmt : attempts'[g] = IF g \in formats_checked \/ g < i + 1 THEN 1 ELSE 0
      BY <1>0, <2>1, <2>2, <3>1 DEF TypeOK, Bookkeeping, Fmt
    <3> QED BY <2>1, <3>2 DEF Bookkeeping
  <2>5. Undecided' /\ VerdictIsJustified'
    <3>1. CASE r \in Decisive
      <4>1. i # NoFormat /\ handlers = {} /\ r # "E_UNKNOWN_FORMAT"
        BY <1>0, <2>1, <3>1, NoFormatAssumption DEF Undecided, Fmt, Decisive, PasswordErrors
      <4>2. outcome'[i] = r
        BY <2>1, <2>2
      <4>3. handlers' = IF r = "S_OK" THEN {i} ELSE {}
        BY <2>2, <4>1 DEF Keep
      <4> QED BY <2>1, <2>2, <3>1, <4>1, <4>2, <4>3 DEF Undecided, VerdictIsJustified
    <3>2. CASE r \notin Decisive
      <4>1. r # "S_OK"
        BY <3>2 DEF Decisive
      <4> QED BY <2>1, <2>2, <3>2, <4>1 DEF Undecided, VerdictIsJustified, Keep
    <3> QED BY <3>1, <3>2
  <2>6. FirstPassExact'
    <3>1. SUFFICES ASSUME ~ioFailed, ~ioFailed' PROVE FirstPassExact'
      BY <2>2 DEF FirstPassExact
    <3>2. formats_checked' = formats_checked /\ formats_checked \subseteq Fmt
      BY <2>1 DEF TypeOK
    <3>3. \A f \in formats_checked' : Matches(f)'
      BY <2>1, <3>1, <3>2, MatchesStable DEF FirstPassExact
    <3>4. phase' # "check" /\ phase' # "open"
      BY <2>1
    <3>5. \A f \in Fmt : Matches(f)' => f \in formats_checked'
      BY <2>1, <3>1, <3>2, MatchesStable DEF FirstPassExact
    <3> QED BY <3>3, <3>4, <3>5 DEF FirstPassExact
  <2> QED BY <2>3, <2>4, <2>5, <2>6
<1>9. CASE UNCHANGED vars
  <2>1. TypeOK' /\ Bookkeeping' /\ Undecided' /\ VerdictIsJustified'
    BY <1>9 DEF vars, TypeOK, Bookkeeping, Undecided, VerdictIsJustified
  <2>2. FirstPassExact'
    BY <1>9 DEF vars, FirstPassExact, Matches, Found
  <2> QED BY <2>1, <2>2
<1> QED
  BY <1>1, <1>2, <1>3, <1>4, <1>5, <1>6, <1>7, <1>8, <1>9 DEF Next

\* The strengthened invariant holds in every reachable state.
THEOREM Invariance == Spec => []IInv
BY InitIInv, NextIInv, PTL DEF Spec

\* The state of the search is always well typed: the loop variable stays within
\* one of the table, the marks within the table.
THEOREM TypeCorrect == Spec => []TypeOK
<1>1. IInv => TypeOK
  BY DEF IInv
<1> QED BY Invariance, <1>1, PTL

\* No format is opened twice in one search, for every table of formats.
THEOREM TriedAtMostOnceHolds == Spec => []TriedAtMostOnce
<1>1. IInv => TriedAtMostOnce
  BY Z3 DEF IInv, TypeOK, Bookkeeping, TriedAtMostOnce
<1> QED BY Invariance, <1>1, PTL

\* The answer of the search is justified by the attempts it made, and the only
\* handler left open is the one it hands over.
THEOREM VerdictIsJustifiedHolds == Spec => []VerdictIsJustified
<1>1. IInv => VerdictIsJustified
  BY DEF IInv
<1> QED BY Invariance, <1>1, PTL

\* Which action an attempt belongs to: the others leave the histories alone.
LEMMA AttemptIsOpen ==
  ASSUME IInv, [Next]_vars, attempts' # attempts
  PROVE  /\ content' = content
         /\ \E r \in Results :
              /\ i \in Fmt /\ TryFormat(i, r)
              /\ \/ phase = "open"
                 \/ phase = "others" /\ i \notin formats_checked
<1>1. ASSUME NEW r \in Results, OpenMatched(r)
      PROVE  phase = "open" /\ i \in Fmt /\ TryFormat(i, r) /\ content' = content
  BY <1>1 DEF OpenMatched, IInv, Bookkeeping
<1>2. ASSUME NEW r \in Results, OpenUnchecked(r)
      PROVE  /\ phase = "others" /\ i \in Fmt \ formats_checked
             /\ TryFormat(i, r) /\ content' = content
  BY <1>2 DEF OpenUnchecked
<1>3. \E r \in Results : OpenMatched(r) \/ OpenUnchecked(r)
  BY DEF Next, vars, NextFormat, SeekFails, SecondPass, SkipChecked, Exhausted,
         CompareSignature, Untouched
<1> QED BY <1>1, <1>2, <1>3

\* Without I/O failures no format guesses while one that matches is waiting.
THEOREM MatchingFormatsFirstHolds == Spec => MatchingFormatsFirst
<1>1. IInv /\ [Next]_vars =>
        [\A f \in Fmt :
           attempts'[f] # attempts[f] /\ ~Matches(f) /\ ~ioFailed
             => \A g \in Fmt : Matches(g) => attempts[g] > 0]_vars
  <2> SUFFICES ASSUME IInv, [Next]_vars, NEW f \in Fmt,
                      attempts'[f] # attempts[f], ~Matches(f), ~ioFailed,
                      NEW g \in Fmt, Matches(g)
               PROVE  attempts[g] > 0
    OBVIOUS
  <2>1. PICK r \in Results :
          /\ i \in Fmt /\ TryFormat(i, r)
          /\ phase = "open" \/ (phase = "others" /\ i \notin formats_checked)
    BY AttemptIsOpen
  <2>2. f = i
    BY <2>1 DEF TryFormat, IInv, TypeOK
  <2>3. phase = "others"
    BY <2>1, <2>2 DEF IInv, FirstPassExact
  <2>4. g \in formats_checked
    BY <2>3 DEF IInv, FirstPassExact
  <2> QED BY <2>3, <2>4 DEF IInv, Bookkeeping
<1> QED BY Invariance, <1>1, PTL DEF Spec, MatchingFormatsFirst

\* Once a format has taken the stream or asked in vain, no other is tried.
THEOREM NothingAfterDecisionHolds == Spec => NothingAfterDecision
<1>1. IInv /\ [Next]_vars =>
        [attempts' # attempts => \A f \in Fmt : outcome[f] \notin Decisive]_vars
  <2> SUFFICES ASSUME IInv, [Next]_vars, attempts' # attempts, NEW f \in Fmt
               PROVE  outcome[f] \notin Decisive
    OBVIOUS
  <2>1. phase # "returned"
    BY AttemptIsOpen
  <2> QED BY <2>1 DEF IInv, Undecided
<1> QED BY Invariance, <1>1, PTL DEF Spec, NothingAfterDecision
-----------------------------------------------------------------------------

Untried == {f \in Fmt : attempts[f] = 0}

Answer ==
  IF phase # "returned" THEN "pending"
  ELSE IF result = "S_OK" THEN "opened"
  ELSE IF result \in PasswordErrors THEN "password" ELSE "unknown"

\* An attempt of the search is an attempt of FormatChoice.
LEMMA AttemptRefines ==
  ASSUME IInv, NEW r \in Results, NEW f \in Fmt, f = i, TryFormat(f, r), content' = content,
         phase \in {"open", "others"}, attempts[f] = 0,
         IF r \in Decisive THEN phase' = "returned" /\ result' = r
                           ELSE phase' # "returned"
  PROVE  Choice!Next
<1>1. Untried' = Untried \ {f} /\ f \in Untried
  <2>1. \A g \in Fmt : attempts'[g] = IF g = f THEN attempts[f] + 1 ELSE attempts[g]
    BY AttemptEffect DEF IInv
  <2> QED BY <2>1 DEF Untried
<1>2. in_archive' = IF r = "S_OK" THEN f ELSE in_archive
  BY AttemptEffect DEF IInv, Undecided
<1>3. Answer = "pending"
  BY DEF Answer
<1>4. CASE r = "S_OK"
  <2>1. Answer' = "opened"
    BY <1>4 DEF Answer, Decisive
  <2>2. Choice!Accept(f)
    BY <1>1, <1>2, <1>3, <1>4, <2>1 DEF Choice!Accept, Untried, Answer
  <2> QED BY <2>2 DEF Choice!Next
<1>5. CASE r \in PasswordErrors
  <2>1. Answer' = "password" /\ r # "S_OK"
    BY <1>5 DEF Answer, Decisive, PasswordErrors
  <2>2. Choice!AskInVain(f)
    BY <1>1, <1>2, <1>3, <2>1 DEF Choice!AskInVain, Untried, Answer
  <2> QED BY <2>2 DEF Choice!Next
<1>6. CASE r \notin Decisive
  <2>1. Answer' = "pending" /\ r # "S_OK"
    BY <1>6 DEF Answer, Decisive
  <2>2. Choice!Reject(f)
    BY <1>1, <1>2, <1>3, <2>1 DEF Choice!Reject, Untried, Answer
  <2> QED BY <2>2 DEF Choice!Next
<1> QED BY <1>4, <1>5, <1>6 DEF Decisive

\* A step that makes no attempt and does not return is a stutter of FormatChoice.
LEMMA QuietStutters ==
  ASSUME UNCHANGED <<attempts, in_archive>>, phase # "returned", phase' # "returned"
  PROVE  UNCHANGED Choice!vars
<1>1. Untried' = Untried /\ Answer' = Answer /\ in_archive' = in_archive
  BY DEF Untried, Answer
<1> QED BY <1>1 DEF Choice!vars, Untried, Answer

\* The two passes over the table implement the plain promise of FormatChoice.
THEOREM ImplementsChoiceHolds == Spec => ImplementsChoice
<1>1. Init => Choice!Init
  <2> SUFFICES ASSUME Init PROVE Choice!Init
    OBVIOUS
  <2>1. Untried = Fmt /\ Answer = "pending"
    BY DEF Init, Untried, Answer
  <2> QED BY <2>1 DEF Init, Choice!Init, Untried, Answer
<1>2. IInv /\ [Next]_vars => [Choice!Next]_Choice!vars
  <2> SUFFICES ASSUME IInv, [Next]_vars PROVE Choice!Next \/ UNCHANGED Choice!vars
    OBVIOUS
  <2>1. CASE NextFormat \/ SeekFails \/ SecondPass \/ SkipChecked
    BY <2>1, QuietStutters DEF NextFormat, SeekFails, SecondPass, SkipChecked, Untouched
  <2>2. ASSUME NEW sought \in BOOLEAN, NEW fetched \in BOOLEAN,
               CompareSignature(sought, fetched)
        PROVE  UNCHANGED Choice!vars
    <3>1. phase = "check" /\ phase' \in {"check", "open"} /\ UNCHANGED <<attempts, in_archive>>
      BY <2>2 DEF CompareSignature, Untouched
    <3> QED BY <3>1, QuietStutters
  <2>3. CASE Exhausted
    <3>1. Untried = {}
      BY <2>3, FormatsAssumption DEF Exhausted, IInv, TypeOK, Bookkeeping, Untried, Fmt
    <3>2. Answer = "pending" /\ Answer' = "unknown" /\ Untried' = Untried
      BY <2>3 DEF Exhausted, Answer, Untried, PasswordErrors
    <3>3. Choice!GiveUp
      BY <2>3, <3>1, <3>2 DEF Exhausted, Choice!GiveUp, Untried, Answer
    <3> QED BY <3>3 DEF Choice!Next
  <2>4. ASSUME NEW r \in Results, OpenMatched(r) PROVE Choice!Next
    <3>1. i \in Fmt /\ i \notin formats_checked
      BY <2>4 DEF OpenMatched, IInv, Bookkeeping, TypeOK, Fmt
    <3>2. attempts[i] = 0
      BY <2>4, <3>1 DEF OpenMatched, IInv, Bookkeeping
    <3>3. /\ IF r \in Decisive THEN phase' = "returned" /\ result' = r
                                ELSE phase' # "returned"
          /\ phase \in {"open", "others"} /\ content' = content
      BY <2>4 DEF OpenMatched, Ends
    <3>4. PICK f \in Fmt : f = i
      BY <3>1
    <3>5. TryFormat(f, r)
      BY <2>4, <3>4 DEF OpenMatched, TryFormat, Keep
    <3> QED BY <3>2, <3>3, <3>4, <3>5, AttemptRefines
  <2>5. ASSUME NEW r \in Results, OpenUnchecked(r) PROVE Choice!Next
    <3>1. i \in Fmt /\ attempts[i] = 0
      BY <2>5, FormatsAssumption DEF OpenUnchecked, IInv, Bookkeeping, TypeOK, Fmt
    <3>2. /\ IF r \in Decisive THEN phase' = "returned" /\ result' = r
                                ELSE phase' # "returned"
          /\ phase \in {"open", "others"} /\ content' = content
      BY <2>5 DEF OpenUnchecked, Ends
    <3>3. PICK f \in Fmt : f = i
      BY <3>1
    <3>4. TryFormat(f, r)
      BY <2>5, <3>3 DEF OpenUnchecked, TryFormat, Keep
    <3> QED BY <3>1, <3>2, <3>3, <3>4, AttemptRefines
  <2>6. CASE UNCHANGED vars
    <3>1. Untried' = Untried /\ Answer' = Answer /\ in_archive' = in_archive
      BY <2>6 DEF vars, Untried, Answer
    <3> QED BY <3>1 DEF Choice!vars, Untried, Answer
  <2> QED BY <2>1, <2>2, <2>3, <2>4, <2>5, <2>6 DEF Next
<1> QED BY Invariance, <1>1, <1>2, PTL DEF Spec, ImplementsChoice, Choice!Spec
-----------------------------------------------------------------------------

\* How far OpenedForItsSignature, which a run refutes, is from the truth: a format that
\* is opened for a signature has one somewhere in the stream, and at its offset unless
\* a Seek or a read has failed.
OpenedForBytesThere ==
  phase = "open" =>
    \E k \in 1..Len(Signatures(i)), at \in Nat :
      /\ FoundAt(at, Signatures(i)[k])
      /\ ioFailed \/ at = Formats[i].offset

\* Whatever fails, the first pass opens no format without a signature of its own.
THEOREM OpenedForBytesThereHolds == Spec => []OpenedForBytesThere
<1>1. Init => OpenedForBytesThere
  BY DEF Init, OpenedForBytesThere
<1>2. IInv /\ OpenedForBytesThere /\ [Next]_vars => OpenedForBytesThere'
  <2> SUFFICES ASSUME IInv, OpenedForBytesThere, [Next]_vars, phase' = "open"
               PROVE  OpenedForBytesThere'
    BY DEF OpenedForBytesThere
  <2>1. ASSUME NEW sought \in BOOLEAN, NEW fetched \in BOOLEAN,
               CompareSignature(sought, fetched)
        PROVE  OpenedForBytesThere'
    <3> DEFINE signature == Signatures(i)[j]
               at == IF sought THEN Formats[i].offset ELSE pos
    <3>1. /\ i \in Fmt /\ j \in 1..Len(Signatures(i)) /\ content \in Seq(Nat)
          /\ UNCHANGED <<i, content>> /\ ioFailed' = (ioFailed \/ ~sought \/ ~fetched)
      BY <2>1, TableTypes DEF CompareSignature, IInv, TypeOK
    <3>2. signature \in Seq(Nat) /\ at \in Nat
      BY <3>1, TableTypes DEF IInv, TypeOK
    <3>3. fetched /\ ReadFully(at, Len(signature)) = signature
      BY <2>1 DEF CompareSignature
    <3>4. FoundAt(at, signature)
      <4> HIDE DEF at, signature
      <4> QED BY <3>1, <3>2, <3>3, ReadFindsBytes
    <3>5. PICK k \in 1..Len(Signatures(i)), o \in Nat :
            FoundAt(o, Signatures(i)[k]) /\ (ioFailed' \/ o = Formats[i].offset)
      BY <3>1, <3>2, <3>3, <3>4
    <3>6. FoundAt(o, Signatures(i)[k])' /\ Signatures(i)' = Signatures(i)
      BY <3>1, <3>5 DEF FoundAt, Signatures
    <3> QED BY <3>1, <3>5, <3>6 DEF OpenedForBytesThere
  <2>2. CASE UNCHANGED vars
    BY <2>2 DEF vars, OpenedForBytesThere, FoundAt
  <2>3. CASE ~\E sought, fetched \in BOOLEAN : CompareSignature(sought, fetched)
    BY <2>2, <2>3 DEF Next, NextFormat, SeekFails, SecondPass, SkipChecked, Exhausted,
       OpenMatched, OpenUnchecked, vars, OpenedForBytesThere, FoundAt
  <2> QED BY <2>1, <2>3
<1> QED BY <1>1, <1>2, Invariance, PTL DEF Spec
-----------------------------------------------------------------------------

\* Where the search is: its pass over the table, its format, and its place in the
\* round of a format, the signatures first and then the opening.
Pass == IF phase \in {"check", "open"} THEN 1 ELSE IF phase = "others" THEN 2 ELSE 3

LastPlace == IF i \in Fmt THEN Len(Signatures(i)) + 2 ELSE 1

Place == IF phase = "open" THEN LastPlace ELSE IF phase = "check" THEN j ELSE 1

\* The search has an end: it stays within two passes over the table and a round of
\* bounded length for each format.
SearchBounded ==
  /\ Pass \in 1..3 /\ i \in 1..(Len(Formats) + 1) /\ Place \in 1..LastPlace
  /\ phase = "check" /\ i \in Fmt => j < LastPlace

\* Every step brings it nearer to it: none goes back, and none stays where it was,
\* whichever calls fail and whatever the handlers answer.
Advances ==
  \/ Pass' > Pass
  \/ Pass' = Pass /\ i' > i
  \/ Pass' = Pass /\ i' = i /\ Place' > Place

\* The round of a format begins at its first place.
LEMMA PlaceStarts ==
  ASSUME IInv, SearchBounded, i' \in Nat, phase' # "open", phase' = "check" => j' = 1
  PROVE  Place' \in 1..LastPlace' /\ (phase' = "check" /\ i' \in Fmt => j' < LastPlace')
<1>1. i' \in Fmt => Len(Signatures(i')) \in Nat
  BY TableTypes
<1>2. LastPlace' = IF i' \in Fmt THEN Len(Signatures(i')) + 2 ELSE 1
  BY DEF LastPlace, Signatures
<1> QED BY <1>1, <1>2 DEF Place

\* Every step of the search advances it within its bounds.
LEMMA SearchStep ==
  IInv /\ SearchBounded /\ Next => SearchBounded' /\ Advances
<1> SUFFICES ASSUME IInv, SearchBounded, Next PROVE SearchBounded' /\ Advances
  OBVIOUS
<1>0. /\ Len(Formats) \in Nat /\ i \in Nat /\ j \in Nat /\ j > 0
      /\ i \in 1..(Len(Formats) + 1) /\ Fmt = 1..Len(Formats)
      /\ i \in Fmt => Len(Signatures(i)) \in Nat
  BY FormatsAssumption, TableTypes DEF IInv, TypeOK, Fmt
<1>1. ASSUME i' = i PROVE LastPlace' = LastPlace
  BY <1>1 DEF LastPlace, Signatures
<1>2. CASE NextFormat
  <2>1. /\ i' = i + 1 /\ i' \in 1..(Len(Formats) + 1) /\ phase = "check" /\ phase' = phase
        /\ j' = 1
    BY <1>0, <1>2 DEF NextFormat
  <2> QED BY <1>0, <2>1, PlaceStarts DEF SearchBounded, Advances, Pass
<1>3. CASE SeekFails
  <2>1. /\ i' = i /\ i \in Fmt /\ phase = "check" /\ phase' = "check" /\ j' = j + 1
        /\ j <= Len(Signatures(i))
    BY <1>3 DEF SeekFails, NextSignature
  <2> QED BY <1>0, <1>1, <2>1 DEF SearchBounded, Advances, Pass, Place, LastPlace
<1>4. ASSUME NEW sought \in BOOLEAN, NEW fetched \in BOOLEAN, CompareSignature(sought, fetched)
      PROVE  SearchBounded' /\ Advances
  <2>1. /\ i' = i /\ i \in Fmt /\ phase = "check" /\ j <= Len(Signatures(i))
        /\ \/ phase' = "open" /\ j' = j
           \/ phase' = "check" /\ j' = j + 1
    BY <1>4 DEF CompareSignature, NextSignature
  <2> QED BY <1>0, <1>1, <2>1 DEF SearchBounded, Advances, Pass, Place, LastPlace
<1>5. CASE SecondPass
  <2>1. i' = 1 /\ phase = "check" /\ phase' = "others"
    BY <1>5 DEF SecondPass
  <2> QED BY <1>0, <2>1, PlaceStarts DEF SearchBounded, Advances, Pass
<1>6. CASE SkipChecked
  <2>1. i' = i + 1 /\ i \in Fmt /\ phase = "others" /\ phase' = "others"
    BY <1>0, <1>6 DEF SkipChecked, IInv, TypeOK
  <2> QED BY <1>0, <2>1, PlaceStarts DEF SearchBounded, Advances, Pass
<1>7. CASE Exhausted
  <2>1. i' = i /\ phase = "others" /\ phase' = "returned"
    BY <1>7 DEF Exhausted
  <2> QED BY <1>0, <2>1, PlaceStarts DEF SearchBounded, Advances, Pass
<1>8. ASSUME NEW r \in Results, OpenMatched(r) PROVE SearchBounded' /\ Advances
  <2>1. /\ i \in Fmt /\ phase = "open"
        /\ \/ phase' = "returned" /\ i' = i
           \/ phase' = "check" /\ i' = i + 1 /\ j' = 1
    BY <1>8 DEF OpenMatched, IInv, Bookkeeping
  <2> QED BY <1>0, <2>1, PlaceStarts DEF SearchBounded, Advances, Pass
<1>9. ASSUME NEW r \in Results, OpenUnchecked(r) PROVE SearchBounded' /\ Advances
  <2>1. /\ i \in Fmt /\ phase = "others"
        /\ \/ phase' = "returned" /\ i' = i
           \/ phase' = "others" /\ i' = i + 1
    BY <1>9 DEF OpenUnchecked
  <2> QED BY <1>0, <2>1, PlaceStarts DEF SearchBounded, Advances, Pass
<1> QED BY <1>2, <1>3, <1>4, <1>5, <1>6, <1>7, <1>8, <1>9 DEF Next

\* What makes Terminates true for every table: each step moves the search forward in an
\* order that has an end.  (That a step is taken while one is possible is fairness.)
THEOREM SearchAdvances == Spec => []SearchBounded /\ [][Advances]_vars
<1>1. Init => SearchBounded
  <2> SUFFICES ASSUME Init PROVE SearchBounded
    OBVIOUS
  <2>1. Len(Formats) \in Nat /\ (1 \in Fmt => Len(Signatures(1)) \in Nat)
    BY FormatsAssumption, TableTypes
  <2> QED BY <2>1 DEF Init, SearchBounded, Pass, Place, LastPlace
<1>2. IInv /\ SearchBounded /\ [Next]_vars => SearchBounded'
  <2>1. ASSUME UNCHANGED vars, SearchBounded PROVE SearchBounded'
    BY <2>1 DEF vars, SearchBounded, Pass, Place, LastPlace, Signatures
  <2> QED BY <2>1, SearchStep
<1>3. IInv /\ SearchBounded /\ [Next]_vars => [Advances]_vars
  BY SearchStep
<1> QED BY <1>1, <1>2, <1>3, Invariance, PTL DEF Spec
=============================================================================
