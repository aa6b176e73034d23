--------------------------- MODULE FormatDetection ---------------------------
(***************************************************************************)
(* The search for the format of a stream: the two OpenInArchive functions  *)
(* of SevenZip.cpp, with ReadFully and the password side of                *)
(* ArchiveOpenCallback.  A first pass tries the formats one of whose       *)
(* signatures is found in the stream, a second pass every other format.    *)
(*                                                                         *)
(* The stream is a sequence of bytes and a position.  Every Seek and every *)
(* read may fail, because each is a call into a Java stream.  A failed     *)
(* Seek does not write *newPosition; the caller reads that variable all    *)
(* the same (CONTINUE_IF_NOT_ZERO hides its `continue' in a do-while of    *)
(* its own, so a failure does not leave the round), and finds whatever     *)
(* value the stack held: an arbitrary position.                            *)
(*                                                                         *)
(* A format handler belongs to p7zip.  It may refuse the stream or take    *)
(* it, with or without asking for the password, and leaves the stream at   *)
(* any position.                                                           *)
(***************************************************************************)
EXTENDS Naturals, Sequences

CONSTANTS
  Formats,     \* SevenZip.cpp's `formats': [offset, signatures] each
  Contents,    \* the streams the search may be given
  NoFormat     \* in_archive = nullptr

ASSUME FormatsAssumption ==
  Formats \in Seq([offset : Nat, signatures : Seq(Seq(Nat))])

ASSUME ContentsAssumption == Contents \subseteq Seq(Nat)

ASSUME NoFormatAssumption == NoFormat \notin Nat

VARIABLES
  content,          \* the bytes of in_stream
  pos,              \* the position of in_stream
  password,         \* "null" or "given"
  phase,            \* "check" a signature, "open" its format, "others", "returned"
  i, j,             \* the loop variables: a format, one of its signatures
  formats_checked,  \* the formats marked in the array of that name
  handlers,         \* the formats for which a handler object exists and is open
  in_archive,       \* the format of the handler the caller's pointer holds
  result,           \* what the search returned
  attempts,         \* history: how often each format was opened
  outcome,          \* history: what each format answered
  ioFailed          \* history: a Seek or a read of the search itself has failed

vars == <<content, pos, password, phase, i, j, formats_checked, handlers,
          in_archive, result, attempts, outcome, ioFailed>>

Fmt == 1..Len(Formats)

Signatures(f) == Formats[f].signatures

PasswordErrors == {"E_NO_PASSWORD", "E_WRONG_PASSWORD"}

\* The answers that should end the search, and all that one attempt may answer.
Decisive == {"S_OK"} \cup PasswordErrors

Results == Decisive \cup {"S_FALSE", "E_JAVA_EXCEPTION", "CLASS_E_CLASSNOTAVAILABLE"}

\* The slips after which TLC must find a property violated: a password error does
\* not end the search, or an I/O error does; the mark is forgotten, or set on the
\* next format; a refused handler is not closed; the first signature that is not
\* found is taken for the last one; the loop does not move on.
EndsWhenOpened(r) == r = "S_OK"
EndsOnAnyError(r) == r # "S_FALSE"
MarkNothing(f)    == formats_checked
MarkNext(f)       == formats_checked \cup {f + 1}
KeepAny(f, r)     == handlers \cup {f}
BreakOnMismatch   == Len(Signatures(i)) + 1
SameSignature     == j

-----------------------------------------------------------------------------

Smaller(a, b) == IF a <= b THEN a ELSE b

\* The bytes that reading n bytes from position `at' yields: fewer at the end.
ReadFully(at, n) == SubSeq(content, at + 1, Smaller(at + n, Len(content)))

\* ArchiveOpenCallback::GetBetterResult: a failure after the handler asked for
\* the password is blamed on the password.
GetBetterResult(raw, asked) ==
  IF raw = "S_OK" \/ ~asked THEN raw
  ELSE IF password = "given" THEN "E_WRONG_PASSWORD" ELSE "E_NO_PASSWORD"

\* The searcher returns what the format answered.
Ends(r) == r \in Decisive

\* The opened format is marked.
Mark(f) == formats_checked \cup {f}

\* A handler that did not open is closed and dropped.
Keep(f, r) == IF r = "S_OK" THEN handlers \cup {f} ELSE handlers

\* The signature loop goes on.
NextSignature == j + 1

\* OpenInArchive for one class id, answering r: CreateObject, Seek(0), Open.
TryFormat(f, r) ==
  /\ attempts' = [attempts EXCEPT ![f] = @ + 1]
  /\ outcome' = [outcome EXCEPT ![f] = r]
  /\ handlers' = Keep(f, r)
  /\ in_archive' = IF r = "S_OK" THEN f ELSE NoFormat
  /\ \/ /\ r = "CLASS_E_CLASSNOTAVAILABLE"
        /\ UNCHANGED <<pos, ioFailed>>
     \/ /\ r = "E_JAVA_EXCEPTION"
        /\ ioFailed' = TRUE
        /\ UNCHANGED pos
     \/ \E raw \in {"S_OK", "S_FALSE"}, asked \in BOOLEAN :
          /\ r = GetBetterResult(raw, asked)
          /\ pos' \in 0..Len(content)
          /\ UNCHANGED ioFailed

Init ==
  /\ content \in Contents
  /\ pos = 0
  /\ password \in {"null", "given"}
  /\ phase = "check" /\ i = 1 /\ j = 1
  /\ formats_checked = {} /\ handlers = {} /\ in_archive = NoFormat
  /\ result = "none"
  /\ attempts = [f \in Fmt |-> 0]
  /\ outcome = [f \in Fmt |-> "untried"]
  /\ ioFailed = FALSE

Untouched == UNCHANGED <<formats_checked, handlers, in_archive, result, attempts, outcome>>

\* A format without signatures, or none of whose signatures was found.
NextFormat ==
  /\ phase = "check" /\ i \in Fmt /\ j > Len(Signatures(i))
  /\ i' = i + 1 /\ j' = 1
  /\ Untouched
  /\ UNCHANGED <<content, pos, password, phase, ioFailed>>

\* The Seek fails and the stale newPosition is not the offset: next signature.
SeekFails ==
  /\ phase = "check" /\ i \in Fmt /\ j <= Len(Signatures(i))
  /\ ioFailed' = TRUE
  /\ j' = NextSignature
  /\ Untouched
  /\ UNCHANGED <<content, pos, password, phase, i>>

\* The signature is compared with the bytes at the offset, or, when the Seek
\* failed and the stale newPosition happens to be the offset, with those at the
\* position the stream was left at.  A failed read yields no byte at all.
CompareSignature(sought, fetched) ==
  LET offset    == Formats[i].offset
      signature == Signatures(i)[j]
      at        == IF sought THEN offset ELSE pos
      bytes     == IF fetched THEN ReadFully(at, Len(signature)) ELSE << >>
  IN
  /\ phase = "check" /\ i \in Fmt /\ j <= Len(Signatures(i))
  /\ fetched \/ signature # << >>
  /\ ioFailed' = (ioFailed \/ ~sought \/ ~fetched)
  /\ pos' \in IF fetched THEN {at + Len(bytes)} ELSE at..(at + Len(signature))
  /\ IF bytes = signature THEN phase' = "open" /\ UNCHANGED j
                          ELSE j' = NextSignature /\ UNCHANGED phase
  /\ Untouched
  /\ UNCHANGED <<content, password, i>>

\* A signature was found: the format is tried and marked, and a refusal breaks
\* out of the loop over its signatures.
OpenMatched(r) ==
  /\ phase = "open"
  /\ TryFormat(i, r)
  /\ formats_checked' = Mark(i)
  /\ IF Ends(r)
     THEN phase' = "returned" /\ result' = r /\ UNCHANGED <<i, j>>
     ELSE phase' = "check" /\ i' = i + 1 /\ j' = 1 /\ UNCHANGED result
  /\ UNCHANGED <<content, password>>

SecondPass ==
  /\ phase = "check" /\ i > Len(Formats)
  /\ phase' = "others" /\ i' = 1
  /\ Untouched
  /\ UNCHANGED <<content, pos, password, j, ioFailed>>

SkipChecked ==
  /\ phase = "others" /\ i \in formats_checked
  /\ i' = i + 1
  /\ Untouched
  /\ UNCHANGED <<content, pos, password, phase, j, ioFailed>>

OpenUnchecked(r) ==
  /\ phase = "others" /\ i \in Fmt \ formats_checked
  /\ TryFormat(i, r)
  /\ IF Ends(r)
     THEN phase' = "returned" /\ result' = r /\ UNCHANGED i
     ELSE i' = i + 1 /\ UNCHANGED <<phase, result>>
  /\ UNCHANGED <<content, password, j, formats_checked>>

Exhausted ==
  /\ phase = "others" /\ i > Len(Formats)
  /\ phase' = "returned" /\ result' = "E_UNKNOWN_FORMAT"
  /\ UNCHANGED <<content, pos, password, i, j, formats_checked, handlers,
                 in_archive, attempts, outcome, ioFailed>>

Next ==
  \/ NextFormat \/ SeekFails \/ SecondPass \/ SkipChecked \/ Exhausted
  \/ \E sought, fetched \in BOOLEAN : CompareSignature(sought, fetched)
  \/ \E r \in Results : OpenMatched(r) \/ OpenUnchecked(r)

Spec == Init /\ [][Next]_vars

\* One thread runs the search to its end: every step is a step of that thread.
FairSpec == Spec /\ WF_vars(Next)

-----------------------------------------------------------------------------

TypeOK ==
  /\ content \in Seq(Nat) /\ pos \in Nat
  /\ password \in {"null", "given"}
  /\ phase \in {"check", "open", "others", "returned"}
  /\ i \in 1..(Len(Formats) + 1) /\ j \in Nat \ {0}
  /\ formats_checked \subseteq Fmt /\ handlers \subseteq Fmt
  /\ in_archive \in Fmt \cup {NoFormat}
  /\ result \in Decisive \cup {"none", "E_UNKNOWN_FORMAT"}
  /\ attempts \in [Fmt -> Nat]
  /\ outcome \in [Fmt -> Results \cup {"untried"}]
  /\ ioFailed \in BOOLEAN

\* The stream really has the format's k-th signature at the format's offset.
Found(f, k) ==
  LET offset == Formats[f].offset  signature == Signatures(f)[k] IN
  \A b \in 1..Len(signature) :
    offset + b <= Len(content) /\ content[offset + b] = signature[b]

Matches(f) == \E k \in 1..Len(Signatures(f)) : Found(f, k)

\* No format is given the stream twice, however its signatures match and
\* whatever fails in between: the second pass and the signature loop's `break'
\* leave out every format the first pass has opened.
TriedAtMostOnce == \A f \in Fmt : attempts[f] <= 1

\* E_UNKNOWN_FORMAT is returned only when every format was tried and none of
\* them took the stream or asked for a password; S_OK is returned with the one
\* open handler in the caller's pointer, every other result with no handler.
VerdictIsJustified ==
  phase = "returned" =>
    /\ result = "E_UNKNOWN_FORMAT" =>
         \A f \in Fmt : attempts[f] > 0 /\ outcome[f] \notin Decisive
    /\ result \in Decisive => \E f \in Fmt : outcome[f] = result
    /\ handlers = IF result = "S_OK" THEN {in_archive} ELSE {}
    /\ result = "S_OK" <=> in_archive # NoFormat

\* While the search itself has met no I/O failure, a format none of whose
\* signatures is in the stream is tried only after every format that has one
\* there: a stream is never taken by a format that guesses while a format that
\* recognises it is waiting.
MatchingFormatsFirst ==
  [][\A f \in Fmt :
       attempts'[f] # attempts[f] /\ ~Matches(f) /\ ~ioFailed
         => \A g \in Fmt : Matches(g) => attempts[g] > 0]_vars

\* After a format has taken the stream, or has asked for a password in vain,
\* no format is tried any more ("the archive format is confirmed").
NothingAfterDecision ==
  [][attempts' # attempts => \A f \in Fmt : outcome[f] \notin Decisive]_vars

\* "The signature matched, try to open it": a format opened for its signature
\* has one of its signatures in the stream, at the signature's offset.
OpenedForItsSignature == phase = "open" => Matches(i)

\* The search ends, whatever fails and whatever the handlers answer.
Terminates == <>(phase = "returned")

\* The search implements FormatChoice: the untried formats are those the search
\* has not given the stream to.
Choice == INSTANCE FormatChoice WITH
  untried <- {f \in Fmt : attempts[f] = 0},
  answer  <- IF phase # "returned" THEN "pending"
             ELSE IF result = "S_OK" THEN "opened"
             ELSE IF result \in PasswordErrors THEN "password" ELSE "unknown",
  chosen  <- in_archive

ImplementsChoice == Choice!Spec
=============================================================================
