---------------------------- MODULE ExtractEntry ----------------------------
(***************************************************************************)
(* One call of InArchive.extractEntry: the Java method, NativeExtractEntry *)
(* of JavaInArchive.cpp, InArchive::ExtractEntry with the callback it      *)
(* gives to p7zip (ArchiveExtractCallback), and the OutputStream that      *)
(* carries the data to the java.io.OutputStream of the caller, the sink.   *)
(*                                                                         *)
(* The handler is p7zip's.  To reach an entry of a solid block it decodes  *)
(* the entries before it, and asks the callback for a stream for each.  An *)
(* encrypted entry makes it ask for the password.  Data is a sequence of   *)
(* chunks, each marked with its entry, its number and whether it was       *)
(* decoded well; a sink may refuse a chunk and may fail to close.  The     *)
(* sink conforms to java.io.Closeable: closing it again has no effect.     *)
(* What a callback answers other than S_OK ends Extract with that answer;  *)
(* Extract may also fail of itself at any point.                           *)
(***************************************************************************)
EXTENDS Naturals, Sequences

CONSTANTS
  NEntries,   \* the entries of the archive are 1..NEntries
  NChunks     \* the chunks of an entry

ASSUME SizeAssumption == NEntries \in Nat \ {0} /\ NChunks \in Nat

Entries == 1..NEntries

VARIABLES
  index,         \* the entry asked for
  password,      \* the argument: "null", "right" or "wrong"
  encrypted,     \* the entries that need the password
  damaged,       \* the entries whose data is damaged
  pc,            \* where the thread is
  item, chunk,   \* the handler's entry, and the chunks it has decoded of it
  target,        \* the stream it writes to: "none", "sink" or "hole"
  asked,         \* has_asked_password
  broken,        \* history: Extract has failed of itself
  result,        \* the HRESULT
  holders,       \* the pointers to the native OutputStream
  pending,       \* the Java exception pending in the native method
  sink,          \* the chunks the sink has taken
  sinkClosed,    \* the sink is closed
  refused,       \* history: the sink has refused a chunk
  closeFailed,   \* history: the sink has thrown an exception from close
  thrown         \* what extractEntry throws

environment == <<index, password, encrypted, damaged>>
handler == <<item, chunk, target, asked, broken>>
output == <<sink, sinkClosed, refused, closeFailed>>
vars == <<environment, handler, output, pc, result, holders, pending, thrown>>

PasswordErrors == {"E_NO_PASSWORD", "E_WRONG_PASSWORD"}

OperationResults == {"kOK", "kDataError", "kWrongPassword"}

Errors == PasswordErrors \cup {"E_DATA_ERROR", "E_JAVA_EXCEPTION", "E_OUTOFMEMORY"}

Exceptions == {"none", "IllegalState", "Archive", "Password", "CloseFailed"}

-----------------------------------------------------------------------------

\* The slips after which TLC must find a property violated: every entry's data
\* goes to the sink; an operation result is taken for success; the password is
\* blamed for every failure; the stream is not released before the throw; Java
\* leaves the sink to the native code; an operation result is returned as it is.
StreamForAnyEntry(k)   == "sink"
AlwaysContinue(opRes)  == "S_OK"
BlamePassword(r)       == IF r = "S_OK" THEN r
                          ELSE IF password = "null" THEN "E_NO_PASSWORD" ELSE "E_WRONG_PASSWORD"
KeepOutStream          == holders
LeaveSink              == UNCHANGED <<sinkClosed, closeFailed>>
ReturnCode(opRes)      == IF opRes = "kOK" THEN "S_OK" ELSE opRes

\* ArchiveExtractCallback::GetStream: the sink for the entry asked for, a black
\* hole for every other one.
GetStream(k) == IF k = index THEN "sink" ELSE "hole"

\* ArchiveExtractCallback::SetOperationResult: anything but kOK stops Extract.
SetOperationResult(opRes) ==
  CASE opRes = "kOK"            -> "S_OK"
    [] opRes = "kWrongPassword" -> "E_WRONG_PASSWORD"
    [] OTHER                    -> "E_DATA_ERROR"

\* ArchiveExtractCallback::GetBetterResult.
GetBetterResult(r) ==
  IF r = "S_OK" \/ ~asked THEN r
  ELSE IF password = "null" THEN "E_NO_PASSWORD" ELSE "E_WRONG_PASSWORD"

\* THROW_ARCHIVE_EXCEPTION.
ExceptionFor(r) == IF r \in PasswordErrors THEN "Password" ELSE "Archive"

\* NativeExtractEntry: out_stream.Release() before the exception is thrown.
WithoutOutStream == holders \ {"out_stream"}

\* The entries a handler may begin with to reach the one asked for.
FirstItems == 1..index

\* The first close of the sink may fail; another has no effect.
CloseSink ==
  /\ sinkClosed' = TRUE
  /\ IF sinkClosed THEN UNCHANGED closeFailed ELSE closeFailed' \in BOOLEAN

\* The finally clause of extractEntry closes the sink.
FinallyClose == CloseSink

\* The pointers become h: ~OutputStream closes the sink and drops what it throws.
Settle(h) ==
  /\ holders' = h
  /\ IF holders # {} /\ h = {} THEN CloseSink ELSE UNCHANGED <<sinkClosed, closeFailed>>

\* The entry decodes to its true content.
Sound(k) == k \notin damaged /\ (k \in encrypted => password = "right")

Init ==
  /\ index \in Entries /\ password \in {"null", "right", "wrong"}
  /\ encrypted \in SUBSET Entries /\ damaged \in SUBSET Entries
  /\ pc = "call"
  /\ item = 0 /\ chunk = 0 /\ target = "none" /\ asked = FALSE /\ broken = FALSE
  /\ result = "S_OK" /\ holders = {} /\ pending = "none"
  /\ sink = << >> /\ sinkClosed = FALSE /\ refused = FALSE /\ closeFailed = FALSE
  /\ thrown = "none"

\* checkClosed throws before the native method is reached.
CallOnClosed ==
  /\ pc = "call"
  /\ pc' = "finally" /\ thrown' = "IllegalState"
  /\ UNCHANGED <<environment, handler, output, result, holders, pending>>

CreateOutStream ==
  /\ pc = "call"
  /\ \/ pc' = "extract" /\ holders' = {"out_stream"} /\ UNCHANGED result
     \/ pc' = "throw" /\ result' = "E_OUTOFMEMORY" /\ UNCHANGED holders
  /\ UNCHANGED <<environment, handler, output, pending, thrown>>

StartExtract ==
  /\ pc = "extract"
  /\ pc' = "item"
  /\ holders' = holders \cup {"callback"}
  /\ item' \in FirstItems
  /\ UNCHANGED <<environment, output, chunk, target, asked, broken, result, pending, thrown>>

\* An entry that is not encrypted, or whose password was given already.
BeginItem ==
  /\ pc = "item" /\ (item \in encrypted => asked)
  /\ pc' = "write"
  /\ target' = GetStream(item) /\ chunk' = 0
  /\ holders' = IF target' = "sink" THEN holders \cup {"handler"} ELSE holders
  /\ UNCHANGED <<environment, output, item, asked, broken, result, pending, thrown>>

\* ArchiveExtractCallback::CryptoGetTextPassword.
AskPassword ==
  /\ pc = "item" /\ item \in encrypted /\ ~asked
  /\ asked' = TRUE
  /\ IF password = "null" THEN result' = "E_NO_PASSWORD" /\ pc' = "extracted"
                          ELSE UNCHANGED <<result, pc>>
  /\ UNCHANGED <<environment, output, item, chunk, target, broken, holders, pending, thrown>>

\* The handler decodes a chunk: a black hole takes it, the sink may refuse it.
WriteChunk ==
  /\ pc = "write" /\ chunk < NChunks
  /\ \/ /\ chunk' = chunk + 1
        /\ sink' = IF target = "sink"
                   THEN Append(sink, [entry |-> item, nr |-> chunk + 1, good |-> Sound(item)])
                   ELSE sink
        /\ UNCHANGED <<pc, target, holders, result, refused>>
     \/ /\ target = "sink"
        /\ refused' = TRUE /\ result' = "E_JAVA_EXCEPTION" /\ pc' = "extracted"
        /\ target' = "none" /\ holders' = holders \ {"handler"}
        /\ UNCHANGED <<chunk, sink>>
  /\ UNCHANGED <<environment, item, asked, broken, sinkClosed, closeFailed, pending, thrown>>

\* The handler gives its stream back and reports how the entry went: kOK after
\* all of a sound entry, an error at any point of another, kWrongPassword when it
\* can tell.
FinishItem(opRes) ==
  /\ pc = "write"
  /\ IF Sound(item) THEN opRes = "kOK" /\ chunk = NChunks ELSE opRes # "kOK"
  /\ opRes = "kWrongPassword" => item \in encrypted /\ password = "wrong"
  /\ target' = "none" /\ holders' = holders \ {"handler"}
  /\ result' = SetOperationResult(opRes)
  /\ IF result' = "S_OK" /\ item < index
     THEN pc' = "item" /\ item' = item + 1
     ELSE pc' = "extracted" /\ UNCHANGED item
  /\ UNCHANGED <<environment, output, chunk, asked, broken, pending, thrown>>

\* Extract ends with an HRESULT of its own, before, within, between or behind entries
\* however sound they are: a read of the archive's stream throws an exception in Java,
\* or there is no memory.
ExtractFails ==
  /\ pc \in {"item", "write", "extracted"} /\ result = "S_OK"
  /\ pc' = "extracted" /\ result' \in {"E_JAVA_EXCEPTION", "E_OUTOFMEMORY"}
  /\ broken' = TRUE
  /\ target' = "none" /\ holders' = holders \ {"handler"}
  /\ UNCHANGED <<environment, output, item, chunk, asked, pending, thrown>>

\* InArchive::ExtractEntry returns; the callback and its pointer are gone.
ExtractReturns ==
  /\ pc = "extracted"
  /\ result' = GetBetterResult(result)
  /\ pc' = IF result' = "S_OK" THEN "return" ELSE "release"
  /\ Settle(holders \ {"callback"})
  /\ UNCHANGED <<environment, handler, sink, refused, pending, thrown>>

\* "Call java methods before throw exception".
ReleaseOutStream ==
  /\ pc = "release"
  /\ pc' = "throw"
  /\ Settle(WithoutOutStream)
  /\ UNCHANGED <<environment, handler, sink, refused, result, pending, thrown>>

Throw ==
  /\ pc = "throw"
  /\ pc' = "return" /\ pending' = ExceptionFor(result)
  /\ UNCHANGED <<environment, handler, output, result, holders, thrown>>

\* The native method returns: out_stream goes out of scope.
NativeReturns ==
  /\ pc = "return"
  /\ pc' = "finally" /\ thrown' = pending
  /\ Settle({})
  /\ UNCHANGED <<environment, handler, sink, refused, result, pending>>

\* The finally clause: an IOException of close replaces what was being thrown.
Finally ==
  /\ pc = "finally"
  /\ pc' = "done"
  /\ FinallyClose
  /\ thrown' = IF closeFailed' # closeFailed THEN "CloseFailed" ELSE thrown
  /\ UNCHANGED <<environment, handler, sink, refused, result, holders, pending>>

Next ==
  \/ CallOnClosed \/ CreateOutStream \/ StartExtract \/ BeginItem \/ AskPassword
  \/ WriteChunk \/ (\E opRes \in OperationResults : FinishItem(opRes))
  \/ ExtractFails \/ ExtractReturns \/ ReleaseOutStream \/ Throw \/ NativeReturns \/ Finally

Spec == Init /\ [][Next]_vars

-----------------------------------------------------------------------------

Chunks == [entry : Entries, nr : 1..NChunks, good : BOOLEAN]

TypeOK ==
  /\ index \in Entries /\ password \in {"null", "right", "wrong"}
  /\ encrypted \subseteq Entries /\ damaged \subseteq Entries
  /\ pc \in {"call", "extract", "item", "write", "extracted", "release", "throw",
             "return", "finally", "done"}
  /\ item \in Entries \cup {0} /\ chunk \in 0..NChunks
  /\ target \in {"none", "sink", "hole"} /\ asked \in BOOLEAN /\ broken \in BOOLEAN
  /\ result \in {"S_OK"} \cup Errors
  /\ holders \subseteq {"out_stream", "callback", "handler"}
  /\ pending \in Exceptions /\ thrown \in Exceptions
  /\ sink \in Seq(Chunks) /\ sinkClosed \in BOOLEAN
  /\ refused \in BOOLEAN /\ closeFailed \in BOOLEAN

\* The content of an entry.
Content(k) == [n \in 1..NChunks |-> [entry |-> k, nr |-> n, good |-> TRUE]]

\* Whatever the handler decodes on its way, the sink receives chunks of the entry
\* asked for only, in order and without a gap.
OnlyTheEntryAskedFor ==
  \A n \in 1..Len(sink) : sink[n].entry = index /\ sink[n].nr = n

\* When extractEntry returns normally, the sink has taken the whole entry,
\* decoded well.
SuccessIsComplete ==
  pc = "done" /\ thrown = "none" => sink = Content(index) /\ ~refused

\* On every path, an archive closed before the call and an exception included,
\* the sink is closed when extractEntry ends ("it will be closed at the end of
\* this method").
SinkClosedAtTheEnd == pc = "done" => sinkClosed

\* A PasswordException is about a password: an entry on the way needs one, and
\* its message says that there was none exactly when there was none.
PasswordExceptionHasCause ==
  pc = "done" /\ thrown = "Password" =>
    /\ \E k \in 1..index : k \in encrypted
    /\ result = "E_NO_PASSWORD" <=> password = "null"

\* The sink is not written to after it was closed, and no native code calls its
\* close while an exception is pending ("Call java methods before throw
\* exception").
SinkProtocol ==
  [][/\ sink' # sink => ~sinkClosed
     /\ sinkClosed' # sinkClosed => pending = "none" \/ pc = "finally"]_vars

\* What the caller sees of the end of the call.
Ending ==
  IF pc # "done" THEN "none" ELSE IF thrown = "none" THEN "normal" ELSE "exception"

\* Entries before the one asked for, passwords, native streams and three places where
\* the sink may be closed make no difference to the sink: it is filled and closed as
\* EntryDelivery says.
Delivery == INSTANCE EntryDelivery WITH
  Contents <- {Content(k) : k \in Entries}, content <- Content(index),
  closed <- sinkClosed, answer <- Ending

ImplementsDelivery == Delivery!Spec

\* "it will be closed at the end of this method; throws ArchiveException if get
\* error": when the sink fails to close, the caller gets an exception.
CloseFailureIsReported == pc = "done" /\ closeFailed => thrown # "none"

\* E_WRONG_PASSWORD, "Wrong password", is the answer to a wrong password.
WrongPasswordIsWrong == pc = "done" /\ result = "E_WRONG_PASSWORD" => password # "right"
=============================================================================
