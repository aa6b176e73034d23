-------------------------- MODULE ExtractEntryProofs --------------------------
(***************************************************************************)
(* Proofs about ExtractEntry, for archives of any number of entries and    *)
(* entries of any number of chunks.                                        *)
(***************************************************************************)
EXTENDS ExtractEntry, SequenceTheorems, TLAPS

\* The n-th chunk that an extraction of the entry asked for gives.
ChunkOf(n) == [entry |-> index, nr |-> n, good |-> Sound(index)]

\* What the sink has: the chunks of the entry asked for, as many as the handler has
\* decoded of it, and all of them in sound condition once the extraction succeeded.
Taken ==
  /\ \A n \in 1..Len(sink) : sink[n] = ChunkOf(n)
  /\ pc \in {"call", "extract", "item"} => sink = << >>
  /\ pc \in {"item", "write"} => item \in 1..index
  /\ pc = "write" => target = GetStream(item)
  /\ pc = "write" => Len(sink) = IF item = index THEN chunk ELSE 0
  /\ pc \in {"extracted", "return"} /\ result = "S_OK" => Len(sink) = NChunks /\ Sound(index)
  /\ pc \in {"finally", "done"} /\ thrown = "none" => Len(sink) = NChunks /\ Sound(index)

\* What has happened is in the result, and the result is what is thrown.
Reported ==
  /\ pc \in {"call", "extract", "item", "write"} => result = "S_OK"
  /\ refused => result # "S_OK"
  /\ pc \in {"release", "throw"} => result # "S_OK"
  /\ pc \notin {"return", "finally", "done"} => pending = "none"
  /\ pc = "return" => pending = IF result = "S_OK" THEN "none" ELSE ExceptionFor(result)
  /\ pc \in {"finally", "done"} =>
       thrown \in {"IllegalState", "CloseFailed",
                   IF result = "S_OK" THEN "none" ELSE ExceptionFor(result)}
  /\ pc \notin {"finally", "done"} => thrown = "none"

\* A password is asked for, and found wrong, for an encrypted entry only.
PasswordAsked ==
  /\ asked => \E k \in 1..index : k \in encrypted
  /\ pc = "write" /\ item \in encrypted => asked
  /\ result \in PasswordErrors => asked /\ (result = "E_NO_PASSWORD" <=> password = "null")

\* Who holds the native stream, and when the sink may be closed.
SinkHeld ==
  /\ "handler" \in holders => pc = "write"
  /\ "callback" \in holders => pc \in {"item", "write", "extracted"}
  /\ pc \in {"call", "throw"} \/ pending # "none" => holders = {}
  /\ sinkClosed => pc \in {"release", "throw", "return", "finally", "done"}
  /\ pc = "done" => sinkClosed

IInv == TypeOK /\ Taken /\ Reported /\ PasswordAsked /\ SinkHeld

-----------------------------------------------------------------------------

\* The entries and the chunks are numbers.
LEMMA Numbers ==
  /\ NEntries \in Nat /\ NEntries > 0 /\ NChunks \in Nat
  /\ \A k \in Entries : k \in Nat /\ 1 <= k /\ k <= NEntries
  /\ \A k \in Nat : (1 <= k /\ k <= NEntries) => k \in Entries
  /\ \A k \in Entries : 1..k \subseteq Entries
BY SizeAssumption DEF Entries

\* Before the call nothing was opened, decoded or thrown.
LEMMA InitIInv == Init => IInv
<1> SUFFICES ASSUME Init PROVE IInv
  OBVIOUS
<1>1. TypeOK
  <2>1. chunk \in 0..NChunks /\ sink \in Seq(Chunks)
    BY Numbers DEF Init
  <2>2. /\ result \in {"S_OK"} \cup Errors /\ pending \in Exceptions /\ thrown \in Exceptions
        /\ holders \subseteq {"out_stream", "callback", "handler"}
    BY DEF Init, Exceptions
  <2> QED BY <2>1, <2>2 DEF Init, TypeOK
<1>2. Taken /\ Reported /\ SinkHeld
  BY DEF Init, Taken, Reported, SinkHeld
<1>3. PasswordAsked
  BY DEF Init, PasswordAsked, PasswordErrors
<1> QED BY <1>1, <1>2, <1>3 DEF IInv

\* Every step keeps the variables in their types.
LEMMA TypeNext == TypeOK /\ Taken /\ [Next]_vars => TypeOK'
<1> SUFFICES ASSUME TypeOK, Taken, [Next]_vars PROVE TypeOK'
  OBVIOUS
<1> USE DEF environment, handler, output
<1>1. CASE CallOnClosed
  BY <1>1 DEF CallOnClosed, TypeOK, Errors, PasswordErrors, Exceptions
<1>2. CASE CreateOutStream
  <2>1. /\ holders' \subseteq {"out_stream", "callback", "handler"}
        /\ result' \in {"S_OK"} \cup Errors
    BY <1>2 DEF CreateOutStream, TypeOK, Errors
  <2> QED BY <1>2, <2>1 DEF CreateOutStream, TypeOK
<1>3. CASE StartExtract
  BY <1>3, Numbers DEF StartExtract, FirstItems, TypeOK
<1>4. CASE BeginItem
  BY <1>4, Numbers DEF BeginItem, GetStream, TypeOK
<1>5. CASE AskPassword
  BY <1>5 DEF AskPassword, TypeOK, Errors, PasswordErrors, Exceptions
<1>6. CASE WriteChunk
  <2>1. chunk + 1 \in 1..NChunks /\ chunk + 1 \in 0..NChunks
    BY <1>6, Numbers DEF WriteChunk, TypeOK
  <2>2. [entry |-> item, nr |-> chunk + 1, good |-> Sound(item)] \in Chunks
    BY <1>6, <2>1, Numbers DEF WriteChunk, Sound, Chunks, Taken, TypeOK
  <2>3. sink' \in Seq(Chunks)
    BY <1>6, <2>2 DEF WriteChunk, TypeOK
  <2>4. result' \in {"S_OK"} \cup Errors
    BY <1>6 DEF WriteChunk, TypeOK, Errors
  <2> QED BY <1>6, <2>1, <2>3, <2>4 DEF WriteChunk, TypeOK
<1>7. ASSUME NEW opRes \in OperationResults, FinishItem(opRes) PROVE TypeOK'
  <2>1. item' \in Entries \cup {0}
    BY <1>7, Numbers DEF FinishItem, Taken, TypeOK
  <2>2. result' \in {"S_OK"} \cup Errors
    BY <1>7 DEF FinishItem, SetOperationResult, OperationResults, Errors, PasswordErrors
  <2> QED BY <1>7, <2>1, <2>2 DEF FinishItem, TypeOK
<1>8. CASE ExtractReturns
  BY <1>8 DEF ExtractReturns, GetBetterResult, Settle, CloseSink, TypeOK, Errors, PasswordErrors
<1>9. CASE ReleaseOutStream
  BY <1>9 DEF ReleaseOutStream, WithoutOutStream, Settle, CloseSink, TypeOK
<1>10. CASE Throw
  BY <1>10 DEF Throw, ExceptionFor, TypeOK, Exceptions
<1>11. CASE NativeReturns
  BY <1>11 DEF NativeReturns, Settle, CloseSink, TypeOK
<1>12. CASE Finally
  BY <1>12 DEF Finally, FinallyClose, CloseSink, TypeOK, Exceptions
<1>13. CASE UNCHANGED vars
  BY <1>13 DEF vars, TypeOK, Errors, PasswordErrors, Exceptions
<1>14. CASE ExtractFails
  BY <1>14 DEF ExtractFails, TypeOK, Errors
<1> QED
  BY <1>1, <1>2, <1>3, <1>4, <1>5, <1>6,
     <1>7, <1>8, <1>9, <1>10, <1>11, <1>12, <1>13, <1>14 DEF Next

\* The sink takes the chunks of the entry asked for, one after the other.
LEMMA TakenNext == TypeOK /\ Taken /\ Reported /\ [Next]_vars => Taken'
<1> SUFFICES ASSUME TypeOK, Taken, Reported, [Next]_vars PROVE Taken'
  OBVIOUS
<1> USE DEF environment, handler, output
<1>1. CASE CallOnClosed
  BY <1>1 DEF CallOnClosed, Taken, ChunkOf, Sound, GetStream
<1>2. CASE CreateOutStream
  BY <1>2 DEF CreateOutStream, Taken, ChunkOf, Sound, GetStream
<1>3. CASE StartExtract
  BY <1>3 DEF StartExtract, FirstItems, Taken, ChunkOf, Sound
<1>4. CASE BeginItem
  <2>1. \A n \in 1..Len(sink') : sink'[n] = ChunkOf(n)'
    BY <1>4 DEF BeginItem, Taken, ChunkOf, Sound
  <2> QED BY <1>4, <2>1, Numbers DEF BeginItem, GetStream, Taken
<1>5. CASE AskPassword
  BY <1>5 DEF AskPassword, Taken, ChunkOf, Sound, GetStream
<1>6. CASE WriteChunk
  <2>1. CASE sink' = sink
    BY <1>6, <2>1 DEF WriteChunk, Taken, ChunkOf, Sound, GetStream
  <2>2. CASE sink' = Append(sink, [entry |-> item, nr |-> chunk + 1, good |-> Sound(item)])
             /\ target = "sink" /\ chunk' = chunk + 1 /\ UNCHANGED <<pc, target, result>>
    <3>1. item = index /\ Len(sink) = chunk /\ chunk \in Nat
      BY <1>6, <2>2, Numbers DEF WriteChunk, Taken, GetStream, TypeOK
    <3>2. Len(sink') = chunk + 1 /\ \A n \in 1..Len(sink') :
            sink'[n] = IF n <= chunk THEN sink[n] ELSE ChunkOf(n)
      BY <2>2, <3>1 DEF ChunkOf, TypeOK
    <3>3. \A n \in 1..Len(sink') : sink'[n] = ChunkOf(n)
      BY <3>1, <3>2 DEF Taken
    <3>4. \A n \in Nat : ChunkOf(n)' = ChunkOf(n)
      BY <1>6 DEF WriteChunk, ChunkOf, Sound
    <3> QED BY <1>6, <2>2, <3>1, <3>2, <3>3, <3>4 DEF WriteChunk, Taken, GetStream
  <2> QED BY <1>6, <2>1, <2>2 DEF WriteChunk
<1>7. ASSUME NEW opRes \in OperationResults, FinishItem(opRes) PROVE Taken'
  <2>1. \A n \in 1..Len(sink') : sink'[n] = ChunkOf(n)'
    BY <1>7 DEF FinishItem, Taken, ChunkOf, Sound
  <2>2. /\ pc' \in {"item", "extracted"}
        /\ pc' = "item" => sink' = << >> /\ item' \in 1..index'
    <3>1. ASSUME pc' = "item" PROVE item < index /\ item' = item + 1
      BY <1>7, <3>1 DEF FinishItem
    <3>2. ASSUME pc' = "item" PROVE Len(sink) = 0 /\ item' \in 1..index'
      BY <1>7, <3>1, <3>2, Numbers DEF FinishItem, Taken, TypeOK
    <3>3. pc' = "item" => sink' = << >>
      BY <1>7, <3>2, EmptySeq DEF FinishItem, TypeOK
    <3> QED BY <1>7, <3>2, <3>3 DEF FinishItem
  <2>3. pc' = "extracted" /\ result' = "S_OK" => Len(sink') = NChunks /\ Sound(index)'
    <3> SUFFICES ASSUME pc' = "extracted", result' = "S_OK"
                 PROVE  Len(sink') = NChunks /\ Sound(index)'
      OBVIOUS
    <3>1. item = index
      BY <1>7, Numbers DEF FinishItem, Taken, TypeOK
    <3>2. opRes = "kOK"
      BY <1>7 DEF FinishItem, SetOperationResult, OperationResults
    <3>3. Sound(item) /\ chunk = NChunks
      BY <1>7, <3>2 DEF FinishItem
    <3>4. Sound(index)' <=> Sound(index)
      BY <1>7 DEF FinishItem, Sound
    <3> QED BY <1>7, <3>1, <3>3, <3>4 DEF FinishItem, Taken
  <2> QED BY <2>1, <2>2, <2>3 DEF Taken
<1>8. CASE ExtractReturns
  BY <1>8 DEF ExtractReturns, GetBetterResult, Taken, ChunkOf, Sound
<1>9. CASE ReleaseOutStream
  BY <1>9 DEF ReleaseOutStream, Taken, ChunkOf, Sound, GetStream
<1>10. CASE Throw
  BY <1>10 DEF Throw, Taken, Reported, ChunkOf, Sound
<1>11. CASE NativeReturns
  BY <1>11 DEF NativeReturns, Taken, Reported, ExceptionFor, ChunkOf, Sound
<1>12. CASE Finally
  BY <1>12 DEF Finally, Taken, ChunkOf, Sound, GetStream
<1>13. CASE UNCHANGED vars
  BY <1>13 DEF vars, Taken, ChunkOf, Sound, GetStream
<1>14. CASE ExtractFails
  BY <1>14 DEF ExtractFails, Taken, ChunkOf, Sound, GetStream
<1> QED
  BY <1>1, <1>2, <1>3, <1>4, <1>5, <1>6,
     <1>7, <1>8, <1>9, <1>10, <1>11, <1>12, <1>13, <1>14 DEF Next

\* A failure stays in the result until it is thrown.
LEMMA ReportedNext == TypeOK /\ Reported /\ [Next]_vars => Reported'
<1> SUFFICES ASSUME TypeOK, Reported, [Next]_vars PROVE Reported'
  OBVIOUS
<1> USE DEF environment, handler, output
<1>1. CASE CallOnClosed
  BY <1>1 DEF CallOnClosed, Reported, ExceptionFor
<1>2. CASE CreateOutStream
  BY <1>2 DEF CreateOutStream, Reported, ExceptionFor
<1>3. CASE StartExtract
  BY <1>3 DEF StartExtract, Reported, ExceptionFor
<1>4. CASE BeginItem
  BY <1>4 DEF BeginItem, Reported, ExceptionFor
<1>5. CASE AskPassword
  BY <1>5 DEF AskPassword, Reported, ExceptionFor
<1>6. CASE WriteChunk
  BY <1>6 DEF WriteChunk, Reported, ExceptionFor
<1>7. ASSUME NEW opRes \in OperationResults, FinishItem(opRes) PROVE Reported'
  BY <1>7 DEF FinishItem, Reported, ExceptionFor
<1>8. CASE ExtractReturns
  BY <1>8 DEF ExtractReturns, GetBetterResult, Reported, ExceptionFor
<1>9. CASE ReleaseOutStream
  BY <1>9 DEF ReleaseOutStream, Reported, ExceptionFor
<1>10. CASE Throw
  BY <1>10 DEF Throw, Reported, ExceptionFor
<1>11. CASE NativeReturns
  BY <1>11 DEF NativeReturns, Reported, ExceptionFor
<1>12. CASE Finally
  BY <1>12 DEF Finally, FinallyClose, CloseSink, Reported, ExceptionFor
<1>13. CASE UNCHANGED vars
  BY <1>13 DEF vars, Reported, ExceptionFor
<1>14. CASE ExtractFails
  BY <1>14 DEF ExtractFails, Reported, ExceptionFor
<1> QED
  BY <1>1, <1>2, <1>3, <1>4, <1>5, <1>6,
     <1>7, <1>8, <1>9, <1>10, <1>11, <1>12, <1>13, <1>14 DEF Next

\* The password is asked for on account of an encrypted entry.
LEMMA PasswordAskedNext == TypeOK /\ Taken /\ Reported /\ PasswordAsked /\ [Next]_vars => PasswordAsked'
<1> SUFFICES ASSUME TypeOK, Taken, Reported, PasswordAsked, [Next]_vars PROVE PasswordAsked'
  OBVIOUS
<1> USE DEF environment, handler, output
<1>1. CASE CallOnClosed
  BY <1>1 DEF CallOnClosed, PasswordAsked, PasswordErrors
<1>2. CASE CreateOutStream
  BY <1>2 DEF CreateOutStream, PasswordAsked, PasswordErrors
<1>3. CASE StartExtract
  BY <1>3 DEF StartExtract, PasswordAsked, PasswordErrors
<1>4. CASE BeginItem
  BY <1>4 DEF BeginItem, PasswordAsked, PasswordErrors
<1>5. CASE AskPassword
  BY <1>5 DEF AskPassword, Taken, Reported, PasswordAsked, PasswordErrors
<1>6. CASE WriteChunk
  BY <1>6 DEF WriteChunk, PasswordAsked, PasswordErrors
<1>7. ASSUME NEW opRes \in OperationResults, FinishItem(opRes) PROVE PasswordAsked'
  <2>1. result' \in PasswordErrors =>
          opRes = "kWrongPassword" /\ result' = "E_WRONG_PASSWORD"
    BY <1>7 DEF FinishItem, SetOperationResult, OperationResults, PasswordErrors
  <2>2. result' \in PasswordErrors => asked /\ password = "wrong"
    BY <1>7, <2>1 DEF FinishItem, PasswordAsked
  <2> QED BY <1>7, <2>1, <2>2 DEF FinishItem, PasswordAsked
<1>8. CASE ExtractReturns
  BY <1>8 DEF ExtractReturns, GetBetterResult, PasswordAsked, PasswordErrors, TypeOK
<1>9. CASE ReleaseOutStream
  BY <1>9 DEF ReleaseOutStream, PasswordAsked, PasswordErrors
<1>10. CASE Throw
  BY <1>10 DEF Throw, PasswordAsked, PasswordErrors
<1>11. CASE NativeReturns
  BY <1>11 DEF NativeReturns, PasswordAsked, PasswordErrors
<1>12. CASE Finally
  BY <1>12 DEF Finally, PasswordAsked, PasswordErrors
<1>13. CASE UNCHANGED vars
  BY <1>13 DEF vars, PasswordAsked, PasswordErrors
<1>14. CASE ExtractFails
  BY <1>14 DEF ExtractFails, PasswordAsked, PasswordErrors
<1> QED
  BY <1>1, <1>2, <1>3, <1>4, <1>5, <1>6,
     <1>7, <1>8, <1>9, <1>10, <1>11, <1>12, <1>13, <1>14 DEF Next

\* The sink is closed when the last pointer to its stream goes.
LEMMA SinkHeldNext == TypeOK /\ Reported /\ SinkHeld /\ [Next]_vars => SinkHeld'
<1> SUFFICES ASSUME TypeOK, Reported, SinkHeld, [Next]_vars PROVE SinkHeld'
  OBVIOUS
<1> USE DEF environment, handler, output
<1>1. CASE CallOnClosed
  BY <1>1 DEF CallOnClosed, Reported, SinkHeld
<1>2. CASE CreateOutStream
  BY <1>2 DEF CreateOutStream, Reported, SinkHeld
<1>3. CASE StartExtract
  BY <1>3 DEF StartExtract, Reported, SinkHeld
<1>4. CASE BeginItem
  BY <1>4 DEF BeginItem, GetStream, Reported, SinkHeld
<1>5. CASE AskPassword
  BY <1>5 DEF AskPassword, Reported, SinkHeld
<1>6. CASE WriteChunk
  BY <1>6 DEF WriteChunk, Reported, SinkHeld
<1>7. ASSUME NEW opRes \in OperationResults, FinishItem(opRes) PROVE SinkHeld'
  BY <1>7 DEF FinishItem, Reported, SinkHeld
<1>8. CASE ExtractReturns
  BY <1>8 DEF ExtractReturns, Settle, CloseSink, Reported, SinkHeld
<1>9. CASE ReleaseOutStream
  <2>1. holders \subseteq {"out_stream"}
    BY <1>9 DEF ReleaseOutStream, SinkHeld, TypeOK
  <2>2. holders' = {}
    BY <1>9, <2>1 DEF ReleaseOutStream, WithoutOutStream, Settle
  <2> QED BY <1>9, <2>2 DEF ReleaseOutStream, Settle, CloseSink, SinkHeld
<1>10. CASE Throw
  BY <1>10 DEF Throw, SinkHeld
<1>11. CASE NativeReturns
  BY <1>11 DEF NativeReturns, Settle, CloseSink, SinkHeld
<1>12. CASE Finally
  BY <1>12 DEF Finally, FinallyClose, CloseSink, SinkHeld
<1>13. CASE UNCHANGED vars
  BY <1>13 DEF vars, SinkHeld
<1>14. CASE ExtractFails
  BY <1>14 DEF ExtractFails, Reported, SinkHeld
<1> QED
  BY <1>1, <1>2, <1>3, <1>4, <1>5, <1>6,
     <1>7, <1>8, <1>9, <1>10, <1>11, <1>12, <1>13, <1>14 DEF Next

-----------------------------------------------------------------------------

\* The invariant holds in every state of an extraction, for any number of entries
\* and chunks.
THEOREM Invariance == Spec => []IInv
<1>1. IInv /\ [Next]_vars => IInv'
  BY TypeNext, TakenNext, ReportedNext, PasswordAskedNext, SinkHeldNext DEF IInv
<1> QED BY InitIInv, <1>1, PTL DEF Spec

\* Every variable of an extraction keeps its type.
THEOREM TypeCorrect == Spec => []TypeOK
<1>1. IInv => TypeOK
  BY DEF IInv
<1> QED BY <1>1, Invariance, PTL

\* The sink receives the chunks of the entry asked for, in order and without a gap,
\* whatever else the handler decodes.
THEOREM OnlyTheEntryAskedForHolds == Spec => []OnlyTheEntryAskedFor
<1>1. IInv => OnlyTheEntryAskedFor
  <2> SUFFICES ASSUME IInv, NEW n \in 1..Len(sink)
               PROVE  sink[n].entry = index /\ sink[n].nr = n
    BY DEF OnlyTheEntryAskedFor
  <2>1. sink[n] = ChunkOf(n)
    BY DEF IInv, Taken
  <2> QED BY <2>1 DEF ChunkOf
<1> QED BY <1>1, Invariance, PTL

\* All the chunks of the entry in sound condition are its content.
LEMMA WholeEntry ==
  ASSUME TypeOK, Taken, pc \in {"finally", "done"}, thrown = "none"
  PROVE  sink = Content(index)
<1>1. sink \in Seq(Chunks) /\ Len(sink) = NChunks /\ Sound(index)
  BY DEF Taken, TypeOK
<1>2. \A n \in 1..NChunks : sink[n] = Content(index)[n]
  BY <1>1 DEF Taken, ChunkOf, Content
<1>3. DOMAIN sink = 1..NChunks /\ sink = [n \in 1..NChunks |-> sink[n]]
  BY <1>1
<1> QED BY <1>2, <1>3 DEF Content

\* A call that returns normally has given the sink the whole entry, decoded well.
THEOREM SuccessIsCompleteHolds == Spec => []SuccessIsComplete
<1>1. IInv => SuccessIsComplete
  <2> SUFFICES ASSUME IInv, pc = "done", thrown = "none"
               PROVE  sink = Content(index) /\ ~refused
    BY DEF SuccessIsComplete
  <2>1. result = "S_OK"
    BY DEF IInv, Reported, ExceptionFor
  <2> QED BY <2>1, WholeEntry DEF IInv, Reported
<1> QED BY <1>1, Invariance, PTL

\* The sink is closed when extractEntry ends, on every path.
THEOREM SinkClosedAtTheEndHolds == Spec => []SinkClosedAtTheEnd
<1>1. IInv => SinkClosedAtTheEnd
  BY DEF IInv, SinkHeld, SinkClosedAtTheEnd
<1> QED BY <1>1, Invariance, PTL

\* A PasswordException is about an entry that needs a password, and tells a missing
\* one from a wrong one.
THEOREM PasswordExceptionHasCauseHolds == Spec => []PasswordExceptionHasCause
<1>1. IInv => PasswordExceptionHasCause
  <2> SUFFICES ASSUME IInv, pc = "done", thrown = "Password"
               PROVE  /\ \E k \in 1..index : k \in encrypted
                      /\ result = "E_NO_PASSWORD" <=> password = "null"
    BY DEF PasswordExceptionHasCause
  <2>1. result \in PasswordErrors
    BY DEF IInv, Reported, ExceptionFor
  <2> QED BY <2>1 DEF IInv, PasswordAsked
<1> QED BY <1>1, Invariance, PTL

\* The sink is not written to after it was closed, and native code does not close it
\* while an exception is pending.
THEOREM SinkProtocolHolds == Spec => SinkProtocol
<1> DEFINE Kept == /\ sink' # sink => ~sinkClosed
                   /\ sinkClosed' # sinkClosed => pending = "none" \/ pc = "finally"
<1>1. IInv /\ [Next]_vars => [Kept]_vars
  <2> SUFFICES ASSUME IInv, Next PROVE Kept
    OBVIOUS
  <2> USE DEF environment, handler, output
  <2>1. CASE WriteChunk
    BY <2>1 DEF WriteChunk, IInv, SinkHeld
  <2>2. CASE ExtractReturns \/ ReleaseOutStream
    BY <2>2 DEF ExtractReturns, ReleaseOutStream, IInv, Reported
  <2>3. CASE NativeReturns
    BY <2>3 DEF NativeReturns, Settle, IInv, SinkHeld
  <2>4. CASE Finally
    BY <2>4 DEF Finally
  <2>5. CASE ~(WriteChunk \/ ExtractReturns \/ ReleaseOutStream \/ NativeReturns \/ Finally)
    BY <2>5 DEF Next, CallOnClosed, CreateOutStream, StartExtract, BeginItem, AskPassword,
                FinishItem, ExtractFails, Throw
  <2> QED BY <2>1, <2>2, <2>3, <2>4, <2>5
<1>2. SinkProtocol <=> [][Kept]_vars
  BY DEF SinkProtocol
<1> HIDE DEF Kept
<1> QED BY <1>1, <1>2, Invariance, PTL DEF Spec
-----------------------------------------------------------------------------

\* A step that the owner of the sink does not see.
LEMMA StepUnseen ==
  ASSUME UNCHANGED <<index, sink, sinkClosed>>, pc # "done", pc' # "done"
  PROVE  UNCHANGED Delivery!vars
BY DEF Delivery!vars, Content, Ending

\* Where the pointers become h the sink is closed, or nothing is seen.
LEMMA SettleRefines ==
  ASSUME TypeOK, NEW h, Settle(h), UNCHANGED <<index, sink>>, pc # "done", pc' # "done"
  PROVE  [Delivery!Next]_Delivery!vars
<1>1. CASE sinkClosed' = TRUE
  BY <1>1 DEF Content, Ending, Delivery!Close, Delivery!Next
<1>2. CASE sinkClosed' = sinkClosed
  BY <1>2, StepUnseen
<1> QED BY <1>1, <1>2 DEF Settle, CloseSink

\* Every step gives the sink its next chunk, closes it, ends the call, or is not seen.
LEMMA DeliveryStep == IInv /\ [Next]_vars => [Delivery!Next]_Delivery!vars
<1> SUFFICES ASSUME IInv, [Next]_vars PROVE [Delivery!Next]_Delivery!vars
  OBVIOUS
<1>0. TypeOK /\ Taken /\ Reported /\ SinkHeld
  BY DEF IInv
<1> USE DEF environment, handler, output
<1>1. CASE \/ CallOnClosed \/ CreateOutStream \/ StartExtract \/ BeginItem \/ AskPassword \/ Throw
           \/ ExtractFails
  <2>1. UNCHANGED <<index, sink, sinkClosed>> /\ pc # "done" /\ pc' # "done"
    BY <1>1 DEF CallOnClosed, CreateOutStream, StartExtract, BeginItem, AskPassword, Throw,
                ExtractFails
  <2> QED BY <2>1, StepUnseen
<1>2. ASSUME NEW opRes \in OperationResults, FinishItem(opRes)
      PROVE  [Delivery!Next]_Delivery!vars
  <2>1. UNCHANGED <<index, sink, sinkClosed>> /\ pc # "done" /\ pc' # "done"
    BY <1>2 DEF FinishItem
  <2> QED BY <2>1, StepUnseen
<1>3. CASE WriteChunk
  <2>1. UNCHANGED <<index, sinkClosed>> /\ pc = "write" /\ pc' # "done" /\ chunk < NChunks
    BY <1>3 DEF WriteChunk
  <2>2. CASE sink' = sink
    BY <2>1, <2>2, StepUnseen
  <2>3. CASE sink' # sink
    <3>1. /\ sink' = Append(sink, [entry |-> item, nr |-> chunk + 1, good |-> Sound(item)])
          /\ item = index /\ Len(sink) = chunk /\ chunk \in Nat /\ Sound(item) \in BOOLEAN
      BY <1>0, <1>3, <2>3, Numbers DEF WriteChunk, Taken, GetStream, TypeOK, Sound
    <3>2. Len(sink) < Len(Content(index)) /\ Len(sink) + 1 \in 1..NChunks
      BY <2>1, <3>1, Numbers DEF Content
    <3>3. [Content(index)[Len(sink) + 1] EXCEPT !.good = Sound(item)]
            = [entry |-> item, nr |-> chunk + 1, good |-> Sound(item)]
      BY <3>1, <3>2 DEF Content
    <3>4. ~sinkClosed /\ Ending = "none" /\ Ending' = "none" /\ Content(index)' = Content(index)
      BY <1>0, <2>1 DEF SinkHeld, Ending, Content
    <3> QED BY <2>1, <3>1, <3>2, <3>3, <3>4 DEF Delivery!Deliver, Delivery!Next
  <2> QED BY <2>2, <2>3
<1>4. CASE ExtractReturns \/ ReleaseOutStream \/ NativeReturns
  <2>1. /\ UNCHANGED <<index, sink>> /\ pc # "done" /\ pc' # "done"
        /\ \E h : Settle(h)
    BY <1>4 DEF ExtractReturns, ReleaseOutStream, NativeReturns
  <2> QED BY <1>0, <2>1, SettleRefines
<1>5. CASE Finally
  <2>1. /\ UNCHANGED <<index, sink>> /\ pc = "finally" /\ pc' = "done" /\ sinkClosed' = TRUE
        /\ thrown' = "none" => thrown = "none"
    BY <1>5 DEF Finally, FinallyClose, CloseSink
  <2>2. thrown = "none" => sink = Content(index)
    BY <1>0, <2>1, WholeEntry
  <2> QED BY <2>1, <2>2 DEF Ending, Content, Delivery!Return, Delivery!Next
<1>6. CASE UNCHANGED vars
  BY <1>6 DEF vars, Delivery!vars, Content, Ending
<1> QED BY <1>1, <1>2, <1>3, <1>4, <1>5, <1>6 DEF Next

\* For any number of entries and chunks, encrypted or damaged, the sink is filled and
\* closed as EntryDelivery says.
THEOREM ImplementsDeliveryHolds == Spec => ImplementsDelivery
<1>1. Init => Delivery!Init
  BY DEF Init, Ending, Content, Delivery!Init
<1> QED BY <1>1, DeliveryStep, Invariance, PTL DEF Spec, ImplementsDelivery, Delivery!Spec
-----------------------------------------------------------------------------

\* How far CloseFailureIsReported and WrongPasswordIsWrong, which runs refute, are
\* from the truth.

\* The caller is told of a close that failed only when the native method has never
\* had the sink, so that nothing was written that could be lost.
CloseFailureSeen == thrown = "CloseFailed" => sink = << >> /\ ~refused

\* The right password is called wrong only when an entry on the way needs it and
\* something else went wrong: the sink has refused a chunk, an entry on the way is
\* damaged, or Extract has failed of itself.
RightPasswordBlamed ==
  result = "E_WRONG_PASSWORD" /\ password = "right" =>
    /\ \E k \in 1..index : k \in encrypted
    /\ refused \/ broken \/ \E k \in 1..index : k \in damaged

\* The native method keeps its pointer to the sink until it is about to throw; the
\* sink is closed when the pointer goes.
StreamUsed ==
  /\ pc \in {"extract", "item", "write", "extracted", "release"} => "out_stream" \in holders
  /\ pc \in {"finally", "done"} => holders = {}
  /\ sink # << >> \/ refused => holders # {} \/ sinkClosed
  /\ CloseFailureSeen

\* What goes wrong with the right password is the fault of the sink, of the data or of
\* Extract, or the native stream was never made and nobody was asked.
Blame ==
  /\ pc = "call" => ~asked
  /\ password = "right" /\ result # "S_OK" =>
       \/ refused \/ broken \/ \E k \in 1..index : k \in damaged
       \/ ~asked /\ result = "E_OUTOFMEMORY" /\ pc \in {"throw", "return", "finally", "done"}

\* A pointer is kept, or the sink is closed, by every step.
LEMMA StreamUsedNext ==
  TypeOK /\ Reported /\ SinkHeld /\ StreamUsed /\ [Next]_vars => StreamUsed'
<1> SUFFICES ASSUME TypeOK, Reported, SinkHeld, StreamUsed, [Next]_vars PROVE StreamUsed'
  OBVIOUS
<1> USE DEF environment, handler, output, CloseFailureSeen
<1>1. CASE CallOnClosed \/ CreateOutStream \/ StartExtract \/ AskPassword \/ Throw
  BY <1>1 DEF CallOnClosed, CreateOutStream, StartExtract, AskPassword, Throw, StreamUsed,
              SinkHeld
<1>2. CASE BeginItem
  BY <1>2 DEF BeginItem, StreamUsed
<1>3. CASE WriteChunk
  <2>1. pc = "write" /\ "out_stream" \in holders /\ "out_stream" \in holders'
        /\ thrown' = "none" /\ pc' \in {"write", "extracted"}
    BY <1>3 DEF WriteChunk, StreamUsed, Reported
  <2> QED BY <2>1 DEF StreamUsed
<1>4. ASSUME NEW opRes \in OperationResults, FinishItem(opRes) PROVE StreamUsed'
  BY <1>4 DEF FinishItem, StreamUsed
<1>5. CASE ExtractReturns
  BY <1>5 DEF ExtractReturns, Settle, CloseSink, StreamUsed
<1>6. CASE ReleaseOutStream
  BY <1>6 DEF ReleaseOutStream, Settle, CloseSink, StreamUsed
<1>7. CASE NativeReturns
  BY <1>7 DEF NativeReturns, Settle, CloseSink, StreamUsed, Reported, ExceptionFor
<1>8. CASE Finally
  BY <1>8 DEF Finally, FinallyClose, CloseSink, StreamUsed, SinkHeld
<1>9. CASE UNCHANGED vars
  BY <1>9 DEF vars, StreamUsed
<1>10. CASE ExtractFails
  BY <1>10 DEF ExtractFails, StreamUsed
<1> QED BY <1>1, <1>2, <1>3, <1>4, <1>5, <1>6, <1>7, <1>8, <1>9, <1>10 DEF Next

\* Only a failure of the sink, of the data or of Extract makes the result of the right password
\* anything but S_OK once the password was asked for.
LEMMA BlameNext == TypeOK /\ Taken /\ Reported /\ Blame /\ [Next]_vars => Blame'
<1> SUFFICES ASSUME TypeOK, Taken, Reported, Blame, [Next]_vars PROVE Blame'
  OBVIOUS
<1> USE DEF environment, handler, output
<1>1. CASE CallOnClosed \/ CreateOutStream \/ StartExtract \/ BeginItem \/ AskPassword
  BY <1>1 DEF CallOnClosed, CreateOutStream, StartExtract, BeginItem, AskPassword, Blame,
              Reported
<1>2. CASE WriteChunk
  BY <1>2 DEF WriteChunk, Blame
<1>3. ASSUME NEW opRes \in OperationResults, FinishItem(opRes) PROVE Blame'
  <2>1. /\ UNCHANGED <<password, damaged, refused, broken, index>> /\ item \in 1..index
        /\ result' # "S_OK" => ~Sound(item)
        /\ pc' # "call"
    BY <1>3 DEF FinishItem, SetOperationResult, Taken
  <2>2. password = "right" /\ ~Sound(item) => item \in damaged
    BY DEF Sound
  <2> QED BY <2>1, <2>2 DEF Blame
<1>4. CASE ExtractReturns
  BY <1>4 DEF ExtractReturns, GetBetterResult, Blame
<1>5. CASE ReleaseOutStream \/ Throw \/ NativeReturns \/ Finally
  BY <1>5 DEF ReleaseOutStream, Throw, NativeReturns, Finally, Blame
<1>6. CASE UNCHANGED vars
  BY <1>6 DEF vars, Blame
<1>7. CASE ExtractFails
  BY <1>7 DEF ExtractFails, Blame
<1> QED BY <1>1, <1>2, <1>3, <1>4, <1>5, <1>6, <1>7 DEF Next

\* When extractEntry throws the sink's IOException, nothing was written to the sink:
\* once it was written to, a close that fails is never seen.
THEOREM CloseFailureSeenHolds == Spec => []CloseFailureSeen
<1>1. Init => StreamUsed
  BY DEF Init, StreamUsed, CloseFailureSeen
<1>2. IInv /\ StreamUsed /\ [Next]_vars => StreamUsed'
  BY StreamUsedNext DEF IInv
<1>3. StreamUsed => CloseFailureSeen
  BY DEF StreamUsed
<1> QED BY <1>1, <1>2, <1>3, Invariance, PTL DEF Spec

\* The answer "wrong password" to the right password is about an entry that needs it,
\* and has a failure of the sink, of the data or of Extract behind it.
THEOREM RightPasswordBlamedHolds == Spec => []RightPasswordBlamed
<1>1. Init => Blame
  BY DEF Init, Blame
<1>2. IInv /\ Blame /\ [Next]_vars => Blame'
  BY BlameNext DEF IInv
<1>3. IInv /\ Blame => RightPasswordBlamed
  <2> SUFFICES ASSUME IInv, Blame, result = "E_WRONG_PASSWORD", password = "right"
               PROVE  RightPasswordBlamed
    BY DEF RightPasswordBlamed
  <2>1. asked /\ \E k \in 1..index : k \in encrypted
    BY DEF IInv, PasswordAsked, PasswordErrors
  <2>2. refused \/ broken \/ \E k \in 1..index : k \in damaged
    BY <2>1 DEF Blame
  <2> QED BY <2>1, <2>2 DEF RightPasswordBlamed
<1> QED BY <1>1, <1>2, <1>3, Invariance, PTL DEF Spec
=============================================================================
