-------------------------- MODULE EntryStreamProofs --------------------------
(***************************************************************************)
(* What the references of an entry's native stream come to: the finding    *)
(* that the run entry_stream shows by one behaviour, stated of all.        *)
(***************************************************************************)
EXTENDS EntryStream, TLAPS

\* The references that the CMyComPtr locals own once the object was queried.
Owned == IF seekable THEN 2 ELSE 1

\* The type of every variable.  thrown is a statement about the last call.
TypeInv ==
  /\ pc \in {"call", "query", "construct", "return", "ready", "failed"}
  /\ seekable \in BOOLEAN /\ itself \in BOOLEAN /\ thrown \in BOOLEAN
  /\ kept \in {0, 1} /\ references \in Int
  /\ pointers \in SUBSET {"sequential_in_stream", "in_stream"}
  /\ nativePtr \in {"unmade", "address", "zero"}

\* Who owns the references of the object, place by place.
CountInv ==
  /\ ~itself => kept = 0
  /\ pc \in {"call", "query", "construct", "return"} /\ itself => kept = 1
  /\ pc = "call" => references = kept /\ nativePtr = "unmade" /\ ~thrown
  /\ pc = "query" => references = kept + 1 /\ nativePtr = "unmade" /\ ~thrown
  /\ pc = "construct" => references = kept + Owned /\ nativePtr = "unmade" /\ ~thrown
  /\ pc = "return" =>
       IF thrown THEN references = kept /\ nativePtr = "unmade"
                 ELSE references = kept + Owned /\ nativePtr = "address"
  /\ pc = "ready" =>
       \/ nativePtr = "address" /\ references = kept
       \/ nativePtr = "zero" /\ references = kept - 1
  /\ pc = "failed" => nativePtr = "unmade" /\ thrown /\ references \in {kept, kept - 1, kept - 2}

\* An object that no local points to has none of their references.
PointersInv ==
  /\ pc \in {"call", "ready", "failed"} => pointers = {}
  /\ pc = "query" => pointers = {"sequential_in_stream"}
  /\ pc \in {"construct", "return"} =>
       pointers = {"sequential_in_stream"} \cup (IF seekable THEN {"in_stream"} ELSE {})

\* The Java stream keeps an address that owns nothing.  An object of its own is
\* destroyed before Java has it; a handler that handed out itself lives exactly as long
\* as its archive holds it, until close of the Java stream gives back a reference that
\* is the archive's.
ReturnedStreamOwnsNothing ==
  pc = "ready" =>
    /\ nativePtr = "address" => references = kept
    /\ nativePtr = "zero" => references = kept - 1
    /\ ~itself => kept = 0

\* A stream that Java cannot make is released by hand and by its owners: when the
\* locals still own their references, the object has those of the archive only, which
\* the locals then take away.
FailureReleasesTwice ==
  /\ pc = "return" /\ thrown => references = kept /\ pointers # {}
  /\ pc = "failed" /\ references # kept => references < kept /\ references <= 0

IInv == TypeInv /\ CountInv /\ PointersInv

-----------------------------------------------------------------------------

\* Nothing is owned before the call.
LEMMA InitHolds == Init => IInv
<1> SUFFICES ASSUME Init PROVE IInv
  OBVIOUS
<1>1. TypeInv
  <2>1. kept \in {0, 1} /\ references \in Int BY DEF Init
  <2> QED BY <2>1, Zenon DEF Init, TypeInv
<1>2. CountInv BY DEF Init, CountInv
<1>3. PointersInv BY DEF Init, PointersInv
<1> QED BY <1>1, <1>2, <1>3 DEF IInv

\* Every step keeps the count and its owners in agreement.
LEMMA StepHolds == IInv /\ [Next]_vars => IInv'
<1> SUFFICES ASSUME IInv, [Next]_vars PROVE IInv'
  OBVIOUS
<1> USE DEF IInv, TypeInv, CountInv, PointersInv, Owned
<1>1. CASE GetEntryStream
  <2>1. /\ pc = "call" /\ UNCHANGED <<seekable, itself, kept, nativePtr>>
        /\ \/ /\ pc' = "query" /\ references' = references + 1
              /\ pointers' = {"sequential_in_stream"} /\ thrown' = thrown
           \/ /\ pc' = "failed" /\ thrown' = TRUE /\ references' = references
              /\ pointers' = pointers
    BY <1>1, Zenon DEF GetEntryStream
  <2>2. CASE pc' = "query" BY <2>1, <2>2
  <2>3. CASE pc' = "failed" BY <2>1, <2>3
  <2> QED BY <2>1, <2>2, <2>3
<1>2. CASE QuerySeekable BY <1>2 DEF QuerySeekable
<1>3. CASE NewSeekable BY <1>3 DEF NewSeekable
<1>4. CASE NewSequential BY <1>4 DEF NewSequential
<1>5. CASE NewInstanceFails BY <1>5 DEF NewInstanceFails
<1>6. CASE Return BY <1>6 DEF Return
<1>7. CASE Read BY <1>7 DEF Read
<1>8. CASE SeekTellSize BY <1>8 DEF SeekTellSize
<1>9. CASE Close BY <1>9 DEF Close, NativeClose, IsClosed
<1>10. CASE UNCHANGED vars BY <1>10 DEF vars
<1>11. CASE CloseArchive BY <1>11 DEF CloseArchive
<1> QED BY <1>1, <1>2, <1>3, <1>4, <1>5, <1>6, <1>7, <1>8, <1>9, <1>10, <1>11 DEF Next

\* The count and its owners agree from the call to the last close.
THEOREM Invariance == Spec => []IInv
BY InitHolds, StepHolds, PTL DEF Spec

\* Of no stream that getEntryStream returns the Java object owns a reference: what
\* ReturnedStreamIsLive says is false of every stream of its own, and true of a handler
\* only as long as the archive and the Java stream are both open.
THEOREM ReturnedStreamOwnsNothingHolds == Spec => []ReturnedStreamOwnsNothing
<1>1. IInv => ReturnedStreamOwnsNothing
  BY DEF IInv, TypeInv, CountInv, ReturnedStreamOwnsNothing
<1> QED BY <1>1, Invariance, PTL

\* A stream that could not be made is released by hand under the pointers that own
\* it, whether it is seekable or not.
THEOREM FailureReleasesTwiceHolds == Spec => []FailureReleasesTwice
<1>1. IInv => FailureReleasesTwice
  BY DEF IInv, TypeInv, CountInv, PointersInv, FailureReleasesTwice
<1> QED BY <1>1, Invariance, PTL

=============================================================================
