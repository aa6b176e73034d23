----------------------------- MODULE EntryStream -----------------------------
(***************************************************************************)
(* InArchive.getEntryStream: NativeGetEntryStream of JavaInArchive.cpp and *)
(* the Java streams it hands out, NativeInputStream for a sequential       *)
(* stream and NativeSeekableInputStream for a seekable one.                *)
(*                                                                         *)
(* The handler makes a native stream object for the entry, or hands out    *)
(* itself, as those of disk images do: then the archive owns a reference   *)
(* to the same object.  A CMyComPtr owns one reference and gives it back   *)
(* when it goes out of scope; the Java stream keeps the bare address of    *)
(* the object in its nativePtr and gives a reference back when it is       *)
(* closed.                                                                 *)
(***************************************************************************)
EXTENDS Integers

VARIABLES
  pc,          \* where getEntryStream is
  seekable,    \* the object is an IInStream
  itself,      \* the object is the handler of the archive
  kept,        \* the references to the object that the archive owns
  references,  \* the reference count of the object; it is destroyed at 0
  pointers,    \* the CMyComPtr locals that own a reference
  nativePtr,   \* of the Java stream: "unmade", "address" or "zero"
  thrown       \* getEntryStream, or a call of the stream, has thrown

vars == <<pc, seekable, itself, kept, references, pointers, nativePtr, thrown>>

Init ==
  /\ pc = "call" /\ seekable \in BOOLEAN /\ itself \in BOOLEAN
  /\ kept = (IF itself THEN 1 ELSE 0) /\ references = kept
  /\ pointers = {} /\ nativePtr = "unmade" /\ thrown = FALSE

\* InArchive::GetEntryStream: the handler hands out a stream with a reference for
\* its receiver, or cannot, or is not an IInArchiveGetStream at all.
GetEntryStream ==
  /\ pc = "call"
  /\ \/ /\ pc' = "query" /\ references' = references + 1
        /\ pointers' = {"sequential_in_stream"} /\ UNCHANGED thrown
     \/ /\ pc' = "failed" /\ thrown' = TRUE
        /\ UNCHANGED <<references, pointers>>
  /\ UNCHANGED <<seekable, itself, kept, nativePtr>>

\* QueryInterface(IID_IInStream): one more pointer to the object.
QuerySeekable ==
  /\ pc = "query"
  /\ pc' = "construct"
  /\ IF seekable
     THEN references' = references + 1 /\ pointers' = pointers \cup {"in_stream"}
     ELSE UNCHANGED <<references, pointers>>
  /\ UNCHANGED <<seekable, itself, kept, nativePtr, thrown>>

\* NewInstance of JavaSeekableInputStream and of JavaInputStream: a Java stream is made
\* with the address of the object; an exception that is pending all the same is cleared.
NewSeekable ==
  /\ pc = "construct" /\ seekable
  /\ pc' = "return" /\ nativePtr' = "address"
  /\ UNCHANGED <<seekable, itself, kept, references, pointers, thrown>>

NewSequential ==
  /\ pc = "construct" /\ ~seekable
  /\ pc' = "return" /\ nativePtr' = "address"
  /\ UNCHANGED <<seekable, itself, kept, references, pointers, thrown>>

\* Java cannot make it: the streams are released by hand, the locals still own their
\* references, and the exception is thrown.
NewInstanceFails ==
  /\ pc = "construct"
  /\ pc' = "return" /\ thrown' = TRUE
  /\ references' = references - (IF seekable THEN 2 ELSE 1)
  /\ UNCHANGED <<seekable, itself, kept, pointers, nativePtr>>

\* NativeGetEntryStream returns and its locals give their references back.
Return ==
  /\ pc = "return"
  /\ pc' = IF thrown THEN "failed" ELSE "ready"
  /\ references' = references - (IF seekable THEN 2 ELSE 1)
  /\ pointers' = {}
  /\ UNCHANGED <<seekable, itself, kept, nativePtr, thrown>>

\* checkClosed of the Java stream.
IsClosed == nativePtr = "zero"

\* read: a closed stream throws, and so does one whose native stream fails.  Of an
\* object that is destroyed anything may come.
Read ==
  /\ pc = "ready"
  /\ thrown' \in IF IsClosed THEN {TRUE} ELSE BOOLEAN
  /\ UNCHANGED <<pc, seekable, itself, kept, references, pointers, nativePtr>>

\* seek, tell and size of a seekable stream likewise.  size may query the object for
\* IStreamGetSize, through a pointer that it gives back.
SeekTellSize ==
  /\ pc = "ready" /\ seekable
  /\ thrown' \in IF IsClosed THEN {TRUE} ELSE BOOLEAN
  /\ UNCHANGED <<pc, seekable, itself, kept, references, pointers, nativePtr>>

\* stream->Release().
NativeClose == references' = references - 1

\* close, which does nothing the second time.
Close ==
  /\ pc = "ready" /\ ~IsClosed
  /\ NativeClose /\ nativePtr' = "zero"
  /\ UNCHANGED <<pc, seekable, itself, kept, pointers, thrown>>

\* ~InArchive: the archive is closed and gives its reference to the handler back.
CloseArchive ==
  /\ pc \in {"ready", "failed"} /\ kept > 0
  /\ kept' = kept - 1 /\ references' = references - 1
  /\ UNCHANGED <<pc, seekable, itself, pointers, nativePtr, thrown>>

Next ==
  \/ GetEntryStream \/ QuerySeekable
  \/ NewSeekable \/ NewSequential \/ NewInstanceFails \/ Return
  \/ Read \/ SeekTellSize \/ Close \/ CloseArchive

Spec == Init /\ [][Next]_vars

-----------------------------------------------------------------------------

\* "Returns the stream of the entry": while the Java stream that getEntryStream
\* has returned is not closed, the native object behind it exists.
ReturnedStreamIsLive == pc = "ready" /\ nativePtr = "address" => references > 0
=============================================================================
