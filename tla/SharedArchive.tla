---------------------------- MODULE SharedArchive ----------------------------
(***************************************************************************)
(* One InArchive, called by several Java threads, and by Java code that    *)
(* the library itself calls: the sink of an extraction, and the stream the *)
(* archive was opened from.  Nothing in InArchive.java, JavaInArchive.cpp  *)
(* or SeekableInputStream.cpp is synchronised; a call is cut here into the *)
(* steps between which another one may run.                                *)
(*                                                                         *)
(* Whatever reads the archive's data, an extraction or the handler when it *)
(* looks for the stream of an entry, shares the position of the Java       *)
(* stream and the one Java array through which the native stream over it   *)
(* reads.  The bytes of the stream are told apart by their position,       *)
(* 1 .. Total.  p7zip's handler, which is external, seeks to an entry that *)
(* it extracts and then reads it to its end; in GetStream it may seek and  *)
(* read wherever it likes; its properties it answers from memory.  What a  *)
(* client reads of the stream that getEntryStream answers is no call of    *)
(* the archive and not modelled here.                                      *)
(*                                                                         *)
(* Memory is sequentially consistent here, but for the second read of      *)
(* nativePtr in a method, which may be given the value of the first: the   *)
(* field is not volatile.  A client that hands the archive to another      *)
(* thread has to synchronise the hand-over.                                *)
(***************************************************************************)
EXTENDS Integers

CONSTANTS
  Calls,        \* bound: the calls that may be under way at once
  Client,       \* not a Call: the caller of a call that is not nested
  NEntries,     \* the entries of the archive are 1..NEntries
  EntrySize,    \* the bytes of an entry
  ARRAY_SIZE    \* the length of the native stream's Java array

ASSUME ClientAssumption == Client \notin Calls

ASSUME SizesAssumption ==
  NEntries \in Nat \ {0} /\ EntrySize \in Nat \ {0} /\ ARRAY_SIZE \in Nat \ {0}

Entries == 1..NEntries

Total == NEntries * EntrySize

VARIABLES
  nativePtr,   \* the field of the InArchive: "address" or "zero"
  archive,     \* the native InArchive: "open", or "gone" from the start of its delete
  position,    \* the position of the Java stream
  array,       \* the Java array of the native stream over it
  op,          \* of each call: its method, "none" for a call that is not made
  pc,          \* where it is
  caller,      \* the call from whose callback it was made, or Client
  ptr,         \* its local copy of nativePtr
  answer,      \* what it answers, "none" until then
  entry,       \* of an extraction: the entry,
  read,        \* the number of bytes that its last read put into the array,
  taken,       \* and the number of bytes that went to the sink
  raced,       \* history: a close was under way together with another call
  late,        \* history: the calls that began when the archive was closed already
  alone,       \* history: the extractions with which no other call that reads the
               \* stream has overlapped so far
  mixed        \* history: the extractions whose sink got a byte of another place

stream == <<position, array>>
request == <<op, caller, entry>>
progress == <<read, taken>>
history == <<raced, late, alone, mixed>>
vars == <<nativePtr, archive, stream, request, pc, ptr, answer, progress, history>>

-----------------------------------------------------------------------------

\* getFormatName and its like begin with checkClosed; the getters of a property's
\* type and getEntryStream go to their native method at once.
Ops == {"get", "getUnchecked", "getStream", "extract", "close"}

Unchecked == {"getUnchecked", "getStream"}

\* The methods in which the handler may move and read the Java stream.
Readers == {"getStream", "extract"}

\* A call is pending until the native code is done with the archive.
Pending(c) == pc[c] \notin {"idle", "finally", "return"}

Reading(c) == op[c] \in Readers /\ Pending(c)

\* Native code that uses the archive.
Using(c) == pc[c] \in {"use", "search", "seek", "fill", "copy", "write"}

\* Java code of the client may run: seek and read of its stream, write and close of its
\* sink, close of its stream.
InCallback(c) == pc[c] \in {"search", "seek", "fill", "write", "finally", "delete"}

\* A thread goes on with a call when those nested in it have returned.
Running(c) == \A d \in Calls : caller[d] # c

\* What a deleted archive does is undefined: the model stops there.
Undefined == archive = "gone" /\ \E c \in Calls : Using(c)

Smaller(a, b) == IF a <= b THEN a ELSE b

Start(c) == (entry[c] - 1) * EntrySize

-----------------------------------------------------------------------------

\* The slips after which TLC must find a property violated: close leaves the address
\* in the field; CHECK_CLOSED lets 0 pass; it returns the default and throws nothing;
\* a read is not cut to the length of the array; the length asked for is copied
\* instead of the length read.
KeepAddress    == nativePtr
NoCheck(p)     == TRUE
DefaultAnswer  == "ok"
WholeRest(c)   == EntrySize - taken[c]

\* SeekableInputStream::Read makes the size not bigger than ARRAY_SIZE.
Asked(c) == Smaller(ARRAY_SIZE, EntrySize - taken[c])

\* The lengths that a read of call c may have, and the array after a read of k bytes
\* from position p.
Available(c) == 1..Smaller(Asked(c), Total - position)

Filled(p, k) == [i \in DOMAIN array |-> IF i <= k THEN p + i ELSE array[i]]

CopyAsked(c) == Asked(c)

\* GetByteArrayRegion(array, 0, read): the length read, not the length asked for.
CopiedLength(c) == read[c]

\* CHECK_CLOSED at the beginning of every native method.
PassesCheck(p) == p # "zero"

\* What it throws.
Refusal == "IllegalState"

\* nativePtr = 0 after nativeClose.
ClosedPtr == "zero"

Answer(c, a) ==
  /\ answer' = [answer EXCEPT ![c] = a]
  /\ pc' = [pc EXCEPT ![c] = IF op[c] = "extract" THEN "finally" ELSE "return"]

GoTo(c, place) == pc' = [pc EXCEPT ![c] = place] /\ UNCHANGED answer

Init ==
  /\ nativePtr = "address" /\ archive = "open"
  /\ position = 0 /\ array = [i \in 1..ARRAY_SIZE |-> 0]
  /\ op = [c \in Calls |-> "none"] /\ pc = [c \in Calls |-> "idle"]
  /\ caller = [c \in Calls |-> Client] /\ ptr = [c \in Calls |-> "zero"]
  /\ answer = [c \in Calls |-> "none"] /\ entry = [c \in Calls |-> 0]
  /\ read = [c \in Calls |-> 0] /\ taken = [c \in Calls |-> 0]
  /\ raced = FALSE /\ late = {} /\ alone = {} /\ mixed = {}

\* A thread makes a call, or a callback does.
Begin(c, by, method) ==
  /\ pc[c] = "idle"
  /\ by # Client => InCallback(by) /\ Running(by)
  /\ op' = [op EXCEPT ![c] = method] /\ caller' = [caller EXCEPT ![c] = by]
  /\ GoTo(c, IF method \in Unchecked THEN "load" ELSE "check")
  /\ \E e \in IF method = "extract" THEN Entries ELSE {0} : entry' = [entry EXCEPT ![c] = e]
  /\ raced' = (raced \/ \E d \in Calls : Pending(d) /\ "close" \in {method, op[d]})
  /\ late' = IF nativePtr = "zero" THEN late \cup {c} ELSE late
  /\ alone' = IF method \notin Readers THEN alone
              ELSE IF \E d \in Calls : Reading(d) THEN {d \in alone : ~Reading(d)}
              ELSE alone \cup (IF method = "extract" THEN {c} ELSE {})
  /\ UNCHANGED <<nativePtr, archive, stream, ptr, progress, mixed>>

\* checkClosed, and close's own test.
CheckClosed(c) ==
  /\ pc[c] = "check" /\ Running(c)
  /\ IF nativePtr # "zero"
     THEN ptr' = [ptr EXCEPT ![c] = nativePtr] /\ GoTo(c, "load")
     ELSE Answer(c, IF op[c] = "close" THEN "ok" ELSE "IllegalState") /\ UNCHANGED ptr
  /\ UNCHANGED <<nativePtr, archive, stream, request, progress, history>>

\* The argument of the native method: nativePtr is read, again where it was tested.
Load(c) ==
  /\ pc[c] = "load" /\ Running(c)
  /\ \E p \in {nativePtr} \cup (IF op[c] \in Unchecked THEN {} ELSE {ptr[c]}) :
       ptr' = [ptr EXCEPT ![c] = p]
  /\ GoTo(c, "native")
  /\ UNCHANGED <<nativePtr, archive, stream, request, progress, history>>

\* The native method begins.
Enter(c) ==
  /\ pc[c] = "native" /\ Running(c)
  /\ IF ~PassesCheck(ptr[c]) THEN Answer(c, Refusal) /\ UNCHANGED archive
     ELSE IF op[c] = "close" /\ archive = "open"
     THEN archive' = "gone" /\ GoTo(c, "delete")
     ELSE /\ GoTo(c, CASE op[c] = "extract" -> "seek"
                       [] op[c] = "getStream" -> "search"
                       [] OTHER -> "use")
          /\ UNCHANGED archive
  /\ UNCHANGED <<nativePtr, stream, request, ptr, progress, history>>

\* The handler looks for the stream of an entry: it seeks, and may read.
Search(c) ==
  /\ pc[c] = "search" /\ Running(c)
  /\ \E p \in 0..Total : \E k \in 0..Smaller(ARRAY_SIZE, Total - p) :
       array' = Filled(p, k) /\ position' = p + k
  /\ UNCHANGED <<nativePtr, archive, request, pc, ptr, answer, progress, history>>

\* A getter has its value, or its default for an error; getEntryStream has a stream,
\* or throws.
Get(c) ==
  /\ pc[c] \in {"use", "search"} /\ Running(c)
  /\ \E a \in {"ok", "failed"} : Answer(c, a)
  /\ UNCHANGED <<nativePtr, archive, stream, request, ptr, progress, history>>

\* The handler moves the stream to the entry.
Seek(c) ==
  /\ pc[c] = "seek" /\ Running(c)
  /\ position' = Start(c) /\ GoTo(c, "fill")
  /\ UNCHANGED <<nativePtr, archive, array, request, ptr, progress, history>>

\* The Java stream puts bytes into the array ...
Fill(c) ==
  /\ pc[c] = "fill" /\ Running(c)
  /\ \E k \in Available(c) :
       /\ array' = Filled(position, k) /\ position' = position + k
       /\ read' = [read EXCEPT ![c] = k]
  /\ GoTo(c, "copy")
  /\ UNCHANGED <<nativePtr, archive, request, ptr, taken, history>>

\* ... and the native stream copies them from it.
Copy(c) ==
  /\ pc[c] = "copy" /\ Running(c)
  /\ taken' = [taken EXCEPT ![c] = @ + CopiedLength(c)] /\ read' = [read EXCEPT ![c] = 0]
  /\ mixed' = IF \A i \in 1..CopiedLength(c) : array[i] = Start(c) + taken[c] + i
              THEN mixed ELSE mixed \cup {c}
  /\ GoTo(c, "write")
  /\ UNCHANGED <<nativePtr, archive, stream, request, ptr, raced, late, alone>>

\* The sink takes them.
Write(c) ==
  /\ pc[c] = "write" /\ Running(c)
  /\ IF taken[c] >= EntrySize THEN Answer(c, "ok") ELSE GoTo(c, "fill")
  /\ UNCHANGED <<nativePtr, archive, stream, request, ptr, progress, history>>

\* A Java call throws or the handler gives up; a read may have put some bytes into
\* the array before.
ExtractFails(c) ==
  /\ pc[c] \in {"seek", "fill", "write"} /\ Running(c)
  /\ \E k \in {0} \cup (IF pc[c] = "fill" THEN Available(c) ELSE {}) :
       array' = Filled(position, k) /\ position' = position + k
  /\ Answer(c, "failed")
  /\ UNCHANGED <<nativePtr, archive, request, ptr, progress, history>>

\* The delete is done and close clears the field.
ClearPtr(c) ==
  /\ pc[c] = "delete" /\ Running(c)
  /\ nativePtr' = ClosedPtr /\ Answer(c, "ok")
  /\ UNCHANGED <<archive, stream, request, ptr, progress, history>>

\* The finally clause of extractEntry closes the sink, which may fail.
Finally(c) ==
  /\ pc[c] = "finally" /\ Running(c)
  /\ pc' = [pc EXCEPT ![c] = "return"]
  /\ \E a \in {answer[c], "failed"} : answer' = [answer EXCEPT ![c] = a]
  /\ UNCHANGED <<nativePtr, archive, stream, request, ptr, progress, history>>

Return(c) ==
  /\ pc[c] = "return"
  /\ pc' = [pc EXCEPT ![c] = "idle"] /\ answer' = [answer EXCEPT ![c] = "none"]
  /\ op' = [op EXCEPT ![c] = "none"] /\ caller' = [caller EXCEPT ![c] = Client]
  /\ ptr' = [ptr EXCEPT ![c] = "zero"] /\ entry' = [entry EXCEPT ![c] = 0]
  /\ read' = [read EXCEPT ![c] = 0] /\ taken' = [taken EXCEPT ![c] = 0]
  /\ late' = late \ {c} /\ alone' = alone \ {c} /\ mixed' = mixed \ {c}
  /\ UNCHANGED <<nativePtr, archive, stream, raced>>

Step(c) ==
  \/ CheckClosed(c) \/ Load(c) \/ Enter(c) \/ Search(c) \/ Get(c)
  \/ Seek(c) \/ Fill(c) \/ Copy(c) \/ Write(c) \/ ExtractFails(c)
  \/ ClearPtr(c) \/ Finally(c) \/ Return(c)

Next ==
  /\ ~Undefined
  /\ \E c \in Calls :
       \/ \E by \in Calls \cup {Client}, method \in Ops : Begin(c, by, method)
       \/ Step(c)

Spec == Init /\ [][Next]_vars

-----------------------------------------------------------------------------

Places ==
  {"idle", "check", "load", "native", "use", "search", "seek", "fill", "copy", "write",
   "delete", "finally", "return"}

Answers == {"none", "ok", "failed", "IllegalState"}

TypeOK ==
  /\ nativePtr \in {"address", "zero"} /\ archive \in {"open", "gone"}
  /\ position \in 0..Total /\ array \in [1..ARRAY_SIZE -> 0..Total]
  /\ op \in [Calls -> Ops \cup {"none"}] /\ pc \in [Calls -> Places]
  /\ caller \in [Calls -> Calls \cup {Client}] /\ ptr \in [Calls -> {"address", "zero"}]
  /\ answer \in [Calls -> Answers] /\ entry \in [Calls -> Entries \cup {0}]
  /\ read \in [Calls -> 0..ARRAY_SIZE] /\ taken \in [Calls -> 0..EntrySize]
  /\ raced \in BOOLEAN
  /\ late \subseteq Calls /\ alone \subseteq Calls /\ mixed \subseteq Calls

\* No call uses the archive while it is deleted or afterwards, in whatever way
\* getters and extractions overlap or nest, as long as no close is under way together
\* with another call that needs the archive.  A close from within close of the sink
\* is no such overlap.
UseNeedsARace == Undefined => raced

\* A call that begins after a close has ended never gets to the archive and answers
\* with an exception (close with nothing), also after races.
ClosedForGood ==
  \A c \in late :
    /\ ~Using(c) /\ pc[c] # "delete"
    /\ op[c] # "close" => answer[c] # "ok"

\* An extraction with which no other extraction and no getEntryStream has overlapped
\* gives its sink the bytes of its entry and no other, whatever earlier calls, failed or
\* mingled with others, have left in the array and of the stream's position, and
\* whatever getters and closes overlap it.  Nothing is promised to one with which
\* another reader overlaps: the native stream is not locked, and its sink may get bytes
\* of other places.
ExtractsItsOwnBytes ==
  \A c \in alone :
    /\ c \notin mixed
    /\ answer[c] = "ok" => taken[c] = EntrySize

\* Calls that do not race are atomic: the archive is one closable archive.
Closable == INSTANCE ClosableArchive WITH
  open <- nativePtr # "zero",
  kind <- op,
  disorder <- raced

ImplementsClosable == Closable!Spec
=============================================================================
