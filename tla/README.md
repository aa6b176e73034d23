# A TLA+ verification project for A7Zip

A7Zip is an Android library that opens archives with p7zip and reads and
extracts their entries. Its own code is a layer of C++ between the Java API and
p7zip's format handlers: it wraps Java streams for p7zip, searches for the format of a
stream, opens archives inside archives, converts properties, and maps every
error to a Java exception. p7zip itself is a git submodule that is not part of
the tree; its handlers are the environment of the modules below.

Paths are relative to `src/library/src/main/`; `cpp/` and `java/` are its
directories (`java/` stands for `java/com/hippo/a7zip/`).

## The system

| component | state | operations | interacts with |
|---|---|---|---|
| Loading: `JNI_OnLoad`, `SevenZip::Initialize`, `LoadFormats` (`cpp/JavaInitA7Zip.cpp`, `cpp/SevenZip.cpp`) | the static `initialized` flags, the tables `formats` and `methods` | initialise each class, read each handler's properties, register natives | the VM, p7zip's tables, read by detection |
| Format detection: `OpenInArchive`, `ReadFully` (`cpp/SevenZip.cpp`) | `formats_checked`, the loop variables, the stream's position | seek, read, compare a signature, try a format | the Java stream, a handler, `ArchiveOpenCallback` |
| Opening and closing: `NativeOpen`, `OpenArchive`, `~InArchive`, `NativeClose` (`cpp/JavaInArchive.cpp`, `cpp/SevenZip.cpp`, `cpp/InArchive.cpp`) | the chain of `InArchive` objects, the smart pointers, `nativePtr` | wrap streams, open, descend into an only entry, release, throw, close | detection, `OpenVolumeCallback`, handlers, Java streams |
| `OpenVolumeCallback` (`cpp/OpenVolumeCallback.cpp`) | a reference to the Java callback | `OpenVolume` | called by the handler of a multi-volume archive |
| Extraction: `extractEntry`, `NativeExtractEntry`, `ArchiveExtractCallback`, `OutputStream`, `BlackHole` | the entry's index, `has_asked_password`, the result, the references to the sink | get a stream, ask for the password, write, set a result, close | a handler, the `java.io.OutputStream` of the caller |
| The object `InArchive` in Java: `checkClosed`, `close` and each method's way to native code and back | `nativePtr`, and below it the Java stream's position and the native stream's Java array | any method, from any thread or callback | clients, and through the sink and the stream with itself |
| Entry streams: `NativeGetEntryStream`, `NativeInputStream`, `NativeSeekableInputStream` | the reference count of a native stream, `nativePtr` | get, query, use, close | a handler, Java clients |
| Seekable streams: `SeekableInputStream`, `JavaSeekableInputStream`, `JavaInputStream` | the Java stream's position, the shared Java array | read, seek, tell, size, and `ReadFully` over them | Java below, p7zip between, Java above |
| Properties: the getters of `InArchive`, in three files | the property of the handler, `charset` | type, boolean, int, long and string getters | a handler, Java clients |
| JNI helpers: `JavaEnv`, `JavaHelper`, `Utils.h` | the pending exception, thread attachment | throw, check, return | all of the native code |
| `BlackHole.Seek`, `CompressCodecsInfo` and `methods`, `FileSeekableOutputStream` | | | unused |
| demo application, test runner, build files | | | |

What is hard in this code is failure and ordering. Each call of a stream is a call
into Java and may throw; each allocation of the VM may fail; p7zip decides
when it calls back; destructors call Java on every way out; and an error
found in one language is reported in another. The code has no threads of its
own, no timeouts and no persistent state; but nothing in it is synchronised either, its
clients have threads, and the sink and the stream they pass in may call the
archive back. The list "hazards" in
`PROJECT.json` names the lines where something can go wrong and the property
that would catch it.

What makes each component correct:

- loading: the table has exactly the handlers that can be read; nothing is
  callable over a library that is half loaded;
- detection: each format is tried at most once, those whose signature matches first, the
  search stops at a decision, ends, and its answer is that of its attempts;
- lifecycle: a Java stream is open as long as a handler may read it and is
  closed afterwards on every path; inner archives are closed first; no Java call
  while an exception is pending;
- extraction: the sink gets the entry asked for and nothing else; a normal return
  means all of it; it is closed once the call ends; an exception says what happened;
- shared use: no method uses an archive that is being deleted unless a client let a close
  race with it; a closed archive stays closed; an extraction that is alone with the
  stream gets its own bytes, whatever was left behind by others before it;
- streams: cutting calls into small reads and passing them through JNI twice is
  not visible to the reader;
- properties: the value arrives unchanged, through the getter its type names.

## The modules

| module | models | properties |
|---|---|---|
| `FormatChoice` | abstract: an untried format is tried until one decides | |
| `FormatDetection` | the search for a format | `TypeOK`, `TriedAtMostOnce`, `VerdictIsJustified`, `MatchingFormatsFirst`, `NothingAfterDecision`, `Terminates`, `ImplementsChoice`, `OpenedForItsSignature` |
| `FormatDetectionProofs` | proofs about it | |
| `StreamOwnership` | abstract: when open and close take and close the Java streams | |
| `ArchiveLifecycle` | open to close of one archive | `TypeOK`, `OpenHandlersCanRead`, `NothingLeaks`, `InnerFailureKeepsOuter`, `NoJavaCallAfterThrow`, `InnerClosedFirst`, `ImplementsOwnership`, `NoJavaCallWhilePending` |
| `ArchiveLifecycleProofs` | proofs about it | |
| `EntryDelivery` | abstract: what the owner of a sink is promised | |
| `ExtractEntry` | one extraction | `TypeOK`, `OnlyTheEntryAskedFor`, `SuccessIsComplete`, `SinkClosedAtTheEnd`, `PasswordExceptionHasCause`, `SinkProtocol`, `ImplementsDelivery`, `CloseFailureIsReported`, `WrongPasswordIsWrong` |
| `ExtractEntryProofs` | proofs about it | |
| `ClosableArchive` | abstract: an object whose calls are atomic, and refused once it is closed | |
| `SharedArchive` | overlapping and nested calls of one `InArchive` | `TypeOK`, `UseNeedsARace`, `ClosedForGood`, `ExtractsItsOwnBytes`, `ImplementsClosable` |
| `SharedArchiveProofs` | proofs about it | |
| `EntryStream` | one entry stream and its references | `ReturnedStreamIsLive` |
| `EntryStreamProofs` | proofs about it | |
| `SeekableFile` | abstract: a file with a position | |
| `SeekableStream` | the stack of streams over a Java stream | `TypeOK`, `ReadsAreContiguous`, `ImplementsFile`, `CallsEnd` |
| `SeekableStreamProofs` | proofs about it | |
| `PropertyValues` | a property on its way to Java | `TypeOK`, `TypeNamesTheGetter`, `NumbersAreExact`, `TextIsFaithful`, `AnswersOnlyWhileOpen` |
| `PropertyValuesProofs` | proofs about it | |
| `FormatLoading` | loading the library | `TypeOK`, `TableIsExact`, `NativesAreUsable`, `LoadAdvances`, `LoadEnds` |
| `FormatLoadingProofs` | proofs about it | |

Each `MC...` module instantiates one of them for TLC. In each module the operators
above `Init` that no action uses are slips a programmer could make in the definition
of the same parameters (the comment on them says which); `PROJECT.json` pairs each
with the property that must notice it.

### FormatDetection

State: the stream's bytes and position, the loop variables `i` and `j`, the array
`formats_checked` and the caller's pointer `in_archive`, plus histories of the
attempts made. One action per outcome of a round: the seek fails and the stale `newPosition` is not the offset
(`SeekFails`); the bytes are read, or the read fails, and are compared
(`CompareSignature`); the format is opened (`OpenMatched`); the second pass skips what is marked
(`SkipChecked`) and opens the rest (`OpenUnchecked`); nothing is left (`Exhausted`).
`CONTINUE_IF_NOT_ZERO` is modelled as what it compiles to: its `continue`
belongs to its own `do ... while (0)`, so a failure does not leave the round, and
`newPosition` is an uninitialised local that holds anything. A handler may accept or refuse,
with or without asking for the password, and leaves the stream anywhere. Left out: names, the file name given to the
callback, and progress reports.

### ArchiveLifecycle and StreamOwnership

The sets `holders` are the smart pointers (`CMyComPtr`) to each stream of the
chain: `in_stream` of `NativeOpen`, `arg_in_stream` of `OpenArchive`, and one in
each handler. When the last one to the Java stream's wrapper goes,
`~SeekableInputStream` closes the Java stream (`Settle`). Actions follow
`NativeOpen` from top to bottom, with each allocation that may fail; `StartHandler`,
`HandlerRefuses` and `HandlerAccepts` stand for an attempt of `FormatDetection`;
`Descend` is the round of the loop of `OpenArchive` that opens the only entry; `CloseLayer` is one
`~InArchive`. `pending` is the Java exception of the thread; `misuse` remembers a Java call
made while there was one. The native streams test for an exception after each call into
Java and clear it (`RETURN_E_JAVA_EXCEPTION_IF_EXCEPTION_PENDING`), so that a pending
`OutOfMemoryError` ends with the next call of a stream, which then appears to have failed
(`CallStreamFails`, `OpenVolume`, `Settle`). When no call follows, `NativeOpen` returns
with the error pending, `InArchive.open` throws it, and the archive it has opened is "lost".

`StreamOwnership` is what open and close promise the owner of the streams: each stream
is closed once, at a time he can tell, unless it is an orphan (a stream that could
not be wrapped). `Phase` maps `pc` to its phases: the archive counts as closed as soon as its
outermost layer is, and open as failed as soon as the exception is thrown, so that a destructor
that closed a stream afterwards would break the refinement.

### ExtractEntry and EntryDelivery

The handler decodes the entries up to the one asked for (any suffix of them, as
solid blocks begin anywhere), asks for the password before an encrypted one, writes
chunks into the stream it got, and reports how each entry went. The sink may
refuse any chunk and may fail to close; closing it again does nothing, as
`java.io.Closeable` demands. `Extract` may also fail of itself at any time, when a read of
the archive's stream throws or memory is short (`ExtractFails`). `Settle` is the release of a reference to `OutputStream`.
`EntryDelivery` knows neither entries before the one asked for, nor passwords, native streams
and results: a sink is filled, closed, and the call returns or throws.

### SharedArchive and ClosableArchive

`SharedArchive` cuts each method of `InArchive` where another thread, or a callback of
the client, may come in between: the test of `checkClosed` (`CheckClosed`), the second read of
`nativePtr` (`Load`), the native method's own check (`Enter`), each call of the
Java stream (`Seek`, `Fill`, and `Search` for those that the handler's `GetStream` makes), the copy out of the Java array (`Copy`), each write of the sink
(`Write`), the close of the sink (`Finally`), and in `close` the native delete and the
assignment after it (`ClearPtr`). A call has a `caller`: a client's thread, or another call from
whose callback it was made and which waits for it. Five kinds of methods stand for
all: one that begins with `checkClosed` (`get`), one that does not and
relies on the native check (`getUnchecked`: the type getters), `getEntryStream`, which does not
either and in which the handler may seek and read the stream (`getStream`), `extract` and `close`. A byte is known by its place in the stream, so that the sink can tell
whose it got.

Once a deleted archive is used the behaviour is undefined, and the model stops. The
histories record what clients did: `raced` (a close was under way together with another
call that needed the archive), `late` (the calls begun after a close ended), `alone` (the
extractions with which no other one and no `getEntryStream` has overlapped). An extraction
that is not alone may get the bytes of other places (`mixed`): nothing in the code
prevents it, and nothing is promised to it. `ClosableArchive` is the promise to clients
that did not race: each call takes effect in one instant. A close from
within `close` of the sink is no race, because extraction is done with the archive
by then; one from within `write` is, and so is one from within the Java stream's `close`.

Assumed: memory is sequentially consistent, except that the second read of `nativePtr` in
one method may return the value of the first (the field is not volatile); a client that hands the archive to another
thread synchronises the hand-over; a handler of p7zip seeks to its entry before it reads, and
answers for properties from memory. What a client reads of a stream of `getEntryStream` is no
call of the archive and not part of the module.

### EntryStream

The reference count of the object that a handler hands out, which it has made for the
entry or which is the handler itself (`itself`; those of disk images do so) and then has a
reference of the archive's (`kept`) until the archive is closed (`CloseArchive`); the two smart
pointers of `NativeGetEntryStream`, and the address in `nativePtr` of the two kinds of Java
streams (`NewSeekable`, `NewSequential`) and their methods. When the Java stream cannot be made
the native one is released by hand and once more by the smart pointers
(`NewInstanceFails`, then `Return`): the count goes below what the archive keeps. A method of a stream whose native
object is destroyed may do anything; the module lets it answer or throw.

### SeekableStream and SeekableFile

`SeekableStream` has one step per call of the Java stream: a read returns any
number of the bytes that are there, at most the array's length; every call may throw and
leave the position anywhere. `ReadFully` and `NativeSize` take several steps. The
refinement shows the position of the beginning of the call until it ends, and
`SeekableFile` answers each call in one step. The reply holds the request, with the
length or the offset and its origin, so that the abstract file can say which position a seek
must lead to, that a seek before the beginning is refused and moves nothing, and that a tell
is the seek that asks for no move.
A read of the Java stream returns 0 bytes only when it was asked for none, and -1 at the end,
as `java.io.InputStream` demands.

### PropertyValues

A property is a variant type with a number of its width, or a string of wide
characters. Integers wrap at their width (`Wrap`), FILETIME arithmetic is
unsigned, `shrink` is the loop over the buffer it reads from and writes to. A byte has `Bytes`
values: the widths of all types follow from it, so a small byte keeps every boundary.

### FormatLoading

One step per module of `JNI_OnLoad`, and within `SevenZip::Initialize` one per
handler and property, and per round of `AppendMultiSignature` behind them. Any step may
fail, and the load may be tried again with the statics as they are. `LoadMethods` is left out: nothing reads its table.

## The runs

| run | configuration | shows |
|---|---|---|
| `detection` | 4 formats: two signatures of different lengths, an offset, a signature contained in another, none; every stream of at most 3 bytes of 2 values | all properties of the search |
| `detection_comment` | the same | violated: a format is opened none of whose signatures is at its offset |
| `lifecycle` | 3 layers, 3 volumes | lifetimes and order on every path; refinement of the ownership of streams |
| `lifecycle_memory` | the same | violated: a Java call with an `OutOfMemoryError` pending |
| `extract` | 3 entries of 2 chunks, any encrypted or damaged, every password | what the sink gets and what is thrown; refinement of the delivery |
| `extract_close` | the same | violated: a failed close goes unreported |
| `extract_password` | the same | violated: "Wrong password" for the right one and a failure of another kind |
| `shared` | two calls at once, of two threads or one nested in the other, again and again; two entries of 3 bytes through an array of 2 | what overlapping calls can do to each other, and what they cannot |
| `entry_stream` | one stream | violated: a returned stream without a reference |
| `properties` | bytes of 1 bit: every value of every type; strings of at most 3 characters of 6 kinds | conversions |
| `loading` | 0 to 2 handlers, each property given, missing or unreadable, 4 multi-signatures; 2 loads | the table and the natives; every step of a load leads to its end |
| `stream` | files of 0 to 4 bytes, an array of 2, positions to 5 | refinement of the file |

Why the bounds suffice. A round of the search depends on one format and its
marks; four formats give a matching one before, behind and between others,
and a stream shorter than a signature. Three layers have an innermost, a
middle and an outermost archive, and the code treats each pair of neighbours
alike; the third volume is opened after one that could not be wrapped. Three
entries put one before and one behind the entry asked for; two chunks allow a
failure between them. Two handlers allow a dropped one before and behind a good
one, two loads a retry. Files of four bytes through an array of two need two
full rounds and a short one; position 5 is beyond every end. One-bit bytes leave each
integer type with negative values, wrap-around, and values its Java type cannot hold.

Two overlapping calls are enough to race, to nest and to mingle bytes, and `SharedArchiveProofs` covers
any number; entries of three bytes need two reads each, so that another
call fits between them, and the array keeps a byte of an earlier read.

`CHECK_DEADLOCK FALSE` is set where the modelled call returns, the client
stops or behaviour is undefined; in `stream` there is always another call and deadlock is checked.

Fairness. `FormatDetection` and `FormatLoading` assume that the one thread in the code
takes its next step (weak fairness of `Next`; for loading, of `Next` while
`JNI_OnLoad` runs: Java need not call it again). `SeekableStream` assumes the same of a
call that has begun (`GoOn`, which leaves failures out: a call must not end only
because Java is bound to throw at last). This presumes that each call of Java and of p7zip returns,
which the code cannot influence. Fairness is not needed for any safety property.

## What is proved

`FormatDetectionProofs` is checked by TLAPS for every table of formats, every set
of streams and every behaviour of the handlers, from the three assumptions of
`FormatDetection` (the table holds offsets and signatures of numbers, streams are
sequences of numbers, `NoFormat` is not a number).

The invariant of the search, `IInv`, is the conjunction of

- `TypeOK`;
- `Bookkeeping`: the attempts made are those of the marked formats, all behind the loop
  variable in the first pass, and in the second pass those marked or passed. Without it
  `TriedAtMostOnce` is not inductive: a state with an attempt but no mark
  would let the second pass try the format again;
- `Undecided`: until the search returns no handler is open and no attempt has
  decided it;
- `FirstPassExact`: without I/O failures the marked formats are those that match and were passed;
- `VerdictIsJustified` itself.

`InitIInv` and `NextIInv` show it inductive, one step per action; `Invariance` is
the theorem. From it follow `TypeCorrect`, `TriedAtMostOnceHolds`,
`VerdictIsJustifiedHolds`, the action properties `MatchingFormatsFirstHolds` and
`NothingAfterDecisionHolds`, and `ImplementsChoiceHolds`: under the mapping
`untried` (the formats never attempted), `answer` (what was returned) and `chosen`
(the caller's handler), an attempt is a step of `FormatChoice` (`AttemptRefines`), the end of
the second pass is its `GiveUp`, and every other step stutters (`QuietStutters`).

`SearchAdvances` is the part of termination that does not need fairness: each step of the search
strictly increases the triple of the pass, the format and the place in its round, in
lexicographic order and within bounds that depend on the table alone.

`SeekableStreamProofs` holds for every set of files whose length a position can express
(`ContentsAssumption`), every array length and every bound. Its invariant adds
`Bounded` to `TypeOK` and `ReadsAreContiguous`: a full read that has gathered bytes
has not gone past the end of the file, so that the next piece is adjacent to what it has.
`ReadsAreContiguousHolds` and the refinement `ImplementsFileHolds` follow: an
intermediate read or seek stutters, and the step that ends a call is the step of
`SeekableFile` that answers it, whatever failed on the way (`SeekRefines` for the three
origins). `CallAdvancesHolds`: each step of a
call ends it, reads at least one of the bytes still missing, or does one of the two seeks.

`ArchiveLifecycleProofs` holds for every depth of nesting and number of volumes
(`BoundsAssumption`). None of its properties is inductive alone: that an open handler can
read follows from who holds which stream, and that from where the thread is and how far the
chain has been torn down. The invariant is `TypeOK` and

- `Chain`: at each `pc`, which layers have an open handler; while it is torn down
  the open ones are those up to some `d`, so the next to close is the innermost
  (`InnermostIsNext`);
- `Holding`: `HandlerOf(k)` is held exactly on the stream below an open layer `k`,
  `in_stream` exactly while `NativeOpen` is in its scope, `arg_in_stream` at one place at most;
- `RootLives`: the Java stream is open exactly while somebody holds its wrapper;
- `VolumesLive`: callback and volumes do not outlive the call and the outermost handler;
- `ThrownLast`: a7zip's exception is pending exactly when open has failed and the stream was released;
- `MemoryOfVolumes`: behind the creation of the stream an `OutOfMemoryError` is pending only in an
  archive opened with volumes, which confines the archives that are lost (`NothingLeaks`).

`ImplementsOwnershipHolds` is the refinement of `StreamOwnership`. `View` is the part of the
invariant that the mapping needs (who is open in each phase), and `OwnershipStep`
takes the actions in turn: most change nothing the owner sees (`Unseen`), `HandlerRefuses` of the
outermost handler is `CloseVolumes`, the step that drops the last pointer to the Java stream is
`GiveUpRoot`, `Throw` is `Fail`, `Unwind` is `Succeed`, and the `CloseLayer` of the outermost
layer is `Close`.

`ExtractEntryProofs` holds for any number of entries and chunks (`SizeAssumption`).
Its invariant is `TypeOK` and `Taken` (the sink has as many chunks of the entry as the
handler has decoded of it), `Reported` (a failure stays in the result until it is
thrown), `PasswordAsked` (the flag is set for an encrypted entry only) and `SinkHeld`
(who holds the native stream at each `pc`). All six checked properties follow, and
`ImplementsDeliveryHolds`: a chunk written to the sink is a step `Deliver`
(`WholeEntry` says when nothing is missing), the release of the native stream is `Close`, the end of
the finally clause is `Return`.

Three comments that runs refute are not theorems, and a theorem says of each how far
from the truth it is:

- `CloseFailureSeenHolds`: the close of the sink is what `extractEntry` throws only when the native
  method never had the sink. Once it was written to, no failure of its close is ever seen
  (`extract_close`);
- `RightPasswordBlamedHolds`: the right password is called wrong only when an entry on the way needs
  one, and the sink refused a chunk, an entry up to the one asked for is damaged, or `Extract`
  failed of itself (`extract_password`);
- `OpenedForBytesThereHolds` (in `FormatDetectionProofs`): a format that the first pass opens has one
  of its signatures somewhere in the stream, and at its offset unless a call of the stream had
  failed (`detection_comment`).

`SharedArchiveProofs` holds for any number of calls, entries and bytes. It has three
invariants, each for one property, over a common `TypeInv`:

- `AccessInv` with `Undisturbed`: as long as nobody raced, the archive is open exactly while the
  field has its address, but for the one call that is deleting it, and every call that
  is past its check holds the address of an open archive. `UseNeedsARaceHolds` follows, and with it the
  refinement `ImplementsClosableHolds`: the step that settles an answer is the
  atomic step of `ClosableArchive`, the others stutter;
- `LateInv`: a call that began with the field at zero carries zero through every later step
  and can only be refused;
- `AloneInv`: an extraction that is alone finds the stream's position and the
  array's first bytes where it left them, since every other call that moves them, an extraction
  or a `getEntryStream`, would have taken `alone` from it.

`Invariance` is the conjunction of the three.

`FormatLoadingProofs` holds for every list of handlers, of any length, with any signatures.
`Order` (which modules are initialised at each `pc` and `stage`) gives `NativesAreUsableHolds`.
`TableInv` says what the table is at each `pc`: exact for the handlers passed, and behind them at
most the one entry under construction, of which `ReadSoFar` says what the
properties read have put into it, and `Progress` and `AllRead` how much of the
multi-signature is unpacked. `TableIsExactHolds` follows. `LoadAdvancesHolds` (also checked by the run `loading`): each step of a load ends it
or moves it to the next part, module, class, handler or property, or shortens the buffer of
a multi-signature, whatever its bytes are (`BufferShrinks`).

`PropertyValuesProofs` holds for every even number of values of a byte and every string. `Sizes`,
`Remainder` and `Quotient` carry the arithmetic of `%` and `\div` over widths that are powers of the
constant; `ConvertedNumber` says that the value a getter is named for survives its conversion. `AnswerInv` ties the
answer to the property at each `pc`; its part `Shrinking` is the loop invariant of `shrink`: the characters
before `i` are done, the half-words from `i` on are still those of the handler's
string. All five properties follow.

`EntryStreamProofs` says of every stream what the run `entry_stream` shows of one. Its invariant counts
the references against their owners (`CountInv`, `PointersInv`).
`ReturnedStreamOwnsNothingHolds`: the Java stream never owns a reference. An object that was made for
it is destroyed before `getEntryStream` returns; a handler that hands out itself lives as long as
its archive keeps it, and loses the archive's reference when the Java stream is closed.
`FailureReleasesTwiceHolds`: a stream that could not be made has only the archive's references
while its owners have still to give theirs back.

Termination (`Terminates`, `CallsEnd`, `LoadEnds`) is liveness under fairness and
stays with TLC. What the prover can say of it are the three theorems above that each
step advances; that a step is taken as long as one is possible, and that an order with
an end is not climbed for ever, would need `ENABLED`, fairness and induction.

## Findings

- `CONTINUE_IF_NOT_ZERO` (`cpp/Utils.h:88`) does not continue the caller's loop;
  a failed seek or read goes unnoticed, and a format is opened none of whose signatures is at its
  offset (`detection_comment`). The proved theorems hold
  in spite of it; `MatchingFormatsFirst` needs the condition that no I/O failed.
- A stream returned by `getEntryStream` owns no reference, and has lost its last one unless the
  handler hands out itself (`cpp/JavaInArchive.cpp:252`; `entry_stream`).
- A sink that fails to close in the destructor of the native stream loses its
  exception (`cpp/OutputStream.cpp:42`; `extract_close`).
- Every failure behind a password question, of the sink, the data, the archive's stream or the
  memory, is reported as a wrong password
  (`cpp/InArchive.cpp:144`; `extract_password`).
- The code calls Java with an `OutOfMemoryError` pending
  (`cpp/JavaInArchive.cpp:76`; `lifecycle_memory`). An archive whose handler met that error in its
  last callback is opened and lost (`cpp/JavaInArchive.cpp:109`): a hazard
  that the third part of `NothingLeaks` confines to archives with volumes, since no document says
  anything about it.

## Not modelled, and why

- p7zip: not in the tree; its decoding, and what a handler does to a broken archive, are
  choices of the environment.
- Several entry streams of one archive: `EntryStream` follows one, which is enough to show
  that it owns nothing.
- A 0 that a Java stream returns before its end, against the contract of `java.io.InputStream`:
  the native stream takes it for the end.
- A stream that could not be wrapped is left open; `NothingLeaks` and `StreamOwnership` except it.
- Two threads within one `InArchive` below the level of a call of Java: what p7zip's handlers
  do when two threads run in one of them is in p7zip.
- `JavaEnv` attaches threads that Java does not know. p7zip is built for extraction
  without threads of its own (`-D_7ZIP_ST`), so every call comes from a thread
  of Java and the case does not arise.
- `methods` and `CompressCodecsInfo`, `FileSeekableOutputStream`: nothing uses them.
- `BlackHole.Seek` computes a new position and never stores it; nothing seeks a `BlackHole`.
- The conversion of passwords by a charset: a password is none, right or wrong.
  `extractEntry` with a password of its own does not convert it, other than `open`.
- The VM's table of local references, and archives nested without end: the bounds are
  not this code's.
- Messages, names, progress, logging: no property is about them.

## Plan

Done, in this order: `FormatDetection` with its abstract specification and proofs,
`ArchiveLifecycle`, `ExtractEntry`, `EntryStream`, `PropertyValues`, `FormatLoading`,
`SeekableStream` with its abstract specification; then the proofs about
`SeekableStream`, `ArchiveLifecycle` and `ExtractEntry`.

After these `SharedArchive` with `ClosableArchive` and its proofs, `PropertyValuesProofs` and
`FormatLoadingProofs`. Then the refinements of `StreamOwnership` and `EntryDelivery`, the theorems that delimit
the findings, those about progress, and `EntryStreamProofs`.

Next:

1. `EntryStream` as it would be with a reference for the Java stream: the streams of one
   archive, its close, and two streams that share the Java array, composed with
   `SharedArchive`. Worth writing when the reference is added in the code.
2. The password on its way to p7zip, as a small module over characters and charsets: a
   password converted once, twice or never.
3. `FormatDetection` over `SeekableStream` instead of its own reads, to carry
   short reads and lost positions into the search.
