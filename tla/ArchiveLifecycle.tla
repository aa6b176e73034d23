-------------------------- MODULE ArchiveLifecycle --------------------------
(***************************************************************************)
(* One archive from InArchive.open to InArchive.close: NativeOpen and      *)
(* NativeClose of JavaInArchive.cpp, the loop of SevenZip::OpenArchive     *)
(* that opens an archive inside the only entry of another, the chain of    *)
(* InArchive objects, the volumes that OpenVolumeCallback opens, and the   *)
(* reference counts (CMyComPtr) that decide when a Java stream is closed.  *)
(*                                                                         *)
(* Layer k is the k-th archive of the chain.  Its handler reads stream     *)
(* k - 1: stream 0 is the Java stream given to open, stream k is what the  *)
(* handler of layer k hands out for its only entry.  `holders[k]' is the   *)
(* set of smart pointers to stream k; a stream k > 0 itself keeps stream   *)
(* k - 1, so a stream lives while it or one above it has a holder.  When   *)
(* the object of stream 0 dies, its destructor calls close() on the Java   *)
(* stream.                                                                 *)
(*                                                                         *)
(* FormatDetection models how a layer's format is found; here a layer's    *)
(* handlers are tried until one accepts or the search gives up.            *)
(*                                                                         *)
(* What the Java VM does with a call made while an exception is pending is *)
(* not defined: here the call is made, the ExceptionCheck after it finds   *)
(* the old exception and clears it, and `misuse' remembers.                *)
(***************************************************************************)
EXTENDS Naturals

CONSTANTS
  MaxDepth,     \* bound: layers of archives inside archives
  MaxVolumes    \* bound: volume streams opened through the callback

ASSUME BoundsAssumption == MaxDepth \in Nat \ {0} /\ MaxVolumes \in Nat

VARIABLES
  pc,        \* where the thread is
  volumed,   \* open was given a file name and an OpenVolumeCallback
  root,      \* the Java stream given to open: "open", "closed", or "orphan" when
             \* it is open and could not be wrapped in a native stream
  volume,    \* the Java stream of each volume: "unused" or as the root
  callback,  \* the native OpenVolumeCallback exists
  holders,   \* the smart pointers to each stream
  handler,   \* the handler of each layer: "none", "open" or "closed"
  depth,     \* the number of InArchive objects in the chain
  result,    \* what the last search for a format returned
  pending,   \* the exception pending in the thread: "none", "memory" for an
             \* OutOfMemoryError of the VM, "thrown" for one thrown by a7zip
  misuse     \* history: the exception that was pending in the first call of Java
             \* made while one was

vars == <<pc, volumed, root, volume, callback, holders, handler, depth,
          result, pending, misuse>>

Layers == 1..MaxDepth

Streams == 0..MaxDepth

Volumes == 1..MaxVolumes

\* The smart pointers: a local of NativeOpen, one of OpenArchive, and one in the
\* handler of each layer.
in_stream == <<"in_stream", 0>>
arg_in_stream == <<"arg_in_stream", 0>>
HandlerOf(k) == <<"handler", k>>

Pointers == {in_stream, arg_in_stream} \cup {HandlerOf(k) : k \in Layers}

Exceptions == {"none", "memory", "thrown"}

Steps == {"idle", "callback", "detect", "handler", "push", "return", "release",
          "throw", "unwind", "failed", "lost", "open", "closing", "closed"}

-----------------------------------------------------------------------------

\* A stream lives while it, or a stream that reads through it, has a holder.
Alive(h, k) == \E m \in k..MaxDepth : h[m] # {}

\* The slips after which TLC must find a property violated: a release drops the
\* pointers of others too, or is forgotten; a handler's Close keeps the volumes;
\* a parent is deleted before its child is closed; an inner failure is returned
\* although an outer archive is open; an archive is counted twice.
ReleaseAll(h, k, p) == [h EXCEPT ![k] = {}]
ForgetRelease(h)    == h
KeepVolumes         == volume
OuterFirst          == CHOOSE k \in 1..depth :
                         /\ handler[k] = "open"
                         /\ \A m \in 1..depth : handler[m] = "open" => k <= m
LastSearchOpened    == result = "S_OK"
PushedTwice         == depth + 2

\* The pointer p to stream k is released.
Drop(h, k, p) == [h EXCEPT ![k] = @ \ {p}]

\* The pointer p goes out of scope, whichever stream it points to.
DropAnywhere(h, p) == [k \in Streams |-> h[k] \ {p}]

\* NativeOpen: in_stream.Release() before the exception is thrown.
ReleaseInStream(h) == Drop(h, 0, in_stream)

\* The native streams of the volumes die with the handler that opened them.
VolumesClosed == [v \in Volumes |-> IF volume[v] = "open" THEN "closed" ELSE volume[v]]

\* ~InArchive closes its own handler before it deletes its parent.
NextToClose == CHOOSE k \in 1..depth :
                 /\ handler[k] = "open"
                 /\ \A m \in 1..depth : handler[m] = "open" => m <= k

\* OpenArchive answers S_OK when any layer was opened.
OpenedAnArchive == depth > 0

Pushed == depth + 1

\* What `misuse' remembers of a call into Java.
Misused == IF misuse = "none" THEN pending ELSE misuse

\* The pointers become h and the volumes v: when the last pointer to stream 0 is
\* gone, its destructor closes the Java stream, and clears what is pending then.
Settle(h, v) ==
  /\ holders' = h
  /\ volume' = v
  /\ root' = IF Alive(holders, 0) /\ ~Alive(h, 0) THEN "closed" ELSE root
  /\ IF root' # root \/ volume' # volume THEN pending' = "none" /\ misuse' = Misused
                                        ELSE UNCHANGED <<pending, misuse>>

\* A step that calls into Java and changes no pointer.
CallJava ==
  /\ misuse' = Misused
  /\ UNCHANGED <<holders, root>>

\* Java has the address of the archive, unless an exception is pending when NativeOpen
\* returns: then InArchive.open throws it and nobody has the address.
Returned == IF pending = "none" THEN "open" ELSE "lost"

Init ==
  /\ pc = "idle" /\ volumed \in BOOLEAN
  /\ root = "open" /\ volume = [v \in Volumes |-> "unused"]
  /\ callback = FALSE
  /\ holders = [k \in Streams |-> {}]
  /\ handler = [k \in Layers |-> "none"]
  /\ depth = 0 /\ result = "none"
  /\ pending = "none" /\ misuse = "none"

\* NativeOpen wraps the Java stream.  When the VM cannot allocate the buffer an
\* OutOfMemoryError is pending; when it cannot make a reference none is.
CreateStream ==
  /\ pc = "idle"
  /\ pc' = "callback"
  /\ holders' = [holders EXCEPT ![0] = {in_stream}]
  /\ UNCHANGED <<volumed, root, volume, callback, handler, depth, result,
                 pending, misuse>>

CreateStreamFails ==
  /\ pc = "idle"
  /\ pc' = "throw"
  /\ root' = "orphan"
  /\ pending' \in {"none", "memory"}
  /\ UNCHANGED <<volumed, volume, callback, holders, handler, depth, result, misuse>>

\* NativeOpen wraps the callback, and OpenArchive starts on stream 0.
CreateCallback ==
  /\ pc = "callback"
  /\ pc' = "detect"
  /\ callback' = volumed
  /\ holders' = [holders EXCEPT ![0] = @ \cup {arg_in_stream}]
  /\ UNCHANGED <<volumed, root, volume, handler, depth, result, pending, misuse>>

CreateCallbackFails ==
  /\ pc = "callback" /\ volumed
  /\ pc' = "release"
  /\ UNCHANGED <<volumed, root, volume, callback, holders, handler, depth,
                 result, pending, misuse>>

\* OpenInArchive, once per format tried: the stream is rewound and a handler
\* starts to open it.
StartHandler ==
  /\ pc = "detect" /\ depth < MaxDepth /\ pending = "none"
  /\ pc' = "handler"
  /\ handler' = [handler EXCEPT ![depth + 1] = "open"]
  /\ holders' = [holders EXCEPT ![depth] = @ \cup {HandlerOf(depth + 1)}]
  /\ UNCHANGED <<volumed, root, volume, callback, depth, result, pending, misuse>>

\* A Java stream is called and fails: because it throws, or because of an exception
\* that was pending before.  Of the call a format's stream is rewound with the format
\* is dropped; what a handler makes of it is its own affair.
CallStreamFails ==
  /\ pc \in {"detect", "handler", "push"}
  /\ pending' = "none"
  /\ CallJava
  /\ UNCHANGED <<pc, volumed, volume, callback, handler, depth, result>>

\* ArchiveOpenCallback2::GetStream: the handler of the outermost archive asks for
\* a volume, Java opens it and the native stream is handed to the handler.  When it
\* cannot be wrapped nobody holds it, nor when an exception of before is pending, for
\* which OpenVolume takes it that Java has failed.
OpenVolume(v) ==
  /\ pc = "handler" /\ callback /\ depth = 0 /\ volume[v] = "unused"
  /\ \A u \in 1..(v - 1) : volume[u] # "unused"
  /\ CallJava
  /\ \/ pending = "none" /\ volume' = [volume EXCEPT ![v] = "open"] /\ UNCHANGED pending
     \/ /\ volume' = [volume EXCEPT ![v] = "orphan"]
        /\ pending' \in IF pending = "none" THEN {"none", "memory"} ELSE {"none"}
  /\ UNCHANGED <<pc, volumed, callback, handler, depth, result>>

\* The VM cannot make the string of the volume's name: OpenVolume returns
\* E_OUTOFMEMORY and leaves the error pending.
VolumeNameFails ==
  /\ pc = "handler" /\ callback /\ depth = 0
  /\ pending' = "memory"
  /\ CallJava
  /\ UNCHANGED <<pc, volumed, volume, callback, handler, depth, result>>

\* The handler does not open: it is closed and dropped.
HandlerRefuses ==
  /\ pc = "handler"
  /\ pc' = "detect"
  /\ handler' = [handler EXCEPT ![depth + 1] = "none"]
  /\ Settle(Drop(holders, depth, HandlerOf(depth + 1)),
            IF depth = 0 THEN VolumesClosed ELSE volume)
  /\ UNCHANGED <<volumed, callback, depth, result>>

\* The handler opens: an InArchive object for it is put on top of the chain.
HandlerAccepts ==
  /\ pc = "handler"
  /\ pc' = "push"
  /\ depth' = Pushed
  /\ result' = "S_OK"
  /\ UNCHANGED <<volumed, root, volume, callback, holders, handler, pending, misuse>>

\* The only entry of the new archive is a seekable stream: OpenArchive goes on
\* with it, without password, file name and callback.
Descend ==
  /\ pc = "push" /\ depth < MaxDepth
  /\ pc' = "detect"
  /\ Settle([Drop(holders, depth - 1, arg_in_stream)
               EXCEPT ![depth] = @ \cup {arg_in_stream}], volume)
  /\ UNCHANGED <<volumed, callback, handler, depth, result>>

\* It is not: the loop ends.
StopDescending ==
  /\ pc = "push"
  /\ pc' = "return"
  /\ UNCHANGED <<volumed, root, volume, callback, holders, handler, depth,
                 result, pending, misuse>>

\* No format was found, or a password was asked for in vain.
SearchFails ==
  /\ pc = "detect"
  /\ pc' = "return" /\ result' = "failed"
  /\ UNCHANGED <<volumed, root, volume, callback, holders, handler, depth,
                 pending, misuse>>

\* OpenArchive returns and its pointer goes out of scope.
ReturnArchive ==
  /\ pc = "return"
  /\ pc' = IF OpenedAnArchive THEN "unwind" ELSE "release"
  /\ Settle(DropAnywhere(holders, arg_in_stream), volume)
  /\ UNCHANGED <<volumed, callback, handler, depth, result>>

\* "Call java methods before throw exception": the stream is released first.
Release ==
  /\ pc = "release"
  /\ pc' = "throw"
  /\ Settle(ReleaseInStream(holders), volume)
  /\ UNCHANGED <<volumed, callback, handler, depth, result>>

\* ThrowException looks up the exception's class and throws.
Throw ==
  /\ pc = "throw"
  /\ pc' = "unwind" /\ pending' = "thrown"
  /\ CallJava
  /\ UNCHANGED <<volumed, volume, callback, handler, depth, result>>

\* NativeOpen returns: the destructors of its locals run.
Unwind ==
  /\ pc = "unwind"
  /\ pc' = IF OpenedAnArchive THEN Returned ELSE "failed"
  /\ callback' = FALSE
  /\ Settle(Drop(holders, 0, in_stream), volume)
  /\ UNCHANGED <<volumed, handler, depth, result>>

\* InArchive.close, NativeClose: delete archive.
Close ==
  /\ pc = "open"
  /\ pc' = "closing"
  /\ UNCHANGED <<volumed, root, volume, callback, holders, handler, depth,
                 result, pending, misuse>>

\* One ~InArchive of the chain closes its handler.
CloseLayer ==
  /\ pc = "closing" /\ \E k \in 1..depth : handler[k] = "open"
  /\ LET k == NextToClose IN
       /\ handler' = [handler EXCEPT ![k] = "closed"]
       /\ Settle(Drop(holders, k - 1, HandlerOf(k)),
                 IF k = 1 THEN VolumesClosed ELSE volume)
  /\ UNCHANGED <<pc, volumed, callback, depth, result>>

ChainDeleted ==
  /\ pc = "closing" /\ \A k \in 1..depth : handler[k] = "closed"
  /\ pc' = "closed"
  /\ UNCHANGED <<volumed, root, volume, callback, holders, handler, depth,
                 result, pending, misuse>>

Next ==
  \/ CreateStream \/ CreateStreamFails \/ CreateCallback \/ CreateCallbackFails
  \/ StartHandler \/ CallStreamFails \/ (\E v \in Volumes : OpenVolume(v)) \/ VolumeNameFails
  \/ HandlerRefuses \/ HandlerAccepts \/ Descend \/ StopDescending \/ SearchFails
  \/ ReturnArchive \/ Release \/ Throw \/ Unwind
  \/ Close \/ CloseLayer \/ ChainDeleted

Spec == Init /\ [][Next]_vars

-----------------------------------------------------------------------------

TypeOK ==
  /\ pc \in Steps /\ volumed \in BOOLEAN
  /\ root \in {"open", "closed", "orphan"}
  /\ volume \in [Volumes -> {"unused", "open", "closed", "orphan"}]
  /\ callback \in BOOLEAN
  /\ holders \in [Streams -> SUBSET Pointers]
  /\ handler \in [Layers -> {"none", "open", "closed"}]
  /\ depth \in 0..MaxDepth /\ result \in {"none", "S_OK", "failed"}
  /\ pending \in Exceptions /\ misuse \in Exceptions

\* While a handler is open the Java stream below it is open, through however many
\* layers, and whatever pointers have come and gone: the handler reads it whenever
\* a client asks for an entry.
OpenHandlersCanRead == \A k \in Layers : handler[k] = "open" => root = "open"

\* When open has failed, and after close, every Java stream that was wrapped is
\* closed, and no pointer and no callback is left; the volumes are closed as soon
\* as the handler that asked for them has refused the archive.  An opened archive is
\* lost, with its streams open, only if it was opened with volumes.
NothingLeaks ==
  /\ pc \in {"failed", "closed"} =>
       /\ root # "open" /\ ~callback
       /\ \A k \in Streams : holders[k] = {}
  /\ handler[1] # "open" => \A v \in Volumes : volume[v] # "open"
  /\ pc = "lost" => volumed

\* An opened archive is never lost to what is found inside it: open fails only
\* when no layer was opened, and returns with every layer of the chain open.
InnerFailureKeepsOuter ==
  /\ pc = "failed" => depth = 0
  /\ pc = "open" => depth > 0 /\ \A k \in 1..depth : handler[k] = "open"

\* "Call java methods before throw exception": no Java method is called, and no
\* Java stream closed, after a7zip has thrown its exception, by any destructor that
\* runs on the way out of NativeOpen.
NoJavaCallAfterThrow == misuse # "thrown"

\* The same of every pending exception, an OutOfMemoryError of the VM included.
NoJavaCallWhilePending == misuse = "none"

\* What the caller of open and close sees of them.  The archive is closed with its
\* outermost layer, the last one that ~InArchive comes to.
Phase ==
  CASE pending = "thrown" -> "failed"
    [] pc \in {"open", "lost"} -> "open"
    [] pc \in {"closing", "closed"} -> IF root = "open" THEN "open" ELSE "closed"
    [] OTHER -> "opening"

\* The Java streams are taken and closed as StreamOwnership says: each of them is
\* closed once and at one point, whatever handlers, layers and pointers were between
\* it and its owner, and before the exception with which open fails.
Ownership == INSTANCE StreamOwnership WITH phase <- Phase

ImplementsOwnership == Ownership!Spec

\* The handler of an archive is not closed while one that reads through it is
\* open.
InnerClosedFirst ==
  [][\A k \in Layers : handler[k] = "open" /\ handler'[k] # "open"
        => \A m \in Layers : m > k => handler[m] # "open"]_vars
=============================================================================
