------------------------ MODULE ArchiveLifecycleProofs ------------------------
(***************************************************************************)
(* Proofs about ArchiveLifecycle, for every depth of nesting and every     *)
(* number of volumes.                                                      *)
(***************************************************************************)
EXTENDS ArchiveLifecycle, TLAPS

\* Where NativeOpen holds in_stream.
OwnsInStream ==
  \/ pc \in {"callback", "detect", "handler", "push", "return", "release"}
  \/ pc = "unwind" /\ depth > 0

\* The handlers of the chain: while it is built those of its layers are open, with
\* one more that is being tried; while it is torn down they are closed from the top.
Chain ==
  /\ pc \in {"idle", "callback", "release", "throw", "failed"} => depth = 0
  /\ pc \in {"push", "open", "lost", "closing", "closed"} => depth > 0
  /\ pc = "handler" => depth < MaxDepth
  /\ pc \notin {"closing", "closed"} =>
       \A k \in Layers :
         handler[k] = IF k <= depth \/ (k = depth + 1 /\ pc = "handler")
                      THEN "open" ELSE "none"
  /\ pc \in {"closing", "closed"} =>
       \E d \in 0..depth :
         /\ pc = "closed" => d = 0
         /\ \A k \in Layers : handler[k] = IF k <= d THEN "open"
                                           ELSE IF k <= depth THEN "closed" ELSE "none"

\* Which smart pointers there are, and what they point to.
Holding ==
  /\ \A k \in Layers, m \in Streams :
       HandlerOf(k) \in holders[m] <=> m = k - 1 /\ handler[k] = "open"
  /\ \A m \in Streams : in_stream \in holders[m] <=> m = 0 /\ OwnsInStream
  /\ \A m \in Streams :
       arg_in_stream \in holders[m] =>
         \/ pc \in {"detect", "handler"} /\ m = depth
         \/ pc = "push" /\ m = depth - 1
         \/ pc = "return"

\* The Java stream is open exactly while somebody holds it, once it was wrapped.
RootLives ==
  /\ pc = "idle" => root = "open"
  /\ pc # "idle" => (root = "open" <=> Alive(holders, 0))

\* The callback goes with NativeOpen, the volumes with the outermost handler.
VolumesLive ==
  /\ pc = "idle" => \A v \in Volumes : volume[v] = "unused"
  /\ callback => pc \in {"detect", "handler", "push", "return", "release", "throw", "unwind"}
  /\ handler[1] # "open" => \A v \in Volumes : volume[v] # "open"

\* a7zip throws at the end only, when it holds nothing any more, and on every path on
\* which no archive was opened.
ThrownLast ==
  /\ pending = "thrown" <=> pc \in {"unwind", "failed"} /\ depth = 0
  /\ misuse # "thrown"

\* Only what is done for a volume can leave an OutOfMemoryError pending behind it.
MemoryOfVolumes ==
  /\ callback => volumed
  /\ pending = "memory" => volumed \/ pc = "throw"
  /\ pc = "lost" => volumed

IInv == /\ TypeOK /\ Chain /\ Holding /\ RootLives /\ VolumesLive /\ ThrownLast
        /\ MemoryOfVolumes
-----------------------------------------------------------------------------

\* The smart pointers are different from one another.
LEMMA PointersDiffer ==
  /\ in_stream # arg_in_stream
  /\ in_stream \in Pointers /\ arg_in_stream \in Pointers
  /\ \A k \in Layers : /\ HandlerOf(k) # in_stream /\ HandlerOf(k) # arg_in_stream
                       /\ HandlerOf(k) \in Pointers
  /\ \A k, m \in Layers : HandlerOf(k) = HandlerOf(m) => k = m
BY DEF in_stream, arg_in_stream, HandlerOf, Pointers

\* The layers and the streams are numbers.
LEMMA Numbers ==
  /\ MaxDepth \in Nat /\ MaxDepth > 0
  /\ \A k \in Layers : k \in Nat /\ 0 < k /\ k <= MaxDepth /\ k - 1 \in Streams
  /\ \A m \in Streams : m \in Nat /\ m <= MaxDepth
  /\ \A k \in Nat : (0 < k /\ k <= MaxDepth) => k \in Layers
  /\ \A m \in Nat : m <= MaxDepth => m \in Streams
BY BoundsAssumption DEF Layers, Streams

\* The layer that ~InArchive closes next is the innermost one that is open.
LEMMA InnermostIsNext ==
  ASSUME TypeOK, NEW d \in 1..depth,
         \A k \in Layers : handler[k] = IF k <= d THEN "open"
                                        ELSE IF k <= depth THEN "closed" ELSE "none"
  PROVE  NextToClose = d
<1> DEFINE Top(k) == handler[k] = "open" /\ \A m \in 1..depth : handler[m] = "open" => m <= k
<1>1. depth \in Nat /\ depth <= MaxDepth /\ d \in Layers /\ 1..depth \subseteq Layers
  BY Numbers DEF TypeOK, Layers
<1>2. \A k \in 1..depth : handler[k] = "open" <=> k <= d
  BY <1>1
<1>3. Top(d)
  BY <1>1, <1>2
<1>4. \A k \in 1..depth : Top(k) => k = d
  BY <1>1, <1>2
<1>5. NextToClose = CHOOSE k \in 1..depth : Top(k)
  BY DEF NextToClose
<1> HIDE DEF Top
<1> QED BY <1>3, <1>4, <1>5

\* One ~InArchive closes the innermost handler that is open, and releases the stream
\* below it.
LEMMA ClosesInnermost ==
  ASSUME TypeOK, Chain, CloseLayer
  PROVE  \E d \in 1..depth :
           /\ handler' = [handler EXCEPT ![d] = "closed"]
           /\ Settle(Drop(holders, d - 1, HandlerOf(d)),
                     IF d = 1 THEN VolumesClosed ELSE volume)
           /\ \A k \in Layers : handler[k] = IF k <= d THEN "open"
                                             ELSE IF k <= depth THEN "closed" ELSE "none"
<1>0. depth \in Nat /\ depth <= MaxDepth
  BY Numbers DEF TypeOK
<1>1. PICK d \in 0..depth :
        \A k \in Layers : handler[k] = IF k <= d THEN "open"
                                       ELSE IF k <= depth THEN "closed" ELSE "none"
  BY DEF CloseLayer, Chain
<1>2. d \in 1..depth
  BY <1>0, <1>1, Numbers DEF CloseLayer
<1>3. NextToClose = d
  BY <1>1, <1>2, InnermostIsNext
<1> QED BY <1>1, <1>2, <1>3 DEF CloseLayer

-----------------------------------------------------------------------------

\* Before NativeOpen begins there are no handlers and no pointers.
LEMMA InitIInv == Init => IInv
<1> SUFFICES ASSUME Init PROVE IInv
  OBVIOUS
<1>1. TypeOK
  <2>1. depth \in 0..MaxDepth
    BY Numbers DEF Init
  <2>2. /\ volume \in [Volumes -> {"unused", "open", "closed", "orphan"}]
        /\ holders \in [Streams -> SUBSET Pointers]
        /\ handler \in [Layers -> {"none", "open", "closed"}]
    BY DEF Init
  <2> QED BY <2>1, <2>2 DEF Init, TypeOK, Steps, Exceptions
<1>2. Chain
  BY Numbers DEF Init, Chain
<1>3. Holding
  BY DEF Init, Holding, OwnsInStream
<1>4. RootLives
  BY DEF Init, RootLives
<1>5. VolumesLive
  BY DEF Init, VolumesLive
<1>6. ThrownLast
  BY DEF Init, ThrownLast
<1>7. MemoryOfVolumes
  BY DEF Init, MemoryOfVolumes
<1> QED BY <1>1, <1>2, <1>3, <1>4, <1>5, <1>6, <1>7 DEF IInv

\* Dropping and taking pointers gives pointers.
LEMMA DropTypes ==
  ASSUME holders \in [Streams -> SUBSET Pointers], NEW m \in Streams, NEW p
  PROVE  /\ Drop(holders, m, p) \in [Streams -> SUBSET Pointers]
         /\ \A n \in Streams : Drop(holders, m, p)[n] = IF n = m THEN holders[n] \ {p} ELSE holders[n]
         /\ DropAnywhere(holders, p) \in [Streams -> SUBSET Pointers]
         /\ \A n \in Streams : DropAnywhere(holders, p)[n] = holders[n] \ {p}
         /\ ReleaseInStream(holders) = Drop(holders, 0, in_stream)
BY DEF Drop, DropAnywhere, ReleaseInStream

\* What the release of pointers leaves of the streams and of the exceptions.
LEMMA SettleTypes ==
  ASSUME TypeOK, NEW h, NEW v, Settle(h, v)
  PROVE  /\ holders' = h /\ volume' = v
         /\ root' \in {"open", "closed", "orphan"}
         /\ pending' \in Exceptions /\ misuse' \in Exceptions
BY DEF Settle, Misused, TypeOK, Exceptions

\* Closing the volumes gives volumes, none of which is open.
LEMMA VolumesClosedTypes ==
  ASSUME TypeOK
  PROVE  /\ VolumesClosed \in [Volumes -> {"unused", "open", "closed", "orphan"}]
         /\ \A v \in Volumes : VolumesClosed[v] # "open"
BY DEF VolumesClosed, TypeOK

\* Every step keeps the variables in their types.
LEMMA TypeNext == TypeOK /\ Chain /\ [Next]_vars => TypeOK'
<1> SUFFICES ASSUME TypeOK, Chain, [Next]_vars PROVE TypeOK'
  OBVIOUS
<1>0. 0 \in Streams /\ depth \in Streams /\ depth \in Nat /\ depth <= MaxDepth /\ MaxDepth \in Nat
  BY Numbers DEF TypeOK
<1> USE DEF Steps, Exceptions
<1>1. CASE CreateStream
  BY <1>0, <1>1, PointersDiffer DEF CreateStream, TypeOK
<1>2. CASE CreateStreamFails
  BY <1>2 DEF CreateStreamFails, TypeOK
<1>3. CASE CreateCallback
  BY <1>0, <1>3, PointersDiffer DEF CreateCallback, TypeOK
<1>4. CASE CreateCallbackFails
  BY <1>4 DEF CreateCallbackFails, TypeOK
<1>5. CASE StartHandler
  <2>1. depth + 1 \in Layers
    BY <1>0, <1>5, Numbers DEF StartHandler
  <2> QED BY <1>0, <1>5, <2>1, PointersDiffer DEF StartHandler, TypeOK
<1>6. ASSUME NEW v \in Volumes, OpenVolume(v) PROVE TypeOK'
  BY <1>6 DEF OpenVolume, CallJava, TypeOK, Misused
<1>7. CASE VolumeNameFails
  BY <1>7 DEF VolumeNameFails, CallJava, TypeOK, Misused
<1>8. CASE HandlerRefuses
  <2>1. Settle(Drop(holders, depth, HandlerOf(depth + 1)),
               IF depth = 0 THEN VolumesClosed ELSE volume)
    BY <1>8 DEF HandlerRefuses
  <2>2. /\ holders' \in [Streams -> SUBSET Pointers]
        /\ volume' \in [Volumes -> {"unused", "open", "closed", "orphan"}]
        /\ root' \in {"open", "closed", "orphan"}
        /\ pending' \in Exceptions /\ misuse' \in Exceptions
    BY <1>0, <2>1, SettleTypes, DropTypes, VolumesClosedTypes DEF TypeOK
  <2> QED BY <1>8, <2>2 DEF HandlerRefuses, TypeOK
<1>9. CASE HandlerAccepts
  BY <1>0, <1>9 DEF HandlerAccepts, Pushed, Chain, TypeOK
<1>10. CASE Descend
  <2> DEFINE d == Drop(holders, depth - 1, arg_in_stream)
             h == [d EXCEPT ![depth] = @ \cup {arg_in_stream}]
  <2>1. depth - 1 \in Streams
    BY <1>0, <1>10, Numbers DEF Descend, Chain
  <2>2. d \in [Streams -> SUBSET Pointers]
    BY <2>1, DropTypes DEF TypeOK
  <2>3. h \in [Streams -> SUBSET Pointers]
    <3> HIDE DEF d
    <3> QED BY <1>0, <2>2, PointersDiffer
  <2>4. Settle(h, volume) /\ pc' = "detect"
        /\ UNCHANGED <<volumed, callback, handler, depth, result>>
    BY <1>10 DEF Descend
  <2> HIDE DEF h
  <2>5. /\ holders' = h /\ volume' = volume
        /\ root' \in {"open", "closed", "orphan"}
        /\ pending' \in Exceptions /\ misuse' \in Exceptions
    BY <2>4, SettleTypes
  <2> QED BY <2>3, <2>4, <2>5 DEF TypeOK
<1>11. CASE StopDescending
  BY <1>11 DEF StopDescending, TypeOK
<1>12. CASE SearchFails
  BY <1>12 DEF SearchFails, TypeOK
<1>13. CASE ReturnArchive
  <2>1. Settle(DropAnywhere(holders, arg_in_stream), volume)
    BY <1>13 DEF ReturnArchive
  <2>2. /\ holders' \in [Streams -> SUBSET Pointers] /\ volume' = volume
        /\ root' \in {"open", "closed", "orphan"}
        /\ pending' \in Exceptions /\ misuse' \in Exceptions
    BY <1>0, <2>1, SettleTypes, DropTypes DEF TypeOK
  <2> QED BY <1>13, <2>2 DEF ReturnArchive, TypeOK
<1>14. CASE Release
  <2>1. Settle(Drop(holders, 0, in_stream), volume)
    BY <1>14 DEF Release, ReleaseInStream
  <2>2. /\ holders' \in [Streams -> SUBSET Pointers] /\ volume' = volume
        /\ root' \in {"open", "closed", "orphan"}
        /\ pending' \in Exceptions /\ misuse' \in Exceptions
    BY <1>0, <2>1, SettleTypes, DropTypes DEF TypeOK
  <2> QED BY <1>14, <2>2 DEF Release, TypeOK
<1>15. CASE Throw
  BY <1>15 DEF Throw, CallJava, TypeOK, Misused
<1>16. CASE Unwind
  <2>1. Settle(Drop(holders, 0, in_stream), volume)
    BY <1>16 DEF Unwind
  <2>2. /\ holders' \in [Streams -> SUBSET Pointers] /\ volume' = volume
        /\ root' \in {"open", "closed", "orphan"}
        /\ pending' \in Exceptions /\ misuse' \in Exceptions
    BY <1>0, <2>1, SettleTypes, DropTypes DEF TypeOK
  <2> QED BY <1>16, <2>2 DEF Unwind, Returned, TypeOK
<1>17. CASE Close
  BY <1>17 DEF Close, TypeOK
<1>18. CASE CloseLayer
  <2>1. PICK d \in 1..depth :
           /\ handler' = [handler EXCEPT ![d] = "closed"]
           /\ Settle(Drop(holders, d - 1, HandlerOf(d)),
                     IF d = 1 THEN VolumesClosed ELSE volume)
    BY <1>18, ClosesInnermost
  <2>2. d - 1 \in Streams
    BY <1>0, <2>1, Numbers
  <2>3. /\ holders' \in [Streams -> SUBSET Pointers]
        /\ volume' \in [Volumes -> {"unused", "open", "closed", "orphan"}]
        /\ root' \in {"open", "closed", "orphan"}
        /\ pending' \in Exceptions /\ misuse' \in Exceptions
    BY <2>1, <2>2, SettleTypes, DropTypes, VolumesClosedTypes DEF TypeOK
  <2>4. handler' \in [Layers -> {"none", "open", "closed"}]
    BY <2>1 DEF TypeOK
  <2> QED BY <1>18, <2>3, <2>4 DEF CloseLayer, TypeOK
<1>19. CASE ChainDeleted
  BY <1>19 DEF ChainDeleted, TypeOK
<1>20. CASE CallStreamFails
  BY <1>20 DEF CallStreamFails, CallJava, TypeOK, Misused
<1>21. CASE UNCHANGED vars
  BY <1>21 DEF vars, TypeOK
<1> QED
  BY <1>1, <1>2, <1>3, <1>4, <1>5, <1>6, <1>7, <1>8, <1>9, <1>10, <1>11, <1>12, <1>13,
     <1>14, <1>15, <1>16, <1>17, <1>18, <1>19, <1>20, <1>21 DEF Next
\* The chain of handlers grows at its inner end and is torn down from there.
LEMMA ChainNext == TypeOK /\ Chain /\ [Next]_vars => Chain'
<1> SUFFICES ASSUME TypeOK, Chain, [Next]_vars PROVE Chain'
  OBVIOUS
<1>0. depth \in Nat /\ depth <= MaxDepth /\ MaxDepth \in Nat /\ pc \in Steps
      /\ handler \in [Layers -> {"none", "open", "closed"}]
  BY Numbers DEF TypeOK
<1>1. CASE \/ CreateStream \/ CreateStreamFails \/ CreateCallback \/ CreateCallbackFails
           \/ StopDescending \/ SearchFails
  BY <1>0, <1>1 DEF CreateStream, CreateStreamFails, CreateCallback, CreateCallbackFails,
                    StopDescending, SearchFails, Chain
<1>2. CASE StartHandler
  BY <1>0, <1>2, Numbers DEF StartHandler, Chain
<1>3. ASSUME NEW v \in Volumes, OpenVolume(v) PROVE Chain'
  BY <1>3 DEF OpenVolume, Chain
<1>4. CASE VolumeNameFails \/ CallStreamFails
  BY <1>4 DEF VolumeNameFails, CallStreamFails, Chain
<1>5. CASE HandlerRefuses
  BY <1>0, <1>5, Numbers DEF HandlerRefuses, Chain
<1>6. CASE HandlerAccepts
  <2>1. depth' = depth + 1 /\ pc' = "push" /\ handler' = handler /\ pc = "handler"
    BY <1>6 DEF HandlerAccepts, Pushed
  <2>2. \A k \in Layers : k <= depth' <=> k <= depth \/ k = depth + 1
    BY <1>0, <2>1, Numbers
  <2> QED BY <1>0, <2>1, <2>2 DEF Chain
<1>7. CASE Descend
  BY <1>7 DEF Descend, Chain
<1>8. CASE ReturnArchive
  BY <1>0, <1>8 DEF ReturnArchive, OpenedAnArchive, Chain
<1>9. CASE Release \/ Throw
  BY <1>9 DEF Release, Throw, Chain
<1>10. CASE Unwind
  BY <1>0, <1>10 DEF Unwind, OpenedAnArchive, Returned, Chain
<1>11. CASE Close
  <2>1. \A k \in Layers : handler'[k] = IF k <= depth' THEN "open"
                                        ELSE IF k <= depth' THEN "closed" ELSE "none"
    BY <1>11 DEF Close, Chain
  <2>2. depth' \in 0..depth' /\ pc' = "closing" /\ depth' > 0
    BY <1>0, <1>11 DEF Close, Chain
  <2> QED BY <2>1, <2>2 DEF Chain
<1>12. CASE CloseLayer
  <2>1. PICK d \in 1..depth :
           /\ handler' = [handler EXCEPT ![d] = "closed"]
           /\ \A k \in Layers : handler[k] = IF k <= d THEN "open"
                                             ELSE IF k <= depth THEN "closed" ELSE "none"
    BY <1>12, ClosesInnermost
  <2>2. \A k \in Layers : handler'[k] = IF k <= d - 1 THEN "open"
                                        ELSE IF k <= depth THEN "closed" ELSE "none"
    BY <1>0, <2>1, Numbers
  <2>3. d - 1 \in 0..depth /\ depth' = depth /\ pc' = "closing" /\ pc = "closing"
    BY <1>0, <1>12, <2>1 DEF CloseLayer
  <2> QED BY <2>2, <2>3 DEF Chain
<1>13. CASE ChainDeleted
  <2>1. PICK d \in 0..depth :
            \A k \in Layers : handler[k] = IF k <= d THEN "open"
                                           ELSE IF k <= depth THEN "closed" ELSE "none"
    BY <1>13 DEF ChainDeleted, Chain
  <2>2. CASE d > 0
    <3>1. d \in Layers /\ d \in 1..depth
      BY <1>0, <2>1, <2>2, Numbers
    <3> QED BY <1>13, <2>1, <3>1 DEF ChainDeleted
  <2>3. CASE d = 0
    BY <1>13, <2>1, <2>3 DEF ChainDeleted, Chain
  <2> QED BY <2>2, <2>3
<1>14. CASE UNCHANGED vars
  BY <1>14 DEF vars, Chain
<1> QED
  BY <1>1, <1>2, <1>3, <1>4, <1>5, <1>6, <1>7, <1>8, <1>9, <1>10, <1>11, <1>12, <1>13, <1>14
  DEF Next
\* Each pointer goes where the handler or the local that has it reads.
LEMMA HoldingNext == TypeOK /\ Chain /\ Holding /\ [Next]_vars => Holding'
<1> SUFFICES ASSUME TypeOK, Chain, Holding, [Next]_vars PROVE Holding'
  OBVIOUS
<1>0. /\ depth \in Nat /\ depth <= MaxDepth /\ MaxDepth \in Nat
      /\ handler \in [Layers -> {"none", "open", "closed"}]
      /\ holders \in [Streams -> SUBSET Pointers]
      /\ 0 \in Streams /\ depth \in Streams
  BY Numbers DEF TypeOK
<1>1. CASE CreateStream
  <2>1. \A m \in Streams : holders'[m] = IF m = 0 THEN {in_stream} ELSE holders[m]
    BY <1>0, <1>1 DEF CreateStream
  <2>2. /\ pc = "idle" /\ pc' = "callback" /\ handler' = handler /\ depth' = depth
        /\ \A k \in Layers : handler[k] = "none"
    BY <1>0, <1>1, Numbers DEF CreateStream, Chain
  <2> QED BY <2>1, <2>2, PointersDiffer DEF Holding, OwnsInStream
<1>2. CASE CreateStreamFails \/ CreateCallbackFails \/ HandlerAccepts \/ StopDescending
           \/ SearchFails \/ Close \/ ChainDeleted \/ Throw
  <2>1. holders' = holders /\ handler' = handler
    BY <1>2 DEF CreateStreamFails, CreateCallbackFails, HandlerAccepts, StopDescending,
                SearchFails, Close, ChainDeleted, Throw, CallJava
  <2>2. \/ pc = "idle" /\ pc' = "throw" /\ depth' = depth
        \/ pc = "callback" /\ pc' = "release" /\ depth' = depth
        \/ pc = "handler" /\ pc' = "push" /\ depth' = depth + 1
        \/ pc \in {"push", "detect"} /\ pc' = "return" /\ depth' = depth
        \/ pc = "open" /\ pc' = "closing" /\ depth' = depth
        \/ pc = "closing" /\ pc' = "closed" /\ depth' = depth
        \/ pc = "throw" /\ pc' = "unwind" /\ depth' = depth /\ depth = 0
    BY <1>2 DEF CreateStreamFails, CreateCallbackFails, HandlerAccepts, Pushed, StopDescending,
                SearchFails, Close, ChainDeleted, Throw, Chain
  <2> QED BY <1>0, <2>1, <2>2 DEF Holding, OwnsInStream
<1>3. CASE CreateCallback
  <2>1. \A m \in Streams :
          holders'[m] = IF m = 0 THEN holders[0] \cup {arg_in_stream} ELSE holders[m]
    BY <1>0, <1>3 DEF CreateCallback
  <2>2. pc = "callback" /\ pc' = "detect" /\ handler' = handler /\ depth' = 0
    BY <1>3 DEF CreateCallback, Chain
  <2>3. \A m \in Streams : /\ in_stream \in holders'[m] <=> in_stream \in holders[m]
                           /\ \A k \in Layers :
                                HandlerOf(k) \in holders'[m] <=> HandlerOf(k) \in holders[m]
    BY <2>1, PointersDiffer
  <2>4. \A m \in Streams : arg_in_stream \in holders'[m] => m = 0
    BY <2>1, <2>2 DEF Holding
  <2> QED BY <2>2, <2>3, <2>4 DEF Holding, OwnsInStream
<1>4. CASE StartHandler
  <2>1. depth + 1 \in Layers /\ pc = "detect" /\ pc' = "handler" /\ depth' = depth
    BY <1>0, <1>4, Numbers DEF StartHandler
  <2>2. \A m \in Streams :
          holders'[m] = IF m = depth THEN holders[m] \cup {HandlerOf(depth + 1)} ELSE holders[m]
    BY <1>0, <1>4 DEF StartHandler
  <2>3. \A k \in Layers : handler'[k] = IF k = depth + 1 THEN "open" ELSE handler[k]
    BY <1>0, <1>4 DEF StartHandler
  <2>4. handler[depth + 1] = "none"
    BY <1>0, <2>1 DEF Chain
  <2>5. \A k \in Layers, m \in Streams :
          HandlerOf(k) \in holders'[m] <=> m = k - 1 /\ handler'[k] = "open"
    <3> TAKE k \in Layers, m \in Streams
    <3>1. HandlerOf(k) \in holders[m] <=> m = k - 1 /\ handler[k] = "open"
      BY DEF Holding
    <3>2. HandlerOf(k) \in holders'[m]
            <=> HandlerOf(k) \in holders[m] \/ (m = depth /\ k = depth + 1)
      BY <2>1, <2>2, PointersDiffer
    <3> QED BY <1>0, <2>1, <2>3, <2>4, <3>1, <3>2, Numbers
  <2>6. \A m \in Streams : /\ in_stream \in holders'[m] <=> in_stream \in holders[m]
                           /\ arg_in_stream \in holders'[m] <=> arg_in_stream \in holders[m]
    BY <2>1, <2>2, PointersDiffer
  <2> QED BY <2>1, <2>5, <2>6 DEF Holding, OwnsInStream
<1>5. ASSUME NEW v \in Volumes, OpenVolume(v) PROVE Holding'
  BY <1>5 DEF OpenVolume, CallJava, Holding, OwnsInStream
<1>6. CASE VolumeNameFails \/ CallStreamFails
  BY <1>6 DEF VolumeNameFails, CallStreamFails, CallJava, Holding, OwnsInStream
<1>7. CASE HandlerRefuses
  <2>1. depth + 1 \in Layers /\ pc = "handler" /\ pc' = "detect" /\ depth' = depth
    BY <1>0, <1>7, Numbers DEF HandlerRefuses, Chain
  <2>2. \A m \in Streams :
          holders'[m] = IF m = depth THEN holders[m] \ {HandlerOf(depth + 1)} ELSE holders[m]
    <3>1. holders' = Drop(holders, depth, HandlerOf(depth + 1))
      BY <1>7 DEF HandlerRefuses, Settle
    <3> QED BY <1>0, <3>1 DEF Drop
  <2>3. \A k \in Layers : handler'[k] = IF k = depth + 1 THEN "none" ELSE handler[k]
    BY <1>0, <1>7 DEF HandlerRefuses
  <2>4. \A k \in Layers, m \in Streams :
          HandlerOf(k) \in holders'[m] <=> m = k - 1 /\ handler'[k] = "open"
    <3> TAKE k \in Layers, m \in Streams
    <3>1. HandlerOf(k) \in holders[m] <=> m = k - 1 /\ handler[k] = "open"
      BY DEF Holding
    <3>2. HandlerOf(k) \in holders'[m]
            <=> HandlerOf(k) \in holders[m] /\ ~(m = depth /\ k = depth + 1)
      BY <2>1, <2>2, PointersDiffer
    <3> QED BY <1>0, <2>1, <2>3, <3>1, <3>2, Numbers
  <2>5. \A m \in Streams : /\ in_stream \in holders'[m] <=> in_stream \in holders[m]
                           /\ arg_in_stream \in holders'[m] <=> arg_in_stream \in holders[m]
    BY <2>1, <2>2, PointersDiffer
  <2> QED BY <2>1, <2>4, <2>5 DEF Holding, OwnsInStream
<1>8. CASE Descend
  <2>1. /\ pc = "push" /\ pc' = "detect" /\ depth' = depth /\ handler' = handler
        /\ depth - 1 \in Streams /\ depth > 0
    BY <1>0, <1>8, Numbers DEF Descend, Chain
  <2>2. \A m \in Streams :
          holders'[m] = IF m = depth - 1 THEN holders[m] \ {arg_in_stream}
                        ELSE IF m = depth THEN holders[m] \cup {arg_in_stream}
                        ELSE holders[m]
    <3> DEFINE d == Drop(holders, depth - 1, arg_in_stream)
    <3>1. holders' = [d EXCEPT ![depth] = @ \cup {arg_in_stream}]
      BY <1>8 DEF Descend, Settle
    <3>2. /\ d \in [Streams -> SUBSET Pointers]
          /\ \A m \in Streams :
               d[m] = IF m = depth - 1 THEN holders[m] \ {arg_in_stream} ELSE holders[m]
      BY <1>0, <2>1, DropTypes
    <3> HIDE DEF d
    <3> QED BY <1>0, <3>1, <3>2
  <2>3. \A m \in Streams : /\ in_stream \in holders'[m] <=> in_stream \in holders[m]
                           /\ \A k \in Layers :
                                HandlerOf(k) \in holders'[m] <=> HandlerOf(k) \in holders[m]
    BY <2>2, PointersDiffer
  <2>4. \A m \in Streams : arg_in_stream \in holders'[m] => m = depth
    BY <2>1, <2>2 DEF Holding
  <2> QED BY <2>1, <2>3, <2>4 DEF Holding, OwnsInStream
<1>9. CASE ReturnArchive
  <2>1. \A m \in Streams : holders'[m] = holders[m] \ {arg_in_stream}
    BY <1>0, <1>9, DropTypes DEF ReturnArchive, Settle
  <2>2. /\ pc = "return" /\ depth' = depth /\ handler' = handler
        /\ pc' = IF depth > 0 THEN "unwind" ELSE "release"
    BY <1>9 DEF ReturnArchive, OpenedAnArchive
  <2> QED BY <1>0, <2>1, <2>2, PointersDiffer DEF Holding, OwnsInStream
<1>10. CASE Release \/ Unwind
  <2>1. \A m \in Streams : holders'[m] = IF m = 0 THEN holders[m] \ {in_stream} ELSE holders[m]
    <3>1. holders' = Drop(holders, 0, in_stream)
      BY <1>10 DEF Release, ReleaseInStream, Unwind, Settle
    <3> QED BY <1>0, <3>1, DropTypes
  <2>2. /\ depth' = depth /\ handler' = handler
        /\ \/ pc = "release" /\ pc' = "throw"
           \/ pc = "unwind" /\ pc' \in {"open", "lost", "failed"}
    BY <1>10 DEF Release, Unwind, Returned
  <2>3. \A m \in Streams : /\ in_stream \notin holders'[m]
                           /\ \A k \in Layers :
                                HandlerOf(k) \in holders'[m] <=> HandlerOf(k) \in holders[m]
    BY <2>1, PointersDiffer DEF Holding
  <2>4. \A m \in Streams : arg_in_stream \notin holders'[m]
    BY <2>1, <2>2 DEF Holding
  <2> QED BY <2>2, <2>3, <2>4 DEF Holding, OwnsInStream
<1>11. CASE CloseLayer
  <2>1. PICK d \in 1..depth :
           /\ handler' = [handler EXCEPT ![d] = "closed"]
           /\ Settle(Drop(holders, d - 1, HandlerOf(d)),
                     IF d = 1 THEN VolumesClosed ELSE volume)
    BY <1>11, ClosesInnermost
  <2>2. d \in Layers /\ d - 1 \in Streams
    BY <1>0, <2>1, Numbers
  <2>3. \A m \in Streams :
          holders'[m] = IF m = d - 1 THEN holders[m] \ {HandlerOf(d)} ELSE holders[m]
    <3>1. holders' = Drop(holders, d - 1, HandlerOf(d))
      BY <2>1 DEF Settle
    <3> QED BY <1>0, <2>2, <3>1 DEF Drop
  <2>4. \A k \in Layers : handler'[k] = IF k = d THEN "closed" ELSE handler[k]
    BY <1>0, <2>1, <2>2
  <2>5. pc = "closing" /\ pc' = "closing" /\ depth' = depth
    BY <1>11 DEF CloseLayer
  <2>6. \A k \in Layers, m \in Streams :
          HandlerOf(k) \in holders'[m] <=> m = k - 1 /\ handler'[k] = "open"
    <3> TAKE k \in Layers, m \in Streams
    <3>1. HandlerOf(k) \in holders[m] <=> m = k - 1 /\ handler[k] = "open"
      BY DEF Holding
    <3>2. HandlerOf(k) \in holders'[m]
            <=> HandlerOf(k) \in holders[m] /\ ~(m = d - 1 /\ k = d)
      BY <2>2, <2>3, PointersDiffer
    <3> QED BY <2>2, <2>4, <3>1, <3>2, Numbers
  <2>7. \A m \in Streams : /\ in_stream \in holders'[m] <=> in_stream \in holders[m]
                           /\ arg_in_stream \in holders'[m] <=> arg_in_stream \in holders[m]
    BY <2>2, <2>3, PointersDiffer
  <2> QED BY <2>5, <2>6, <2>7 DEF Holding, OwnsInStream
<1>12. CASE UNCHANGED vars
  BY <1>12 DEF vars, Holding, OwnsInStream
<1> QED
  BY <1>1, <1>2, <1>3, <1>4, <1>5, <1>6, <1>7, <1>8, <1>9, <1>10, <1>11, <1>12 DEF Next

\* Nobody holds a stream before NativeOpen begins, when it has failed, and when the
\* archive is closed.
LEMMA NobodyHolds ==
  ASSUME TypeOK, Chain, Holding,
         \/ pc \in {"idle", "throw", "failed", "closed"} \/ (pc = "unwind" /\ depth = 0)
         \/ pc = "closing" /\ \A k \in Layers : handler[k] # "open"
  PROVE  \A m \in Streams : holders[m] = {}
<1>1. \A k \in Layers : handler[k] # "open"
  BY Numbers DEF Chain, TypeOK
<1>2. SUFFICES ASSUME NEW m \in Streams, NEW q \in holders[m] PROVE FALSE
  OBVIOUS
<1>3. q \in Pointers
  BY <1>2 DEF TypeOK
<1>4. q # in_stream /\ q # arg_in_stream
  BY <1>2 DEF Holding, OwnsInStream
<1>5. \A k \in Layers : q # HandlerOf(k)
  BY <1>1, <1>2 DEF Holding
<1> QED BY <1>3, <1>4, <1>5 DEF Pointers
\* The Java stream's wrapper lives while any stream of the chain has a holder.
LEMMA AliveIsHeld ==
  ASSUME NEW h
  PROVE  Alive(h, 0) <=> \E m \in Streams : h[m] # {}
BY DEF Alive, Streams

\* The release of pointers closes the Java stream if they were the last ones.
LEMMA SettleRoot ==
  ASSUME TypeOK, RootLives, NEW h, NEW v, Settle(h, v), pc # "idle", pc' # "idle",
         \A m \in Streams : h[m] \subseteq holders[m]
  PROVE  RootLives'
<1>1. Alive(h, 0) => Alive(holders, 0)
  BY AliveIsHeld
<1>2. /\ holders' = h
      /\ root' = IF Alive(holders, 0) /\ ~Alive(h, 0) THEN "closed" ELSE root
  BY DEF Settle
<1>3. Alive(holders, 0)' <=> Alive(h, 0)
  BY <1>2 DEF Alive
<1> QED BY <1>1, <1>2, <1>3 DEF RootLives

\* The Java stream is closed by the step that gives up its last pointer.
LEMMA RootNext == TypeOK /\ Chain /\ Holding /\ RootLives /\ [Next]_vars => RootLives'
<1> SUFFICES ASSUME TypeOK, Chain, Holding, RootLives, [Next]_vars PROVE RootLives'
  OBVIOUS
<1>0. /\ depth \in Nat /\ depth <= MaxDepth /\ MaxDepth \in Nat
      /\ handler \in [Layers -> {"none", "open", "closed"}]
      /\ holders \in [Streams -> SUBSET Pointers]
      /\ 0 \in Streams /\ depth \in Streams
  BY Numbers DEF TypeOK
<1>1. CASE CreateStream
  <2>1. holders'[0] = {in_stream} /\ root' = root /\ pc = "idle" /\ pc' = "callback"
    BY <1>0, <1>1 DEF CreateStream
  <2>2. Alive(holders, 0)'
    BY <1>0, <2>1 DEF Alive, Streams
  <2> QED BY <2>1, <2>2 DEF RootLives
<1>2. CASE CreateStreamFails
  <2>1. holders' = holders /\ root' = "orphan" /\ pc = "idle" /\ pc' = "throw"
    BY <1>2 DEF CreateStreamFails
  <2>2. ~Alive(holders, 0)
    BY <2>1, NobodyHolds, AliveIsHeld
  <2>3. ~Alive(holders, 0)'
    BY <2>1, <2>2 DEF Alive
  <2> QED BY <2>1, <2>3 DEF RootLives
<1>3. CASE CreateCallback \/ StartHandler
  <2>1. /\ in_stream \in holders[0] /\ holders[0] \subseteq holders'[0]
        /\ root' = root /\ pc # "idle" /\ pc' # "idle"
    BY <1>0, <1>3 DEF CreateCallback, StartHandler, Holding, OwnsInStream
  <2>2. Alive(holders, 0) /\ Alive(holders, 0)'
    BY <1>0, <2>1 DEF Alive, Streams
  <2> QED BY <2>1, <2>2 DEF RootLives
<1>4. CASE CreateCallbackFails \/ HandlerAccepts \/ StopDescending \/ SearchFails \/ Close
           \/ ChainDeleted \/ Throw \/ VolumeNameFails \/ CallStreamFails
           \/ \E v \in Volumes : OpenVolume(v)
  <2>1. holders' = holders /\ root' = root /\ pc # "idle" /\ pc' # "idle"
    BY <1>4 DEF CreateCallbackFails, HandlerAccepts, StopDescending, SearchFails, Close,
                ChainDeleted, Throw, VolumeNameFails, CallStreamFails, OpenVolume, CallJava
  <2> QED BY <2>1 DEF RootLives, Alive
<1>5. CASE HandlerRefuses
  <2>1. \A m \in Streams : Drop(holders, depth, HandlerOf(depth + 1))[m] \subseteq holders[m]
    BY <1>0 DEF Drop
  <2> QED BY <1>5, <2>1, SettleRoot DEF HandlerRefuses
<1>6. CASE Descend
  <2>1. pc = "push" /\ pc' = "detect" /\ depth > 0
    BY <1>6 DEF Descend, Chain
  <2>2. 1 \in Layers /\ handler[1] = "open"
    BY <1>0, <2>1, Numbers DEF Chain
  <2>3. Alive(holders, 0)
    BY <1>0, <2>2, AliveIsHeld DEF Holding
  <2>4. holders'[depth] # {}
    <3> DEFINE d == Drop(holders, depth - 1, arg_in_stream)
    <3>1. holders' = [d EXCEPT ![depth] = @ \cup {arg_in_stream}]
      BY <1>6 DEF Descend, Settle
    <3>2. d \in [Streams -> SUBSET Pointers]
      BY <1>0 DEF Drop
    <3> HIDE DEF d
    <3> QED BY <1>0, <3>1, <3>2
  <2>5. Alive(holders, 0)'
    BY <1>0, <2>4 DEF Alive, Streams
  <2>6. root' = root
    <3>1. \A h : Settle(h, volume) =>
            /\ holders' = h
            /\ root' = IF Alive(holders, 0) /\ ~Alive(h, 0) THEN "closed" ELSE root
      BY DEF Settle
    <3>2. PICK h : Settle(h, volume)
      BY <1>6 DEF Descend
    <3>3. Alive(h, 0)
      BY <2>5, <3>1, <3>2 DEF Alive
    <3> QED BY <3>1, <3>2, <3>3
  <2> QED BY <2>1, <2>3, <2>5, <2>6 DEF RootLives
<1>7. CASE ReturnArchive
  <2>1. \A m \in Streams : DropAnywhere(holders, arg_in_stream)[m] \subseteq holders[m]
    BY DEF DropAnywhere
  <2> QED BY <1>7, <2>1, SettleRoot DEF ReturnArchive
<1>8. CASE Release \/ Unwind
  <2>1. \A m \in Streams : Drop(holders, 0, in_stream)[m] \subseteq holders[m]
    BY <1>0 DEF Drop
  <2>2. /\ Settle(Drop(holders, 0, in_stream), volume) /\ pc # "idle" /\ pc' # "idle"
    BY <1>8 DEF Release, ReleaseInStream, Unwind, Returned
  <2> QED BY <2>1, <2>2, SettleRoot
<1>9. CASE CloseLayer
  <2>1. PICK d \in 1..depth : Settle(Drop(holders, d - 1, HandlerOf(d)),
                                     IF d = 1 THEN VolumesClosed ELSE volume)
    BY <1>9, ClosesInnermost
  <2>2. \A m \in Streams : Drop(holders, d - 1, HandlerOf(d))[m] \subseteq holders[m]
    BY <1>0 DEF Drop
  <2>3. pc # "idle" /\ pc' # "idle"
    BY <1>9 DEF CloseLayer
  <2> QED BY <2>1, <2>2, <2>3, SettleRoot
<1>10. CASE UNCHANGED vars
  BY <1>10 DEF vars, RootLives, Alive
<1> QED
  BY <1>1, <1>2, <1>3, <1>4, <1>5, <1>6, <1>7, <1>8, <1>9, <1>10 DEF Next

\* The volumes are closed by the step that closes the outermost handler.
LEMMA VolumesNext == TypeOK /\ Chain /\ VolumesLive /\ [Next]_vars => VolumesLive'
<1> SUFFICES ASSUME TypeOK, Chain, VolumesLive, [Next]_vars PROVE VolumesLive'
  OBVIOUS
<1>0. /\ depth \in Nat /\ 1 \in Layers
      /\ handler \in [Layers -> {"none", "open", "closed"}]
      /\ volume \in [Volumes -> {"unused", "open", "closed", "orphan"}]
  BY Numbers DEF TypeOK
<1>1. CASE \/ CreateStream \/ CreateStreamFails \/ CreateCallback \/ CreateCallbackFails
           \/ HandlerAccepts \/ StopDescending \/ SearchFails \/ Close \/ ChainDeleted
           \/ VolumeNameFails \/ CallStreamFails
  BY <1>1 DEF CreateStream, CreateStreamFails, CreateCallback, CreateCallbackFails,
              HandlerAccepts, StopDescending, SearchFails, Close, ChainDeleted,
              VolumeNameFails, CallStreamFails, VolumesLive
<1>2. CASE StartHandler
  <2>1. handler[1] # "open" \/ handler'[1] = "open"
    BY <1>0, <1>2 DEF StartHandler
  <2>2. volume' = volume /\ callback' = callback /\ pc' = "handler"
    BY <1>2 DEF StartHandler
  <2> QED BY <2>1, <2>2 DEF VolumesLive
<1>3. ASSUME NEW v \in Volumes, OpenVolume(v) PROVE VolumesLive'
  <2>1. /\ handler[1] = "open" /\ handler' = handler /\ callback' = callback
        /\ pc = "handler" /\ pc' = pc
    BY <1>0, <1>3 DEF OpenVolume, Chain
  <2> QED BY <2>1 DEF VolumesLive
<1>4. CASE HandlerRefuses
  <2>1. /\ volume' = IF depth = 0 THEN VolumesClosed ELSE volume
        /\ handler' = [handler EXCEPT ![depth + 1] = "none"]
        /\ callback' = callback /\ pc' = "detect"
    BY <1>4 DEF HandlerRefuses, Settle
  <2>2. depth # 0 => handler'[1] = handler[1]
    BY <1>0, <2>1
  <2> QED BY <2>1, <2>2, VolumesClosedTypes DEF VolumesLive
<1>5. CASE Descend \/ ReturnArchive \/ Release \/ Unwind
  <2>1. /\ volume' = volume /\ handler' = handler
        /\ \/ callback' = callback /\ pc' \in {"detect", "unwind", "release", "throw"}
           \/ callback' = FALSE /\ pc' # "idle"
    BY <1>5 DEF Descend, ReturnArchive, Release, Unwind, Returned, Settle
  <2> QED BY <2>1 DEF VolumesLive
<1>6. CASE Throw
  BY <1>6 DEF Throw, VolumesLive
<1>7. CASE CloseLayer
  <2>1. PICK d \in 1..depth :
           /\ handler' = [handler EXCEPT ![d] = "closed"]
           /\ volume' = IF d = 1 THEN VolumesClosed ELSE volume
    BY <1>7, ClosesInnermost DEF Settle
  <2>2. d # 1 => handler'[1] = handler[1]
    BY <1>0, <2>1
  <2>3. callback' = callback /\ pc = "closing" /\ pc' = pc
    BY <1>7 DEF CloseLayer
  <2> QED BY <2>1, <2>2, <2>3, VolumesClosedTypes DEF VolumesLive
<1>8. CASE UNCHANGED vars
  BY <1>8 DEF vars, VolumesLive
<1> QED BY <1>1, <1>2, <1>3, <1>4, <1>5, <1>6, <1>7, <1>8 DEF Next

\* Once a7zip has thrown, nothing that dies on the way out of NativeOpen calls Java.
LEMMA ThrownNext ==
  TypeOK /\ Chain /\ Holding /\ ThrownLast /\ [Next]_vars => ThrownLast'
<1> SUFFICES ASSUME TypeOK, Chain, Holding, ThrownLast, [Next]_vars PROVE ThrownLast'
  OBVIOUS
<1>0. pending \in Exceptions /\ misuse \in Exceptions /\ depth \in Nat
  BY Numbers DEF TypeOK
<1>1. pc \notin {"unwind", "failed"} => pending # "thrown" /\ Misused # "thrown"
  BY DEF ThrownLast, Misused
<1>2. CASE \/ CreateStream \/ CreateCallback \/ CreateCallbackFails \/ HandlerAccepts
           \/ StopDescending \/ SearchFails \/ Close \/ ChainDeleted
  BY <1>2 DEF CreateStream, CreateCallback, CreateCallbackFails, HandlerAccepts,
              StopDescending, SearchFails, Close, ChainDeleted, ThrownLast
<1>3. CASE CreateStreamFails
  BY <1>3 DEF CreateStreamFails, ThrownLast
<1>4. CASE StartHandler
  BY <1>1, <1>4 DEF StartHandler, ThrownLast
<1>5. ASSUME NEW v \in Volumes, OpenVolume(v) PROVE ThrownLast'
  BY <1>1, <1>5 DEF OpenVolume, CallJava, ThrownLast
<1>6. CASE VolumeNameFails \/ CallStreamFails
  BY <1>1, <1>6 DEF VolumeNameFails, CallStreamFails, CallJava, ThrownLast
<1>7. CASE HandlerRefuses \/ Descend \/ ReturnArchive \/ Release \/ CloseLayer
  <2>1. /\ pending' \in {pending, "none"} /\ misuse' \in {misuse, Misused}
        /\ pc \notin {"unwind", "failed"}
        /\ pc' # "failed" /\ (pc' = "unwind" => depth' # 0)
    BY <1>0, <1>7 DEF HandlerRefuses, Descend, ReturnArchive, OpenedAnArchive, Release, CloseLayer,
                Settle
  <2> QED BY <1>1, <2>1 DEF ThrownLast
<1>8. CASE Throw
  BY <1>1, <1>8 DEF Throw, CallJava, ThrownLast, Chain
<1>9. CASE Unwind
  <2>1. /\ pc = "unwind" /\ pending' \in {pending, "none"} /\ depth' = depth
        /\ depth = 0 => pc' = "failed"
        /\ depth # 0 => pc' # "failed" /\ pc' # "unwind"
        /\ misuse' = IF root' # root \/ volume' # volume THEN Misused ELSE misuse
        /\ root' = root /\ volume' = volume => pending' = pending
        /\ root' = IF Alive(holders, 0) /\ ~Alive(holders', 0) THEN "closed" ELSE root
        /\ volume' = volume
    BY <1>0, <1>9 DEF Unwind, OpenedAnArchive, Returned, Settle
  <2>2. CASE depth = 0
    <3>1. ~Alive(holders, 0)
      BY <2>1, <2>2, NobodyHolds, AliveIsHeld
    <3>2. misuse' = misuse /\ pending' = pending
      BY <2>1, <3>1
    <3> QED BY <2>1, <2>2, <3>2 DEF ThrownLast
  <2>3. CASE depth # 0
    <3>1. pending # "thrown"
      BY <2>3 DEF ThrownLast
    <3> QED BY <2>1, <3>1 DEF ThrownLast, Misused
  <2> QED BY <2>2, <2>3
<1>10. CASE UNCHANGED vars
  BY <1>10 DEF vars, ThrownLast
<1> QED BY <1>2, <1>3, <1>4, <1>5, <1>6, <1>7, <1>8, <1>9, <1>10 DEF Next

\* An OutOfMemoryError outlives the handlers only where there are volumes.
LEMMA MemoryNext ==
  TypeOK /\ ThrownLast /\ MemoryOfVolumes /\ [Next]_vars => MemoryOfVolumes'
<1> SUFFICES ASSUME TypeOK, ThrownLast, MemoryOfVolumes, [Next]_vars PROVE MemoryOfVolumes'
  OBVIOUS
<1>0. volumed \in BOOLEAN /\ callback \in BOOLEAN /\ pending \in Exceptions /\ depth >= 0
  BY Numbers DEF TypeOK
<1>1. CASE \/ CreateStream \/ CreateCallback \/ CreateCallbackFails \/ StartHandler
           \/ HandlerAccepts \/ StopDescending \/ SearchFails \/ Close \/ ChainDeleted
  BY <1>0, <1>1 DEF CreateStream, CreateCallback, CreateCallbackFails, StartHandler,
              HandlerAccepts, StopDescending, SearchFails, Close, ChainDeleted, MemoryOfVolumes
<1>2. CASE CreateStreamFails \/ Throw \/ VolumeNameFails \/ CallStreamFails
  BY <1>0, <1>2 DEF CreateStreamFails, Throw, VolumeNameFails, CallStreamFails, MemoryOfVolumes
<1>3. ASSUME NEW v \in Volumes, OpenVolume(v) PROVE MemoryOfVolumes'
  BY <1>0, <1>3 DEF OpenVolume, MemoryOfVolumes
<1>4. CASE HandlerRefuses \/ Descend \/ ReturnArchive \/ Release \/ CloseLayer
  <2>1. /\ pending' \in {pending, "none"} /\ volumed' = volumed /\ callback' = callback
        /\ pc # "throw"
        /\ pc' # "lost" \/ pc' = pc
    BY <1>4 DEF HandlerRefuses, Descend, ReturnArchive, Release, CloseLayer, Settle
  <2> QED BY <1>0, <2>1 DEF MemoryOfVolumes
<1>5. CASE Unwind
  <2>1. /\ pending' \in {pending, "none"} /\ volumed' = volumed /\ callback' = FALSE
        /\ pc = "unwind"
        /\ pc' = "lost" => depth # 0 /\ pending # "none"
    BY <1>5 DEF Unwind, OpenedAnArchive, Returned, Settle
  <2> QED BY <1>0, <2>1 DEF MemoryOfVolumes, ThrownLast, Exceptions
<1>6. CASE UNCHANGED vars
  BY <1>6 DEF vars, MemoryOfVolumes
<1> QED BY <1>1, <1>2, <1>3, <1>4, <1>5, <1>6 DEF Next

-----------------------------------------------------------------------------

\* The strengthened invariant holds in every reachable state.
THEOREM Invariance == Spec => []IInv
<1>1. IInv /\ [Next]_vars => IInv'
  BY TypeNext, ChainNext, HoldingNext, RootNext, VolumesNext, ThrownNext, MemoryNext
  DEF IInv
<1> QED BY <1>1, InitIInv, PTL DEF Spec

\* The variables keep their types, at any depth of nesting and with any number of
\* volumes.
THEOREM TypeCorrect == Spec => []TypeOK
<1>1. IInv => TypeOK
  BY DEF IInv
<1> QED BY <1>1, Invariance, PTL

\* An open handler, however deep in the chain, reads through an open Java stream.
THEOREM OpenHandlersCanReadHolds == Spec => []OpenHandlersCanRead
<1>1. IInv => OpenHandlersCanRead
  <2> SUFFICES ASSUME IInv, NEW k \in Layers, handler[k] = "open" PROVE root = "open"
    BY DEF OpenHandlersCanRead
  <2>1. HandlerOf(k) \in holders[k - 1] /\ k - 1 \in Streams
    BY Numbers DEF IInv, Holding
  <2>2. Alive(holders, 0)
    BY <2>1, AliveIsHeld
  <2> QED BY <2>2 DEF IInv, RootLives
<1> QED BY <1>1, Invariance, PTL

\* Nothing that was wrapped is left open when open has failed or close has ended.
THEOREM NothingLeaksHolds == Spec => []NothingLeaks
<1>1. IInv => NothingLeaks
  <2> SUFFICES ASSUME IInv PROVE NothingLeaks
    OBVIOUS
  <2>1. ASSUME pc \in {"failed", "closed"}
        PROVE  root # "open" /\ ~callback /\ \A k \in Streams : holders[k] = {}
    <3>1. \A k \in Streams : holders[k] = {}
      BY <2>1, NobodyHolds DEF IInv
    <3>2. root # "open"
      BY <2>1, <3>1, AliveIsHeld DEF IInv, RootLives
    <3> QED BY <2>1, <3>1, <3>2 DEF IInv, VolumesLive
  <2> QED BY <2>1 DEF NothingLeaks, IInv, VolumesLive, MemoryOfVolumes
<1> QED BY <1>1, Invariance, PTL

\* An outer archive that was opened is what open returns, whatever fails inside it.
THEOREM InnerFailureKeepsOuterHolds == Spec => []InnerFailureKeepsOuter
<1>1. IInv => InnerFailureKeepsOuter
  <2> SUFFICES ASSUME IInv PROVE InnerFailureKeepsOuter
    OBVIOUS
  <2>1. \A k \in 1..depth : k \in Layers /\ k <= depth
    BY Numbers DEF IInv, TypeOK, Layers
  <2> QED BY <2>1 DEF InnerFailureKeepsOuter, IInv, Chain
<1> QED BY <1>1, Invariance, PTL

\* No Java method is called after a7zip has thrown its exception.
THEOREM NoJavaCallAfterThrowHolds == Spec => []NoJavaCallAfterThrow
<1>1. IInv => NoJavaCallAfterThrow
  BY DEF IInv, ThrownLast, NoJavaCallAfterThrow
<1> QED BY <1>1, Invariance, PTL

\* The handlers of a chain are closed from the innermost one outwards.
THEOREM InnerClosedFirstHolds == Spec => InnerClosedFirst
<1> DEFINE Ordered == \A k \in Layers : handler[k] = "open" /\ handler'[k] # "open"
                        => \A m \in Layers : m > k => handler[m] # "open"
<1>1. IInv /\ [Next]_vars => [Ordered]_vars
  <2> SUFFICES ASSUME IInv, Next PROVE Ordered
    OBVIOUS
  <2>0. /\ TypeOK /\ Chain /\ depth \in Nat
        /\ handler \in [Layers -> {"none", "open", "closed"}]
    BY DEF IInv, TypeOK
  <2>1. CASE HandlerRefuses
    <3>1. handler' = [handler EXCEPT ![depth + 1] = "none"] /\ pc = "handler"
      BY <2>1 DEF HandlerRefuses
    <3>2. \A m \in Layers : m > depth + 1 => handler[m] = "none"
      BY <2>0, <3>1, Numbers DEF Chain
    <3> QED BY <2>0, <3>1, <3>2, Numbers
  <2>2. CASE CloseLayer
    <3>1. PICK d \in 1..depth :
            /\ handler' = [handler EXCEPT ![d] = "closed"]
            /\ \A k \in Layers : handler[k] = IF k <= d THEN "open"
                                              ELSE IF k <= depth THEN "closed" ELSE "none"
      BY <2>0, <2>2, ClosesInnermost
    <3> QED BY <2>0, <3>1, Numbers
  <2>3. CASE StartHandler
    BY <2>0, <2>3 DEF StartHandler
  <2>4. CASE ~(HandlerRefuses \/ CloseLayer \/ StartHandler)
    <3>1. handler' = handler
      BY <2>4 DEF Next, CreateStream, CreateStreamFails, CreateCallback, CreateCallbackFails,
                  OpenVolume, VolumeNameFails, HandlerAccepts, Descend, StopDescending,
                  SearchFails, ReturnArchive, Release, Throw, Unwind, Close, ChainDeleted,
                  CallStreamFails
    <3> QED BY <3>1
  <2> QED BY <2>1, <2>2, <2>3, <2>4
<1>2. InnerClosedFirst <=> [][Ordered]_vars
  BY DEF InnerClosedFirst
<1> HIDE DEF Ordered
<1> QED BY <1>1, <1>2, Invariance, PTL DEF Spec
-----------------------------------------------------------------------------

\* What the invariant says of the Java streams: the root is open while in_stream is in
\* use or a handler is open; nothing is open when all pointers are gone; and where
\* NativeOpen is tells the caller's view of open.
View ==
  /\ OwnsInStream \/ (\E k \in Layers : handler[k] = "open") => root = "open"
  /\ \/ pc \in {"throw", "failed", "closed"}
     \/ pc = "closing" /\ \A k \in Layers : handler[k] # "open"
     => root # "open" /\ \A v \in Volumes : volume[v] # "open"
  /\ pc \in {"idle", "callback", "detect", "handler", "push", "return", "release", "throw"}
       => Phase = "opening"
  /\ pc = "unwind" => Phase = IF depth = 0 THEN "failed" ELSE "opening"
  /\ pc = "failed" => Phase = "failed"
  /\ pc \in {"open", "lost"} => Phase = "open"
  /\ pc \in {"closing", "closed"} => Phase = IF root = "open" THEN "open" ELSE "closed"

LEMMA ViewHolds == IInv => View
<1> SUFFICES ASSUME IInv PROVE View
  OBVIOUS
<1>1. ASSUME OwnsInStream \/ \E k \in Layers : handler[k] = "open"
      PROVE  root = "open"
  <2>1. PICK m \in Streams : holders[m] # {}
    BY <1>1, Numbers DEF IInv, Holding
  <2>2. pc # "idle"
    BY <1>1, Numbers DEF IInv, TypeOK, OwnsInStream, Chain
  <2> QED BY <2>1, <2>2, AliveIsHeld DEF IInv, RootLives
<1>2. ASSUME \/ pc \in {"throw", "failed", "closed"}
             \/ pc = "closing" /\ \A k \in Layers : handler[k] # "open"
      PROVE  root # "open" /\ \A v \in Volumes : volume[v] # "open"
  <2>1. root # "open"
    BY <1>2, NobodyHolds, AliveIsHeld DEF IInv, RootLives
  <2>2. handler[1] # "open"
    BY <1>2, Numbers DEF IInv, Chain, TypeOK
  <2> QED BY <2>1, <2>2 DEF IInv, VolumesLive
<1>3. /\ pc \in {"idle", "callback", "detect", "handler", "push", "return", "release", "throw"}
            => Phase = "opening"
      /\ pc = "unwind" => Phase = IF depth = 0 THEN "failed" ELSE "opening"
      /\ pc = "failed" => Phase = "failed"
      /\ pc \in {"open", "lost"} => Phase = "open"
      /\ pc \in {"closing", "closed"} => Phase = IF root = "open" THEN "open" ELSE "closed"
  BY DEF IInv, ThrownLast, Chain, Phase
<1> QED BY <1>1, <1>2, <1>3 DEF View

\* A step that the caller of open does not see.
LEMMA Unseen ==
  ASSUME Phase' = Phase, root' = root, volume' = volume
  PROVE  UNCHANGED Ownership!vars
BY DEF Ownership!vars

\* Every step takes or closes Java streams as the abstract owner does, or does not
\* touch them.
LEMMA OwnershipStep ==
  IInv /\ IInv' /\ View /\ View' /\ [Next]_vars => [Ownership!Next]_Ownership!vars
<1> SUFFICES ASSUME IInv, IInv', View, View', [Next]_vars PROVE [Ownership!Next]_Ownership!vars
  OBVIOUS
<1>0. /\ TypeOK /\ Chain /\ depth \in Nat /\ 1 \in Layers
      /\ handler \in [Layers -> {"none", "open", "closed"}]
      /\ volume \in [Volumes -> {"unused", "open", "closed", "orphan"}]
  BY Numbers DEF IInv, TypeOK
<1>1. ASSUME /\ pc \in {"callback", "detect", "handler", "push", "return"}
             /\ pc' \in {"callback", "detect", "handler", "push", "return", "release"}
      PROVE  /\ Phase = "opening" /\ Phase' = "opening"
             /\ root = "open" /\ root' = "open"
  BY <1>1 DEF OwnsInStream, View
<1>2. CASE \/ CreateCallback \/ CreateCallbackFails \/ StartHandler \/ CallStreamFails
           \/ VolumeNameFails \/ HandlerAccepts \/ Descend \/ StopDescending \/ SearchFails
  <2>1. /\ pc \in {"callback", "detect", "handler", "push", "return"}
        /\ pc' \in {"callback", "detect", "handler", "push", "return", "release"}
        /\ volume' = volume
    BY <1>2 DEF CreateCallback, CreateCallbackFails, StartHandler, CallStreamFails,
                VolumeNameFails, HandlerAccepts, Descend, StopDescending, SearchFails, Settle
  <2> QED BY <1>1, <2>1, Unseen
<1>3. CASE CreateStream
  BY <1>3, Unseen DEF CreateStream, View
<1>4. CASE CreateStreamFails
  <2>1. /\ pc = "idle" /\ pc' = "throw" /\ root' = "orphan" /\ volume' = volume
        /\ root = "open" /\ \A v \in Volumes : volume[v] = "unused"
    BY <1>4 DEF CreateStreamFails, IInv, RootLives, VolumesLive
  <2> QED BY <2>1
          DEF View, Ownership!GiveUpRoot, Ownership!NoVolumeOpen, Ownership!Next
<1>5. ASSUME NEW v \in Volumes, OpenVolume(v) PROVE Ownership!Next
  <2>1. Phase = "opening" /\ Phase' = "opening" /\ root = "open" /\ root' = "open"
    BY <1>1, <1>5 DEF OpenVolume
  <2>2. /\ volume[v] = "unused"
        /\ \E fate \in {"open", "orphan"} : volume' = [volume EXCEPT ![v] = fate]
    BY <1>5 DEF OpenVolume
  <2> QED BY <2>1, <2>2 DEF Ownership!TakeVolume, Ownership!Next
<1>6. CASE HandlerRefuses
  <2>1. Phase = "opening" /\ Phase' = "opening" /\ root = "open" /\ root' = "open"
    BY <1>1, <1>6 DEF HandlerRefuses
  <2>2. volume' = IF depth = 0 THEN VolumesClosed ELSE volume
    BY <1>6 DEF HandlerRefuses, Settle
  <2> QED BY <2>1, <2>2, Unseen DEF VolumesClosed, Ownership!VolumesClosed,
                                    Ownership!CloseVolumes, Ownership!Next
<1>7. CASE ReturnArchive
  <2>1. /\ pc = "return" /\ volume' = volume /\ depth' = depth
        /\ pc' = IF depth > 0 THEN "unwind" ELSE "release"
    BY <1>7 DEF ReturnArchive, OpenedAnArchive, Settle
  <2>2. Phase = "opening" /\ Phase' = "opening" /\ root = "open" /\ root' = "open"
    BY <1>0, <2>1 DEF OwnsInStream, View
  <2> QED BY <2>1, <2>2, Unseen
<1>8. CASE Release
  <2>1. pc = "release" /\ pc' = "throw" /\ volume' = volume /\ depth = 0
    BY <1>0, <1>8 DEF Release, Settle, Chain
  <2>2. Phase = "opening" /\ Phase' = "opening" /\ root = "open"
    BY <2>1 DEF OwnsInStream, View
  <2>3. root' = "closed"
    <3>1. root' # "open"
      BY <2>1 DEF View
    <3> QED BY <1>8, <2>2, <3>1 DEF Release, Settle
  <2>4. Ownership!NoVolumeOpen
    BY <1>0, <2>1 DEF Chain, IInv, VolumesLive, Ownership!NoVolumeOpen
  <2> QED BY <2>1, <2>2, <2>3, <2>4 DEF Ownership!GiveUpRoot, Ownership!Next
<1>9. CASE Throw
  <2>1. pc = "throw" /\ pc' = "unwind" /\ volume' = volume /\ root' = root /\ depth' = 0
    BY <1>0, <1>9 DEF Throw, CallJava, Chain
  <2>2. Phase = "opening" /\ Phase' = "failed" /\ root # "open" /\ Ownership!NoVolumeOpen
    BY <2>1 DEF View, Ownership!NoVolumeOpen
  <2> QED BY <2>1, <2>2 DEF Ownership!Fail, Ownership!Next
<1>10. CASE Unwind
  <2>1. /\ pc = "unwind" /\ volume' = volume /\ depth' = depth
        /\ pc' \in IF depth > 0 THEN {"open", "lost"} ELSE {"failed"}
        /\ root' \in {root, "closed"}
        /\ root' # root => Alive(holders, 0)
    BY <1>10 DEF Unwind, OpenedAnArchive, Returned, Settle
  <2>2. CASE depth = 0
    <3>0. ~Alive(holders, 0)
      BY <2>1, <2>2, NobodyHolds, AliveIsHeld DEF IInv
    <3>1. root' = root
      BY <2>1, <3>0
    <3> QED BY <2>1, <2>2, <3>1, Unseen DEF View
  <2>3. CASE depth # 0
    <3>1. handler[1] = "open" /\ handler'[1] = "open"
      BY <1>0, <2>1, <2>3 DEF Chain, IInv
    <3>2. root = "open" /\ root' = "open"
      BY <1>0, <3>1 DEF View
    <3>3. Phase = "opening" /\ Phase' = "open"
      BY <1>0, <2>1, <2>3 DEF View
    <3> QED BY <2>1, <3>2, <3>3 DEF Ownership!Succeed, Ownership!Next
  <2> QED BY <2>2, <2>3
<1>11. CASE Close
  <2>1. pc = "open" /\ pc' = "closing" /\ root' = root /\ volume' = volume
    BY <1>11 DEF Close
  <2>2. handler[1] = "open"
    BY <1>0, <2>1 DEF Chain
  <2>3. root = "open"
    BY <1>0, <2>2 DEF View
  <2> QED BY <2>1, <2>3, Unseen DEF View
<1>12. CASE CloseLayer
  <2>1. PICK d \in 1..depth :
           /\ handler' = [handler EXCEPT ![d] = "closed"]
           /\ Settle(Drop(holders, d - 1, HandlerOf(d)),
                     IF d = 1 THEN VolumesClosed ELSE volume)
           /\ \A k \in Layers : handler[k] = IF k <= d THEN "open"
                                             ELSE IF k <= depth THEN "closed" ELSE "none"
    BY <1>0, <1>12, ClosesInnermost
  <2>2. /\ pc = "closing" /\ pc' = "closing" /\ root' \in {root, "closed"}
        /\ volume' = IF d = 1 THEN VolumesClosed ELSE volume
    BY <1>12, <2>1 DEF CloseLayer, Settle
  <2>3. root = "open"
    BY <1>0, <2>1 DEF View
  <2>4. CASE d = 1
    <3>1. \A k \in Layers : handler'[k] # "open"
      BY <1>0, <2>1, <2>4, Numbers
    <3>2. root' = "closed"
      BY <2>2, <2>3, <3>1 DEF View
    <3>3. Phase = "open" /\ Phase' = "closed"
      BY <2>2, <2>3, <3>2 DEF View
    <3> QED BY <2>2, <2>4, <3>2, <3>3
            DEF VolumesClosed, Ownership!VolumesClosed, Ownership!Close, Ownership!Next
  <2>5. CASE d # 1
    <3>1. handler'[1] = "open"
      BY <1>0, <2>1, <2>5
    <3>2. root' = "open"
      BY <1>0, <3>1 DEF View
    <3> QED BY <2>2, <2>3, <2>5, <3>2, Unseen DEF View
  <2> QED BY <2>4, <2>5
<1>13. CASE ChainDeleted
  <2>1. pc = "closing" /\ pc' = "closed" /\ root' = root /\ volume' = volume
    BY <1>13 DEF ChainDeleted
  <2> QED BY <2>1, Unseen DEF View
<1>14. CASE UNCHANGED vars
  BY <1>14, Unseen DEF vars, Phase
<1> QED
  BY <1>2, <1>3, <1>4, <1>5, <1>6, <1>7, <1>8, <1>9, <1>10, <1>11, <1>12, <1>13, <1>14 DEF Next

\* However deep the nesting, with any number of volumes and on every path of failure,
\* the Java streams are taken, given up and closed as StreamOwnership says.
THEOREM ImplementsOwnershipHolds == Spec => ImplementsOwnership
<1>1. Init => Ownership!Init
  BY DEF Init, Phase, Ownership!Init
<1> QED BY <1>1, OwnershipStep, ViewHolds, Invariance, PTL
        DEF Spec, ImplementsOwnership, Ownership!Spec
=============================================================================
