------------------------- MODULE SharedArchiveProofs -------------------------
(***************************************************************************)
(* What holds of one InArchive in the hands of many callers, for every     *)
(* number of calls, size of the entries and length of the array.           *)
(***************************************************************************)
EXTENDS SharedArchive, TLAPS

-----------------------------------------------------------------------------

\* What the place of a call says of its method and its answer.
PlaceOK(c) ==
  /\ Pending(c) => op[c] \in Ops /\ answer[c] = "none"
  /\ pc[c] \in {"finally", "return"} => op[c] \in Ops /\ answer[c] # "none"
  /\ pc[c] = "idle" => op[c] = "none" /\ answer[c] = "none" /\ taken[c] = 0 /\ ptr[c] = "zero"
  /\ pc[c] = "finally" => op[c] = "extract"
  /\ pc[c] \in {"seek", "fill", "copy", "write"} => op[c] = "extract"
  /\ pc[c] = "delete" => op[c] = "close"
  /\ pc[c] = "search" => op[c] = "getStream"
  /\ pc[c] = "use" => op[c] \notin Readers /\ (op[c] = "close" => archive = "gone")
  /\ pc[c] = "copy" => taken[c] + read[c] <= EntrySize
  /\ op[c] = "extract" => entry[c] \in Entries

TypeInv == TypeOK /\ \A c \in Calls : PlaceOK(c)

\* The entries lie within the stream.
LEMMA StartBound ==
  ASSUME NEW e \in Entries
  PROVE  (e - 1) * EntrySize \in 0..Total /\ (e - 1) * EntrySize + EntrySize <= Total
<1> DEFINE E == EntrySize
<1>1. E \in Nat /\ e \in Nat /\ e >= 1 /\ e <= NEntries /\ NEntries \in Nat
  BY SizesAssumption DEF Entries
<1>2. PICK k \in Nat : NEntries = e + k
  <2>1. NEntries - e \in Nat /\ NEntries = e + (NEntries - e) BY <1>1
  <2>. QED BY <2>1
<1>3. NEntries * E = (e - 1) * E + E + k * E BY <1>1, <1>2
<1>4. k * E \in Nat /\ (e - 1) * E \in Nat BY <1>1, <1>2
<1>. QED BY <1>1, <1>3, <1>4 DEF Total

\* The length of the stream is a number.
LEMMA TotalNat == Total \in Nat
BY SizesAssumption DEF Total

\* The initial state is well typed.
LEMMA InitType == Init => TypeInv
<1> SUFFICES ASSUME Init PROVE TypeInv OBVIOUS
<1>1. 0 \in 0..Total /\ 0 \in 0..ARRAY_SIZE /\ 0 \in 0..EntrySize
  BY TotalNat, SizesAssumption
<1>2. TypeOK BY <1>1 DEF Init, TypeOK, Places, Answers
<1>3. ASSUME NEW c \in Calls PROVE PlaceOK(c)
  BY DEF Init, PlaceOK, Pending, Ops
<1>. QED BY <1>2, <1>3 DEF TypeInv

\* What a step of the call c leaves of the other calls.
OthersKept(c) ==
  \A d \in Calls \ {c} :
    /\ op'[d] = op[d] /\ pc'[d] = pc[d] /\ ptr'[d] = ptr[d] /\ answer'[d] = answer[d]
    /\ entry'[d] = entry[d] /\ read'[d] = read[d] /\ taken'[d] = taken[d]

\* A call that begins keeps the types.
LEMMA BeginType ==
  ASSUME TypeInv, NEW c \in Calls, NEW by \in Calls \cup {Client}, NEW method \in Ops,
         Begin(c, by, method)
  PROVE  TypeInv' /\ OthersKept(c)
<1> USE DEF TypeInv
<1>1. TypeOK'
  BY DEF TypeOK, Begin, GoTo, Places, stream, progress
<1>2. PlaceOK(c)' BY <1>1 DEF PlaceOK, Pending, Begin, GoTo, TypeOK, Ops, Unchecked, progress
<1>3. OthersKept(c) BY DEF OthersKept, Begin, GoTo, TypeOK, progress
<1>4. ASSUME NEW d \in Calls, d # c PROVE PlaceOK(d)'
  BY <1>3, <1>4 DEF PlaceOK, Pending, Begin, OthersKept
<1>. QED BY <1>1, <1>2, <1>3, <1>4

\* Every other step of a call keeps them.
LEMMA StepType ==
  ASSUME TypeInv, NEW c \in Calls, Step(c)
  PROVE  TypeInv' /\ OthersKept(c)
<1> USE DEF TypeInv
<1>a. SUFFICES /\ TypeOK' /\ PlaceOK(c)' /\ OthersKept(c)
               /\ archive' = "open" => archive = "open"
  <2>1. ASSUME NEW d \in Calls, d # c PROVE PlaceOK(d)'
    BY <1>a, <2>1 DEF PlaceOK, Pending, TypeOK, OthersKept
  <2>. QED BY <1>a, <2>1
<1>1. CASE CheckClosed(c)
  <2>1. TypeOK' BY <1>1 DEF CheckClosed, Answer, GoTo, TypeOK, Places, Answers, stream, request,
      progress, history
  <2>2. PlaceOK(c)' /\ OthersKept(c)
    BY <1>1 DEF CheckClosed, Answer, GoTo, TypeOK, PlaceOK, OthersKept, Pending, request, progress
  <2>. QED BY <1>1, <2>1, <2>2 DEF CheckClosed
<1>2. CASE Load(c)
  <2>1. TypeOK' BY <1>2 DEF Load, GoTo, TypeOK, Places, stream, request, progress, history
  <2>2. PlaceOK(c)' /\ OthersKept(c)
    BY <1>2 DEF Load, GoTo, TypeOK, PlaceOK, OthersKept, Pending, request, progress
  <2>. QED BY <1>2, <2>1, <2>2 DEF Load
<1>3. CASE Enter(c)
  <2>1. TypeOK' BY <1>3 DEF Enter, Refusal, Answer, GoTo, TypeOK, Places, Answers, stream,
      request, progress, history
  <2>2. PlaceOK(c)' /\ OthersKept(c)
    BY <1>3 DEF Enter, Refusal, Answer, GoTo, TypeOK, PlaceOK, OthersKept, Pending, Readers,
      request, progress
  <2>. QED BY <1>3, <2>1, <2>2 DEF Enter
<1>4. CASE Get(c)
  <2>1. TypeOK' BY <1>4 DEF Get, Answer, TypeOK, Places, Answers, stream, request, progress,
      history
  <2>2. PlaceOK(c)' /\ OthersKept(c)
    BY <1>4 DEF Get, Answer, TypeOK, PlaceOK, OthersKept, Pending, request, progress
  <2>. QED BY <1>4, <2>1, <2>2 DEF Get
<1>5. CASE Seek(c)
  <2>1. position' \in 0..Total
    BY <1>5, StartBound DEF Seek, Start, PlaceOK
  <2>2. TypeOK' BY <1>5, <2>1 DEF Seek, GoTo, TypeOK, Places, request, progress, history
  <2>3. PlaceOK(c)' /\ OthersKept(c)
    BY <1>5 DEF Seek, GoTo, TypeOK, PlaceOK, OthersKept, Pending, request, progress
  <2>. QED BY <1>5, <2>2, <2>3 DEF Seek
<1>6. CASE Fill(c)
  <2>1. PICK k \in Available(c) :
          /\ array' = Filled(position, k) /\ position' = position + k /\ read' = [read EXCEPT ![c] = k]
    BY <1>6 DEF Fill
  <2>2. k \in 1..ARRAY_SIZE /\ k <= EntrySize - taken[c] /\ position + k \in 0..Total
    BY <2>1, TotalNat, SizesAssumption DEF Available, Asked, Smaller, TypeOK
  <2>3. array' \in [1..ARRAY_SIZE -> 0..Total] BY <2>1, <2>2, TotalNat DEF Filled, TypeOK
  <2>4. read' \in [Calls -> 0..ARRAY_SIZE] BY <2>1, <2>2 DEF TypeOK
  <2>5. TypeOK'
    BY <1>6, <2>1, <2>2, <2>3, <2>4 DEF Fill, GoTo, TypeOK, Places, request, history
  <2>6. PlaceOK(c)' /\ OthersKept(c)
    BY <1>6, <2>1, <2>2, SizesAssumption
    DEF Fill, GoTo, TypeOK, PlaceOK, OthersKept, Pending, request
  <2>. QED BY <1>6, <2>5, <2>6 DEF Fill
<1>7. CASE Copy(c)
  <2>1. taken[c] + read[c] \in 0..EntrySize /\ 0 \in 0..ARRAY_SIZE
    BY <1>7, SizesAssumption DEF Copy, TypeOK, PlaceOK
  <2>2. TypeOK'
    BY <1>7, <2>1 DEF Copy, CopiedLength, GoTo, TypeOK, Places, stream, request
  <2>3. PlaceOK(c)' /\ OthersKept(c)
    BY <1>7 DEF Copy, GoTo, TypeOK, PlaceOK, OthersKept, Pending, request
  <2>. QED BY <1>7, <2>2, <2>3 DEF Copy
<1>8. CASE Write(c)
  <2>1. TypeOK' BY <1>8 DEF Write, Answer, GoTo, TypeOK, Places, Answers, stream, request,
      progress, history
  <2>2. PlaceOK(c)' /\ OthersKept(c)
    BY <1>8 DEF Write, Answer, GoTo, TypeOK, PlaceOK, OthersKept, Pending, request, progress
  <2>. QED BY <1>8, <2>1, <2>2 DEF Write
<1>9. CASE ExtractFails(c)
  <2>1. PICK k \in {0} \cup Available(c) : array' = Filled(position, k) /\ position' = position + k
    BY <1>9 DEF ExtractFails
  <2>2. k \in 0..ARRAY_SIZE /\ position + k \in 0..Total
    BY <2>1, TotalNat, SizesAssumption DEF Available, Asked, Smaller, TypeOK
  <2>3. array' \in [1..ARRAY_SIZE -> 0..Total] BY <2>1, <2>2, TotalNat DEF Filled, TypeOK
  <2>4. TypeOK' BY <1>9, <2>1, <2>2, <2>3 DEF ExtractFails, Answer, TypeOK, Places, Answers,
      request, progress, history
  <2>5. PlaceOK(c)' /\ OthersKept(c)
    BY <1>9 DEF ExtractFails, Answer, TypeOK, PlaceOK, OthersKept, Pending, request, progress
  <2>. QED BY <1>9, <2>4, <2>5 DEF ExtractFails
<1>10. CASE ClearPtr(c)
  <2>1. TypeOK' BY <1>10 DEF ClearPtr, ClosedPtr, Answer, TypeOK, Places, Answers, stream,
      request, progress, history
  <2>2. PlaceOK(c)' /\ OthersKept(c)
    BY <1>10 DEF ClearPtr, Answer, TypeOK, PlaceOK, OthersKept, Pending, request, progress
  <2>. QED BY <1>10, <2>1, <2>2 DEF ClearPtr
<1>11. CASE Finally(c)
  <2>1. TypeOK' BY <1>11 DEF Finally, TypeOK, Places, Answers, stream, request, progress, history
  <2>2. PlaceOK(c)' /\ OthersKept(c)
    BY <1>11 DEF Finally, TypeOK, PlaceOK, OthersKept, Pending, request, progress
  <2>. QED BY <1>11, <2>1, <2>2 DEF Finally
<1>12. CASE Return(c)
  <2>1. TypeOK' BY <1>12, SizesAssumption DEF Return, TypeOK, Places, Answers, stream
  <2>2. PlaceOK(c)' /\ OthersKept(c)
    BY <1>12 DEF Return, TypeOK, PlaceOK, OthersKept, Pending
  <2>. QED BY <1>12, <2>1, <2>2 DEF Return
<1>13. CASE Search(c)
  <2>1. PICK p \in 0..Total : \E k \in 0..Smaller(ARRAY_SIZE, Total - p) :
          array' = Filled(p, k) /\ position' = p + k
    BY <1>13 DEF Search
  <2>2. PICK k \in 0..Smaller(ARRAY_SIZE, Total - p) : array' = Filled(p, k) /\ position' = p + k
    BY <2>1
  <2>3. k \in 0..ARRAY_SIZE /\ p \in Nat /\ p + k \in 0..Total
    BY <2>2, TotalNat, SizesAssumption DEF Smaller
  <2>4. array' \in [1..ARRAY_SIZE -> 0..Total] BY <2>2, <2>3, TotalNat DEF Filled, TypeOK
  <2>5. TypeOK' BY <1>13, <2>2, <2>3, <2>4 DEF Search, TypeOK, request, progress, history
  <2>6. PlaceOK(c)' /\ OthersKept(c)
    BY <1>13 DEF Search, PlaceOK, OthersKept, Pending, request, progress
  <2>. QED BY <1>13, <2>5, <2>6 DEF Search
<1>. QED BY <1>1, <1>2, <1>3, <1>4, <1>5, <1>6, <1>7, <1>8, <1>9, <1>10, <1>11, <1>12, <1>13
         DEF Step

\* The types are an invariant of the specification.
THEOREM TypeInvariance == Spec => []TypeInv
<1>1. TypeInv /\ [Next]_vars => TypeInv'
  <2> SUFFICES ASSUME TypeInv, [Next]_vars PROVE TypeInv' OBVIOUS
  <2>1. CASE Next BY <2>1, BeginType, StepType DEF Next
  <2>2. CASE UNCHANGED vars
    BY <2>2 DEF vars, stream, request, progress, history, TypeInv, TypeOK, PlaceOK, Pending
  <2>. QED BY <2>1, <2>2
<1>. QED BY InitType, <1>1, PTL DEF Spec

\* Every variable keeps its type: no read puts more into the array than it holds, and
\* no sink gets more than its entry.
THEOREM TypeCorrect == Spec => []TypeOK
<1>1. TypeInv => TypeOK BY DEF TypeInv
<1>. QED BY <1>1, TypeInvariance, PTL

-----------------------------------------------------------------------------

\* As long as no close has raced, a pending close is the only pending call, the field
\* and the archive agree but while close deletes, and every address on its way to a
\* native method is that of an open archive.
Undisturbed ==
  /\ \A c, d \in Calls : op[c] = "close" /\ Pending(c) /\ Pending(d) => c = d
  /\ nativePtr = "zero" => archive = "gone"
  /\ archive = "gone" /\ nativePtr = "address" => \E c \in Calls : pc[c] = "delete"
  /\ \A c \in Calls :
       /\ pc[c] = "delete" => nativePtr = "address" /\ archive = "gone"
       /\ pc[c] \in {"load", "native"} /\ op[c] \notin Unchecked =>
            ptr[c] = "address" /\ nativePtr = "address"
       /\ pc[c] = "native" => ptr[c] = nativePtr
       /\ pc[c] \in {"load", "native"} /\ ptr[c] = "address" => archive = "open"
       /\ Using(c) => archive = "open"

AccessInv == TypeInv /\ (~raced => Undisturbed)

\* It holds when the archive was opened.
LEMMA InitAccess == Init => AccessInv
<1> SUFFICES ASSUME Init PROVE AccessInv OBVIOUS
<1>1. Undisturbed BY DEF Init, Undisturbed, Pending, Using
<1>. QED BY <1>1, InitType DEF AccessInv

\* A call that begins without a race leaves it.
LEMMA BeginAccess ==
  ASSUME AccessInv, NEW c \in Calls, NEW by \in Calls \cup {Client}, NEW method \in Ops,
         Begin(c, by, method)
  PROVE  AccessInv'
<1>1. TypeInv' /\ OthersKept(c) /\ TypeOK BY BeginType DEF AccessInv, TypeInv
<1> SUFFICES ASSUME ~raced' PROVE Undisturbed' BY <1>1 DEF AccessInv
<1>2. /\ ~raced /\ \A d \in Calls : Pending(d) => method # "close" /\ op[d] # "close"
  BY DEF Begin
<1>3. Undisturbed BY <1>2 DEF AccessInv
<1>4. /\ op'[c] = method /\ pc'[c] = IF method \in Unchecked THEN "load" ELSE "check"
      /\ ptr'[c] = ptr[c] /\ ptr[c] = "zero" /\ pc[c] = "idle"
      /\ nativePtr' = nativePtr /\ archive' = archive
  BY <1>1 DEF Begin, GoTo, TypeOK, AccessInv, TypeInv, PlaceOK
<1>5. \A d, e \in Calls : op'[d] = "close" /\ Pending(d)' /\ Pending(e)' => d = e
  BY <1>1, <1>2, <1>3, <1>4 DEF Undisturbed, OthersKept, Pending
<1>6. archive = "gone" /\ nativePtr = "address" => \E d \in Calls : pc'[d] = "delete"
  BY <1>1, <1>3, <1>4 DEF Undisturbed, OthersKept
<1>7. ASSUME NEW d \in Calls
      PROVE  /\ pc'[d] = "delete" => nativePtr = "address" /\ archive = "gone"
             /\ pc'[d] \in {"load", "native"} /\ op'[d] \notin Unchecked =>
                  ptr'[d] = "address" /\ nativePtr' = "address"
             /\ pc'[d] = "native" => ptr'[d] = nativePtr'
             /\ pc'[d] \in {"load", "native"} /\ ptr'[d] = "address" => archive = "open"
             /\ Using(d)' => archive = "open"
  <2>1. CASE d = c BY <2>1, <1>4 DEF Using
  <2>2. CASE d # c BY <2>2, <1>1, <1>3, <1>4 DEF Undisturbed, OthersKept, Using
  <2>. QED BY <2>1, <2>2
<1>. QED BY <1>3, <1>4, <1>5, <1>6, <1>7 DEF Undisturbed

\* So does every other step.
LEMMA StepAccess ==
  ASSUME AccessInv, ~Undefined, NEW c \in Calls, Step(c)
  PROVE  AccessInv'
<1>1. /\ TypeInv' /\ OthersKept(c) /\ TypeOK /\ PlaceOK(c)
      /\ nativePtr \in {"address", "zero"} /\ archive \in {"open", "gone"}
  BY StepType DEF AccessInv, TypeInv, TypeOK
<1> SUFFICES ASSUME ~raced' PROVE Undisturbed' BY <1>1 DEF AccessInv
<1>2. raced' = raced
  BY DEF Step, CheckClosed, Load, Enter, Search, Get, Seek, Fill, Copy, Write, ExtractFails,
         ClearPtr, Finally, Return, history
<1>3. Undisturbed BY <1>2 DEF AccessInv
<1>4. Pending(c) /\ op[c] = "close" => \A d \in Calls \ {c} : ~Pending(d)
  BY <1>3 DEF Undisturbed
\* What has to be shown of the step: the call c itself, the field and the archive.
<1>5. SUFFICES /\ Pending(c)' => Pending(c) /\ op'[c] = op[c]
               /\ nativePtr' = "zero" => archive' = "gone"
               /\ archive' = "gone" /\ nativePtr' = "address" =>
                    \E d \in Calls : pc'[d] = "delete"
               /\ pc'[c] = "delete" => nativePtr' = "address" /\ archive' = "gone"
               /\ pc'[c] \in {"load", "native"} /\ op'[c] \notin Unchecked =>
                    ptr'[c] = "address" /\ nativePtr' = "address"
               /\ pc'[c] = "native" => ptr'[c] = nativePtr'
               /\ pc'[c] \in {"load", "native"} /\ ptr'[c] = "address" => archive' = "open"
               /\ Using(c)' => archive' = "open"
               /\ \/ archive' = archive /\ nativePtr' = nativePtr
                  \/ Pending(c) /\ op[c] = "close"
  <2>1. \A d, e \in Calls : op'[d] = "close" /\ Pending(d)' /\ Pending(e)' => d = e
    BY <1>1, <1>3, <1>5 DEF Undisturbed, OthersKept, Pending
  <2>2. ASSUME NEW d \in Calls, d # c
        PROVE  /\ pc'[d] = "delete" => nativePtr' = "address" /\ archive' = "gone"
               /\ pc'[d] \in {"load", "native"} /\ op'[d] \notin Unchecked =>
                    ptr'[d] = "address" /\ nativePtr' = "address"
               /\ pc'[d] = "native" => ptr'[d] = nativePtr'
               /\ pc'[d] \in {"load", "native"} /\ ptr'[d] = "address" => archive' = "open"
               /\ Using(d)' => archive' = "open"
    <3>1. CASE archive' = archive /\ nativePtr' = nativePtr
      BY <1>1, <1>3, <2>2, <3>1 DEF Undisturbed, OthersKept, Using
    <3>2. CASE Pending(c) /\ op[c] = "close"
      <4>1. ~Pending(d) BY <1>4, <2>2, <3>2
      <4>. QED BY <1>1, <2>2, <4>1 DEF Pending, OthersKept, Using
    <3>. QED BY <1>5, <3>1, <3>2
  <2>3. ASSUME NEW d \in Calls
        PROVE  /\ pc'[d] = "delete" => nativePtr' = "address" /\ archive' = "gone"
               /\ pc'[d] \in {"load", "native"} /\ op'[d] \notin Unchecked =>
                    ptr'[d] = "address" /\ nativePtr' = "address"
               /\ pc'[d] = "native" => ptr'[d] = nativePtr'
               /\ pc'[d] \in {"load", "native"} /\ ptr'[d] = "address" => archive' = "open"
               /\ Using(d)' => archive' = "open"
    <3>1. CASE d = c BY <1>5, <3>1
    <3>2. CASE d # c BY <2>2, <3>2
    <3>. QED BY <3>1, <3>2
  <2>. QED BY <1>5, <2>1, <2>3 DEF Undisturbed
\* A deleting close stays where it is while another call goes on.
<1>6. ASSUME pc[c] # "delete", archive' = archive, nativePtr' = nativePtr
      PROVE  /\ nativePtr' = "zero" => archive' = "gone"
             /\ archive' = "gone" /\ nativePtr' = "address" => \E d \in Calls : pc'[d] = "delete"
  BY <1>1, <1>3, <1>6 DEF Undisturbed, OthersKept
<1>7. CASE CheckClosed(c)
  <2>1. /\ pc[c] = "check" /\ archive' = archive /\ nativePtr' = nativePtr /\ op' = op
        /\ pc'[c] = "load" => ptr'[c] = nativePtr /\ nativePtr = "address"
        /\ pc'[c] \in {"load", "finally", "return"}
    BY <1>7, <1>1 DEF CheckClosed, Answer, GoTo, TypeOK, request
  <2>2. nativePtr = "address" => archive = "open"
    <3>1. ASSUME NEW d \in Calls, pc[d] = "delete" PROVE FALSE
      <4>1. PlaceOK(d) BY DEF AccessInv, TypeInv
      <4>. QED BY <1>3, <2>1, <3>1, <4>1 DEF PlaceOK, Undisturbed, Pending
    <3>. QED BY <1>1, <1>3, <3>1 DEF Undisturbed
  <2>. QED BY <1>6, <2>1, <2>2 DEF Using, Pending
<1>8. CASE Load(c)
  <2>1. /\ pc[c] = "load" /\ archive' = archive /\ nativePtr' = nativePtr /\ op' = op
        /\ pc'[c] = "native" /\ ptr'[c] \in {nativePtr, ptr[c]}
        /\ op[c] \in Unchecked => ptr'[c] = nativePtr
    BY <1>8, <1>1 DEF Load, GoTo, TypeOK, request
  <2>2. nativePtr = "address" => archive = "open"
    <3>1. ASSUME NEW d \in Calls, pc[d] = "delete" PROVE FALSE
      <4>1. PlaceOK(d) BY DEF AccessInv, TypeInv
      <4>. QED BY <1>3, <2>1, <3>1, <4>1 DEF PlaceOK, Undisturbed, Pending
    <3>. QED BY <1>1, <1>3, <3>1 DEF Undisturbed
  <2>3. op[c] \notin Unchecked => ptr[c] = "address" /\ nativePtr = "address"
    BY <1>3, <2>1 DEF Undisturbed
  <2>. QED BY <1>6, <2>1, <2>2, <2>3 DEF Using, Pending
<1>9. CASE Enter(c)
  <2>1. pc[c] = "native" /\ nativePtr' = nativePtr /\ op' = op
    BY <1>9 DEF Enter, request
  <2>2. CASE ~PassesCheck(ptr[c])
    <3>1. archive' = archive /\ pc'[c] \in {"finally", "return"}
      BY <1>9, <2>2, <1>1 DEF Enter, Answer, TypeOK
    <3>. QED BY <1>6, <2>1, <3>1 DEF Using, Pending
  <2>3. CASE PassesCheck(ptr[c])
    <3>1. ptr[c] = "address" BY <2>3, <1>1 DEF PassesCheck, TypeOK
    <3>2. archive = "open" BY <1>3, <2>1, <3>1 DEF Undisturbed
    <3>3. nativePtr = "address" BY <1>1, <1>3, <3>2 DEF Undisturbed
    <3>4. CASE op[c] = "close"
      <4>1. archive' = "gone" /\ pc'[c] = "delete"
        BY <1>9, <2>3, <3>2, <3>4, <1>1 DEF Enter, GoTo, TypeOK
      <4>. QED BY <2>1, <3>3, <3>4, <4>1 DEF Using, Pending
    <3>5. CASE op[c] # "close"
      <4>1. archive' = archive /\ pc'[c] \in {"seek", "search", "use"}
        BY <1>9, <2>3, <3>2, <3>5, <1>1 DEF Enter, GoTo, TypeOK
      <4>. QED BY <1>6, <2>1, <3>2, <4>1 DEF Using, Pending
    <3>. QED BY <3>4, <3>5
  <2>. QED BY <2>2, <2>3
<1>10. CASE \/ Search(c) \/ Get(c)
            \/ Seek(c) \/ Fill(c) \/ Copy(c) \/ Write(c) \/ ExtractFails(c)
  <2>1. /\ Using(c) /\ archive' = archive /\ nativePtr' = nativePtr /\ op' = op
        /\ pc'[c] \in {"search", "fill", "copy", "write", "finally", "return"}
    BY <1>10, <1>1 DEF Search, Get, Seek, Fill, Copy, Write, ExtractFails, Answer, GoTo, Using,
                       TypeOK, request
  <2>2. archive = "open" BY <1>3, <2>1 DEF Undisturbed
  <2>. QED BY <1>6, <2>1, <2>2 DEF Using, Pending
<1>11. CASE ClearPtr(c)
  <2>1. /\ pc[c] = "delete" /\ archive' = archive /\ nativePtr' = "zero" /\ op' = op
        /\ pc'[c] \in {"finally", "return"}
    BY <1>11, <1>1 DEF ClearPtr, ClosedPtr, Answer, TypeOK, request
  <2>2. archive = "gone" /\ op[c] = "close" BY <1>1, <1>3, <2>1 DEF Undisturbed, PlaceOK
  <2>. QED BY <2>1, <2>2 DEF Using, Pending
<1>12. CASE Finally(c) \/ Return(c)
  <2>1. /\ pc[c] # "delete" /\ archive' = archive /\ nativePtr' = nativePtr
        /\ pc'[c] \in {"idle", "return"}
    BY <1>12, <1>1 DEF Finally, Return, TypeOK
  <2>. QED BY <1>6, <2>1 DEF Using, Pending
<1>. QED BY <1>7, <1>8, <1>9, <1>10, <1>11, <1>12 DEF Step

\* Without a race, the field, the archive and every address on its way agree.
LEMMA AccessInvariance == Spec => []AccessInv
<1>1. AccessInv /\ [Next]_vars => AccessInv'
  <2> SUFFICES ASSUME AccessInv, [Next]_vars PROVE AccessInv' OBVIOUS
  <2>1. CASE Next BY <2>1, BeginAccess, StepAccess DEF Next
  <2>2. CASE UNCHANGED vars
    <3>1. TypeInv' BY <2>2 DEF vars, stream, request, progress, history, AccessInv, TypeInv,
                              TypeOK, PlaceOK, Pending
    <3>. QED BY <2>2, <3>1 DEF vars, request, history, AccessInv, Undisturbed, Pending, Using
  <2>. QED BY <2>1, <2>2
<1>. QED BY InitAccess, <1>1, PTL DEF Spec

\* No call uses a deleted archive unless a close was under way together with a call
\* that still needed it, however getters and extractions overlap and nest.
THEOREM UseNeedsARaceHolds == Spec => []UseNeedsARace
<1>1. AccessInv => UseNeedsARace
  BY DEF AccessInv, TypeInv, TypeOK, UseNeedsARace, Undefined, Undisturbed
<1>. QED BY <1>1, AccessInvariance, PTL

-----------------------------------------------------------------------------

\* What is known of a call that began after a close had ended.
LateOK(c) ==
  /\ nativePtr = "zero" /\ ptr[c] = "zero"
  /\ ~Using(c) /\ pc[c] # "delete" /\ pc[c] # "idle"
  /\ op[c] # "close" => answer[c] # "ok"

LateInv == TypeInv /\ \A c \in late : LateOK(c)

\* Beginning late, a call has no address and no answer yet.
LEMMA BeginLate ==
  ASSUME LateInv, NEW c \in Calls, NEW by \in Calls \cup {Client}, NEW method \in Ops,
         Begin(c, by, method)
  PROVE  LateInv'
<1>1. TypeInv' /\ OthersKept(c) /\ TypeOK BY BeginType DEF LateInv, TypeInv
<1>2. /\ pc[c] = "idle" /\ nativePtr' = nativePtr
      /\ pc'[c] \in {"check", "load"} /\ ptr'[c] = "zero" /\ answer'[c] = "none"
      /\ late' = IF nativePtr = "zero" THEN late \cup {c} ELSE late
  BY <1>1 DEF Begin, GoTo, TypeOK, LateInv, TypeInv, PlaceOK
<1>3. ASSUME NEW d \in late' PROVE LateOK(d)'
  <2>1. d \in Calls BY <1>1, <1>3 DEF TypeInv, TypeOK
  <2>2. CASE d = c
    <3>1. nativePtr = "zero" BY <1>2, <1>3, <2>2 DEF LateInv, LateOK
    <3>. QED BY <1>2, <2>2, <3>1 DEF LateOK, Using
  <2>3. CASE d # c
    <3>1. d \in late BY <1>2, <1>3, <2>3
    <3>. QED BY <1>1, <1>2, <2>1, <2>3, <3>1 DEF LateInv, LateOK, Using, OthersKept
  <2>. QED BY <2>2, <2>3
<1>. QED BY <1>1, <1>3 DEF LateInv

\* It never gets one: the field stays 0, and every check refuses it.
LEMMA StepLate ==
  ASSUME LateInv, NEW c \in Calls, Step(c)
  PROVE  LateInv'
<1>1. TypeInv' /\ OthersKept(c) /\ TypeOK /\ PlaceOK(c)
  BY StepType DEF LateInv, TypeInv
<1>2. SUFFICES /\ nativePtr = "zero" => nativePtr' = "zero"
               /\ late' \subseteq late
               /\ c \in late' => LateOK(c)'
  <2>1. ASSUME NEW d \in late', d # c PROVE LateOK(d)'
    <3>1. d \in late /\ d \in Calls BY <1>2, <2>1, <1>1 DEF TypeOK
    <3>. QED BY <1>1, <1>2, <2>1, <3>1 DEF LateInv, LateOK, Using, OthersKept
  <2>. QED BY <1>1, <1>2, <2>1 DEF LateInv
<1>3. c \in late => LateOK(c) BY DEF LateInv
<1>4. CASE CheckClosed(c)
  <2>1. c \in late => pc'[c] \in {"return", "finally"} /\ (op[c] # "close" => answer'[c] # "ok")
    BY <1>1, <1>3, <1>4 DEF CheckClosed, Answer, LateOK, TypeOK
  <2>2. c \in late => ptr'[c] = "zero"
    BY <1>1, <1>3, <1>4 DEF CheckClosed, Answer, LateOK, TypeOK
  <2>. QED BY <1>3, <1>4, <2>1, <2>2 DEF CheckClosed, LateOK, Using, history, request
<1>5. CASE Load(c)
  <2>1. c \in late => ptr'[c] = "zero" /\ pc'[c] = "native"
    BY <1>1, <1>3, <1>5 DEF Load, GoTo, LateOK, TypeOK
  <2>. QED BY <1>3, <1>5, <2>1 DEF Load, GoTo, LateOK, Using, history, request
<1>6. CASE Enter(c)
  <2>1. c \in late => pc'[c] \in {"return", "finally"} /\ answer'[c] = "IllegalState"
    BY <1>1, <1>3, <1>6 DEF Enter, PassesCheck, Refusal, Answer, LateOK, TypeOK
  <2>. QED BY <1>3, <1>6, <2>1 DEF Enter, LateOK, Using, history, request
<1>7. CASE \/ Search(c) \/ Get(c)
           \/ Seek(c) \/ Fill(c) \/ Copy(c) \/ Write(c) \/ ExtractFails(c)
  <2>1. Using(c) /\ nativePtr' = nativePtr /\ late' = late
    BY <1>7 DEF Search, Get, Seek, Fill, Copy, Write, ExtractFails, Using, history
  <2>. QED BY <1>3, <2>1 DEF LateOK
<1>8. CASE ClearPtr(c)
  <2>1. pc[c] = "delete" /\ nativePtr' = "zero" /\ late' = late
    BY <1>8 DEF ClearPtr, ClosedPtr, history
  <2>. QED BY <1>3, <2>1 DEF LateOK
<1>9. CASE Finally(c)
  <2>1. pc'[c] = "return" /\ answer'[c] \in {answer[c], "failed"}
    BY <1>9, <1>1 DEF Finally, TypeOK
  <2>. QED BY <1>3, <1>9, <2>1 DEF Finally, LateOK, Using, history, request
<1>10. CASE Return(c)
  BY <1>10 DEF Return
<1>. QED BY <1>4, <1>5, <1>6, <1>7, <1>8, <1>9, <1>10 DEF Step

\* What is known of the late calls is an invariant.
LEMMA LateInvariance == Spec => []LateInv
<1>1. Init => LateInv BY InitType DEF Init, LateInv
<1>2. LateInv /\ [Next]_vars => LateInv'
  <2> SUFFICES ASSUME LateInv, [Next]_vars PROVE LateInv' OBVIOUS
  <2>1. CASE Next BY <2>1, BeginLate, StepLate DEF Next
  <2>2. CASE UNCHANGED vars
    <3>1. TypeInv' BY <2>2 DEF vars, stream, request, progress, history, LateInv, TypeInv,
                              TypeOK, PlaceOK, Pending
    <3>. QED BY <2>2, <3>1 DEF vars, request, history, LateInv, LateOK, Using
  <2>. QED BY <2>1, <2>2
<1>. QED BY <1>1, <1>2, PTL DEF Spec

\* A call that begins after a close has ended never gets to the archive, also after
\* races.
THEOREM ClosedForGoodHolds == Spec => []ClosedForGood
<1>1. LateInv => ClosedForGood BY DEF LateInv, LateOK, ClosedForGood
<1>. QED BY <1>1, LateInvariance, PTL

-----------------------------------------------------------------------------

\* What is known of an extraction with which no other reader has overlapped: the
\* position is where it left it, and what it reads next in the array is its own.
AloneOK(c) ==
  /\ op[c] = "extract" /\ c \notin mixed
  /\ Pending(c) => \A d \in Calls \ {c} : ~Reading(d)
  /\ pc[c] \in {"check", "load", "native", "seek"} => taken[c] = 0
  /\ pc[c] \in {"fill", "write"} => position = Start(c) + taken[c]
  /\ pc[c] = "copy" => \A i \in 1..read[c] : array[i] = Start(c) + taken[c] + i
  /\ pc[c] = "copy" => position = Start(c) + taken[c] + read[c]
  /\ answer[c] = "ok" => taken[c] = EntrySize

AloneInv ==
  /\ TypeInv
  /\ \A c \in alone : AloneOK(c)
  /\ \A c \in mixed : pc[c] # "idle"

\* A new extraction is alone only where no other reader is pending, and every new
\* reader ends the being alone of those under way.
LEMMA BeginAlone ==
  ASSUME AloneInv, NEW c \in Calls, NEW by \in Calls \cup {Client}, NEW method \in Ops,
         Begin(c, by, method)
  PROVE  AloneInv'
<1>1. TypeInv' /\ OthersKept(c) /\ TypeOK /\ PlaceOK(c) BY BeginType DEF AloneInv, TypeInv
<1>2. /\ pc[c] = "idle" /\ op'[c] = method
      /\ pc'[c] \in {"check", "load"} /\ answer'[c] = "none" /\ taken'[c] = 0
      /\ UNCHANGED position /\ UNCHANGED array /\ UNCHANGED mixed
  BY <1>1 DEF Begin, GoTo, TypeOK, PlaceOK, stream, progress
<1>3. ASSUME NEW d \in alone' PROVE AloneOK(d)'
  <2>1. d \in Calls BY <1>1, <1>3 DEF TypeInv, TypeOK
  <2>2. CASE d = c
    <3>1. c \notin alone /\ c \notin mixed
      BY <1>1, <1>2 DEF AloneInv, AloneOK, PlaceOK
    <3>2. method = "extract" /\ \A e \in Calls : ~Reading(e)
      BY <1>3, <2>2, <3>1 DEF Begin
    <3>3. \A e \in Calls \ {c} : ~Reading(e)'
      BY <1>1, <3>2 DEF Reading, Pending, OthersKept
    <3>. QED BY <1>2, <2>2, <3>1, <3>2, <3>3 DEF AloneOK
  <2>3. CASE d # c
    <3>1. d \in alone /\ (method \in Readers => ~Reading(d) \/ \A e \in Calls : ~Reading(e))
      BY <1>3, <2>3 DEF Begin
    <3>2. AloneOK(d) BY <3>1 DEF AloneInv
    <3>3. method \in Readers => ~Pending(d)
      BY <2>1, <3>1, <3>2 DEF AloneOK, Reading, Readers
    <3>4. Pending(d)' => \A e \in Calls \ {d} : ~Reading(e)'
      BY <1>1, <1>2, <2>1, <2>3, <3>2, <3>3 DEF AloneOK, Reading, Readers, Pending, OthersKept
    <3>5. /\ op'[d] = op[d] /\ pc'[d] = pc[d] /\ taken'[d] = taken[d] /\ read'[d] = read[d]
          /\ answer'[d] = answer[d] /\ Start(d)' = Start(d)
      BY <1>1, <2>1, <2>3 DEF OthersKept, Start
    <3>. QED BY <1>2, <3>2, <3>4, <3>5 DEF AloneOK
  <2>. QED BY <2>2, <2>3
<1>4. ASSUME NEW d \in mixed' PROVE pc'[d] # "idle"
  BY <1>1, <1>2, <1>4 DEF AloneInv, OthersKept, TypeOK
<1>. QED BY <1>1, <1>3, <1>4 DEF AloneInv

\* Every other step keeps an extraction alone to its own bytes.
LEMMA StepAlone ==
  ASSUME AloneInv, NEW c \in Calls, Step(c)
  PROVE  AloneInv'
<1>1. TypeInv' /\ OthersKept(c) /\ TypeOK /\ PlaceOK(c)
  BY StepType DEF AloneInv, TypeInv
<1>2. SUFFICES /\ Reading(c)' => Reading(c)
               /\ Reading(c) \/ (position' = position /\ array' = array)
               /\ mixed' \subseteq mixed \cup {c} /\ alone' \subseteq alone
               /\ c \in mixed' => pc'[c] # "idle"
               /\ c \in alone' =>
                    /\ op'[c] = "extract" /\ c \notin mixed'
                    /\ Pending(c)' => Pending(c)
                    /\ pc'[c] \in {"check", "load", "native", "seek"} => taken'[c] = 0
                    /\ pc'[c] \in {"fill", "write"} => position' = Start(c)' + taken'[c]
                    /\ pc'[c] = "copy" =>
                         \A i \in 1..read'[c] : array'[i] = Start(c)' + taken'[c] + i
                    /\ pc'[c] = "copy" => position' = Start(c)' + taken'[c] + read'[c]
                    /\ answer'[c] = "ok" => taken'[c] = EntrySize
  <2>1. ASSUME NEW d \in alone' PROVE AloneOK(d)'
    <3>1. d \in Calls /\ d \in alone /\ AloneOK(d)
      BY <1>1, <1>2, <2>1 DEF TypeOK, AloneInv
    <3>2. CASE d = c
      <4>1. Pending(c)' => \A e \in Calls \ {c} : ~Reading(e)'
        BY <1>1, <1>2, <2>1, <3>1, <3>2 DEF AloneOK, Reading, Readers, Pending, OthersKept
      <4>. QED BY <1>2, <2>1, <3>2, <4>1 DEF AloneOK
    <3>3. CASE d # c
      <4>1. /\ op'[d] = op[d] /\ pc'[d] = pc[d] /\ taken'[d] = taken[d]
            /\ read'[d] = read[d] /\ answer'[d] = answer[d] /\ Start(d)' = Start(d)
            /\ d \notin mixed'
        BY <1>1, <1>2, <3>1, <3>3 DEF OthersKept, Start, AloneOK
      <4>2. Pending(d)' => \A e \in Calls \ {d} : ~Reading(e)'
        <5>1. ASSUME Pending(d)', NEW e \in Calls \ {d} PROVE ~Reading(e)'
          <6>1. ~Reading(e) BY <3>1, <4>1, <5>1 DEF AloneOK, Pending
          <6>2. CASE e = c BY <1>2, <6>1, <6>2
          <6>3. CASE e # c BY <1>1, <6>1, <6>3 DEF OthersKept, Reading, Pending
          <6>. QED BY <6>2, <6>3
        <5>. QED BY <5>1
      <4>3. Pending(d) => position' = position /\ array' = array
        BY <1>2, <3>1, <3>3 DEF AloneOK
      <4>. QED BY <3>1, <4>1, <4>2, <4>3 DEF AloneOK, Pending
    <3>. QED BY <3>2, <3>3
  <2>2. ASSUME NEW d \in mixed' PROVE pc'[d] # "idle"
    <3>1. CASE d = c BY <1>2, <2>2, <3>1
    <3>2. CASE d # c
      BY <1>1, <1>2, <2>2, <3>2 DEF AloneInv, TypeOK, OthersKept
    <3>. QED BY <3>1, <3>2
  <2>. QED BY <1>1, <2>1, <2>2 DEF AloneInv
<1>3. c \in alone => AloneOK(c) BY DEF AloneInv
<1>4. c \in mixed => pc[c] # "idle" BY DEF AloneInv
<1>5. op[c] = "extract" => Start(c) \in Nat
  BY <1>1, StartBound, TotalNat DEF Start, PlaceOK
<1>6. /\ taken[c] \in 0..EntrySize /\ read[c] \in 0..ARRAY_SIZE
      /\ position \in Nat /\ EntrySize \in Nat /\ ARRAY_SIZE \in Nat
  BY <1>1, SizesAssumption, TotalNat DEF TypeOK
\* A step that leaves the stream and the bytes of the call.
<1>7. ASSUME UNCHANGED <<position, array, op, entry, taken, read, alone, mixed>>,
             Pending(c)' => Pending(c), pc'[c] # "idle",
             pc[c] \in {"check", "load", "native"} \/ pc'[c] \notin {"check", "load", "native", "seek"},
             pc'[c] = "fill" => pc[c] = "write",
             pc'[c] \notin {"copy", "write"},
             answer'[c] = "ok" => answer[c] = "ok" \/ op[c] # "extract" \/ taken[c] = EntrySize
      PROVE  /\ Reading(c)' => Reading(c)
             /\ Reading(c) \/ (position' = position /\ array' = array)
             /\ mixed' \subseteq mixed \cup {c} /\ alone' \subseteq alone
             /\ c \in mixed' => pc'[c] # "idle"
             /\ c \in alone' =>
                  /\ op'[c] = "extract" /\ c \notin mixed'
                  /\ Pending(c)' => Pending(c)
                  /\ pc'[c] \in {"check", "load", "native", "seek"} => taken'[c] = 0
                  /\ pc'[c] \in {"fill", "write"} => position' = Start(c)' + taken'[c]
                  /\ pc'[c] = "copy" =>
                       \A i \in 1..read'[c] : array'[i] = Start(c)' + taken'[c] + i
                  /\ pc'[c] = "copy" => position' = Start(c)' + taken'[c] + read'[c]
                  /\ answer'[c] = "ok" => taken'[c] = EntrySize
  BY <1>3, <1>7 DEF AloneOK, Reading, Start
<1>8. CASE CheckClosed(c)
  <2>1. /\ pc[c] = "check" /\ pc'[c] \in {"load", "finally", "return"}
        /\ UNCHANGED <<position, array, op, entry, taken, read, alone, mixed>>
        /\ answer'[c] = "ok" => answer[c] = "ok" \/ op[c] # "extract"
    BY <1>1, <1>8 DEF CheckClosed, Answer, GoTo, TypeOK, stream, request, progress, history
  <2>. QED BY <1>7, <2>1 DEF Pending
<1>9. CASE Load(c)
  <2>1. /\ pc[c] = "load" /\ pc'[c] = "native" /\ answer'[c] = answer[c]
        /\ UNCHANGED <<position, array, op, entry, taken, read, alone, mixed>>
    BY <1>1, <1>9 DEF Load, GoTo, TypeOK, stream, request, progress, history
  <2>. QED BY <1>7, <2>1 DEF Pending
<1>10. CASE Enter(c)
  <2>1. /\ pc[c] = "native" /\ pc'[c] \in {"seek", "search", "use", "delete", "finally", "return"}
        /\ UNCHANGED <<position, array, op, entry, taken, read, alone, mixed>>
        /\ answer'[c] = "ok" => answer[c] = "ok"
    BY <1>1, <1>10 DEF Enter, Refusal, Answer, GoTo, TypeOK, stream, request, progress, history
  <2>. QED BY <1>7, <2>1 DEF Pending
<1>11. CASE Get(c)
  <2>1. /\ pc[c] \in {"use", "search"} /\ pc'[c] \in {"return", "finally"} /\ op[c] # "extract"
        /\ UNCHANGED <<position, array, op, entry, taken, read, alone, mixed>>
    BY <1>1, <1>11 DEF Get, Answer, TypeOK, PlaceOK, Readers, stream, request, progress, history
  <2>. QED BY <1>7, <2>1 DEF Pending
<1>12. CASE Seek(c)
  <2>1. /\ pc[c] = "seek" /\ pc'[c] = "fill" /\ position' = Start(c) /\ op[c] = "extract"
        /\ UNCHANGED <<array, op, entry, taken, read, alone, mixed>> /\ answer'[c] = answer[c]
    BY <1>1, <1>12 DEF Seek, GoTo, TypeOK, PlaceOK, request, progress, history
  <2>. QED BY <1>3, <1>5, <1>6, <2>1 DEF AloneOK, Reading, Readers, Pending, Start
<1>13. CASE Fill(c)
  <2>1. PICK k \in Available(c) :
          /\ array' = Filled(position, k) /\ position' = position + k /\ read' = [read EXCEPT ![c] = k]
    BY <1>13 DEF Fill
  <2>2. k \in 1..ARRAY_SIZE
    BY <1>6, <2>1, TotalNat DEF Available, Asked, Smaller
  <2>3. \A i \in 1..k : array'[i] = position + i
    BY <1>1, <2>1, <2>2, <1>6 DEF Filled, TypeOK
  <2>4. /\ pc[c] = "fill" /\ pc'[c] = "copy" /\ op[c] = "extract" /\ read'[c] = k
        /\ UNCHANGED <<op, entry, taken, alone, mixed>> /\ answer'[c] = answer[c]
    BY <1>1, <1>13, <2>1 DEF Fill, GoTo, TypeOK, PlaceOK, request, history
  <2>. QED BY <1>3, <1>5, <1>6, <2>1, <2>2, <2>3, <2>4 DEF AloneOK, Reading, Readers, Pending, Start
<1>14. CASE Copy(c)
  <2>1. /\ pc[c] = "copy" /\ pc'[c] = "write" /\ op[c] = "extract"
        /\ taken'[c] = taken[c] + read[c]
        /\ UNCHANGED <<position, array, op, entry, alone>> /\ answer'[c] = answer[c]
        /\ answer[c] = "none"
    BY <1>1, <1>14 DEF Copy, CopiedLength, GoTo, TypeOK, PlaceOK, Pending, request, stream
  <2>2. c \in alone => mixed' = mixed
    BY <1>3, <1>14, <2>1 DEF Copy, CopiedLength, AloneOK
  <2>3. mixed' \subseteq mixed \cup {c} BY <1>14 DEF Copy
  <2>4. c \in alone => position = Start(c) + taken'[c]
    BY <1>3, <1>5, <1>6, <2>1 DEF AloneOK
  <2>. QED BY <1>3, <2>1, <2>2, <2>3, <2>4 DEF AloneOK, Reading, Readers, Pending, Start
<1>15. CASE Write(c)
  <2>1. /\ pc[c] = "write" /\ pc'[c] \in {"fill", "finally"} /\ op[c] = "extract"
        /\ UNCHANGED <<position, array, op, entry, taken, read, alone, mixed>>
        /\ answer'[c] = "ok" => answer[c] = "ok" \/ taken[c] >= EntrySize
    BY <1>1, <1>15 DEF Write, Answer, GoTo, TypeOK, PlaceOK, request, stream, progress, history
  <2>2. taken[c] >= EntrySize => taken[c] = EntrySize BY <1>6
  <2>. QED BY <1>7, <2>1, <2>2 DEF Pending
<1>16. CASE ExtractFails(c)
  <2>1. /\ pc[c] \in {"seek", "fill", "write"} /\ pc'[c] = "finally" /\ op[c] = "extract"
        /\ UNCHANGED <<op, entry, taken, read, alone, mixed>> /\ answer'[c] = "failed"
    BY <1>1, <1>16 DEF ExtractFails, Answer, TypeOK, PlaceOK, request, progress, history
  <2>. QED BY <1>3, <2>1 DEF AloneOK, Reading, Readers, Pending
<1>17. CASE ClearPtr(c)
  <2>1. /\ pc[c] = "delete" /\ op[c] = "close" /\ pc'[c] = "return"
        /\ UNCHANGED <<position, array, op, entry, taken, read, alone, mixed>>
    BY <1>1, <1>17 DEF ClearPtr, Answer, TypeOK, PlaceOK, request, stream, progress, history
  <2>. QED BY <1>7, <2>1 DEF Pending
<1>18. CASE Finally(c)
  <2>1. /\ pc[c] = "finally" /\ pc'[c] = "return" /\ answer'[c] \in {answer[c], "failed"}
        /\ UNCHANGED <<position, array, op, entry, taken, read, alone, mixed>>
    BY <1>1, <1>18 DEF Finally, TypeOK, request, stream, progress, history
  <2>. QED BY <1>7, <2>1 DEF Pending
<1>19. CASE Return(c)
  <2>1. /\ pc'[c] = "idle" /\ alone' = alone \ {c} /\ mixed' = mixed \ {c}
        /\ UNCHANGED <<position, array>>
    BY <1>1, <1>19 DEF Return, TypeOK, stream
  <2>. QED BY <2>1 DEF Reading, Pending
<1>20. CASE Search(c)
  <2>1. /\ pc[c] = "search" /\ op[c] = "getStream"
        /\ UNCHANGED <<op, pc, entry, taken, read, alone, mixed>>
    BY <1>1, <1>20 DEF Search, PlaceOK, request, progress, history
  <2>2. Reading(c) BY <2>1 DEF Reading, Readers, Pending
  <2>3. c \notin alone BY <1>3, <2>1 DEF AloneOK
  <2>. QED BY <1>4, <2>1, <2>2, <2>3
<1>. QED BY <1>8, <1>9, <1>10, <1>11, <1>12, <1>13, <1>14, <1>15, <1>16, <1>17, <1>18, <1>19,
            <1>20 DEF Step

\* What is known of the extractions alone with the stream is an invariant.
LEMMA AloneInvariance == Spec => []AloneInv
<1>1. Init => AloneInv BY InitType DEF Init, AloneInv
<1>2. AloneInv /\ [Next]_vars => AloneInv'
  <2> SUFFICES ASSUME AloneInv, [Next]_vars PROVE AloneInv' OBVIOUS
  <2>1. CASE Next BY <2>1, BeginAlone, StepAlone DEF Next
  <2>2. CASE UNCHANGED vars
    <3>1. TypeInv' BY <2>2 DEF vars, stream, request, progress, history, AloneInv, TypeInv,
                              TypeOK, PlaceOK, Pending
    <3>2. ASSUME NEW d \in alone' PROVE AloneOK(d)'
      <4>1. AloneOK(d) BY <2>2, <3>2 DEF vars, history, AloneInv
      <4>. QED BY <2>2, <4>1 DEF vars, stream, request, progress, history, AloneOK, Pending,
                                Reading, Start
    <3>. QED BY <2>2, <3>1, <3>2 DEF vars, history, AloneInv
  <2>. QED BY <2>1, <2>2
<1>. QED BY <1>1, <1>2, PTL DEF Spec

\* An extraction with which neither another one nor a getEntryStream has overlapped
\* gives its sink its own bytes, whatever earlier calls have left in the shared array
\* and of the shared position.
THEOREM ExtractsItsOwnBytesHolds == Spec => []ExtractsItsOwnBytes
<1>1. AloneInv => ExtractsItsOwnBytes BY DEF AloneInv, AloneOK, ExtractsItsOwnBytes
<1>. QED BY <1>1, AloneInvariance, PTL

\* The three together: without a race the field, the archive and every address on its
\* way agree; a call begun after a close has no address; the position and the array are
\* where an extraction alone with the stream needs them.
THEOREM Invariance == Spec => [](AccessInv /\ LateInv /\ AloneInv)
BY AccessInvariance, LateInvariance, AloneInvariance, PTL

-----------------------------------------------------------------------------

\* The archive that was opened is an open closable archive.
LEMMA InitClosable == Init => Closable!Init
BY DEF Init, Closable!Init

\* A call that begins begins there, or is a disorder.
LEMMA BeginClosable ==
  ASSUME AccessInv, NEW c \in Calls, NEW by \in Calls \cup {Client}, NEW method \in Ops,
         Begin(c, by, method)
  PROVE  Closable!Next
<1>1. TypeOK /\ PlaceOK(c) BY DEF AccessInv, TypeInv
<1>2. CASE raced' BY <1>2 DEF Closable!Next
<1>3. CASE ~raced'
  <2>1. raced' = raced BY <1>1, <1>3 DEF Begin, TypeOK
  <2>2. Closable!Begin(c)
    BY <1>1 DEF Begin, GoTo, PlaceOK, Closable!Begin, Ops
  <2>. QED BY <2>1, <2>2 DEF Closable!Next
<1>. QED BY <1>2, <1>3

\* Every other step is a step there, or none.
LEMMA StepClosable ==
  ASSUME AccessInv, ~Undefined, NEW c \in Calls, Step(c)
  PROVE  Closable!Next \/ UNCHANGED Closable!vars
<1>1. TypeOK /\ PlaceOK(c) /\ nativePtr \in {"address", "zero"} /\ archive \in {"open", "gone"}
  BY DEF AccessInv, TypeInv, TypeOK
<1>2. raced' = raced
  BY DEF Step, CheckClosed, Load, Enter, Search, Get, Seek, Fill, Copy, Write, ExtractFails,
         ClearPtr, Finally, Return, history
<1>3. CASE raced BY <1>2, <1>3 DEF Closable!Next
<1>4. CASE ~raced
  <2>1. Undisturbed BY <1>4 DEF AccessInv
  <2>2. SUFFICES \/ Closable!Answer(c) \/ Closable!Close(c) \/ Closable!SinkFails(c)
                 \/ Closable!Return(c)
                 \/ UNCHANGED nativePtr /\ UNCHANGED op /\ UNCHANGED answer
    BY <1>2, <2>2 DEF Closable!Next, Closable!vars
  <2>3. Using(c) => archive = "open" /\ nativePtr = "address"
    BY <1>1, <2>1 DEF Undisturbed
  <2>4. CASE CheckClosed(c)
    <3>1. CASE nativePtr # "zero"
      BY <2>4, <3>1 DEF CheckClosed, GoTo, request
    <3>2. CASE nativePtr = "zero" /\ op[c] = "close"
      BY <1>1, <2>4, <3>2 DEF CheckClosed, Answer, request, PlaceOK, Pending, Closable!Close
    <3>3. CASE nativePtr = "zero" /\ op[c] # "close"
      BY <1>1, <2>4, <3>3 DEF CheckClosed, Answer, request, PlaceOK, Pending, Ops, Closable!Answer
    <3>. QED BY <3>1, <3>2, <3>3
  <2>5. CASE Load(c) BY <2>5 DEF Load, GoTo, request
  <2>6. CASE Enter(c)
    <3>1. CASE PassesCheck(ptr[c])
      BY <2>6, <3>1 DEF Enter, GoTo, request
    <3>2. CASE ~PassesCheck(ptr[c])
      <4>1. pc[c] = "native" /\ answer[c] = "none" /\ op[c] \in Ops
        BY <1>1, <2>6 DEF Enter, PlaceOK, Pending
      <4>2. nativePtr = "zero" /\ op[c] # "close"
        BY <1>1, <2>1, <3>2, <4>1 DEF Undisturbed, PassesCheck, TypeOK, Unchecked
      <4>. QED BY <1>1, <2>6, <3>2, <4>1, <4>2 DEF Enter, Answer, Refusal, request, Ops,
                                                   Closable!Answer
    <3>. QED BY <3>1, <3>2
  <2>7. CASE Get(c)
    <3>1. /\ pc[c] \in {"use", "search"} /\ answer[c] = "none" /\ op[c] \in Ops
          /\ nativePtr = "address"
      BY <1>1, <2>3, <2>7 DEF Get, PlaceOK, Pending, Using
    <3>2. op[c] # "close" BY <1>1, <2>3, <3>1 DEF PlaceOK, Using
    <3>. QED BY <2>7, <3>1, <3>2 DEF Get, Answer, request, Ops, Closable!Answer
  <2>8. CASE Search(c) \/ Seek(c) \/ Fill(c) \/ Copy(c)
    BY <2>8 DEF Search, Seek, Fill, Copy, GoTo, request
  <2>9. CASE Write(c)
    <3>1. CASE taken[c] >= EntrySize
      <4>1. pc[c] = "write" /\ answer[c] = "none" /\ op[c] = "extract" /\ nativePtr = "address"
        BY <1>1, <2>3, <2>9 DEF Write, PlaceOK, Pending, Using
      <4>. QED BY <2>9, <3>1, <4>1 DEF Write, Answer, request, Closable!Answer
    <3>2. CASE ~(taken[c] >= EntrySize)
      BY <2>9, <3>2 DEF Write, GoTo, request
    <3>. QED BY <3>1, <3>2
  <2>10. CASE ExtractFails(c)
    <3>1. Using(c) /\ answer[c] = "none" /\ op[c] = "extract" /\ nativePtr = "address"
      BY <1>1, <2>3, <2>10 DEF ExtractFails, PlaceOK, Pending, Using
    <3>. QED BY <2>10, <3>1 DEF ExtractFails, Answer, request, Closable!Answer
  <2>11. CASE ClearPtr(c)
    <3>1. pc[c] = "delete" /\ answer[c] = "none" /\ op[c] = "close"
      BY <1>1, <2>11 DEF ClearPtr, PlaceOK, Pending
    <3>. QED BY <2>11, <3>1 DEF ClearPtr, ClosedPtr, Answer, request, Closable!Close
  <2>12. CASE Finally(c)
    <3>1. answer[c] # "none" /\ op[c] = "extract" BY <1>1, <2>12 DEF Finally, PlaceOK
    <3>2. PICK a \in {answer[c], "failed"} : answer' = [answer EXCEPT ![c] = a]
      BY <2>12 DEF Finally
    <3>3. a = answer[c] => answer' = answer BY <1>1, <3>2 DEF TypeOK
    <3>4. UNCHANGED nativePtr /\ UNCHANGED op BY <2>12 DEF Finally, request
    <3>. QED BY <3>1, <3>2, <3>3, <3>4 DEF Closable!SinkFails
  <2>13. CASE Return(c)
    <3>1. answer[c] # "none" BY <1>1, <2>13 DEF Return, PlaceOK
    <3>. QED BY <2>13, <3>1 DEF Return, Closable!Return
  <2>. QED BY <2>4, <2>5, <2>6, <2>7, <2>8, <2>9, <2>10, <2>11, <2>12, <2>13 DEF Step
<1>. QED BY <1>3, <1>4

\* Calls that no close races with are atomic: together they are the one closable
\* archive that a client would take the InArchive for.
THEOREM ImplementsClosableHolds == Spec => ImplementsClosable
<1>1. AccessInv /\ [Next]_vars => [Closable!Next]_(Closable!vars)
  <2> SUFFICES ASSUME AccessInv, [Next]_vars
               PROVE  Closable!Next \/ UNCHANGED Closable!vars
    OBVIOUS
  <2>1. CASE Next BY <2>1, BeginClosable, StepClosable DEF Next
  <2>2. CASE UNCHANGED vars
    BY <2>2 DEF vars, request, history, Closable!vars
  <2>. QED BY <2>1, <2>2
<1>. QED BY InitClosable, <1>1, AccessInvariance, PTL DEF Spec, ImplementsClosable, Closable!Spec
=============================================================================
