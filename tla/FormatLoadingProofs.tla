------------------------- MODULE FormatLoadingProofs -------------------------
(***************************************************************************)
(* Proofs about FormatLoading, for every table of handlers p7zip may have  *)
(* and any number of loads: the table of formats is exact as soon as       *)
(* SevenZip is initialised, and the natives of InArchive are registered    *)
(* only over an initialised library.                                       *)
(***************************************************************************)
EXTENDS FormatLoading, SequenceTheorems, TLAPS

-----------------------------------------------------------------------------

\* The modules by number; SevenZip is the last.
LEMMA ModuleNumbers ==
  /\ Len(Modules) = 6
  /\ Modules[6] = "SevenZip"
  /\ \A k \in 1..6 : Modules[k] = "SevenZip" => k = 6
  /\ \A k \in 1..6 : Modules[k] \in AllModules
  /\ \A m \in AllModules : \E k \in 1..6 : m = Modules[k]
BY DEF Modules, AllModules

\* The classes by number; JavaInArchive is the first.
LEMMA ClassNumbers ==
  /\ Len(Classes) = 3
  /\ \A k \in 1..3 : Classes[k] \in AllClasses
BY DEF Classes, AllClasses

\* The properties by number.
LEMMA PropertyNumbers ==
  /\ Len(HandlerProperties) = 5
  /\ HandlerProperties[1] = "class_id" /\ HandlerProperties[2] = "name"
  /\ HandlerProperties[3] = "signature_offset" /\ HandlerProperties[4] = "signature"
  /\ HandlerProperties[5] = "multi_signature"
  /\ \A k \in 1..5 : k = 1 \/ k = 2 \/ k = 3 \/ k = 4 \/ k = 5
BY DEF HandlerProperties

\* What the reading of each property of a handler yields.
LEMMA HandlerReadings ==
  ASSUME NEW h \in Handlers
  PROVE  /\ h.class_id.state \in {"given", "missing", "fails"}
         /\ h.name.state \in {"given", "missing", "fails"}
         /\ h.signature_offset.state \in {"given", "missing", "fails"}
         /\ h.signature.state \in {"given", "missing", "fails"}
         /\ h.multi_signature.state \in {"given", "missing", "fails"}
         /\ h.signature_offset.value \in Nat
         /\ h.signature.value \in Seq(Nat)
         /\ h.multi_signature.value \in Seq(Nat)
         /\ h["class_id"] = h.class_id /\ h["name"] = h.name
         /\ h["signature_offset"] = h.signature_offset /\ h["signature"] = h.signature
         /\ h["multi_signature"] = h.multi_signature
BY DEF Handlers, Reading

\* A table whose last format is replaced.
LEMMA LastReplaced ==
  ASSUME NEW fs \in Seq(Formats), fs # << >>, NEW f \in Formats
  PROVE  LET gs == [fs EXCEPT ![Len(fs)] = f] IN
         /\ gs \in Seq(Formats) /\ gs # << >> /\ Len(gs) = Len(fs) /\ gs[Len(gs)] = f
         /\ \A k \in 1..(Len(fs) - 1) : gs[k] = fs[k]
BY DEF Formats

\* To replace the last format by itself changes nothing.
LEMMA LastKept ==
  ASSUME NEW fs \in Seq(Formats), fs # << >>
  PROVE  fs[Len(fs)] \in Formats /\ fs = [fs EXCEPT ![Len(fs)] = fs[Len(fs)]]
OBVIOUS

-----------------------------------------------------------------------------

\* The types, and where the loops are.
Places ==
  /\ pc = "register" => stage <= 3
  /\ pc \in {"properties", "append"} => formats # << >> /\ i <= Len(table)

TypeInv == TypeOK /\ Places

\* The types and places hold before the first load.
LEMMA InitType == Init => TypeInv
<1> SUFFICES ASSUME Init PROVE TypeInv OBVIOUS
<1>1. table \in Seq(Handlers) BY TablesAssumption DEF Init
<1>2. Len(table) \in Nat BY <1>1
<1>3. /\ attempts = 0 /\ pc = "java" /\ stage = 1 /\ initialized = {} /\ registered = {}
      /\ loaded = FALSE /\ i = 1 /\ property = 1 /\ formats = << >> /\ rest = << >>
  BY DEF Init
<1>4. formats \in Seq(Formats) /\ rest \in Seq(Nat) BY <1>3
<1>5. attempts \in 0..MaxAttempts BY <1>3, AttemptsAssumption
<1>6. stage \in 1..Len(Modules) /\ property \in 1..Len(HandlerProperties)
  BY <1>3, ModuleNumbers, PropertyNumbers
<1>7. i \in 1..(Len(table) + 1) BY <1>2, <1>3
<1>8. TypeOK BY <1>1, <1>3, <1>4, <1>5, <1>6, <1>7 DEF TypeOK
<1>. QED BY <1>3, <1>8 DEF TypeInv, Places

\* The format under construction, and with another one in its place.
Last == formats[Len(formats)]

WithLast(g) == [formats EXCEPT ![Len(formats)] = g]

\* Format g is f after the p-th property of handler h was read into it.
ReadInto(g, f, h, p) ==
  /\ g.handler = f.handler
  /\ g.has_name = (f.has_name \/ (p = 2 /\ h.name.state = "given"))
  /\ g.signature_offset = IF p = 3 /\ h.signature_offset.state = "given"
                          THEN h.signature_offset.value ELSE f.signature_offset
  /\ g.signatures = IF p = 4 /\ h.signature.state = "given"
                    THEN Append(f.signatures, h.signature.value) ELSE f.signatures

\* A property that the handler has not, or that is no part of a format, changes nothing.
LEMMA NothingRead ==
  ASSUME NEW f \in Formats, NEW h, NEW p \in 1..5,
         \/ p = 1 \/ p = 5
         \/ p = 2 /\ h.name.state # "given"
         \/ p = 3 /\ h.signature_offset.state # "given"
         \/ p = 4 /\ h.signature.state # "given"
  PROVE  ReadInto(f, f, h, p)
<1>1. f.has_name \in BOOLEAN BY DEF Formats
<1>. QED BY <1>1 DEF ReadInto

\* What the reading of a property does to the format under construction.
LEMMA ReadStep ==
  ASSUME TypeInv, ReadProperty
  PROVE  /\ Last \in Formats /\ table[i] \in Handlers /\ property \in 1..5
         /\ \E g \in Formats : formats' = WithLast(g) /\ ReadInto(g, Last, table[i], property)
<1> DEFINE h == table[i]
<1>1. /\ formats \in Seq(Formats) /\ formats # << >> /\ h \in Handlers /\ property \in 1..5
  BY PropertyNumbers DEF ReadProperty, TypeInv, TypeOK, Places
<1>2. Last \in Formats /\ formats = WithLast(Last) BY <1>1, LastKept DEF Last, WithLast
<1>3. /\ Last.handler \in Nat /\ Last.has_name \in BOOLEAN /\ Last.signature_offset \in Nat
      /\ Last.signatures \in Seq(Seq(Nat))
  BY <1>2 DEF Formats
<1>4. ASSUME formats' = formats,
             \/ property = 1 \/ property = 5
             \/ property = 2 /\ h.name.state # "given"
             \/ property = 3 /\ h.signature_offset.state # "given"
             \/ property = 4 /\ h.signature.state # "given"
      PROVE  \E g \in Formats : formats' = WithLast(g) /\ ReadInto(g, Last, h, property)
  <2>1. ReadInto(Last, Last, h, property) BY <1>1, <1>2, <1>4, NothingRead
  <2>. QED BY <1>2, <1>4, <2>1
<1>5. CASE property = 1 \/ property = 5
  <2>1. formats' = formats BY <1>5, PropertyNumbers DEF ReadProperty
  <2>. QED BY <1>1, <1>2, <1>4, <1>5, <2>1
<1>6. CASE property = 2
  <2>1. CASE h.name.state = "missing"
    <3>1. formats' = formats BY <1>6, <2>1, PropertyNumbers, HandlerReadings, <1>1 DEF ReadProperty
    <3>. QED BY <1>1, <1>2, <1>4, <1>6, <2>1, <3>1
  <2>2. CASE h.name.state # "missing"
    <3> DEFINE g == [Last EXCEPT !.has_name = TRUE]
    <3>1. h.name.state = "given" /\ h["name"] = h.name
      BY <1>1, <1>6, <2>2, HandlerReadings, PropertyNumbers DEF ReadProperty
    <3>2. formats' = WithLast(g)
      BY <1>1, <1>6, <2>2, <3>1, PropertyNumbers DEF ReadProperty, WithLast, Last, Back
    <3>3. g \in Formats BY <1>2 DEF Formats
    <3>4. /\ g.handler = Last.handler /\ g.has_name = TRUE
          /\ g.signature_offset = Last.signature_offset /\ g.signatures = Last.signatures
      BY <1>2 DEF Formats
    <3> HIDE DEF g
    <3>5. (Last.has_name \/ (property = 2 /\ h.name.state = "given")) = TRUE BY <1>6, <3>1
    <3>6. property # 3 /\ property # 4 BY <1>6
    <3>7. g.has_name = (Last.has_name \/ (property = 2 /\ h.name.state = "given"))
      BY <3>4, <3>5, Zenon
    <3>8. ReadInto(g, Last, h, property) BY <3>4, <3>6, <3>7, Zenon DEF ReadInto
    <3>. QED BY <1>1, <1>2, <3>2, <3>3, <3>8
  <2>. QED BY <2>1, <2>2
<1>7. CASE property = 3
  <2>1. CASE h.signature_offset.state = "missing"
    <3>1. formats' = formats BY <1>7, <2>1, PropertyNumbers, HandlerReadings, <1>1 DEF ReadProperty
    <3>. QED BY <1>1, <1>2, <1>4, <1>7, <2>1, <3>1
  <2>2. CASE h.signature_offset.state # "missing"
    <3> DEFINE g == [Last EXCEPT !.signature_offset = h.signature_offset.value]
    <3>1. /\ h.signature_offset.state = "given" /\ h["signature_offset"] = h.signature_offset
          /\ h.signature_offset.value \in Nat
      BY <1>1, <1>7, <2>2, HandlerReadings, PropertyNumbers DEF ReadProperty
    <3>2. formats' = WithLast(g)
      BY <1>1, <1>7, <2>2, <3>1, PropertyNumbers DEF ReadProperty, WithLast, Last, Back
    <3>3. g \in Formats BY <1>2, <3>1 DEF Formats
    <3>4. ReadInto(g, Last, h, property) BY <1>2, <1>7, <3>1 DEF ReadInto, Formats
    <3>. QED BY <1>1, <1>2, <3>2, <3>3, <3>4
  <2>. QED BY <2>1, <2>2
<1>8. CASE property = 4
  <2>1. CASE h.signature.state = "missing"
    <3>1. formats' = formats BY <1>8, <2>1, PropertyNumbers, HandlerReadings, <1>1 DEF ReadProperty
    <3>. QED BY <1>1, <1>2, <1>4, <1>8, <2>1, <3>1
  <2>2. CASE h.signature.state # "missing"
    <3> DEFINE g == [Last EXCEPT !.signatures = Append(@, h.signature.value)]
    <3>1. /\ h.signature.state = "given" /\ h["signature"] = h.signature
          /\ h.signature.value \in Seq(Nat)
      BY <1>1, <1>8, <2>2, HandlerReadings, PropertyNumbers DEF ReadProperty
    <3>2. formats' = WithLast(g)
      BY <1>1, <1>8, <2>2, <3>1, PropertyNumbers DEF ReadProperty, WithLast, Last, Back
    <3>3. Append(Last.signatures, h.signature.value) \in Seq(Seq(Nat)) BY <1>3, <3>1
    <3>4. g \in Formats BY <1>2, <3>3 DEF Formats
    <3>5. ReadInto(g, Last, h, property) BY <1>2, <1>8, <3>1 DEF ReadInto, Formats
    <3>. QED BY <1>1, <1>2, <3>2, <3>4, <3>5
  <2>. QED BY <2>1, <2>2
<1>. QED BY <1>1, <1>2, <1>5, <1>6, <1>7, <1>8

\* Every step of JNI_OnLoad keeps them.
LEMMA NextType == TypeInv /\ [Next]_vars => TypeInv'
<1> SUFFICES ASSUME TypeInv, [Next]_vars PROVE TypeInv' OBVIOUS
<1>0. /\ table \in Seq(Handlers) /\ Len(table) \in Nat
      /\ formats \in Seq(Formats) /\ Len(formats) \in Nat
      /\ rest \in Seq(Nat) /\ Len(rest) \in Nat
      /\ stage \in 1..6 /\ property \in 1..5 /\ i \in 1..(Len(table) + 1)
      /\ initialized \subseteq AllModules /\ registered \subseteq AllClasses
      /\ attempts \in 0..MaxAttempts /\ MaxAttempts \in Nat /\ loaded \in BOOLEAN
      /\ pc \in {"java", "initialize", "formats", "properties", "append", "register"}
  BY ModuleNumbers, PropertyNumbers, AttemptsAssumption
     DEF TypeInv, TypeOK
\* What has to be shown of a step.
<1>1. SUFFICES /\ table' = table /\ attempts' \in 0..MaxAttempts /\ loaded' \in BOOLEAN
               /\ pc' \in {"java", "initialize", "formats", "properties", "append", "register"}
               /\ stage' \in 1..6 /\ property' \in 1..5 /\ i' \in 1..(Len(table) + 1)
               /\ initialized' \subseteq AllModules /\ registered' \subseteq AllClasses
               /\ formats' \in Seq(Formats) /\ rest' \in Seq(Nat)
               /\ pc' = "register" => stage' <= 3
               /\ pc' \in {"properties", "append"} => formats' # << >> /\ i' <= Len(table)
  BY <1>0, <1>1, ModuleNumbers, PropertyNumbers
     DEF TypeInv, TypeOK, Places
<1>2. CASE Load BY <1>0, <1>2 DEF Load
<1>3. CASE StepFails BY <1>0, <1>3 DEF StepFails, AfterFailure
<1>4. CASE InitializeClass BY <1>0, <1>4, ModuleNumbers DEF InitializeClass
<1>5. CASE InitializeSevenZip BY <1>0, <1>5 DEF InitializeSevenZip
<1>6. CASE AddFormat
  <2> DEFINE new == [handler |-> i, has_name |-> FALSE, signature_offset |-> 0,
                     signatures |-> << >>]
  <2>2. i \in Nat /\ << >> \in Seq(Seq(Nat)) BY <1>0
  <2>3. new \in Formats BY <2>2 DEF Formats
  <2>1. /\ i <= Len(table) /\ pc' = "properties" /\ property' = 1
        /\ formats' = Append(formats, new)
        /\ UNCHANGED <<table, attempts, stage, initialized, registered, loaded, i, rest>>
    BY <1>6 DEF AddFormat
  <2> HIDE DEF new
  <2>4. Append(formats, new) \in Seq(Formats) \ {<< >>} BY <1>0, <2>3
  <2>. QED BY <1>0, <2>1, <2>4
<1>7. CASE DropFormat
  <2>1. SubSeq(formats, 1, Len(formats) - 1) \in Seq(Formats) BY <1>0
  <2>. QED BY <1>0, <1>7, <2>1 DEF DropFormat, DeleteBack, NextHandler, TypeInv, Places
<1>8. CASE ReadProperty
  <2>1. PICK g \in Formats : formats' = WithLast(g) BY <1>8, ReadStep
  <2>2. formats # << >> /\ i <= Len(table) BY <1>8 DEF ReadProperty, TypeInv, Places
  <2>3. formats' \in Seq(Formats) /\ formats' # << >>
    BY <1>0, <2>1, <2>2, LastReplaced DEF WithLast
  <2>4. /\ rest' \in Seq(Nat) /\ property' \in 1..5 /\ pc' \in {"properties", "append"}
        /\ UNCHANGED <<table, attempts, stage, initialized, registered, loaded, i>>
    <3>1. table[i] \in Handlers BY <1>0, <2>2
    <3>2. /\ UNCHANGED <<table, attempts, stage, initialized, registered, loaded, i>>
          /\ pc = "properties"
      BY <1>8 DEF ReadProperty
    <3>3. CASE property = 5
      <4>1. /\ rest' = IF table[i].multi_signature.state = "given"
                       THEN table[i].multi_signature.value ELSE << >>
            /\ pc' = "append" /\ property' = property
        BY <1>8, <3>3, <3>1, HandlerReadings, PropertyNumbers DEF ReadProperty
      <4>. QED BY <1>0, <3>1, <3>2, <4>1, HandlerReadings
    <3>4. CASE property # 5
      <4>1. rest' = << >> /\ pc' = pc /\ property' = property + 1
        BY <1>0, <1>8, <3>4, PropertyNumbers DEF ReadProperty, NextProperty
      <4>. QED BY <1>0, <3>2, <3>4, <4>1
    <3>. QED BY <3>3, <3>4
  <2>. QED BY <1>0, <2>2, <2>3, <2>4
<1>9. CASE AppendSignature
  <2>1. formats # << >> /\ i <= Len(table) /\ pc = "append" /\ rest # << >> /\ Head(rest) < Len(rest)
    BY <1>9 DEF AppendSignature, MoreSignatures, TypeInv, Places
  <2>2. /\ Last \in Formats /\ Last.signatures \in Seq(Seq(Nat)) /\ Head(rest) \in Nat
        /\ rest[1] = Head(rest)
    BY <1>0, <2>1, LastKept DEF Last, Formats
  <2>3. SubSeq(rest, 2, Head(rest) + 1) \in Seq(Nat) /\ SubSeq(rest, Head(rest) + 2, Len(rest)) \in Seq(Nat)
    BY <1>0, <2>1, <2>2, SubSeqProperties
  <2> DEFINE g == [Last EXCEPT !.signatures = Append(@, SubSeq(rest, 2, Head(rest) + 1))]
  <2>4. Append(Last.signatures, SubSeq(rest, 2, Head(rest) + 1)) \in Seq(Seq(Nat))
    BY <2>2, <2>3
  <2>5. g \in Formats BY <2>2, <2>4 DEF Formats
  <2>6. /\ formats' = WithLast(g)
        /\ rest' = SubSeq(rest, Head(rest) + 2, Len(rest))
        /\ UNCHANGED <<table, attempts, pc, stage, initialized, registered, loaded, i, property>>
    BY <1>9 DEF AppendSignature, WithLast, Last, Back, Skip
  <2> HIDE DEF g
  <2>7. formats' \in Seq(Formats) /\ formats' # << >>
    BY <1>0, <2>1, <2>5, <2>6, LastReplaced DEF WithLast
  <2>. QED BY <1>0, <2>1, <2>3, <2>6, <2>7
<1>10. CASE AppendEnds BY <1>0, <1>10 DEF AppendEnds, NextHandler, TypeInv, Places
<1>11. CASE FormatsLoaded
  <2>1. "SevenZip" \in AllModules BY ModuleNumbers
  <2>. QED BY <1>0, <1>11, <2>1 DEF FormatsLoaded
<1>12. CASE Register
  <2>1. stage <= 3 /\ Classes[stage] \in AllClasses
    BY <1>0, <1>12, ClassNumbers DEF Register, TypeInv, Places
  <2>2. /\ registered' = registered \cup {Classes[stage]}
        /\ UNCHANGED <<table, attempts, initialized, i, property, formats, rest>>
        /\ pc = "register"
        /\ stage < 3 => stage' = stage + 1 /\ pc' = pc /\ loaded' = loaded
        /\ stage = 3 => pc' = "java" /\ loaded' = TRUE /\ stage' = 1
    BY <1>0, <1>12, ClassNumbers DEF Register
  <2>3. CASE stage < 3 BY <1>0, <2>1, <2>2, <2>3
  <2>4. CASE stage = 3 BY <1>0, <2>1, <2>2, <2>4
  <2>. QED BY <1>0, <2>1, <2>3, <2>4
<1>13. CASE UNCHANGED vars BY <1>0, <1>13 DEF vars, TypeInv, Places
<1>. QED BY <1>2, <1>3, <1>4, <1>5, <1>6, <1>7, <1>8, <1>9, <1>10, <1>11, <1>12, <1>13 DEF Next

\* Every variable keeps its type through loads that fail and are tried again.
THEOREM TypeInvariance == Spec => []TypeInv
BY InitType, NextType, PTL DEF Spec

\* The types alone.
THEOREM TypeCorrect == Spec => []TypeOK
<1>1. TypeInv => TypeOK BY DEF TypeInv
<1>. QED BY <1>1, TypeInvariance, PTL

-----------------------------------------------------------------------------

\* JNI_OnLoad goes through the modules in their order, SevenZip last, and registers
\* natives behind them.
Order ==
  /\ pc \in {"initialize", "formats", "properties", "append"} =>
       \A k \in 1..(stage - 1) : Modules[k] \in initialized
  /\ pc \in {"formats", "properties", "append"} => stage = 6 /\ "SevenZip" \notin initialized
  /\ pc = "register" \/ registered # {} \/ "SevenZip" \in initialized =>
       initialized = AllModules

\* The order holds before the first load and is kept by every step.
LEMMA OrderInductive ==
  /\ Init => Order
  /\ TypeInv /\ Order /\ [Next]_vars => Order'
<1>1. Init => Order BY DEF Init, Order
<1>2. ASSUME TypeInv, Order, [Next]_vars PROVE Order'
  <2>1. /\ stage \in 1..6 /\ initialized \subseteq AllModules /\ Len(Modules) = 6
        /\ pc \in {"java", "initialize", "formats", "properties", "append", "register"}
    BY <1>2, ModuleNumbers DEF TypeInv, TypeOK
  <2>2. CASE Load BY <1>2, <2>1, <2>2 DEF Load, Order
  <2>3. CASE StepFails BY <1>2, <2>1, <2>3 DEF StepFails, AfterFailure, Order
  <2>4. CASE InitializeClass
    <3>1. /\ pc = "initialize" /\ Modules[stage] # "SevenZip" /\ pc' = pc
          /\ initialized' = initialized \cup {Modules[stage]} /\ stage' = stage + 1
          /\ registered' = registered
      BY <2>4 DEF InitializeClass
    <3>2. Modules[stage] \in AllModules BY <2>1, ModuleNumbers
    <3>3. \A k \in 1..(stage' - 1) : Modules[k] \in initialized'
      BY <1>2, <2>1, <3>1 DEF Order
    <3>4. registered # {} \/ "SevenZip" \in initialized' => initialized' = AllModules
      BY <1>2, <3>1, <3>2 DEF Order
    <3>. QED BY <3>1, <3>3, <3>4 DEF Order
  <2>5. CASE InitializeSevenZip
    <3>1. stage = 6 BY <2>1, <2>5, ModuleNumbers DEF InitializeSevenZip
    <3>2. CASE "SevenZip" \in initialized
      BY <1>2, <2>5, <3>2 DEF InitializeSevenZip, Order
    <3>3. CASE "SevenZip" \notin initialized
      BY <1>2, <2>5, <3>1, <3>3 DEF InitializeSevenZip, Order
    <3>. QED BY <3>2, <3>3
  <2>6. CASE AddFormat BY <1>2, <2>6 DEF AddFormat, Order
  <2>7. CASE DropFormat BY <1>2, <2>7 DEF DropFormat, Order
  <2>8. CASE ReadProperty
    <3>1. /\ pc = "properties" /\ pc' \in {"properties", "append"}
          /\ stage' = stage /\ initialized' = initialized /\ registered' = registered
      BY <2>8 DEF ReadProperty
    <3>. QED BY <1>2, <3>1 DEF Order
  <2>9. CASE AppendSignature BY <1>2, <2>9 DEF AppendSignature, Order
  <2>10. CASE AppendEnds BY <1>2, <2>10 DEF AppendEnds, Order
  <2>11. CASE FormatsLoaded
    <3>1. /\ pc = "formats" /\ pc' = "register" /\ initialized' = initialized \cup {"SevenZip"}
      BY <2>11 DEF FormatsLoaded
    <3>2. \A k \in 1..5 : Modules[k] \in initialized BY <1>2, <3>1 DEF Order
    <3>3. \A k \in 1..6 : Modules[k] \in initialized'
      <4>1. \A k \in 1..6 : k \in 1..5 \/ k = 6 OBVIOUS
      <4>. QED BY <3>1, <3>2, <4>1, ModuleNumbers
    <3>4. initialized' = AllModules BY <2>1, <3>1, <3>3, ModuleNumbers
    <3>. QED BY <3>1, <3>4 DEF Order
  <2>12. CASE Register
    <3>1. pc = "register" /\ initialized' = initialized /\ pc' \in {"register", "java"}
      BY <2>12 DEF Register
    <3>. QED BY <1>2, <3>1 DEF Order
  <2>13. CASE UNCHANGED vars BY <1>2, <2>13 DEF vars, Order
  <2>. QED BY <1>2, <2>2, <2>3, <2>4, <2>5, <2>6, <2>7, <2>8, <2>9, <2>10, <2>11, <2>12, <2>13
       DEF Next
<1>. QED BY <1>1, <1>2

\* Natives of InArchive exist over an initialised library only.
THEOREM NativesAreUsableHolds == Spec => []NativesAreUsable
<1>1. Order => NativesAreUsable BY DEF Order, NativesAreUsable
<1>. QED BY <1>1, TypeInvariance, OrderInductive, PTL DEF Spec

-----------------------------------------------------------------------------

\* The signatures s were unpacked from the multi-signature of h, of which r is left.
Progress(h, s, r) ==
  \E many \in Seq(Seq(Nat)), e \in 0..Len(Multi(h)) :
    /\ s = Single(h) \o many
    /\ Unpacked(Multi(h), many, e)
    /\ r = SubSeq(Multi(h), e + 1, Len(Multi(h)))

\* The signatures of a handler are sequences of numbers.
LEMMA SignatureTypes ==
  ASSUME NEW h \in Handlers
  PROVE  Single(h) \in Seq(Seq(Nat)) /\ Multi(h) \in Seq(Nat)
BY HandlerReadings DEF Single, Multi

\* A part of the tail of a buffer is a part of the buffer.
LEMMA PartOfTail ==
  ASSUME NEW b \in Seq(Nat), NEW e \in 0..Len(b),
         NEW x \in 1..(Len(b) - e + 1), NEW y \in 0..(Len(b) - e)
  PROVE  SubSeq(SubSeq(b, e + 1, Len(b)), x, y) = SubSeq(b, e + x, e + y)
<1> DEFINE r == SubSeq(b, e + 1, Len(b))
           left == SubSeq(r, x, y)
           right == SubSeq(b, e + x, e + y)
<1>1. /\ r \in Seq(Nat) /\ Len(r) = Len(b) - e
      /\ \A k \in 1..(Len(b) - e) : r[k] = b[e + k]
  BY SubSeqProperties
<1> HIDE DEF r
<1>2. /\ left \in Seq(Nat) /\ Len(left) = IF x <= y THEN y - x + 1 ELSE 0
      /\ \A k \in 1..(y - x + 1) : left[k] = r[x + k - 1]
  <2>1. \A k \in x..y : r[k] \in Nat BY <1>1
  <2>. QED BY <2>1, SubSeqProperties
<1>3. /\ right \in Seq(Nat) /\ Len(right) = IF x <= y THEN y - x + 1 ELSE 0
      /\ \A k \in 1..(y - x + 1) : right[k] = b[e + x + k - 1]
  <2>1. \A k \in (e + x)..(e + y) : b[k] \in Nat OBVIOUS
  <2>. QED BY <2>1, SubSeqProperties
<1>4. ASSUME NEW k \in 1..Len(left) PROVE left[k] = right[k]
  <2>1. k \in 1..(y - x + 1) /\ x + k - 1 \in 1..(Len(b) - e) BY <1>2
  <2>2. left[k] = r[x + k - 1] BY <1>2, <2>1
  <2>3. r[x + k - 1] = b[e + (x + k - 1)] BY <1>1, <2>1
  <2>4. right[k] = b[e + x + k - 1] BY <1>3, <2>1
  <2>5. e + (x + k - 1) = e + x + k - 1 OBVIOUS
  <2>. QED BY <2>2, <2>3, <2>4, <2>5
<1> HIDE DEF left, right
<1>5. left = right BY <1>2, <1>3, <1>4, SeqEqual
<1>. QED BY <1>5 DEF left, right, r

\* The first round starts with the whole buffer ...
LEMMA ProgressStarts ==
  ASSUME NEW h \in Handlers
  PROVE  Progress(h, Single(h), Multi(h))
<1>1. Single(h) \in Seq(Seq(Nat)) /\ Multi(h) \in Seq(Nat) BY SignatureTypes
<1>2. Single(h) = Single(h) \o << >> BY <1>1
<1>3. Unpacked(Multi(h), << >>, 0)
  <2> DEFINE at == [k \in 0..0 |-> 0]
  <2>1. at \in [0..Len(<< >>) -> 0..0] /\ at[0] = 0 /\ at[Len(<< >>)] = 0 OBVIOUS
  <2>2. 1..Len(<< >>) = {} OBVIOUS
  <2> HIDE DEF at
  <2>. QED BY <2>1, <2>2 DEF Unpacked
<1>4. Multi(h) = SubSeq(Multi(h), 0 + 1, Len(Multi(h))) BY <1>1
<1>5. << >> \in Seq(Seq(Nat)) /\ 0 \in 0..Len(Multi(h)) BY <1>1
<1>. QED BY <1>2, <1>3, <1>4, <1>5 DEF Progress

\* The bytes of a signature that lies in the buffer.
LEMMA TakenPart ==
  ASSUME NEW b \in Seq(Nat), NEW e \in Nat, NEW len \in Nat, e + 1 + len <= Len(b)
  PROVE  /\ SubSeq(b, e + 2, e + 1 + len) \in Seq(Nat)
         /\ Len(SubSeq(b, e + 2, e + 1 + len)) = len
<1>1. \A k \in (e + 2)..(e + 1 + len) : b[k] \in Nat OBVIOUS
<1>2. /\ SubSeq(b, e + 2, e + 1 + len) \in Seq(Nat)
      /\ Len(SubSeq(b, e + 2, e + 1 + len)) =
           IF e + 2 <= e + 1 + len THEN e + 1 + len - (e + 2) + 1 ELSE 0
  BY <1>1, SubSeqProperties
<1>. QED BY <1>2

\* To append to the second of two lists is to append to both.
LEMMA AppendBehind ==
  ASSUME NEW one \in Seq(Seq(Nat)), NEW many \in Seq(Seq(Nat)), NEW sig \in Seq(Nat)
  PROVE  /\ Append(many, sig) \in Seq(Seq(Nat))
         /\ Append(one \o many, sig) = one \o Append(many, sig)
<1>1. Append(many, sig) = many \o <<sig>> /\ <<sig>> \in Seq(Seq(Nat)) BY AppendIsConcat
<1>2. one \o many \in Seq(Seq(Nat)) BY ConcatProperties
<1>3. Append(one \o many, sig) = (one \o many) \o <<sig>> BY <1>2, AppendIsConcat
<1>4. (one \o many) \o <<sig>> = one \o (many \o <<sig>>) BY <1>1, ConcatAssociative
<1>. QED BY <1>1, <1>3, <1>4, AppendProperties

\* One more signature, of the length len that the next byte tells.
LEMMA UnpackOne ==
  ASSUME NEW b \in Seq(Nat), NEW many \in Seq(Seq(Nat)), NEW e \in Nat, NEW len \in Nat,
         NEW sig \in Seq(Nat)
  PROVE  /\ Unpacked(b, many, e)
         /\ b[e + 1] = len /\ Len(sig) = len /\ sig = SubSeq(b, e + 2, e + 1 + len)
         => Unpacked(b, Append(many, sig), e + 1 + len)
<1>0. SUFFICES ASSUME /\ Unpacked(b, many, e)
                      /\ b[e + 1] = len /\ Len(sig) = len /\ sig = SubSeq(b, e + 2, e + 1 + len)
               PROVE  Unpacked(b, Append(many, sig), e + 1 + len)
  OBVIOUS
<1> DEFINE n == Len(many)
           end == e + 1 + len
           more == Append(many, sig)
<1>1. n \in Nat /\ end \in Nat /\ e < end OBVIOUS
<1>2. /\ Len(more) = n + 1 /\ more[n + 1] = sig /\ \A k \in 1..n : more[k] = many[k]
  BY AppendProperties
<1>3. PICK at \in [0..n -> 0..e] :
        /\ at[0] = 0 /\ at[n] = e
        /\ \A k \in 1..n : /\ at[k] = at[k - 1] + 1 + Len(many[k])
                           /\ b[at[k - 1] + 1] = Len(many[k])
                           /\ many[k] = SubSeq(b, at[k - 1] + 2, at[k])
  BY <1>0 DEF Unpacked
<1> HIDE DEF more, n, end
<1> DEFINE at2 == [k \in 0..(n + 1) |-> IF k <= n THEN at[k] ELSE end]
<1>4. /\ at2 \in [0..(n + 1) -> 0..end] /\ at2[n + 1] = end /\ \A k \in 0..n : at2[k] = at[k]
  <2>1. \A k \in 0..(n + 1) : k \in 0..n \/ k = n + 1 BY <1>1
  <2>2. \A k \in 0..n : at[k] \in 0..end BY <1>1
  <2>3. end \in 0..end BY <1>1
  <2>. QED BY <1>1, <2>1, <2>2, <2>3
<1> HIDE DEF at2
<1>5. at2[0] = 0
  <2>1. 0 \in 0..n BY <1>1
  <2>. QED BY <1>3, <1>4, <2>1
<1>6. ASSUME NEW k \in 1..(n + 1)
      PROVE  /\ at2[k] = at2[k - 1] + 1 + Len(more[k])
             /\ b[at2[k - 1] + 1] = Len(more[k])
             /\ more[k] = SubSeq(b, at2[k - 1] + 2, at2[k])
  <2>1. CASE k <= n
    <3>1. k \in 1..n /\ k \in 0..n /\ k - 1 \in 0..n BY <1>1, <2>1
    <3>2. at2[k] = at[k] /\ at2[k - 1] = at[k - 1] /\ more[k] = many[k]
      BY <1>2, <1>4, <3>1
    <3>. QED BY <1>3, <3>1, <3>2
  <2>2. CASE k = n + 1
    <3>1. at2[k - 1] = e
      <4>1. k - 1 = n /\ n \in 0..n BY <1>1, <2>2
      <4>. QED BY <1>3, <1>4, <4>1
    <3>2. at2[k] = end /\ more[k] = sig BY <1>2, <1>4, <2>2
    <3>. QED BY <1>0, <3>1, <3>2 DEF end
  <2>. QED BY <1>1, <2>1, <2>2
<1>7. at2 \in [0..Len(more) -> 0..end] /\ at2[Len(more)] = end BY <1>2, <1>4
<1>8. Unpacked(b, more, end) BY <1>2, <1>5, <1>6, <1>7 DEF Unpacked
<1>. QED BY <1>8 DEF more, end

\* ... each round takes one signature from it ...
LEMMA ProgressGoesOn ==
  ASSUME NEW h \in Handlers, NEW s, NEW r \in Seq(Nat), Progress(h, s, r),
         r # << >>, Head(r) < Len(r)
  PROVE  Progress(h, Append(s, SubSeq(r, 2, Head(r) + 1)), SubSeq(r, Head(r) + 2, Len(r)))
<1>1. Single(h) \in Seq(Seq(Nat)) /\ Multi(h) \in Seq(Nat) BY SignatureTypes
<1>2. PICK b \in Seq(Nat) : b = Multi(h) BY <1>1
<1>3. PICK many \in Seq(Seq(Nat)), e \in 0..Len(b) :
         s = Single(h) \o many /\ Unpacked(b, many, e) /\ r = SubSeq(b, e + 1, Len(b))
  BY <1>2 DEF Progress
<1>4. PICK sig : sig = SubSeq(r, 2, Head(r) + 1) OBVIOUS
<1>5. PICK len : len = Head(r) OBVIOUS
<1>6. /\ Len(r) = Len(b) - e /\ e \in Nat /\ Len(b) \in Nat
      /\ \A k \in 1..(Len(b) - e) : r[k] = b[e + k]
  BY <1>3, SubSeqProperties
<1>7. /\ e \in 0..(Len(b) - 1) /\ len \in Nat /\ b[e + 1] = len /\ len < Len(b) - e
  <2>1. Len(r) > 0 /\ Head(r) = r[1] /\ r[1] \in Nat OBVIOUS
  <2>2. 1 \in 1..(Len(b) - e) BY <1>6, <2>1
  <2>. QED BY <1>3, <1>5, <1>6, <2>1, <2>2
<1>8. sig = SubSeq(b, e + 2, e + 1 + len)
  <2>1. 2 \in 1..(Len(b) - e + 1) /\ len + 1 \in 0..(Len(b) - e) BY <1>6, <1>7
  <2>2. SubSeq(r, 2, len + 1) = SubSeq(b, e + 2, e + (len + 1))
    BY <1>3, <2>1, PartOfTail
  <2>3. e + (len + 1) = e + 1 + len BY <1>6, <1>7
  <2>. QED BY <1>4, <1>5, <2>2, <2>3
<1>9. SubSeq(r, Head(r) + 2, Len(r)) = SubSeq(b, (e + 1 + len) + 1, Len(b))
  <2>1. len + 2 \in 1..(Len(b) - e + 1) /\ Len(b) - e \in 0..(Len(b) - e) BY <1>6, <1>7
  <2>2. SubSeq(r, len + 2, Len(b) - e) = SubSeq(b, e + (len + 2), e + (Len(b) - e))
    BY <1>3, <2>1, PartOfTail
  <2>3. e + (len + 2) = (e + 1 + len) + 1 /\ e + (Len(b) - e) = Len(b) BY <1>6, <1>7
  <2>. QED BY <1>5, <1>6, <2>2, <2>3
<1>10. sig \in Seq(Nat) /\ Len(sig) = len
  <2>1. e + 1 + len <= Len(b) BY <1>6, <1>7
  <2>. QED BY <1>6, <1>7, <1>8, <2>1, TakenPart
<1>11. Unpacked(b, Append(many, sig), e + 1 + len)
  BY <1>3, <1>6, <1>7, <1>8, <1>10, UnpackOne
<1>12. Append(many, sig) \in Seq(Seq(Nat)) /\ Append(s, sig) = Single(h) \o Append(many, sig)
  <2>1. s = Single(h) \o many BY <1>3
  <2>. QED BY <1>1, <1>10, <2>1, AppendBehind
<1>13. e + 1 + len \in 0..Len(b) BY <1>6, <1>7
<1>. QED BY <1>2, <1>4, <1>9, <1>11, <1>12, <1>13 DEF Progress

\* ... and the last one leaves at most an incomplete one.
LEMMA ProgressEnds ==
  ASSUME NEW h \in Handlers, NEW s, NEW r \in Seq(Nat), Progress(h, s, r),
         ~(r # << >> /\ Head(r) < Len(r))
  PROVE  SignaturesOf(h, s)
<1>1. Single(h) \in Seq(Seq(Nat)) /\ Multi(h) \in Seq(Nat) BY SignatureTypes
<1>2. PICK b \in Seq(Nat) : b = Multi(h) BY <1>1
<1>3. PICK many \in Seq(Seq(Nat)), e \in 0..Len(b) :
         s = Single(h) \o many /\ Unpacked(b, many, e) /\ r = SubSeq(b, e + 1, Len(b))
  BY <1>2 DEF Progress
<1>4. /\ Len(r) = Len(b) - e /\ e \in Nat /\ Len(b) \in Nat
      /\ \A k \in 1..(Len(b) - e) : r[k] = b[e + k]
  BY <1>3, SubSeqProperties
<1>5. e < Len(b) => b[e + 1] >= Len(b) - e
  <2>1. ASSUME e < Len(b) PROVE b[e + 1] >= Len(b) - e
    <3>1. 1 \in 1..(Len(b) - e) /\ Len(r) > 0 BY <1>4, <2>1
    <3>2. r # << >> /\ Head(r) = r[1] /\ r[1] \in Nat BY <3>1
    <3>. QED BY <1>4, <3>1, <3>2
  <2>. QED BY <2>1
<1>6. SubSeq(s, 1, Len(Single(h))) = Single(h) BY <1>1, <1>3
<1>7. SubSeq(s, Len(Single(h)) + 1, Len(s)) = many BY <1>1, <1>3
<1>. QED BY <1>2, <1>3, <1>5, <1>6, <1>7 DEF SignaturesOf

-----------------------------------------------------------------------------

\* Nothing is the exact table of no handlers.
LEMMA ExactStarts == ASSUME NEW hs PROVE Exact(<< >>, hs, 0)
<1>1. 1..Len(<< >>) = {} /\ 1..(Len(<< >>) - 1) = {} /\ 1..0 = {} OBVIOUS
<1>. QED BY <1>1 DEF Exact

\* A handler that was dropped leaves the table exact.
LEMMA ExactStays ==
  ASSUME NEW hs, NEW fs, NEW n \in Nat, Exact(fs, hs, n), ~Usable(hs[n + 1])
  PROVE  Exact(fs, hs, n + 1)
<1>1. {m \in 1..(n + 1) : Usable(hs[m])} = {m \in 1..n : Usable(hs[m])}
  <2>1. \A m \in 1..(n + 1) : m \in 1..n \/ m = n + 1 OBVIOUS
  <2>. QED BY <2>1
<1>. QED BY <1>1 DEF Exact

\* A format that describes the next handler, which is usable, makes the table exact again.
LEMMA ExactGrows ==
  ASSUME NEW hs, NEW fs \in Seq(Formats), NEW n \in Nat, NEW f \in Formats,
         Exact(fs, hs, n), f.handler = n + 1, Usable(hs[n + 1]), Describes(f, hs[n + 1])
  PROVE  Exact(Append(fs, f), hs, n + 1)
<1> DEFINE gs == Append(fs, f)
           l  == Len(fs)
<1>1. /\ l \in Nat /\ Len(gs) = l + 1 /\ gs[l + 1] = f
      /\ \A k \in 1..l : gs[k] = fs[k]
  BY AppendProperties
<1> HIDE DEF gs
<1>2. \A k \in 1..(l + 1) : k \in 1..l \/ k = l + 1 BY <1>1
<1>3. /\ {fs[k].handler : k \in 1..l} = {m \in 1..n : Usable(hs[m])}
      /\ \A k \in 1..(l - 1) : fs[k].handler < fs[k + 1].handler
      /\ \A k \in 1..l : Describes(fs[k], hs[fs[k].handler])
  BY DEF Exact
<1> HIDE DEF l
<1>4. {gs[k].handler : k \in 1..(l + 1)} = {fs[k].handler : k \in 1..l} \cup {n + 1}
  <2>1. l + 1 \in 1..(l + 1) /\ \A k \in 1..l : k \in 1..(l + 1) BY <1>1
  <2>. QED BY <1>1, <1>2, <2>1
<1>5. {m \in 1..(n + 1) : Usable(hs[m])} = {m \in 1..n : Usable(hs[m])} \cup {n + 1}
  <2>1. \A m : m \in 1..(n + 1) <=> m \in 1..n \/ m = n + 1 OBVIOUS
  <2>. QED BY <2>1
<1>6. ASSUME NEW k \in 1..l PROVE gs[k].handler < gs[k + 1].handler
  <2>1. CASE k < l
    <3>1. k \in 1..(l - 1) /\ k + 1 \in 1..l BY <1>1, <2>1
    <3>. QED BY <1>1, <1>3, <3>1
  <2>2. CASE k = l
    <3>1. fs[l].handler \in {m \in 1..n : Usable(hs[m])} BY <1>3, <2>2
    <3>2. fs[l].handler < n + 1 BY <3>1
    <3>. QED BY <1>1, <2>2, <3>2
  <2>. QED BY <1>1, <2>1, <2>2
<1>7. \A k \in 1..(l + 1) : Describes(gs[k], hs[gs[k].handler])
  BY <1>1, <1>2, <1>3
<1>8. Len(gs) - 1 = l BY <1>1
<1>9. Exact(gs, hs, n + 1)
  <2>1. {gs[k].handler : k \in 1..Len(gs)} = {m \in 1..(n + 1) : Usable(hs[m])}
    BY <1>1, <1>3, <1>4, <1>5, Zenon
  <2>2. \A k \in 1..(Len(gs) - 1) : gs[k].handler < gs[k + 1].handler
    BY <1>6, <1>8, Zenon
  <2>3. \A k \in 1..Len(gs) : Describes(gs[k], hs[gs[k].handler]) BY <1>1, <1>7, Zenon
  <2>. QED BY <2>1, <2>2, <2>3, Zenon DEF Exact
<1>. QED BY <1>9 DEF gs

\* A table is its last format behind the others.
LEMMA LastBehindOthers ==
  ASSUME NEW fs \in Seq(Formats), fs # << >>
  PROVE  /\ SubSeq(fs, 1, Len(fs) - 1) \in Seq(Formats) /\ fs[Len(fs)] \in Formats
         /\ fs = Append(SubSeq(fs, 1, Len(fs) - 1), fs[Len(fs)])
OBVIOUS

\* The format that AddNew appends is the last, behind those there were.
LEMMA NewIsLast ==
  ASSUME NEW fs \in Seq(Formats), NEW f \in Formats
  PROVE  LET gs == Append(fs, f) IN gs[Len(gs)] = f /\ SubSeq(gs, 1, Len(gs) - 1) = fs
OBVIOUS

\* To replace the last format leaves the others.
LEMMA OthersKept ==
  ASSUME NEW fs \in Seq(Formats), fs # << >>, NEW f \in Formats
  PROVE  LET gs == [fs EXCEPT ![Len(fs)] = f] IN
         gs[Len(gs)] = f /\ SubSeq(gs, 1, Len(gs) - 1) = SubSeq(fs, 1, Len(fs) - 1)
OBVIOUS

\* Format f has what was read of handler h before its p-th property.
ReadSoFar(f, h, p) ==
  /\ p > 1 => h.class_id.state = "given"
  /\ p > 2 => h.name.state # "fails"
  /\ p > 3 => h.signature_offset.state # "fails"
  /\ p > 4 => h.signature.state # "fails"
  /\ f.has_name <=> p > 2 /\ h.name.state = "given"
  /\ f.signature_offset = IF p > 3 /\ h.signature_offset.state = "given"
                          THEN h.signature_offset.value ELSE 0
  /\ f.signatures = IF p > 4 THEN Single(h) ELSE << >>

\* All of handler h is in format f, but for the signatures packed in r.
AllRead(f, h, r) ==
  /\ Usable(h)
  /\ f.has_name <=> h.name.state = "given"
  /\ f.signature_offset = IF h.signature_offset.state = "given"
                          THEN h.signature_offset.value ELSE 0
  /\ Progress(h, f.signatures, r)

\* A new format holds nothing.
LEMMA NewHoldsNothing ==
  ASSUME NEW f, NEW h, f.has_name = FALSE, f.signature_offset = 0, f.signatures = << >>
  PROVE  ReadSoFar(f, h, 1)
BY DEF ReadSoFar

\* One property more is read.
LEMMA OneMoreRead ==
  ASSUME NEW f \in Formats, NEW g \in Formats, NEW h \in Handlers, NEW p \in 1..4,
         ReadSoFar(f, h, p), ReadInto(g, f, h, p),
         p = 1 => h.class_id.state = "given",
         p = 2 => h.name.state # "fails",
         p = 3 => h.signature_offset.state # "fails",
         p = 4 => h.signature.state # "fails"
  PROVE  ReadSoFar(g, h, p + 1)
<1>1. /\ f.has_name \in BOOLEAN /\ g.has_name \in BOOLEAN
      /\ f.signatures \in Seq(Seq(Nat)) /\ g.signatures \in Seq(Seq(Nat))
  BY DEF Formats
<1>2. p = 1 \/ p = 2 \/ p = 3 \/ p = 4 OBVIOUS
<1>3. Append(<< >>, h.signature.value) = <<h.signature.value>> OBVIOUS
<1>4. CASE p = 1 BY <1>1, <1>4 DEF ReadSoFar, ReadInto
<1>5. CASE p = 2
  <2>1. f.has_name = FALSE BY <1>1, <1>5 DEF ReadSoFar
  <2>2. g.has_name = (f.has_name \/ (p = 2 /\ h.name.state = "given")) BY DEF ReadInto
  <2>3. g.has_name <=> h.name.state = "given" BY <1>5, <2>1, <2>2, Zenon
  <2>4. g.signature_offset = 0 /\ g.signatures = << >> BY <1>5 DEF ReadSoFar, ReadInto
  <2>5. h.class_id.state = "given" /\ h.name.state # "fails" BY <1>5 DEF ReadSoFar
  <2>. QED BY <1>5, <2>3, <2>4, <2>5 DEF ReadSoFar
<1>6. CASE p = 3 BY <1>1, <1>6 DEF ReadSoFar, ReadInto
<1>7. CASE p = 4
  <2>1. f.signatures = << >> BY <1>7 DEF ReadSoFar
  <2>2. g.signatures = IF h.signature.state = "given"
                       THEN Append(f.signatures, h.signature.value) ELSE f.signatures
    BY <1>7 DEF ReadInto
  <2>3. g.signatures = Single(h) BY <1>3, <2>1, <2>2, Zenon DEF Single
  <2>4. /\ h.class_id.state = "given" /\ h.name.state # "fails"
        /\ h.signature_offset.state # "fails" /\ h.signature.state # "fails"
        /\ g.has_name <=> h.name.state = "given"
        /\ g.signature_offset = IF h.signature_offset.state = "given"
                                THEN h.signature_offset.value ELSE 0
    BY <1>1, <1>7 DEF ReadSoFar, ReadInto
  <2>. QED BY <1>7, <2>3, <2>4 DEF ReadSoFar
<1>. QED BY <1>2, <1>4, <1>5, <1>6, <1>7

\* The last property is read: its signatures are still packed.
LEMMA LastRead ==
  ASSUME NEW f \in Formats, NEW g \in Formats, NEW h \in Handlers,
         ReadSoFar(f, h, 5), ReadInto(g, f, h, 5), h.multi_signature.state # "fails"
  PROVE  AllRead(g, h, Multi(h))
<1>1. /\ f.has_name \in BOOLEAN /\ g.has_name \in BOOLEAN
      /\ f.signatures \in Seq(Seq(Nat)) /\ g.signatures \in Seq(Seq(Nat))
  BY DEF Formats
<1>2. Usable(h) BY HandlerReadings DEF ReadSoFar, Usable
<1>3. g.has_name <=> h.name.state = "given" BY <1>1 DEF ReadSoFar, ReadInto
<1>4. g.signature_offset = IF h.signature_offset.state = "given"
                           THEN h.signature_offset.value ELSE 0
  BY DEF ReadSoFar, ReadInto
<1>5. g.signatures = Single(h) BY DEF ReadSoFar, ReadInto
<1>6. Progress(h, g.signatures, Multi(h)) BY <1>5, ProgressStarts
<1>. QED BY <1>2, <1>3, <1>4, <1>6 DEF AllRead

\* At its end a format describes its handler.
LEMMA AllUnpacked ==
  ASSUME NEW f, NEW h \in Handlers, NEW r \in Seq(Nat), AllRead(f, h, r),
         ~(r # << >> /\ Head(r) < Len(r))
  PROVE  Usable(h) /\ Describes(f, h)
<1>1. SignaturesOf(h, f.signatures) BY ProgressEnds DEF AllRead
<1>. QED BY <1>1 DEF AllRead, Describes

-----------------------------------------------------------------------------

\* The table is exact up to the handler being read, whose format is the last and has
\* what was read of it; as long as no load got that far it is empty.
TableInv ==
  /\ "SevenZip" \in initialized => Exact(formats, table, Len(table))
  /\ pc \in {"java", "initialize"} /\ "SevenZip" \notin initialized => formats = << >>
  /\ pc = "formats" => Exact(formats, table, i - 1)
  /\ pc \in {"properties", "append"} =>
       Exact(SubSeq(formats, 1, Len(formats) - 1), table, i - 1) /\ Last.handler = i
  /\ pc = "properties" => ReadSoFar(Last, table[i], property)
  /\ pc = "append" => AllRead(Last, table[i], rest)

\* It holds before the first load and is kept by every step.
LEMMA TableInductive ==
  /\ Init => TableInv
  /\ TypeInv /\ Order /\ TableInv /\ [Next]_vars => TableInv'
<1>1. Init => TableInv BY DEF Init, TableInv
<1>2. ASSUME TypeInv, Order, TableInv, [Next]_vars PROVE TableInv'
  <2>1. /\ table \in Seq(Handlers) /\ Len(table) \in Nat /\ table' = table
        /\ formats \in Seq(Formats) /\ rest \in Seq(Nat)
        /\ stage \in 1..6 /\ property \in 1..5 /\ i \in 1..(Len(table) + 1)
        /\ pc \in {"java", "initialize", "formats", "properties", "append", "register"}
    BY <1>2, ModuleNumbers, PropertyNumbers
       DEF TypeInv, TypeOK, Next, vars, Load, StepFails, InitializeClass, InitializeSevenZip,
           AddFormat, DropFormat, ReadProperty, AppendSignature, AppendEnds, FormatsLoaded, Register
  \* The steps that leave the table alone.
  <2>2. ASSUME formats' = formats, initialized' = initialized, pc' \in {"java", "initialize", "register"},
               pc \in {"java", "initialize", "register"}
        PROVE  TableInv'
    <3>1. pc = "register" => "SevenZip" \in initialized BY <1>2, ModuleNumbers DEF Order
    <3>. QED BY <1>2, <2>1, <2>2, <3>1 DEF TableInv
  <2>3. CASE Load BY <2>2, <2>3 DEF Load
  <2>4. CASE StepFails BY <2>2, <2>4 DEF StepFails, AfterFailure
  <2>5. CASE InitializeClass
    <3>1. /\ pc = "initialize" /\ pc' = pc /\ formats' = formats
          /\ "SevenZip" \in initialized' <=> "SevenZip" \in initialized
      BY <2>5 DEF InitializeClass
    <3>. QED BY <1>2, <2>1, <3>1 DEF TableInv
  <2>6. CASE InitializeSevenZip
    <3>1. CASE "SevenZip" \in initialized BY <2>2, <2>6, <3>1 DEF InitializeSevenZip
    <3>2. CASE "SevenZip" \notin initialized
      <4>1. /\ pc' = "formats" /\ i' = 1 /\ formats' = << >> /\ initialized' = initialized
        BY <1>2, <2>6, <3>2 DEF InitializeSevenZip, TableInv
      <4>2. Exact(<< >>, table, 0) BY ExactStarts
      <4>. QED BY <2>1, <3>2, <4>1, <4>2 DEF TableInv
    <3>. QED BY <3>1, <3>2
  <2>7. CASE AddFormat
    <3> DEFINE new == [handler |-> i, has_name |-> FALSE, signature_offset |-> 0,
                       signatures |-> << >>]
    <3>1. /\ pc = "formats" /\ i <= Len(table) /\ pc' = "properties" /\ property' = 1 /\ i' = i
          /\ formats' = Append(formats, new) /\ initialized' = initialized
      BY <2>7 DEF AddFormat
    <3>2. i \in Nat /\ << >> \in Seq(Seq(Nat)) BY <2>1
    <3>3. new \in Formats BY <3>2 DEF Formats
    <3>4. new.handler = i /\ ReadSoFar(new, table[i], 1) BY NewHoldsNothing
    <3> HIDE DEF new
    <3>5. Last' = new /\ SubSeq(formats', 1, Len(formats') - 1) = formats
      BY <2>1, <3>1, <3>3, NewIsLast DEF Last
    <3>6. "SevenZip" \notin initialized' BY <1>2, <3>1 DEF Order
    <3>. QED BY <1>2, <2>1, <3>1, <3>4, <3>5, <3>6 DEF TableInv
  <2>8. CASE DropFormat
    <3>1. /\ pc = "properties" /\ pc' = "formats" /\ i' = i + 1 /\ initialized' = initialized
          /\ formats' = SubSeq(formats, 1, Len(formats) - 1)
          /\ i <= Len(table) /\ table[i] \in Handlers
      BY <1>2, <2>1, <2>8 DEF DropFormat, DeleteBack, NextHandler, TypeInv, Places
    <3>2. ~Usable(table[i])
      <4>1. property = 1 => table[i].class_id.state # "given"
        BY <2>8, <3>1, PropertyNumbers, HandlerReadings DEF DropFormat
      <4>2. property = 2 => table[i].name.state = "fails"
        BY <2>8, <3>1, PropertyNumbers, HandlerReadings DEF DropFormat
      <4>3. property = 3 => table[i].signature_offset.state = "fails"
        BY <2>8, <3>1, PropertyNumbers, HandlerReadings DEF DropFormat
      <4>4. property = 4 => table[i].signature.state = "fails"
        BY <2>8, <3>1, PropertyNumbers, HandlerReadings DEF DropFormat
      <4>5. property = 5 => table[i].multi_signature.state = "fails"
        BY <2>8, <3>1, PropertyNumbers, HandlerReadings DEF DropFormat
      <4>6. table[i]["name"] = table[i].name OBVIOUS
      <4>. QED BY <2>1, <3>1, <4>1, <4>2, <4>3, <4>4, <4>5, HandlerReadings DEF Usable
    <3>3. Exact(formats', table, i - 1) /\ "SevenZip" \notin initialized'
      BY <1>2, <3>1 DEF TableInv, Order
    <3>4. i - 1 \in Nat /\ (i - 1) + 1 = i /\ i' - 1 = i BY <2>1, <3>1
    <3>5. Exact(formats', table, i) BY <3>2, <3>3, <3>4, ExactStays
    <3>. QED BY <2>1, <3>1, <3>3, <3>4, <3>5 DEF TableInv
  <2>9. CASE ReadProperty
    <3>1. PICK g \in Formats : formats' = WithLast(g) /\ ReadInto(g, Last, table[i], property)
      BY <1>2, <2>9, ReadStep
    <3>2. Last \in Formats /\ table[i] \in Handlers BY <1>2, <2>9, ReadStep
    <3>3. /\ pc = "properties" /\ i' = i /\ initialized' = initialized /\ formats # << >>
      BY <1>2, <2>9 DEF ReadProperty, TypeInv, Places
    <3>4. /\ Last' = g
          /\ SubSeq(formats', 1, Len(formats') - 1) = SubSeq(formats, 1, Len(formats) - 1)
      <4>1. Len(formats') = Len(formats) BY <2>1, <3>1 DEF WithLast
      <4>. QED BY <2>1, <3>1, <3>3, <4>1, OthersKept DEF Last, WithLast
    <3>5. /\ Exact(SubSeq(formats', 1, Len(formats') - 1), table, i - 1) /\ g.handler = i
          /\ "SevenZip" \notin initialized'
      BY <1>2, <3>1, <3>3, <3>4 DEF TableInv, Order, ReadInto
    <3>6. ReadSoFar(Last, table[i], property) BY <1>2, <3>3 DEF TableInv
    <3>7. CASE property = 5
      <4>1. /\ pc' = "append"
            /\ rest' = Multi(table[i]) /\ table[i].multi_signature.state # "fails"
        BY <2>9, <3>2, <3>7, PropertyNumbers, HandlerReadings DEF ReadProperty, Multi
      <4>2. AllRead(g, table[i], Multi(table[i])) BY <3>1, <3>2, <3>6, <3>7, <4>1, LastRead
      <4>. QED BY <2>1, <3>3, <3>4, <3>5, <4>1, <4>2 DEF TableInv
    <3>8. CASE property # 5
      <4>1. /\ pc' = "properties" /\ property' = property + 1 /\ property \in 1..4
        BY <2>1, <2>9, <3>8, PropertyNumbers DEF ReadProperty, NextProperty
      <4>2. property = 1 => table[i].class_id.state = "given"
        BY <2>9, <3>2, PropertyNumbers, HandlerReadings DEF ReadProperty
      <4>3. property = 2 => table[i].name.state # "fails"
        BY <2>9, <3>2, PropertyNumbers, HandlerReadings DEF ReadProperty
      <4>4. property = 3 => table[i].signature_offset.state # "fails"
        BY <2>9, <3>2, PropertyNumbers, HandlerReadings DEF ReadProperty
      <4>5. property = 4 => table[i].signature.state # "fails"
        BY <2>9, <3>2, PropertyNumbers, HandlerReadings DEF ReadProperty
      <4>6. ReadSoFar(g, table[i], property + 1)
        BY <3>1, <3>2, <3>6, <4>1, <4>2, <4>3, <4>4, <4>5, OneMoreRead
      <4>. QED BY <2>1, <3>3, <3>4, <3>5, <4>1, <4>6 DEF TableInv
    <3>. QED BY <3>7, <3>8
  <2>10. CASE AppendSignature
    <3>1. /\ pc = "append" /\ pc' = pc /\ i' = i /\ initialized' = initialized
          /\ rest # << >> /\ Head(rest) < Len(rest)
          /\ rest' = SubSeq(rest, Head(rest) + 2, Len(rest))
          /\ formats # << >> /\ i <= Len(table) /\ table[i] \in Handlers
      BY <1>2, <2>1, <2>10
         DEF AppendSignature, MoreSignatures, Skip, TypeInv, Places
    <3>2. Last \in Formats /\ Last.signatures \in Seq(Seq(Nat)) /\ Head(rest) \in Nat
      BY <2>1, <3>1, LastKept DEF Last, Formats
    <3> DEFINE sig == SubSeq(rest, 2, Head(rest) + 1)
               g   == [Last EXCEPT !.signatures = Append(@, sig)]
    <3>3. formats' = WithLast(g)
      BY <2>10 DEF AppendSignature, WithLast, Last, Back
    <3>4. /\ g.handler = Last.handler /\ g.has_name = Last.has_name
          /\ g.signature_offset = Last.signature_offset
          /\ g.signatures = Append(Last.signatures, sig)
      BY <3>2 DEF Formats
    <3>5. sig \in Seq(Nat)
      <4>1. 2 \in 1..(Len(rest) + 1) /\ Head(rest) + 1 \in 0..Len(rest) BY <2>1, <3>1, <3>2
      <4>2. \A k \in 1..Len(rest) : rest[k] \in Nat BY <2>1
      <4>3. \A k \in 2..(Head(rest) + 1) : k \in 1..Len(rest) BY <2>1, <3>1, <3>2
      <4>. QED BY <3>2, <4>2, <4>3, SubSeqProperties
    <3>6. Append(Last.signatures, sig) \in Seq(Seq(Nat)) BY <3>2, <3>5, AppendProperties
    <3>7. g \in Formats BY <3>2, <3>6 DEF Formats
    <3> HIDE DEF g
    <3>8. /\ Last' = g
          /\ SubSeq(formats', 1, Len(formats') - 1) = SubSeq(formats, 1, Len(formats) - 1)
      <4>1. Len(formats') = Len(formats) BY <2>1, <3>3 DEF WithLast
      <4>. QED BY <2>1, <3>1, <3>3, <3>7, <4>1, OthersKept DEF Last, WithLast
    <3>9. /\ Exact(SubSeq(formats', 1, Len(formats') - 1), table, i - 1) /\ g.handler = i
          /\ "SevenZip" \notin initialized'
      BY <1>2, <3>1, <3>4, <3>8 DEF TableInv, Order
    <3>10. AllRead(Last, table[i], rest) BY <1>2, <3>1 DEF TableInv
    <3>11. Progress(table[i], Append(Last.signatures, sig), SubSeq(rest, Head(rest) + 2, Len(rest)))
      <4>1. Progress(table[i], Last.signatures, rest) BY <3>10 DEF AllRead
      <4>. QED BY <2>1, <3>1, <4>1, ProgressGoesOn
    <3>12. AllRead(g, table[i], rest') BY <3>1, <3>4, <3>10, <3>11 DEF AllRead
    <3>. QED BY <2>1, <3>1, <3>8, <3>9, <3>12 DEF TableInv
  <2>11. CASE AppendEnds
    <3>1. /\ pc = "append" /\ pc' = "formats" /\ i' = i + 1 /\ formats' = formats
          /\ initialized' = initialized /\ ~(rest # << >> /\ Head(rest) < Len(rest))
          /\ formats # << >> /\ i <= Len(table) /\ table[i] \in Handlers
      BY <1>2, <2>1, <2>11 DEF AppendEnds, MoreSignatures, NextHandler, TypeInv, Places
    <3> DEFINE others == SubSeq(formats, 1, Len(formats) - 1)
    <3>2. others \in Seq(Formats) /\ Last \in Formats /\ formats = Append(others, Last)
      BY <2>1, <3>1, LastBehindOthers DEF Last
    <3>3. /\ Exact(others, table, i - 1) /\ Last.handler = i /\ AllRead(Last, table[i], rest)
          /\ "SevenZip" \notin initialized
      BY <1>2, <3>1 DEF TableInv, Order
    <3>4. Usable(table[i]) /\ Describes(Last, table[i]) BY <2>1, <3>1, <3>3, AllUnpacked
    <3>5. i - 1 \in Nat /\ (i - 1) + 1 = i /\ i' - 1 = i BY <2>1, <3>1
    <3> HIDE DEF others
    <3>6. Exact(formats, table, i) BY <3>2, <3>3, <3>4, <3>5, ExactGrows
    <3>. QED BY <2>1, <3>1, <3>3, <3>5, <3>6 DEF TableInv
  <2>12. CASE FormatsLoaded
    <3>1. /\ pc = "formats" /\ i > Len(table) /\ formats' = formats /\ pc' = "register"
      BY <2>12 DEF FormatsLoaded
    <3>2. i - 1 = Len(table) BY <2>1, <3>1
    <3>3. Exact(formats', table', Len(table')) BY <1>2, <2>1, <3>1, <3>2 DEF TableInv
    <3>. QED BY <3>1, <3>3 DEF TableInv
  <2>13. CASE Register
    <3>1. pc = "register" /\ pc' \in {"register", "java"} /\ formats' = formats /\ initialized' = initialized
      BY <2>13 DEF Register
    <3>. QED BY <2>2, <3>1
  <2>14. CASE UNCHANGED vars BY <1>2, <2>14 DEF vars, TableInv, Last
  <2>. QED BY <1>2, <2>3, <2>4, <2>5, <2>6, <2>7, <2>8, <2>9, <2>10, <2>11, <2>12, <2>13, <2>14
       DEF Next
<1>. QED BY <1>1, <1>2

\* Whatever failed on the way, an initialised SevenZip has the exact table of formats.
THEOREM TableIsExactHolds == Spec => []TableIsExact
<1>1. TableInv => TableIsExact BY DEF TableInv, TableIsExact
<1>. QED BY <1>1, TypeInvariance, OrderInductive, TableInductive, PTL DEF Spec

-----------------------------------------------------------------------------

\* The ends of the loops; i and stage have theirs in TypeOK.
LoadBounded == TypeOK /\ Part \in 1..3 /\ Place \in 0..6

\* A step of the action property LoadAdvances.
Advances == pc = "java" \/ pc' = "java" \/ NearerToItsEnd

\* A round of AppendMultiSignature uses up a byte of the buffer at least: the length
\* counts, also when it is zero.
LEMMA BufferShrinks ==
  ASSUME NEW b \in Seq(Nat), b # << >>
  PROVE  Len(Skip(b, Head(b))) < Len(b)
<1>1. Head(b) \in Nat /\ Len(b) \in Nat /\ Len(b) > 0
  OBVIOUS
<1>2. Head(b) + 2 \in 2..(Head(b) + 2) /\ \A k \in (Head(b) + 2)..Len(b) : b[k] \in Nat
  BY <1>1
<1>3. Len(SubSeq(b, Head(b) + 2, Len(b))) =
        IF Head(b) + 2 <= Len(b) THEN Len(b) - (Head(b) + 2) + 1 ELSE 0
  BY <1>1, <1>2, SubSeqProperties
<1> QED BY <1>1, <1>3 DEF Skip

\* Each action in turn.
LEMMA LoadStep == TypeInv /\ Order /\ Next => Advances
<1> SUFFICES ASSUME TypeInv, Order, Next PROVE Advances
  OBVIOUS
<1>1. /\ rest \in Seq(Nat) /\ stage \in 1..6 /\ property \in 1..5 /\ i \in Nat
      /\ pc \in {"java", "initialize", "formats", "properties", "append", "register"}
      /\ pc = "register" => stage \in 1..3
  BY ModuleNumbers, PropertyNumbers DEF TypeInv, TypeOK, Places
<1>2. CASE Load BY <1>2 DEF Load, Advances, NearerToItsEnd
<1>3. CASE StepFails BY <1>3 DEF StepFails, AfterFailure, Advances, NearerToItsEnd
<1>4. CASE InitializeClass BY <1>1, <1>4 DEF InitializeClass, Advances, NearerToItsEnd, Part
<1>5. CASE InitializeSevenZip BY <1>1, <1>5 DEF InitializeSevenZip, Advances, NearerToItsEnd, Part
<1>6. CASE AddFormat BY <1>1, <1>6 DEF AddFormat, Advances, NearerToItsEnd, Part, Place
<1>7. CASE DropFormat BY <1>1, <1>7 DEF DropFormat, NextHandler, Advances, NearerToItsEnd, Part
<1>8. CASE ReadProperty
  <2>1. /\ pc = "properties" /\ i' = i /\ stage' = stage
        /\ \/ pc' = "append"
           \/ pc' = "properties" /\ property' = property + 1
    BY <1>8 DEF ReadProperty, NextProperty
  <2> QED BY <1>1, <2>1 DEF Advances, NearerToItsEnd, Part, Place
<1>9. CASE AppendSignature
  <2>1. /\ pc = "append" /\ pc' = "append" /\ i' = i /\ stage' = stage
        /\ rest # << >> /\ rest' = Skip(rest, Head(rest))
    BY <1>9 DEF AppendSignature, MoreSignatures
  <2>2. Len(rest') < Len(rest)
    BY <1>1, <2>1, BufferShrinks
  <2> QED BY <2>1, <2>2 DEF Advances, NearerToItsEnd, Part, Place
<1>10. CASE AppendEnds BY <1>1, <1>10 DEF AppendEnds, NextHandler, Advances, NearerToItsEnd, Part
<1>11. CASE FormatsLoaded BY <1>1, <1>11 DEF FormatsLoaded, Advances, NearerToItsEnd, Part
<1>12. CASE Register BY <1>1, <1>12 DEF Register, Advances, NearerToItsEnd, Part
<1> QED BY <1>2, <1>3, <1>4, <1>5, <1>6, <1>7, <1>8, <1>9, <1>10, <1>11, <1>12 DEF Next

\* What makes LoadEnds true for every table and every multi-signature: each step of a
\* load moves it forward in an order that has an end.
THEOREM LoadAdvancesHolds == Spec => []LoadBounded /\ LoadAdvances
<1>1. TypeInv => LoadBounded
  BY PropertyNumbers DEF TypeInv, TypeOK, LoadBounded, Part, Place
<1>2. TypeInv /\ Order /\ [Next]_vars => [pc = "java" \/ pc' = "java" \/ NearerToItsEnd]_vars
  BY LoadStep DEF Advances
<1> QED BY <1>1, <1>2, TypeInvariance, OrderInductive, PTL DEF Spec, LoadAdvances

=============================================================================
