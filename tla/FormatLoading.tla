---------------------------- MODULE FormatLoading ----------------------------
(***************************************************************************)
(* Loading the library: JNI_OnLoad initialises the stream classes and      *)
(* SevenZip, then registers the native methods.  SevenZip::Initialize      *)
(* builds the table of formats that FormatDetection searches: one entry    *)
(* per handler of p7zip, read property by property, dropped again when a   *)
(* property cannot be read.                                                *)
(*                                                                         *)
(* A multi-signature packs several signatures in one buffer, each behind   *)
(* a byte with its length; AppendMultiSignature unpacks it.                *)
(*                                                                         *)
(* Any step of JNI_OnLoad may fail, and the load may be tried again with   *)
(* what the static variables then hold.  The table of methods that         *)
(* LoadMethods fills is never read, and is left out.                       *)
(***************************************************************************)
EXTENDS Naturals, Sequences

CONSTANTS
  Tables,       \* the tables of handlers p7zip may have
  MaxAttempts   \* bound: the times the library is loaded

\* What reading a property of a handler yields.
Reading(values) == [state : {"given", "missing", "fails"}, value : values]

Handlers == [class_id : Reading(Nat), name : Reading(Nat), signature_offset : Reading(Nat),
             signature : Reading(Seq(Nat)), multi_signature : Reading(Seq(Nat))]

ASSUME TablesAssumption == Tables \subseteq Seq(Handlers)

ASSUME AttemptsAssumption == MaxAttempts \in Nat

VARIABLES
  table,        \* p7zip's handlers: of each property whether it is "given",
                \* "missing" or its reading "fails", and its value
  attempts,     \* the times JNI_OnLoad was called
  pc,           \* "java", "initialize", "formats", "properties", "append", "register"
  stage,        \* the next module to initialise or to register
  initialized,  \* the modules whose `initialized' is true
  registered,   \* the Java classes that have their native methods
  loaded,       \* JNI_OnLoad has succeeded
  i, property,  \* LoadFormats: the handler, and the property to read of it
  formats,      \* the table built so far
  rest          \* AppendMultiSignature: what is left of the buffer

vars == <<table, attempts, pc, stage, initialized, registered, loaded,
          i, property, formats, rest>>

\* The modules in the order JNI_OnLoad initialises them, and the classes in the
\* order it registers them.
Modules == <<"SeekableInputStream", "JavaSeekableInputStream", "JavaInputStream",
             "OpenVolumeCallback", "OutputStream", "SevenZip">>

Classes == <<"JavaInArchive", "JavaSeekableInputStream", "JavaInputStream">>

\* The properties of a handler in the order LoadFormats reads them.
HandlerProperties == <<"class_id", "name", "signature_offset", "signature", "multi_signature">>

-----------------------------------------------------------------------------

\* The slips after which TLC must find a property violated: the loop over the
\* handlers advances twice; a dropped handler stays in the table; the natives are
\* registered although a module failed; the byte with the length of a signature is
\* not counted; a length that points behind the end does not end the loop.
HandlerAfterNext    == i + 2
KeepBack            == formats
GoOn                == "register"
ForgetLength(b, n)  == SubSeq(b, n + 1, Len(b))
EndWhenUsedUp       ==
  /\ pc = "append" /\ rest = << >>
  /\ pc' = "formats" /\ i' = i + 1
  /\ UNCHANGED <<table, attempts, stage, initialized, registered, loaded, property, formats, rest>>

\* The property to read after property k.
NextProperty(k) == k + 1

NextHandler == i + 1

DeleteBack == SubSeq(formats, 1, Len(formats) - 1)

\* RETURN_JNI_ERR_IF_NOT_ZERO: JNI_OnLoad returns on the first failure.
AfterFailure == "java"

\* What is left of buffer b after a signature of length n.
Skip(b, n) == SubSeq(b, n + 2, Len(b))

Back == Len(formats)

Init ==
  /\ table \in Tables
  /\ attempts = 0 /\ pc = "java" /\ stage = 1
  /\ initialized = {} /\ registered = {} /\ loaded = FALSE
  /\ i = 1 /\ property = 1 /\ formats = << >> /\ rest = << >>

\* Java loads the library and the VM calls JNI_OnLoad.
Load ==
  /\ pc = "java" /\ ~loaded /\ attempts < MaxAttempts
  /\ attempts' = attempts + 1
  /\ pc' = "initialize" /\ stage' = 1
  /\ UNCHANGED <<table, initialized, registered, loaded, i, property, formats, rest>>

\* A class or a method is not found, p7zip fails to count its methods or formats,
\* or the VM refuses the native methods.
StepFails ==
  /\ \/ pc = "initialize" /\ Modules[stage] \notin initialized
     \/ pc = "register"
  /\ pc' = AfterFailure /\ stage' = 1
  /\ UNCHANGED <<table, attempts, initialized, registered, loaded, i, property, formats, rest>>

\* A stream class looks up its methods, unless it did so before.
InitializeClass ==
  /\ pc = "initialize" /\ Modules[stage] # "SevenZip"
  /\ initialized' = initialized \cup {Modules[stage]}
  /\ stage' = stage + 1
  /\ UNCHANGED <<table, attempts, pc, registered, loaded, i, property, formats, rest>>

\* SevenZip::Initialize: the formats are loaded, unless they were before.
InitializeSevenZip ==
  /\ pc = "initialize" /\ Modules[stage] = "SevenZip"
  /\ i' = 1
  /\ IF "SevenZip" \in initialized THEN pc' = "register" /\ stage' = 1
                                   ELSE pc' = "formats" /\ UNCHANGED stage
  /\ UNCHANGED <<table, attempts, initialized, registered, loaded, property, formats, rest>>

\* formats.AddNew().
AddFormat ==
  /\ pc = "formats" /\ i <= Len(table)
  /\ pc' = "properties" /\ property' = 1
  /\ formats' = Append(formats, [handler |-> i, has_name |-> FALSE,
                                 signature_offset |-> 0, signatures |-> << >>])
  /\ UNCHANGED <<table, attempts, stage, initialized, registered, loaded, i, rest>>

\* GET_PROP fails, or the class id is missing: the handler is dropped.
DropFormat ==
  /\ pc = "properties"
  /\ LET p == HandlerProperties[property]  state == table[i][p].state IN
       state = "fails" \/ (p = "class_id" /\ state = "missing")
  /\ pc' = "formats" /\ i' = NextHandler
  /\ formats' = DeleteBack
  /\ UNCHANGED <<table, attempts, stage, initialized, registered, loaded, property, rest>>

\* GET_PROP reads a property, or finds that the handler has none.
ReadProperty ==
  /\ pc = "properties"
  /\ LET p == HandlerProperties[property]  got == table[i][p] IN
       /\ got.state # "fails" /\ (p = "class_id" => got.state = "given")
       /\ formats' =
            IF got.state = "missing" THEN formats
            ELSE CASE p = "name"             -> [formats EXCEPT ![Back].has_name = TRUE]
                   [] p = "signature_offset" -> [formats EXCEPT ![Back].signature_offset = got.value]
                   [] p = "signature"        -> [formats EXCEPT ![Back].signatures = Append(@, got.value)]
                   [] OTHER                  -> formats
       /\ rest' = IF p = "multi_signature" /\ got.state = "given" THEN got.value ELSE << >>
       /\ IF p = "multi_signature" THEN pc' = "append" /\ UNCHANGED property
                                   ELSE property' = NextProperty(property) /\ UNCHANGED pc
  /\ UNCHANGED <<table, attempts, stage, initialized, registered, loaded, i>>

\* The buffer is neither used up nor ends within a signature.
MoreSignatures == rest # << >> /\ Head(rest) < Len(rest)

\* One round of AppendMultiSignature.
AppendSignature ==
  /\ pc = "append" /\ MoreSignatures
  /\ formats' = [formats EXCEPT ![Back].signatures = Append(@, SubSeq(rest, 2, Head(rest) + 1))]
  /\ rest' = Skip(rest, Head(rest))
  /\ UNCHANGED <<table, attempts, pc, stage, initialized, registered, loaded, i, property>>

AppendEnds ==
  /\ pc = "append" /\ ~MoreSignatures
  /\ pc' = "formats" /\ i' = NextHandler
  /\ UNCHANGED <<table, attempts, stage, initialized, registered, loaded, property, formats, rest>>

FormatsLoaded ==
  /\ pc = "formats" /\ i > Len(table)
  /\ initialized' = initialized \cup {"SevenZip"}
  /\ pc' = "register" /\ stage' = 1
  /\ UNCHANGED <<table, attempts, registered, loaded, i, property, formats, rest>>

\* RegisterMethods; those of the stream classes check `initialized'.
Register ==
  /\ pc = "register"
  /\ Classes[stage] = "JavaInArchive" \/ Classes[stage] \in initialized
  /\ registered' = registered \cup {Classes[stage]}
  /\ IF stage < Len(Classes) THEN stage' = stage + 1 /\ UNCHANGED <<pc, loaded>>
                             ELSE pc' = "java" /\ loaded' = TRUE /\ stage' = 1
  /\ UNCHANGED <<table, attempts, initialized, i, property, formats, rest>>

Next ==
  \/ Load \/ StepFails \/ InitializeClass \/ InitializeSevenZip
  \/ AddFormat \/ DropFormat \/ ReadProperty \/ AppendSignature \/ AppendEnds
  \/ FormatsLoaded \/ Register

Spec == Init /\ [][Next]_vars

\* JNI_OnLoad runs to its end once it is called; Java need not call it again.
FairSpec == Spec /\ WF_vars(Next /\ pc # "java")

-----------------------------------------------------------------------------

AllModules == {Modules[k] : k \in 1..Len(Modules)}

AllClasses == {Classes[k] : k \in 1..Len(Classes)}

\* The entries of the table of formats.
Formats == [handler : Nat, has_name : BOOLEAN, signature_offset : Nat, signatures : Seq(Seq(Nat))]

TypeOK ==
  /\ table \in Seq(Handlers) /\ attempts \in 0..MaxAttempts
  /\ pc \in {"java", "initialize", "formats", "properties", "append", "register"}
  /\ stage \in 1..Len(Modules) /\ property \in 1..Len(HandlerProperties)
  /\ initialized \subseteq AllModules /\ registered \subseteq AllClasses
  /\ loaded \in BOOLEAN /\ i \in 1..(Len(table) + 1)
  /\ formats \in Seq(Formats) /\ rest \in Seq(Nat)

\* The handlers that LoadFormats does not drop.
Usable(h) ==
  /\ h.class_id.state = "given"
  /\ \A p \in {"name", "signature_offset", "signature", "multi_signature"} : h[p].state # "fails"

\* Of a handler: its single signature, if it has one, and its multi-signature.
Single(h) == IF h.signature.state = "given" THEN <<h.signature.value>> ELSE << >>

Multi(h) == IF h.multi_signature.state = "given" THEN h.multi_signature.value ELSE << >>

\* The signatures many were unpacked from the first end bytes of buffer b: the k-th one
\* ends at at[k], and the byte before it is its length.
Unpacked(b, many, end) ==
  \E at \in [0..Len(many) -> 0..end] :
    /\ at[0] = 0 /\ at[Len(many)] = end
    /\ \A k \in 1..Len(many) :
         /\ at[k] = at[k - 1] + 1 + Len(many[k])
         /\ b[at[k - 1] + 1] = Len(many[k])
         /\ many[k] = SubSeq(b, at[k - 1] + 2, at[k])

\* The signatures s are the one of handler h followed by those packed in its
\* multi-signature, of which at most an incomplete last one is left out.
SignaturesOf(h, s) ==
  LET one == Len(Single(h)) IN
  /\ SubSeq(s, 1, one) = Single(h)
  /\ \E end \in 0..Len(Multi(h)) :
       /\ Unpacked(Multi(h), SubSeq(s, one + 1, Len(s)), end)
       /\ end < Len(Multi(h)) => Multi(h)[end + 1] >= Len(Multi(h)) - end

\* Format f has the name, the offset and the signatures of handler h.
Describes(f, h) ==
  /\ f.has_name <=> h.name.state = "given"
  /\ f.signature_offset = IF h.signature_offset.state = "given"
                          THEN h.signature_offset.value ELSE 0
  /\ SignaturesOf(h, f.signatures)

\* The formats fs are those of the usable ones of the first n handlers of hs, in their order.
Exact(fs, hs, n) ==
  /\ {fs[k].handler : k \in 1..Len(fs)} = {m \in 1..n : Usable(hs[m])}
  /\ \A k \in 1..(Len(fs) - 1) : fs[k].handler < fs[k + 1].handler
  /\ \A k \in 1..Len(fs) : Describes(fs[k], hs[fs[k].handler])

\* When SevenZip is initialised, whatever failed on the way and however often the
\* load was tried, the table has each usable handler once, in the order of p7zip,
\* with its own name, offset and signatures, and nothing of a dropped one.
TableIsExact == "SevenZip" \in initialized => Exact(formats, table, Len(table))

\* As soon as Java can call nativeOpen every module it uses is initialised, also
\* when the rest of the load has failed: no Create answers E_NOT_INITIALIZED, and
\* no search runs over a part of the table.
NativesAreUsable ==
  "JavaInArchive" \in registered => initialized = AllModules

\* Where a load is: in the modules, in the table of formats or in the native methods,
Part == IF pc = "initialize" THEN 1 ELSE IF pc = "register" THEN 3 ELSE 2

\* and within the table at which property of a handler.  The buffer of a
\* multi-signature comes behind the properties.
Place == IF pc = "formats" THEN 0 ELSE IF pc = "properties" THEN property ELSE 6

\* The next part, module or class, the next handler, its next property, or fewer
\* bytes of its multi-signature.
NearerToItsEnd ==
  \/ Part' > Part
  \/ /\ Part' = Part
     /\ \/ stage' > stage
        \/ stage' = stage /\ i' > i
        \/ stage' = stage /\ i' = i /\ Place' > Place
        \/ stage' = stage /\ i' = i /\ Place' = Place /\ Len(rest') < Len(rest)

\* No step of a load leaves it where it was: it ends the load or brings it nearer to
\* its end, also the round of AppendMultiSignature that meets a signature of length
\* zero.
LoadAdvances == [][pc = "java" \/ pc' = "java" \/ NearerToItsEnd]_vars

\* A load comes to an end, whatever the multi-signatures hold: a last signature that
\* is cut off does not keep AppendMultiSignature in its loop.
LoadEnds == pc = "initialize" ~> pc = "java"
=============================================================================
