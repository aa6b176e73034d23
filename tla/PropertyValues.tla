--------------------------- MODULE PropertyValues ---------------------------
(***************************************************************************)
(* How a property of an archive or of one of its entries reaches Java: a   *)
(* client asks for the type of a property, then calls one of the getters.  *)
(* The value is a PROPVARIANT of the handler; InArchive.cpp converts it by *)
(* its variant type, JavaInArchive.cpp replaces every error by a default,  *)
(* and InArchive.java decodes a string.  The archive and the entry getters *)
(* are the same macros, and one model stands for both.                     *)
(*                                                                         *)
(* A string arrives as 4-byte wide characters.  `shrink' makes 2-byte Java *)
(* characters of them in place: `mem' is that buffer in halves of a wide   *)
(* character, the low one first.                                           *)
(*                                                                         *)
(* `Bytes' is the number of values of a byte, so that a model with smaller *)
(* bytes has every boundary of the real one within reach.                  *)
(***************************************************************************)
EXTENDS Integers, Sequences

CONSTANTS
  Bytes,               \* 256
  FILE_TIME_OFFSET,    \* the FILETIME of 1970-01-01, in units of 100 ns
  FILE_TIME_MULTIPLE,  \* the units of a FILETIME in a millisecond
  Texts                \* the strings of the handlers, which hold no NUL

Chars == Bytes * Bytes    \* jchar, the 2-byte integers
Ints  == Chars * Chars    \* wchar_t, the 4-byte integers
Longs == Ints * Ints      \* the 8-byte integers

ASSUME BytesAssumption == Bytes \in Nat \ {0} /\ Bytes % 2 = 0

ASSUME FileTimeAssumption ==
  FILE_TIME_OFFSET \in 0..(Longs - 1) /\ FILE_TIME_MULTIPLE \in Nat \ {0, 1}

ASSUME TextsAssumption == Texts \subseteq Seq(1..(Ints - 1))

VARIABLES
  prop,      \* the property: its variant type, with its number or its text
  charset,   \* of the InArchive: "null" or "set"
  open,      \* nativePtr is not 0
  pc,        \* "type", "ask", "shrink", "charset", "done"
  type,      \* what the type getter answered
  getter,    \* the getter called afterwards, by the type it is for
  i, mem,    \* the loop variable and the buffer of shrink
  answered,  \* "nothing", a "value", the "default" for errors, or it "threw"
  number,    \* the number or truth value answered
  text,      \* the string answered, and how its characters were read
  failed     \* history: the handler or the VM has failed

vars == <<prop, charset, open, pc, type, getter, i, mem, answered, number, text, failed>>

IntTypes == {"VT_I1", "VT_I2", "VT_I4", "VT_INT", "VT_UI1", "VT_UI2", "VT_UI4", "VT_UINT"}

LongTypes == {"VT_I8", "VT_UI8", "VT_FILETIME"}

Signed == {"VT_I1", "VT_I2", "VT_I4", "VT_INT", "VT_I8"}

Getters == {"BOOL", "INT", "LONG", "STRING"}

SizeOf(vt) ==
  CASE vt \in {"VT_I1", "VT_UI1"} -> Bytes
    [] vt \in {"VT_I2", "VT_UI2"} -> Chars
    [] vt \in LongTypes           -> Longs
    [] OTHER                      -> Ints

SignedValues(size) == (-(size \div 2))..(size \div 2 - 1)

ValuesOf(vt) ==
  IF vt \in Signed THEN SignedValues(SizeOf(vt)) ELSE 0..(SizeOf(vt) - 1)

\* The properties a handler may give: VT_OTHER stands for VT_ERROR, a float, ...
Numbers(vt) == {[vt |-> vt, number |-> n, text |-> << >>] : n \in ValuesOf(vt)}

Truths == [vt : {"VT_BOOL"}, number : {0, 1}, text : {<< >>}]

Nothings == [vt : {"VT_EMPTY", "VT_OTHER"}, number : {0}, text : {<< >>}]

Strings == [vt : {"VT_BSTR"}, number : {0}, text : Texts]

Properties ==
  (UNION {Numbers(vt) : vt \in IntTypes \cup LongTypes}) \cup Truths \cup Nothings \cup Strings

-----------------------------------------------------------------------------

\* The slips after which TLC must find a property violated: a getter leaves out a
\* variant type; the offset of a FILETIME is taken in the wrong unit; the wide
\* characters are read as if they were jchars already; the loop runs once too
\* often; a getter does not see that the archive is closed.
FewerIntTypes       == IntTypes \ {"VT_UINT"}
DivideFirst(units)  == ((units \div FILE_TIME_MULTIPLE) - FILE_TIME_OFFSET) % Longs
SameIndex(k)        == k
OneMore             == i <= Len(prop.text)
NeverChecked        == TRUE

\* An integer stored in a signed integer with `size' values.
Wrap(n, size) == ((n + size \div 2) % size) - size \div 2

VarTypeToPropType(vt) ==
  CASE vt = "VT_EMPTY"   -> "EMPTY"
    [] vt = "VT_BOOL"    -> "BOOL"
    [] vt \in IntTypes   -> "INT"
    [] vt \in LongTypes  -> "LONG"
    [] vt = "VT_BSTR"    -> "STRING"
    [] OTHER             -> "UNKNOWN"

\* The variant types that GET_INT_PROPERTY takes.
IntCases == IntTypes

\* (filetime - FILE_TIME_OFFSET) / FILE_TIME_MULTIPLE, in unsigned arithmetic.
Milliseconds(units) == ((units - FILE_TIME_OFFSET) % Longs) \div FILE_TIME_MULTIPLE

\* GET_BOOLEAN_PROPERTY, GET_INT_PROPERTY, GET_LONG_PROPERTY and
\* GET_STRING_PROPERTY: does a getter take a property, and as what number.
Takes(g, p) ==
  \/ g = "BOOL" /\ p.vt = "VT_BOOL"
  \/ g = "INT" /\ p.vt \in IntCases
  \/ g = "LONG" /\ p.vt \in LongTypes
  \/ g = "STRING" /\ p.vt = "VT_BSTR"

Converted(g, p) ==
  CASE g = "INT"  -> Wrap(p.number, Ints)
    [] g = "LONG" -> Wrap(IF p.vt = "VT_FILETIME" THEN Milliseconds(p.number) ELSE p.number, Longs)
    [] OTHER      -> p.number

\* checkClosed in Java, or CHECK_CLOSED in the native method.
Checked == open

\* Where shrink reads character k.
Source(k) == 2 * k

MoreChars == i < Len(prop.text)

\* The buffer of a BSTR and its terminator.
Layout(s) ==
  [h \in 0..(2 * Len(s) + 1) |->
     IF h \div 2 = Len(s) THEN 0
     ELSE IF h % 2 = 0 THEN s[h \div 2 + 1] % Chars ELSE s[h \div 2 + 1] \div Chars]

NoText == [coding |-> "none", chars |-> << >>]

Init ==
  /\ prop \in Properties /\ charset \in {"null", "set"} /\ open = TRUE
  /\ pc = "type" /\ type = "UNKNOWN" /\ getter = "none"
  /\ i = 0 /\ mem = << >>
  /\ answered = "nothing" /\ number = 0 /\ text = NoText /\ failed = FALSE

\* InArchive.close, before or between the calls.
Close ==
  /\ pc \in {"type", "ask"} /\ open
  /\ open' = FALSE
  /\ UNCHANGED <<prop, charset, pc, type, getter, i, mem, answered, number, text, failed>>

Throw ==
  /\ pc \in {"type", "ask"} /\ ~Checked
  /\ pc' = "done" /\ answered' = "threw"
  /\ UNCHANGED <<prop, charset, open, type, getter, i, mem, number, text, failed>>

\* getArchivePropertyType, getEntryPropertyType: UNKNOWN if the handler fails.
GetPropertyType ==
  /\ pc = "type" /\ Checked
  /\ pc' = "ask"
  /\ \/ type' = VarTypeToPropType(prop.vt) /\ UNCHANGED failed
     \/ type' = "UNKNOWN" /\ failed' = TRUE
  /\ UNCHANGED <<prop, charset, open, getter, i, mem, answered, number, text>>

\* The default of a getter: the handler fails, has no such property, or has one of
\* another type.  A string is null here and empty in Java.
GetDefault(g) ==
  /\ pc = "ask" /\ Checked
  /\ pc' = "done" /\ getter' = g /\ answered' = "default"
  /\ \/ ~Takes(g, prop) /\ UNCHANGED failed
     \/ failed' = TRUE
  /\ UNCHANGED <<prop, charset, open, type, i, mem, number, text>>

GetNumber(g) ==
  /\ pc = "ask" /\ Checked /\ g # "STRING" /\ Takes(g, prop)
  /\ pc' = "done" /\ getter' = g /\ answered' = "value"
  /\ number' = Converted(g, prop)
  /\ UNCHANGED <<prop, charset, open, type, i, mem, text, failed>>

\* SysAllocString copies the string for the native method.
GetString ==
  /\ pc = "ask" /\ Checked /\ Takes("STRING", prop)
  /\ pc' = "shrink" /\ getter' = "STRING"
  /\ i' = 0 /\ mem' = Layout(prop.text)
  /\ UNCHANGED <<prop, charset, open, type, answered, number, text, failed>>

ShrinkChar ==
  /\ pc = "shrink" /\ MoreChars
  /\ mem' = [mem EXCEPT ![i] = mem[Source(i)]]
  /\ i' = i + 1
  /\ UNCHANGED <<prop, charset, open, pc, type, getter, answered, number, text, failed>>

\* shrink ends the string, and NewString makes the Java string.
NewString ==
  /\ pc = "shrink" /\ ~MoreChars
  /\ pc' = "charset"
  /\ mem' = [mem EXCEPT ![Len(prop.text)] = 0]
  /\ text' = [coding |-> "utf-16", chars |-> [k \in 1..Len(prop.text) |-> mem'[k - 1]]]
  /\ UNCHANGED <<prop, charset, open, type, getter, i, answered, number, failed>>

\* NewString finds no memory: the OutOfMemoryError goes to the client.
NewStringFails ==
  /\ pc = "shrink" /\ ~MoreChars
  /\ pc' = "done" /\ answered' = "threw" /\ failed' = TRUE
  /\ UNCHANGED <<prop, charset, open, type, getter, i, mem, number, text>>

\* applyCharsetToString: a string of bytes is decoded, another one is in utf-16.
ApplyCharset ==
  /\ pc = "charset"
  /\ pc' = "done" /\ answered' = "value"
  /\ text' = IF charset = "set" /\ \A k \in 1..Len(text.chars) : text.chars[k] < Bytes
             THEN [text EXCEPT !.coding = "charset"] ELSE text
  /\ UNCHANGED <<prop, charset, open, type, getter, i, mem, number, failed>>

Next ==
  \/ Close \/ Throw \/ GetPropertyType
  \/ \E g \in Getters : GetDefault(g) \/ GetNumber(g)
  \/ GetString \/ ShrinkChar \/ NewString \/ NewStringFails \/ ApplyCharset

Spec == Init /\ [][Next]_vars

-----------------------------------------------------------------------------

TypeOK ==
  /\ prop \in Properties /\ charset \in {"null", "set"} /\ open \in BOOLEAN
  /\ pc \in {"type", "ask", "shrink", "charset", "done"}
  /\ type \in Getters \cup {"EMPTY", "UNKNOWN"} /\ getter \in Getters \cup {"none"}
  /\ i \in 0..Len(prop.text)
  /\ pc = "shrink" => mem \in [0..(2 * Len(prop.text) + 1) -> 0..(Chars - 1)]
  /\ answered \in {"nothing", "value", "default", "threw"}
  /\ number \in SignedValues(Longs)
  /\ text.coding \in {"none", "utf-16", "charset"} /\ text.chars \in Seq(0..(Chars - 1))
  /\ failed \in BOOLEAN

\* getPropertyType and the getters agree, though each has its own list of variant
\* types: unless the handler fails, the getter of the type that was reported, and
\* no other, answers with the value.
TypeNamesTheGetter ==
  pc = "done" /\ open /\ ~failed => (answered = "value" <=> getter = type)

\* A number that its Java type can hold arrives unchanged, whatever its width and
\* sign in the handler; a FILETIME from 1970 on arrives as the milliseconds since.
NumbersAreExact ==
  pc = "done" /\ answered = "value" =>
    LET n == prop.number IN
    /\ getter = "INT" /\ n \in SignedValues(Ints) => number = n
    /\ getter = "LONG" /\ prop.vt # "VT_FILETIME" /\ n \in SignedValues(Longs) => number = n
    /\ prop.vt = "VT_FILETIME" /\ n >= FILE_TIME_OFFSET =>
         \E rest \in 0..(FILE_TIME_MULTIPLE - 1) :
           n - FILE_TIME_OFFSET = number * FILE_TIME_MULTIPLE + rest

\* A string of 2-byte characters survives the conversion in place; it is read in
\* the client's charset only if each of its characters is a byte ("It's not a pure
\* byte list, can't apply charset").
TextIsFaithful ==
  pc = "done" /\ answered = "value" /\ getter = "STRING"
    /\ (\A k \in 1..Len(prop.text) : prop.text[k] < Chars) =>
    /\ text.chars = prop.text
    /\ text.coding = "charset" <=>
         charset = "set" /\ \A k \in 1..Len(prop.text) : prop.text[k] < Bytes

\* No getter answers, not even with its default, once the archive is closed; the
\* type getters have no checkClosed of their own.
AnswersOnlyWhileOpen ==
  [][(answered' # answered /\ answered' # "threw") \/ type' # type => open]_vars
=============================================================================
