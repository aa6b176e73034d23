------------------------ MODULE PropertyValuesProofs ------------------------
(***************************************************************************)
(* Proofs about PropertyValues for every width of a byte, every scale of a *)
(* FILETIME and every text, the real ones among them: the getters agree    *)
(* with the reported types, numbers and texts arrive unchanged, and a      *)
(* closed archive answers nothing.                                         *)
(***************************************************************************)
EXTENDS PropertyValues, SequenceTheorems, TLAPS

-----------------------------------------------------------------------------

\* A product of an even number is even, and no smaller than its factors.
LEMMA EvenSquare ==
  ASSUME NEW h \in Nat \ {0}, NEW n \in Nat, n = 2 * h
  PROVE  /\ n * n = 2 * (h * n) /\ h * n \in Nat \ {0} /\ n * n >= 2 * n /\ n >= 2
<1>1. h * n \in Nat /\ h * n >= n
  <2>1. h * n = (h - 1) * n + n /\ h - 1 \in Nat OBVIOUS
  <2>2. (h - 1) * n \in Nat BY <2>1
  <2>. QED BY <2>1, <2>2
<1>2. n * n = 2 * (h * n) OBVIOUS
<1>. QED BY <1>1, <1>2

\* The sizes of the integers are even and grow.
LEMMA Sizes ==
  \E b, c, j, l \in Nat \ {0} :
    /\ Bytes = 2 * b /\ Chars = 2 * c /\ Ints = 2 * j /\ Longs = 2 * l
    /\ Bytes < Chars /\ Chars < Ints /\ Ints < Longs
<1>1. PICK b \in Nat \ {0} : Bytes = 2 * b
  <2>1. Bytes \div 2 \in Nat \ {0} /\ Bytes = 2 * (Bytes \div 2) BY BytesAssumption
  <2>. QED BY <2>1
<1>2. /\ Chars = 2 * (b * Bytes) /\ b * Bytes \in Nat \ {0} /\ Chars >= 2 * Bytes /\ Bytes \in Nat /\ Bytes >= 2
  BY <1>1, EvenSquare DEF Chars
<1>3. PICK c \in Nat \ {0} : Chars = 2 * c BY <1>2
<1>4. /\ Ints = 2 * (c * Chars) /\ c * Chars \in Nat \ {0} /\ Ints >= 2 * Chars /\ Chars \in Nat
  BY <1>3, EvenSquare DEF Ints
<1>5. PICK j \in Nat \ {0} : Ints = 2 * j BY <1>4
<1>6. /\ Longs = 2 * (j * Ints) /\ j * Ints \in Nat \ {0} /\ Longs >= 2 * Ints /\ Ints \in Nat
  BY <1>5, EvenSquare DEF Longs
<1>7. PICK l \in Nat \ {0} : Longs = 2 * l BY <1>6
<1>8. Bytes < Chars /\ Chars < Ints /\ Ints < Longs BY <1>2, <1>3, <1>4, <1>5, <1>6
<1>. QED BY <1>1, <1>3, <1>5, <1>7, <1>8

\* The remainder of any integer lies below the divisor, and a number that does is
\* its own remainder.
LEMMA Remainder ==
  ASSUME NEW m \in Nat \ {0}, NEW n \in Int
  PROVE  /\ n % m \in 0..(m - 1)
         /\ n \in 0..(m - 1) => n % m = n
OBVIOUS

\* A quotient and its remainder.
LEMMA Quotient ==
  ASSUME NEW m \in Nat \ {0, 1}, NEW n \in Nat
  PROVE  \E q \in Nat, x \in 0..(m - 1) : q = n \div m /\ n = q * m + x /\ 2 * q <= n
<1>1. /\ n \div m \in Int /\ n % m \in 0..(m - 1) /\ n = m * (n \div m) + (n % m)
  OBVIOUS
<1>2. PICK q \in Int, x \in 0..(m - 1) : q = n \div m /\ n = m * q + x BY <1>1
<1>3. q >= 0
  <2>1. SUFFICES ASSUME q <= -1 PROVE FALSE BY <1>2
  <2>2. m * q = -(m * ((-q) - 1)) - m /\ (-q) - 1 \in Nat BY <2>1
  <2>3. m * ((-q) - 1) \in Nat BY <2>2
  <2>. QED BY <1>2, <2>2, <2>3
<1>4. 2 * q <= m * q
  <2>1. m * q = 2 * q + (m - 2) * q /\ m - 2 \in Nat /\ q \in Nat BY <1>3
  <2>2. (m - 2) * q \in Nat BY <2>1
  <2>. QED BY <2>1, <2>2
<1>5. m * q = q * m OBVIOUS
<1>. QED BY <1>2, <1>3, <1>4, <1>5

\* A signed integer holds the numbers of its range unchanged, and nothing else.
LEMMA WrapFits ==
  ASSUME NEW h \in Nat \ {0}, NEW size, size = 2 * h, NEW n \in Int
  PROVE  /\ SignedValues(size) = (-h)..(h - 1)
         /\ Wrap(n, size) \in SignedValues(size)
         /\ n \in SignedValues(size) => Wrap(n, size) = n
<1>1. size \div 2 = h OBVIOUS
<1>2. /\ (n + h) % size \in 0..(size - 1)
      /\ n + h \in 0..(size - 1) => (n + h) % size = n + h
  <2>1. size \in Nat \ {0} /\ n + h \in Int OBVIOUS
  <2>. QED BY <2>1, Remainder
<1>. QED BY <1>1, <1>2 DEF SignedValues, Wrap

\* What is known of the properties a handler may give.
LEMMA PropertyFacts ==
  ASSUME NEW p \in Properties
  PROVE  /\ p.vt \in IntTypes \cup LongTypes \cup {"VT_BOOL", "VT_EMPTY", "VT_OTHER", "VT_BSTR"}
         /\ p.number \in Int
         /\ p.text \in Seq(1..(Ints - 1))
         /\ p.vt = "VT_BOOL" => p.number \in {0, 1}
         /\ p.vt = "VT_FILETIME" => p.number \in 0..(Longs - 1)
<1>1. /\ Bytes \in Nat /\ Chars \in Nat /\ Ints \in Nat /\ Longs \in Nat BY Sizes
<1>2. << >> \in Seq(1..(Ints - 1)) OBVIOUS
<1>3. ASSUME NEW vt \in IntTypes \cup LongTypes, NEW n \in ValuesOf(vt),
             p = [vt |-> vt, number |-> n, text |-> << >>]
      PROVE  p.number \in Int /\ (vt = "VT_FILETIME" => n \in 0..(Longs - 1))
  <2>1. SizeOf(vt) \in Nat BY <1>1 DEF SizeOf
  <2>2. n \in Int BY <2>1 DEF ValuesOf, SignedValues
  <2>3. vt = "VT_FILETIME" => SizeOf(vt) = Longs /\ vt \notin Signed
    BY DEF SizeOf, LongTypes, Signed
  <2>. QED BY <1>3, <2>2, <2>3 DEF ValuesOf
<1>4. CASE p \in UNION {Numbers(vt) : vt \in IntTypes \cup LongTypes}
  <2>1. PICK vt \in IntTypes \cup LongTypes : p \in Numbers(vt) BY <1>4
  <2>2. PICK n \in ValuesOf(vt) : p = [vt |-> vt, number |-> n, text |-> << >>]
    BY <2>1 DEF Numbers
  <2>3. vt # "VT_BOOL" BY DEF IntTypes, LongTypes
  <2>4. p.vt = vt /\ p.number = n /\ p.text = << >> BY <2>2
  <2>. QED BY <1>2, <1>3, <2>2, <2>3, <2>4
<1>5. CASE p \in Truths
  <2>1. p.vt = "VT_BOOL" /\ p.number \in {0, 1} /\ p.text = << >> BY <1>5 DEF Truths
  <2>. QED BY <1>2, <2>1
<1>6. CASE p \in Nothings
  <2>1. p.vt \in {"VT_EMPTY", "VT_OTHER"} /\ p.number = 0 /\ p.text = << >>
    BY <1>6 DEF Nothings
  <2>. QED BY <1>2, <2>1
<1>7. CASE p \in Strings
  <2>1. p.vt = "VT_BSTR" /\ p.number = 0 /\ p.text \in Texts BY <1>7 DEF Strings
  <2>2. p.text \in Seq(1..(Ints - 1)) BY <2>1, TextsAssumption, Zenon
  <2>3. p.number \in Int BY <2>1
  <2>4. p.vt # "VT_BOOL" /\ p.vt # "VT_FILETIME" BY <2>1
  <2>5. p.vt \in IntTypes \cup LongTypes \cup {"VT_BOOL", "VT_EMPTY", "VT_OTHER", "VT_BSTR"}
    BY <2>1
  <2>6. p.vt = "VT_BOOL" => p.number \in {0, 1} BY <2>4
  <2>7. p.vt = "VT_FILETIME" => p.number \in 0..(Longs - 1) BY <2>4
  <2>. QED BY <2>2, <2>3, <2>5, <2>6, <2>7, Zenon
<1>. QED BY <1>4, <1>5, <1>6, <1>7 DEF Properties

-----------------------------------------------------------------------------

\* What a getter makes of a property it takes is a number of its Java type, and an
\* unchanged one if that type can hold it.
LEMMA ConvertedNumber ==
  ASSUME NEW p \in Properties, NEW g \in Getters \ {"STRING"}, Takes(g, p)
  PROVE  /\ Converted(g, p) \in SignedValues(Longs)
         /\ g = "INT" /\ p.number \in SignedValues(Ints) => Converted(g, p) = p.number
         /\ g = "LONG" /\ p.vt # "VT_FILETIME" /\ p.number \in SignedValues(Longs) =>
              Converted(g, p) = p.number
         /\ p.vt = "VT_FILETIME" /\ p.number >= FILE_TIME_OFFSET =>
              \E rest \in 0..(FILE_TIME_MULTIPLE - 1) :
                p.number - FILE_TIME_OFFSET = Converted(g, p) * FILE_TIME_MULTIPLE + rest
<1>1. PICK j, l \in Nat \ {0} : Ints = 2 * j /\ Longs = 2 * l /\ j < l /\ l > 1
  <2>1. PICK b, c, j, l \in Nat \ {0} :
           /\ Bytes = 2 * b /\ Chars = 2 * c /\ Ints = 2 * j /\ Longs = 2 * l
           /\ Bytes < Chars /\ Chars < Ints /\ Ints < Longs
    BY Sizes
  <2>. QED BY <2>1
<1>2. /\ p.number \in Int
      /\ p.vt = "VT_BOOL" => p.number \in {0, 1}
      /\ p.vt = "VT_FILETIME" => p.number \in 0..(Longs - 1)
  BY PropertyFacts
<1>3. CASE g = "BOOL"
  <2>1. p.vt = "VT_BOOL" BY <1>3 DEF Takes
  <2>2. Converted(g, p) = p.number BY <1>3 DEF Converted
  <2>3. SignedValues(Longs) = (-l)..(l - 1) BY <1>1, <1>2, WrapFits
  <2>4. p.number \in SignedValues(Longs) BY <1>1, <1>2, <2>1, <2>3
  <2>. QED BY <1>3, <2>1, <2>2, <2>4
<1>4. CASE g = "INT"
  <2>1. Converted(g, p) = Wrap(p.number, Ints) BY <1>4 DEF Converted
  <2>2. /\ Converted(g, p) \in SignedValues(Ints)
        /\ p.number \in SignedValues(Ints) => Converted(g, p) = p.number
    <3>1. /\ Wrap(p.number, Ints) \in SignedValues(Ints)
          /\ p.number \in SignedValues(Ints) => Wrap(p.number, Ints) = p.number
      BY <1>1, <1>2, WrapFits
    <3>. QED BY <2>1, <3>1, Zenon
  <2>3. Converted(g, p) \in SignedValues(Longs)
    <3>1. SignedValues(Ints) = (-j)..(j - 1) /\ SignedValues(Longs) = (-l)..(l - 1)
      BY <1>1, <1>2, WrapFits
    <3>. QED BY <1>1, <2>2, <3>1
  <2>4. p.vt # "VT_FILETIME" BY <1>4 DEF Takes, IntCases, IntTypes
  <2>. QED BY <1>4, <2>2, <2>3, <2>4
<1>5. CASE g = "LONG"
  <2>1. CASE p.vt # "VT_FILETIME"
    <3>1. Converted(g, p) = Wrap(p.number, Longs) BY <1>5, <2>1 DEF Converted
    <3>2. /\ Wrap(p.number, Longs) \in SignedValues(Longs)
          /\ p.number \in SignedValues(Longs) => Wrap(p.number, Longs) = p.number
      BY <1>1, <1>2, WrapFits
    <3>. QED BY <1>5, <2>1, <3>1, <3>2
  <2>2. CASE p.vt = "VT_FILETIME"
    <3> DEFINE d == p.number - FILE_TIME_OFFSET
    <3>1. /\ d \in Int /\ Longs \in Nat \ {0} /\ FILE_TIME_MULTIPLE \in Nat
          /\ FILE_TIME_MULTIPLE >= 2
          /\ p.number >= FILE_TIME_OFFSET => d \in 0..(Longs - 1)
      BY <1>1, <1>2, <2>2, FileTimeAssumption
    <3>2. Converted(g, p) = Wrap((d % Longs) \div FILE_TIME_MULTIPLE, Longs)
      BY <1>5, <2>2 DEF Converted, Milliseconds
    <3> HIDE DEF d
    <3>3. /\ d % Longs \in 0..(Longs - 1)
          /\ d \in 0..(Longs - 1) => d % Longs = d
      BY <3>1, Remainder
    <3>4. PICK m \in Nat, x \in 0..(FILE_TIME_MULTIPLE - 1) :
             /\ m = (d % Longs) \div FILE_TIME_MULTIPLE
             /\ d % Longs = m * FILE_TIME_MULTIPLE + x /\ 2 * m <= d % Longs
      <4>1. FILE_TIME_MULTIPLE \in Nat \ {0, 1} /\ d % Longs \in Nat
        BY <3>3, FileTimeAssumption
      <4>. QED BY <4>1, Quotient
    <3>5. m \in 0..(l - 1) BY <1>1, <3>3, <3>4
    <3>6. m \in SignedValues(Longs) BY <1>1, <3>4, <3>5, WrapFits
    <3>7. Converted(g, p) = m BY <1>1, <3>2, <3>4, <3>6, WrapFits
    <3>8. p.number >= FILE_TIME_OFFSET => d = Converted(g, p) * FILE_TIME_MULTIPLE + x
      <4>1. p.number >= FILE_TIME_OFFSET => d % Longs = d BY <3>1, <3>3
      <4>. QED BY <3>4, <3>7, <4>1
    <3>. QED BY <1>5, <2>2, <3>6, <3>7, <3>8 DEF d
  <2>. QED BY <2>1, <2>2
<1>. QED BY <1>3, <1>4, <1>5 DEF Getters

\* The type that is reported names the getter that takes the property, and no other.
LEMMA TypeTakes ==
  ASSUME NEW p \in Properties, NEW g \in Getters
  PROVE  Takes(g, p) <=> g = VarTypeToPropType(p.vt)
BY PropertyFacts DEF Takes, VarTypeToPropType, Getters, IntCases, IntTypes, LongTypes

-----------------------------------------------------------------------------

\* The halves of a wide character are jchars.
LEMMA Halves ==
  ASSUME NEW c \in 1..(Ints - 1)
  PROVE  c % Chars \in 0..(Chars - 1) /\ c \div Chars \in 0..(Chars - 1)
<1>1. PICK m \in Nat : m = Chars /\ m >= 2
  <2>1. PICK b, e, j, l \in Nat \ {0} :
           /\ Bytes = 2 * b /\ Chars = 2 * e /\ Ints = 2 * j /\ Longs = 2 * l
           /\ Bytes < Chars /\ Chars < Ints /\ Ints < Longs
    BY Sizes
  <2>. QED BY <2>1
<1>2. c \in Nat /\ c < m * m BY <1>1 DEF Ints
<1>3. m \in Nat \ {0} /\ m \in Nat \ {0, 1} BY <1>1
<1>4. c % m \in 0..(m - 1) BY <1>2, <1>3, Remainder
<1>5. PICK q \in Nat, x \in 0..(m - 1) : q = c \div m /\ c = q * m + x BY <1>2, <1>3, Quotient
<1>6. q < m
  <2>1. SUFFICES ASSUME q >= m PROVE FALSE BY <1>1, <1>5
  <2>2. q * m = m * m + (q - m) * m /\ q - m \in Nat BY <1>1, <2>1
  <2>3. (q - m) * m \in Nat BY <1>1, <2>2
  <2>. QED BY <1>1, <1>2, <1>5, <2>2, <2>3
<1>. QED BY <1>1, <1>4, <1>5, <1>6

\* What the buffer of a BSTR holds.
LEMMA LayoutHolds ==
  ASSUME NEW s \in Seq(1..(Ints - 1))
  PROVE  /\ Layout(s) \in [0..(2 * Len(s) + 1) -> 0..(Chars - 1)]
         /\ \A k \in 0..(Len(s) - 1) : Layout(s)[2 * k] = s[k + 1] % Chars
<1>1. Len(s) \in Nat OBVIOUS
<1>2. ASSUME NEW h \in 0..(2 * Len(s) + 1) PROVE Layout(s)[h] \in 0..(Chars - 1)
  <2>1. /\ h \div 2 \in 0..Len(s)
        /\ h \div 2 # Len(s) => h \div 2 + 1 \in 1..Len(s)
    BY <1>1
  <2>2. CASE h \div 2 = Len(s)
    <3>1. Layout(s)[h] = 0 BY <2>2 DEF Layout
    <3>2. Chars \in Nat \ {0} BY Sizes
    <3>. QED BY <3>1, <3>2
  <2>3. CASE h \div 2 # Len(s)
    <3>3. s[h \div 2 + 1] \in 1..(Ints - 1) BY <2>1, <2>3, ElementOfSeq
    <3>1. PICK c \in 1..(Ints - 1) : c = s[h \div 2 + 1] BY <3>3
    <3>2. Layout(s)[h] = IF h % 2 = 0 THEN c % Chars ELSE c \div Chars
      BY <2>3, <3>1 DEF Layout
    <3>. QED BY <3>2, Halves
  <2>. QED BY <2>2, <2>3
<1>3. ASSUME NEW k \in 0..(Len(s) - 1) PROVE Layout(s)[2 * k] = s[k + 1] % Chars
  <2>1. /\ 2 * k \in 0..(2 * Len(s) + 1) /\ (2 * k) \div 2 = k /\ (2 * k) % 2 = 0 /\ k # Len(s)
    BY <1>1
  <2>. QED BY <2>1 DEF Layout
<1>4. Layout(s) = [h \in 0..(2 * Len(s) + 1) |-> Layout(s)[h]] BY DEF Layout
<1>. QED BY <1>2, <1>3, <1>4

\* The Java characters of a string.
JavaChars(s) == [k \in 1..Len(s) |-> s[k] % Chars]

\* While shrink runs, the characters before i are converted, and nothing from i on has
\* been touched.
Shrinking ==
  /\ i \in 0..Len(prop.text)
  /\ mem \in [0..(2 * Len(prop.text) + 1) -> 0..(Chars - 1)]
  /\ \A k \in 0..(i - 1) : mem[k] = prop.text[k + 1] % Chars
  /\ \A h \in i..(2 * Len(prop.text) + 1) : mem[h] = Layout(prop.text)[h]

\* Text t is string s, read with charset cs if it has bytes only.
Read(t, s, cs) ==
  /\ t.chars = JavaChars(s)
  /\ t.coding = IF cs = "set" /\ \A k \in 1..Len(t.chars) : t.chars[k] < Bytes
                THEN "charset" ELSE "utf-16"

\* The types, the type that was reported, and what was answered.
AnswerInv ==
  /\ TypeOK
  /\ pc \in {"ask", "shrink", "charset"} /\ ~failed => type = VarTypeToPropType(prop.vt)
  /\ pc \in {"shrink", "charset"} => open /\ getter = "STRING" /\ Takes("STRING", prop)
  /\ pc = "shrink" => Shrinking
  /\ pc = "charset" => text = [coding |-> "utf-16", chars |-> JavaChars(prop.text)]
  /\ pc = "done" /\ open /\ ~failed =>
       /\ type = VarTypeToPropType(prop.vt) /\ getter \in Getters
       /\ answered = "value" <=> Takes(getter, prop)
  /\ pc = "done" /\ answered = "value" =>
       /\ getter \in Getters /\ Takes(getter, prop)
       /\ getter # "STRING" => number = Converted(getter, prop)
       /\ getter = "STRING" => Read(text, prop.text, charset)

\* The Java characters are jchars.
LEMMA JavaCharsType ==
  ASSUME prop \in Properties
  PROVE  /\ JavaChars(prop.text) \in Seq(0..(Chars - 1))
         /\ Len(JavaChars(prop.text)) = Len(prop.text)
         /\ Len(prop.text) \in Nat
<1>1. prop.text \in Seq(1..(Ints - 1)) BY PropertyFacts
<1>2. \A k \in 1..Len(prop.text) : prop.text[k] \in 1..(Ints - 1) BY <1>1, ElementOfSeq
<1>3. \A k \in 1..Len(prop.text) : prop.text[k] % Chars \in 0..(Chars - 1) BY <1>2, Halves
<1>. QED BY <1>1, <1>3 DEF JavaChars

\* It holds before the first call ...
LEMMA InitAnswer == Init => AnswerInv
<1> SUFFICES ASSUME Init PROVE AnswerInv OBVIOUS
<1>1. Len(prop.text) \in Nat BY JavaCharsType DEF Init
<1>2. 0 \in SignedValues(Longs)
  <2>1. PICK b, c, j, l \in Nat \ {0} :
           /\ Bytes = 2 * b /\ Chars = 2 * c /\ Ints = 2 * j /\ Longs = 2 * l
           /\ Bytes < Chars /\ Chars < Ints /\ Ints < Longs
    BY Sizes
  <2>2. SignedValues(Longs) = (-l)..(l - 1) BY <2>1, WrapFits
  <2>. QED BY <2>1, <2>2
<1>3. << >> \in Seq(0..(Chars - 1)) OBVIOUS
<1>4. /\ prop \in Properties /\ charset \in {"null", "set"} /\ open = TRUE /\ pc = "type"
      /\ type = "UNKNOWN" /\ getter = "none" /\ i = 0 /\ answered = "nothing" /\ number = 0
      /\ failed = FALSE
  BY DEF Init
<1>5. text.coding = "none" /\ text.chars = << >> BY DEF Init, NoText
<1>6. /\ i \in 0..Len(prop.text) /\ number \in SignedValues(Longs)
      /\ text.coding \in {"none", "utf-16", "charset"} /\ text.chars \in Seq(0..(Chars - 1))
  BY <1>1, <1>2, <1>3, <1>4, <1>5
<1>7. TypeOK BY <1>4, <1>6 DEF TypeOK
<1>. QED BY <1>4, <1>7 DEF AnswerInv

\* ... each round of shrink converts a character ...
LEMMA ShrinkStep ==
  ASSUME prop \in Properties, Shrinking, ShrinkChar
  PROVE  Shrinking'
<1> DEFINE n == Len(prop.text)
<1>1. /\ prop' = prop /\ i < n /\ i' = i + 1 /\ mem' = [mem EXCEPT ![i] = mem[2 * i]]
  BY DEF ShrinkChar, MoreChars, Source
<1>2. /\ n \in Nat /\ i \in 0..n /\ mem \in [0..(2 * n + 1) -> 0..(Chars - 1)]
      /\ \A k \in 0..(i - 1) : mem[k] = prop.text[k + 1] % Chars
      /\ \A h \in i..(2 * n + 1) : mem[h] = Layout(prop.text)[h]
  BY JavaCharsType DEF Shrinking
<1>3. mem[2 * i] = prop.text[i + 1] % Chars
  <2>1. 2 * i \in i..(2 * n + 1) /\ i \in 0..(n - 1) BY <1>1, <1>2
  <2>2. Layout(prop.text)[2 * i] = prop.text[i + 1] % Chars BY <2>1, PropertyFacts, LayoutHolds
  <2>. QED BY <1>2, <2>1, <2>2
<1> HIDE DEF n
<1>4. mem[2 * i] \in 0..(Chars - 1) /\ i \in 0..(2 * n + 1)
  <2>1. 2 * i \in 0..(2 * n + 1) /\ i \in 0..(2 * n + 1) BY <1>1, <1>2
  <2>. QED BY <1>2, <2>1
<1>5. mem' \in [0..(2 * n + 1) -> 0..(Chars - 1)] BY <1>1, <1>2, <1>4
<1>6. \A k \in 0..(i' - 1) : mem'[k] = prop.text[k + 1] % Chars
  <2>1. ASSUME NEW k \in 0..(i' - 1) PROVE mem'[k] = prop.text[k + 1] % Chars
    <3>1. k \in 0..(2 * n + 1) /\ (k = i \/ k \in 0..(i - 1)) BY <1>1, <1>2
    <3>. QED BY <1>1, <1>2, <1>3, <3>1
  <2>. QED BY <2>1
<1>7. \A h \in i'..(2 * n + 1) : mem'[h] = Layout(prop.text)[h]
  <2>1. ASSUME NEW h \in i'..(2 * n + 1) PROVE mem'[h] = Layout(prop.text)[h]
    <3>1. h \in 0..(2 * n + 1) /\ h # i /\ h \in i..(2 * n + 1) BY <1>1, <1>2
    <3>. QED BY <1>1, <1>2, <3>1
  <2>. QED BY <2>1
<1>8. i' \in 0..n BY <1>1, <1>2
<1>. QED BY <1>1, <1>5, <1>6, <1>7, <1>8 DEF Shrinking, n

\* ... and NewString finds them all.
LEMMA ShrinkEnds ==
  ASSUME prop \in Properties, Shrinking, NewString
  PROVE  text' = [coding |-> "utf-16", chars |-> JavaChars(prop.text)]
<1> DEFINE n == Len(prop.text)
<1>1. /\ ~(i < n) /\ mem' = [mem EXCEPT ![n] = 0]
      /\ text' = [coding |-> "utf-16", chars |-> [k \in 1..n |-> mem'[k - 1]]]
  BY DEF NewString, MoreChars
<1>2. /\ n \in Nat /\ i \in 0..n /\ mem \in [0..(2 * n + 1) -> 0..(Chars - 1)]
      /\ \A k \in 0..(i - 1) : mem[k] = prop.text[k + 1] % Chars
  BY JavaCharsType DEF Shrinking
<1>3. JavaChars(prop.text) = [k \in 1..n |-> prop.text[k] % Chars] BY DEF JavaChars
<1> HIDE DEF n
<1>4. ASSUME NEW k \in 1..n PROVE mem'[k - 1] = prop.text[k] % Chars
  <2>1. k - 1 \in 0..(2 * n + 1) /\ k - 1 # n /\ k - 1 \in 0..(i - 1) /\ (k - 1) + 1 = k
    BY <1>1, <1>2
  <2>. QED BY <1>1, <1>2, <2>1
<1>5. [k \in 1..n |-> mem'[k - 1]] = JavaChars(prop.text) BY <1>3, <1>4
<1>. QED BY <1>1, <1>5

\* Every call and every step of one keeps it.
LEMMA NextAnswer == AnswerInv /\ [Next]_vars => AnswerInv'
<1> SUFFICES ASSUME AnswerInv, [Next]_vars PROVE AnswerInv' OBVIOUS
<1>1. /\ prop \in Properties /\ charset \in {"null", "set"} /\ open \in BOOLEAN
      /\ pc \in {"type", "ask", "shrink", "charset", "done"}
      /\ type \in Getters \cup {"EMPTY", "UNKNOWN"} /\ getter \in Getters \cup {"none"}
      /\ i \in 0..Len(prop.text)
      /\ pc = "shrink" => Shrinking
      /\ answered \in {"nothing", "value", "default", "threw"}
      /\ number \in SignedValues(Longs)
      /\ text.coding \in {"none", "utf-16", "charset"} /\ text.chars \in Seq(0..(Chars - 1))
      /\ failed \in BOOLEAN
  BY DEF AnswerInv, TypeOK
<1>2. /\ VarTypeToPropType(prop.vt) \in Getters \cup {"EMPTY", "UNKNOWN"}
      /\ Len(prop.text) \in Nat
      /\ JavaChars(prop.text) \in Seq(0..(Chars - 1))
  BY <1>1, JavaCharsType DEF VarTypeToPropType, Getters
\* What has to be shown of a step.
<1>3. SUFFICES
        /\ prop' = prop /\ charset' = charset /\ open' \in BOOLEAN
        /\ pc' \in {"type", "ask", "shrink", "charset", "done"}
        /\ type' \in Getters \cup {"EMPTY", "UNKNOWN"} /\ getter' \in Getters \cup {"none"}
        /\ i' \in 0..Len(prop.text)
        /\ answered' \in {"nothing", "value", "default", "threw"}
        /\ number' \in SignedValues(Longs)
        /\ text'.coding \in {"none", "utf-16", "charset"} /\ text'.chars \in Seq(0..(Chars - 1))
        /\ failed' \in BOOLEAN
        /\ pc' \in {"ask", "shrink", "charset"} /\ ~failed' => type' = VarTypeToPropType(prop.vt)
        /\ pc' \in {"shrink", "charset"} => open' /\ getter' = "STRING" /\ Takes("STRING", prop)
        /\ pc' = "shrink" => Shrinking'
        /\ pc' = "charset" => text' = [coding |-> "utf-16", chars |-> JavaChars(prop.text)]
        /\ pc' = "done" /\ open' /\ ~failed' =>
             /\ type' = VarTypeToPropType(prop.vt) /\ getter' \in Getters
             /\ answered' = "value" <=> Takes(getter', prop)
        /\ pc' = "done" /\ answered' = "value" =>
             /\ getter' \in Getters /\ Takes(getter', prop)
             /\ getter' # "STRING" => number' = Converted(getter', prop)
             /\ getter' = "STRING" => Read(text', prop.text, charset)
  <2>1. pc' = "shrink" => mem' \in [0..(2 * Len(prop.text) + 1) -> 0..(Chars - 1)]
    BY <1>3 DEF Shrinking
  <2>2. TypeOK' BY <1>1, <1>3, <2>1 DEF TypeOK
  <2>. QED BY <1>3, <2>2 DEF AnswerInv
<1>4. CASE Close BY <1>1, <1>4 DEF Close, AnswerInv
<1>5. CASE Throw BY <1>1, <1>5 DEF Throw, Checked, AnswerInv
<1>6. CASE GetPropertyType BY <1>1, <1>2, <1>6 DEF GetPropertyType, AnswerInv
<1>7. CASE \E g \in Getters : GetDefault(g)
  <2>1. PICK g \in Getters : GetDefault(g) BY <1>7
  <2>2. /\ pc = "ask" /\ open /\ pc' = "done" /\ getter' = g /\ answered' = "default"
        /\ UNCHANGED <<prop, charset, open, type, i, mem, number, text>>
        /\ (~Takes(g, prop) /\ failed' = failed) \/ failed' = TRUE
    BY <2>1 DEF GetDefault, Checked
  <2>3. CASE failed' = TRUE BY <1>1, <2>2, <2>3
  <2>4. CASE ~Takes(g, prop) /\ failed' = failed BY <1>1, <2>2, <2>4 DEF AnswerInv
  <2>. QED BY <2>2, <2>3, <2>4
<1>8. CASE \E g \in Getters : GetNumber(g)
  <2>1. PICK g \in Getters : GetNumber(g) BY <1>8
  <2>2. /\ pc = "ask" /\ g # "STRING" /\ Takes(g, prop) /\ pc' = "done" /\ getter' = g
        /\ answered' = "value" /\ number' = Converted(g, prop)
        /\ UNCHANGED <<prop, charset, open, type, i, mem, text, failed>>
    BY <2>1 DEF GetNumber
  <2>3. Converted(g, prop) \in SignedValues(Longs) BY <1>1, <2>2, ConvertedNumber
  <2>. QED BY <1>1, <2>2, <2>3 DEF AnswerInv
<1>9. CASE GetString
  <2>1. /\ pc = "ask" /\ open /\ Takes("STRING", prop) /\ pc' = "shrink" /\ getter' = "STRING"
        /\ i' = 0 /\ mem' = Layout(prop.text)
        /\ UNCHANGED <<prop, charset, open, type, answered, number, text, failed>>
    BY <1>9 DEF GetString, Checked
  <2>2. Layout(prop.text) \in [0..(2 * Len(prop.text) + 1) -> 0..(Chars - 1)]
    BY <1>1, PropertyFacts, LayoutHolds
  <2>3. Shrinking' BY <1>2, <2>1, <2>2 DEF Shrinking
  <2>. QED BY <1>1, <1>2, <2>1, <2>3 DEF AnswerInv, Getters
<1>10. CASE ShrinkChar
  <2>1. Shrinking' BY <1>1, <1>10, ShrinkStep DEF ShrinkChar
  <2>2. i' \in 0..Len(prop.text) BY <1>10, <2>1 DEF Shrinking, ShrinkChar
  <2>. QED BY <1>1, <1>10, <2>1, <2>2 DEF ShrinkChar, AnswerInv
<1>11. CASE NewString
  <2>1. text' = [coding |-> "utf-16", chars |-> JavaChars(prop.text)]
    BY <1>1, <1>11, ShrinkEnds DEF NewString
  <2>2. /\ pc = "shrink" /\ pc' = "charset"
        /\ UNCHANGED <<prop, charset, open, type, getter, i, answered, number, failed>>
    BY <1>11 DEF NewString
  <2>. QED BY <1>1, <1>2, <2>1, <2>2 DEF AnswerInv
<1>12. CASE NewStringFails BY <1>1, <1>12 DEF NewStringFails, AnswerInv
<1>13. CASE ApplyCharset
  <2>1. /\ pc = "charset" /\ pc' = "done" /\ answered' = "value"
        /\ text = [coding |-> "utf-16", chars |-> JavaChars(prop.text)]
        /\ UNCHANGED <<prop, charset, open, type, getter, i, mem, number, failed>>
    BY <1>13 DEF ApplyCharset, AnswerInv
  <2>2. text.coding = "utf-16" /\ text.chars = JavaChars(prop.text) BY <2>1
  <2>3. /\ text'.chars = JavaChars(prop.text)
        /\ text'.coding = IF charset = "set" /\ \A k \in 1..Len(text.chars) : text.chars[k] < Bytes
                          THEN "charset" ELSE "utf-16"
    BY <1>13, <2>1 DEF ApplyCharset
  <2>4. Read(text', prop.text, charset) BY <2>2, <2>3 DEF Read
  <2>. QED BY <1>1, <1>2, <2>1, <2>3, <2>4 DEF AnswerInv, Getters
<1>14. CASE UNCHANGED vars
  <2>1. Shrinking => Shrinking' BY <1>14 DEF vars, Shrinking
  <2>. QED BY <1>1, <1>14, <2>1 DEF vars, AnswerInv
<1>. QED BY <1>4, <1>5, <1>6, <1>7, <1>8, <1>9, <1>10, <1>11, <1>12, <1>13, <1>14 DEF Next

-----------------------------------------------------------------------------

\* What is known of the answers, in every state.
THEOREM AnswerInvariance == Spec => []AnswerInv
BY InitAnswer, NextAnswer, PTL DEF Spec

\* The types alone.
THEOREM TypeCorrect == Spec => []TypeOK
<1>1. AnswerInv => TypeOK BY DEF AnswerInv
<1>. QED BY <1>1, AnswerInvariance, PTL

\* The getter of the type that was reported, and no other, answers with the value.
THEOREM TypeNamesTheGetterHolds == Spec => []TypeNamesTheGetter
<1>1. AnswerInv => TypeNamesTheGetter
  <2>1. SUFFICES ASSUME AnswerInv, pc = "done", open, ~failed
                 PROVE  answered = "value" <=> getter = type
    BY DEF TypeNamesTheGetter
  <2>2. /\ prop \in Properties /\ type = VarTypeToPropType(prop.vt) /\ getter \in Getters
        /\ answered = "value" <=> Takes(getter, prop)
    BY <2>1 DEF AnswerInv, TypeOK
  <2>. QED BY <2>2, TypeTakes
<1>. QED BY <1>1, AnswerInvariance, PTL

\* A number that its Java type can hold arrives unchanged, and a FILETIME in milliseconds.
THEOREM NumbersAreExactHolds == Spec => []NumbersAreExact
<1>1. AnswerInv => NumbersAreExact
  <2>1. SUFFICES ASSUME AnswerInv, pc = "done", answered = "value" PROVE NumbersAreExact
    BY DEF NumbersAreExact
  <2>2. /\ prop \in Properties /\ getter \in Getters /\ Takes(getter, prop)
        /\ getter # "STRING" => number = Converted(getter, prop)
    BY <2>1 DEF AnswerInv, TypeOK
  <2>3. CASE getter = "STRING"
    <3>1. prop.vt # "VT_FILETIME" BY <2>2, <2>3 DEF Takes
    <3>. QED BY <2>3, <3>1 DEF NumbersAreExact
  <2>4. CASE getter # "STRING"
    <3>1. number = Converted(getter, prop) /\ getter \in Getters \ {"STRING"} BY <2>2, <2>4
    <3>2. /\ getter = "INT" /\ prop.number \in SignedValues(Ints) => number = prop.number
          /\ getter = "LONG" /\ prop.vt # "VT_FILETIME" /\ prop.number \in SignedValues(Longs) =>
               number = prop.number
          /\ prop.vt = "VT_FILETIME" /\ prop.number >= FILE_TIME_OFFSET =>
               \E rest \in 0..(FILE_TIME_MULTIPLE - 1) :
                 prop.number - FILE_TIME_OFFSET = number * FILE_TIME_MULTIPLE + rest
      BY <2>2, <3>1, ConvertedNumber
    <3>. QED BY <3>2, Zenon DEF NumbersAreExact
  <2>. QED BY <2>3, <2>4
<1>. QED BY <1>1, AnswerInvariance, PTL

\* A string of 2-byte characters arrives as it is, and is decoded only if it is bytes.
THEOREM TextIsFaithfulHolds == Spec => []TextIsFaithful
<1>1. AnswerInv => TextIsFaithful
  <2>1. SUFFICES ASSUME AnswerInv, pc = "done", answered = "value", getter = "STRING",
                        \A k \in 1..Len(prop.text) : prop.text[k] < Chars
                 PROVE  /\ text.chars = prop.text
                        /\ text.coding = "charset" <=>
                             charset = "set" /\ \A k \in 1..Len(prop.text) : prop.text[k] < Bytes
    BY DEF TextIsFaithful
  <2>2. prop \in Properties /\ Read(text, prop.text, charset) BY <2>1 DEF AnswerInv, TypeOK
  <2>3. prop.text \in Seq(1..(Ints - 1)) BY <2>2, PropertyFacts
  <2>4. ASSUME NEW k \in 1..Len(prop.text) PROVE prop.text[k] % Chars = prop.text[k]
    <3>1. prop.text[k] \in 1..(Ints - 1) BY <2>3, ElementOfSeq
    <3>2. Chars \in Nat \ {0} BY Sizes
    <3>3. prop.text[k] \in 0..(Chars - 1) BY <2>1, <3>1, <3>2
    <3>4. PICK c \in 0..(Chars - 1) : c = prop.text[k] BY <3>3
    <3>5. c % Chars = c
      <4>1. c \in Int BY <3>2
      <4>. QED BY <3>2, <4>1, Remainder
    <3>. QED BY <3>4, <3>5, Zenon
  <2>5. JavaChars(prop.text) = prop.text
    <3>1. JavaChars(prop.text) = [k \in 1..Len(prop.text) |-> prop.text[k]]
      BY <2>4 DEF JavaChars
    <3>. QED BY <2>3, <3>1
  <2>6. text.chars = prop.text BY <2>2, <2>5 DEF Read
  <2>. QED BY <2>2, <2>6, Zenon DEF Read
<1>. QED BY <1>1, AnswerInvariance, PTL

\* Nothing is answered over a closed archive.
THEOREM AnswersOnlyWhileOpenHolds == Spec => AnswersOnlyWhileOpen
<1> DEFINE A == (answered' # answered /\ answered' # "threw") \/ type' # type => open
<1>1. AnswerInv /\ [Next]_vars => [A]_vars
  <2> SUFFICES ASSUME AnswerInv, Next PROVE A OBVIOUS
  <2>1. pc \in {"shrink", "charset"} => open BY DEF AnswerInv
  <2>. QED BY <2>1
     DEF Next, Close, Throw, GetPropertyType, GetDefault, GetNumber, GetString, ShrinkChar,
         NewString, NewStringFails, ApplyCharset, Checked
<1>2. Spec => [][A]_vars BY <1>1, AnswerInvariance, PTL DEF Spec
<1>. QED BY <1>2 DEF AnswersOnlyWhileOpen

=============================================================================
