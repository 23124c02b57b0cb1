---------------------------- MODULE Keymap_proofs -----------------------------
(* What /etc/keymap holds, for any number of keymap(1) processes.           *)
EXTENDS Keymap, SequenceTheorems, TLAPS

Ends == {EndLine, Hole}
Content == Seq(Byte)
Stored == Content \cup {NoFile}

----------------------------------------------------------------------------
(* ir0_keymap_parse *)

\* The word read is what is before the first end of a line or of a string.
LEMMA FirstWord ==
    ASSUME NEW bytes \in Content, NEW k \in 1..Len(bytes), bytes[k] \in Ends,
           \A i \in 1..(k - 1) : bytes[i] \notin Ends
    PROVE  LET word == SubSeq(bytes, 1, k - 1)
           IN  Parsed(bytes) = IF word = Text("us") THEN "us"
                               ELSE IF word \in {Text("latam"), <<"l", "a">>} THEN "latam"
                               ELSE "none"
<1> DEFINE ends == {i \in DOMAIN bytes : bytes[i] \in Ends}
           first == CHOOSE i \in ends : \A j \in ends : i <= j
<1>1. DOMAIN bytes = 1..Len(bytes) /\ Len(bytes) \in Nat
  BY DEF Content
<1>2. k \in ends /\ \A j \in ends : k <= j
  BY <1>1
<1>3. first = k
  <2>1. first \in ends /\ \A j \in ends : first <= j
    BY <1>2
  <2>2. first \in Nat /\ k \in Nat /\ first <= k /\ k <= first
    BY <1>1, <1>2, <2>1
  <2> QED
    BY <2>2
<1>4. ends # {}
  BY <1>2
<1> QED
  BY <1>3, <1>4 DEF Parsed, Ends

\* A file begins with the word its bytes spell.
LEMMA Begins ==
    ASSUME NEW bytes \in Content, NEW word \in Content, Len(word) <= Len(bytes),
           \A i \in 1..Len(word) : bytes[i] = word[i]
    PROVE  SubSeq(bytes, 1, Len(word)) = word
<1>1. Len(word) \in Nat /\ Len(bytes) \in Nat
  BY DEF Content
<1>2. \A i \in 1..Len(word) : bytes[i] \in Byte /\ i = 1 + i - 1
  BY <1>1 DEF Content
<1>3. /\ SubSeq(bytes, 1, Len(word)) \in Seq(Byte)
      /\ Len(SubSeq(bytes, 1, Len(word))) = Len(word)
      /\ \A i \in 1..Len(word) : SubSeq(bytes, 1, Len(word))[i] = bytes[i]
  BY <1>1, <1>2, SubSeqProperties
<1> QED
  BY <1>3, SeqEqual DEF Content

\* A file that starts with a name, short or long, and the end of its line is read
\* as the layout of that name.
LEMMA UsParsed ==
    ASSUME NEW bytes \in Content, Len(bytes) >= 3,
           bytes[1] = "u", bytes[2] = "s", bytes[3] = EndLine
    PROVE  Parsed(bytes) = "us"
<1>1. 3 \in 1..Len(bytes) /\ \A i \in 1..(3 - 1) : bytes[i] \notin Ends
  BY DEF Content, Ends, EndLine, Hole
<1>2. SubSeq(bytes, 1, 3 - 1) = <<"u", "s">>
  <2> DEFINE word == <<"u", "s">>
  <2>1. /\ word \in Content /\ Len(word) = 2
        /\ \A i \in 1..2 : bytes[i] = word[i]
    BY DEF Content, Byte
  <2> HIDE DEF word
  <2>2. Len(bytes) \in Nat /\ Len(word) <= Len(bytes)
    BY <2>1 DEF Content
  <2>3. SubSeq(bytes, 1, Len(word)) = word
    BY <2>1, <2>2, Begins
  <2> QED
    BY <2>1, <2>3 DEF word
<1> QED
  BY <1>1, <1>2, FirstWord DEF Ends, Text

LEMMA LatamParsed ==
    ASSUME NEW bytes \in Content, Len(bytes) >= 6,
           bytes[1] = "l", bytes[2] = "a", bytes[3] \in {"t", EndLine}, bytes[4] = "a",
           bytes[5] = "m", bytes[6] = EndLine
    PROVE  Parsed(bytes) = "latam"
<1>1. CASE bytes[3] = EndLine
  <2>1. 3 \in 1..Len(bytes) /\ \A i \in 1..(3 - 1) : bytes[i] \notin Ends
    BY DEF Content, Ends, EndLine, Hole
  <2>2. SubSeq(bytes, 1, 3 - 1) = <<"l", "a">>
    <3> DEFINE word == <<"l", "a">>
    <3>1. /\ word \in Content /\ Len(word) = 2
          /\ \A i \in 1..2 : bytes[i] = word[i]
      BY DEF Content, Byte
    <3> HIDE DEF word
    <3>2. Len(bytes) \in Nat /\ Len(word) <= Len(bytes)
      BY <3>1 DEF Content
    <3>3. SubSeq(bytes, 1, Len(word)) = word
      BY <3>1, <3>2, Begins
    <3> QED
      BY <3>1, <3>3 DEF word
  <2>3. <<"l", "a">> # <<"u", "s">>
    OBVIOUS
  <2> QED
    BY <1>1, <2>1, <2>2, <2>3, FirstWord DEF Ends, Text
<1>2. CASE bytes[3] = "t"
  <2>1. 6 \in 1..Len(bytes) /\ \A i \in 1..(6 - 1) : bytes[i] \notin Ends
    BY <1>2 DEF Content, Ends, EndLine, Hole
  <2>2. SubSeq(bytes, 1, 6 - 1) = <<"l", "a", "t", "a", "m">>
    <3> DEFINE word == <<"l", "a", "t", "a", "m">>
    <3>1. /\ word \in Content /\ Len(word) = 5
          /\ \A i \in 1..5 : bytes[i] = word[i]
      BY <1>2 DEF Content, Byte
    <3> HIDE DEF word
    <3>2. Len(bytes) \in Nat /\ Len(word) <= Len(bytes)
      BY <3>1 DEF Content
    <3>3. SubSeq(bytes, 1, Len(word)) = word
      BY <3>1, <3>2, Begins
    <3> QED
      BY <3>1, <3>3 DEF word
  <2>3. <<"l", "a", "t", "a", "m">> # <<"u", "s">>
    OBVIOUS
  <2> QED
    BY <2>1, <2>2, <2>3, FirstWord DEF Ends, Text
<1> QED
  BY <1>1, <1>2

\* What is read is a layout or nothing.
LEMMA ParsedType == ASSUME NEW bytes PROVE Parsed(bytes) \in Layout \cup {"none"}
BY DEF Parsed, Layout

----------------------------------------------------------------------------
(* write(2) *)

\* A write keeps what is before and behind its bytes.
LEMMA OverBytes ==
    ASSUME NEW old \in Content, NEW n \in Nat, NEW bytes \in Content
    PROVE  /\ Over(old, n, bytes) \in Content
           /\ Len(Over(old, n, bytes)) >= Len(old)
           /\ Len(Over(old, n, bytes)) >= n + Len(bytes)
           /\ \A i \in 1..Len(bytes) : Over(old, n, bytes)[n + i] = bytes[i]
           /\ \A i \in 1..Len(old) : i \notin (n + 1)..(n + Len(bytes))
                                      => Over(old, n, bytes)[i] = old[i]
<1> DEFINE len == IF Len(old) > n + Len(bytes) THEN Len(old) ELSE n + Len(bytes)
           new == Over(old, n, bytes)
<1>1. Len(old) \in Nat /\ Len(bytes) \in Nat /\ len \in Nat
  BY DEF Content
<1>2. new = [i \in 1..len |-> IF i \in (n + 1)..(n + Len(bytes)) THEN bytes[i - n]
                             ELSE IF i <= Len(old) THEN old[i] ELSE Hole]
  BY DEF Over
<1>3. \A i \in 1..len : new[i] \in Byte
  <2> SUFFICES ASSUME NEW i \in 1..len PROVE new[i] \in Byte
    OBVIOUS
  <2>1. CASE i \in (n + 1)..(n + Len(bytes))
    <3>1. i - n \in 1..Len(bytes)
      BY <1>1, <2>1
    <3> QED
      BY <1>2, <2>1, <3>1 DEF Content
  <2>2. CASE i \notin (n + 1)..(n + Len(bytes))
    BY <1>1, <1>2, <2>2 DEF Content, Byte
  <2> QED
    BY <2>1, <2>2
<1>4. new \in Content /\ Len(new) = len
  <2>1. new = [i \in 1..len |-> new[i]]
    BY <1>2
  <2> HIDE DEF new, len
  <2>2. new \in [1..len -> Byte]
    BY <1>3, <2>1
  <2> QED
    BY <1>1, <2>2 DEF Content
<1>5. len >= Len(old) /\ len >= n + Len(bytes)
  BY <1>1
<1>6. ASSUME NEW i \in 1..Len(bytes)
      PROVE  new[n + i] = bytes[i]
  <2>1. n + i \in 1..len /\ n + i \in (n + 1)..(n + Len(bytes)) /\ (n + i) - n = i
    BY <1>1, <1>5
  <2> QED
    BY <1>2, <2>1
<1>7. ASSUME NEW i \in 1..Len(old), i \notin (n + 1)..(n + Len(bytes))
      PROVE  new[i] = old[i]
  <2>1. i \in 1..len /\ i <= Len(old)
    BY <1>1, <1>5
  <2> QED
    BY <1>2, <1>7, <2>1
<1> HIDE DEF new, len
<1> QED
  BY <1>4, <1>5, <1>6, <1>7 DEF new
\* A write at the end of a file appends to it.
LEMMA OverEnd ==
    ASSUME NEW old \in Content, NEW bytes \in Content
    PROVE  Over(old, Len(old), bytes) = old \o bytes
<1> DEFINE new == Over(old, Len(old), bytes)
<1>1. Len(old) \in Nat /\ Len(bytes) \in Nat
  BY DEF Content
<1>2. new = [i \in 1..(Len(old) + Len(bytes)) |->
                IF i \in (Len(old) + 1)..(Len(old) + Len(bytes)) THEN bytes[i - Len(old)]
                ELSE IF i <= Len(old) THEN old[i] ELSE Hole]
  <2>1. ~ (Len(old) > Len(old) + Len(bytes)) \/ Len(bytes) = 0
    BY <1>1
  <2>2. (IF Len(old) > Len(old) + Len(bytes) THEN Len(old) ELSE Len(old) + Len(bytes))
          = Len(old) + Len(bytes)
    BY <1>1
  <2> QED
    BY <2>2 DEF Over
<1>3. /\ old \o bytes \in Content /\ Len(old \o bytes) = Len(old) + Len(bytes)
      /\ \A i \in 1..(Len(old) + Len(bytes)) :
            (old \o bytes)[i] = IF i <= Len(old) THEN old[i] ELSE bytes[i - Len(old)]
  BY ConcatProperties DEF Content
<1>4. new \in Content /\ Len(new) = Len(old) + Len(bytes)
  <2>1. new \in Content
    BY <1>1, OverBytes
  <2>2. DOMAIN new = 1..(Len(old) + Len(bytes))
    BY <1>2
  <2> QED
    BY <1>1, <2>1, <2>2, LenProperties DEF Content
<1>5. ASSUME NEW i \in 1..(Len(old) + Len(bytes))
      PROVE  new[i] = (old \o bytes)[i]
  BY <1>1, <1>2, <1>3
<1> HIDE DEF new
<1>6. new = old \o bytes
  BY <1>3, <1>4, <1>5, SeqEqual DEF Content
<1> QED
  BY <1>6 DEF new

\* What keymap(1) writes is the line of a layout.
LEMMA Lines ==
    /\ \A layout \in Layout : Text(layout) \in Content
    /\ <<>> \in Content /\ <<EndLine>> \in Content
    /\ Len(Text("us")) = 2 /\ Len(Text("latam")) = 5 /\ Len(<<EndLine>>) = 1
    /\ Text("us")[1] = "u" /\ Text("us")[2] = "s"
    /\ Text("latam")[1] = "l" /\ Text("latam")[2] = "a" /\ Text("latam")[3] = "t"
    /\ Text("latam")[4] = "a" /\ Text("latam")[5] = "m"
    /\ <<EndLine>>[1] = EndLine
BY DEF Text, Content, Byte, Layout, EndLine

LEMMA LineParsed ==
    ASSUME NEW layout \in Layout
    PROVE  /\ Text(layout) \o <<EndLine>> \in Content
           /\ Parsed(Text(layout) \o <<EndLine>>) = layout
<1> DEFINE text == Text(layout)
           bytes == text \o <<EndLine>>
<1>1. text \in Content /\ <<EndLine>> \in Content /\ Len(<<EndLine>>) = 1
  BY Lines
<1> HIDE DEF text
<1>2. /\ bytes \in Content /\ Len(bytes) = Len(text) + 1 /\ Len(text) \in Nat
      /\ \A i \in 1..(Len(text) + 1) :
            bytes[i] = IF i <= Len(text) THEN text[i] ELSE <<EndLine>>[i - Len(text)]
  BY <1>1, ConcatProperties, LenProperties DEF Content
<1> HIDE DEF bytes
<1>3. CASE layout = "us"
  <2>1. Len(text) = 2 /\ text[1] = "u" /\ text[2] = "s"
    BY <1>3, Lines DEF text
  <2>2. Len(bytes) >= 3 /\ bytes[1] = "u" /\ bytes[2] = "s" /\ bytes[3] = EndLine
    BY <1>2, <2>1, Lines
  <2> QED
    BY <1>2, <1>3, <2>2, UsParsed DEF bytes, text
<1>4. CASE layout = "latam"
  <2>1. /\ Len(text) = 5 /\ text[1] = "l" /\ text[2] = "a" /\ text[3] = "t"
        /\ text[4] = "a" /\ text[5] = "m"
    BY <1>4, Lines DEF text
  <2>2. /\ Len(bytes) >= 6 /\ bytes[1] = "l" /\ bytes[2] = "a" /\ bytes[3] = "t"
        /\ bytes[4] = "a" /\ bytes[5] = "m" /\ bytes[6] = EndLine
    BY <1>2, <2>1, Lines
  <2> QED
    BY <1>2, <1>4, <2>2, LatamParsed DEF bytes, text
<1> QED
  BY <1>3, <1>4 DEF Layout

----------------------------------------------------------------------------
(* Two writers of one file *)

\* The writes still to come to the file that has a name: how far its writers
\* are and what each of them writes.
Todo(name) == {<<pc[q], want[q]>> : q \in {q \in Proc : fd[q] = name}}

\* What the first bytes of a file are as soon as one writer has written its
\* name, whoever writes over it: a name that ends there, or a writer will end it.
\* The name may be "la": the end of the line of us, in that of latam.
UsLine(bytes, todo) ==
    /\ Len(bytes) >= 2 /\ bytes[1] = "u" /\ bytes[2] = "s"
    /\ (Len(bytes) >= 3 /\ bytes[3] = EndLine) \/ <<"newline", "us">> \in todo
LatamLine(bytes, todo) ==
    /\ Len(bytes) >= 5 /\ bytes[1] = "l" /\ bytes[2] = "a" /\ bytes[3] \in {"t", EndLine}
    /\ bytes[4] = "a" /\ bytes[5] = "m"
    /\ (Len(bytes) >= 6 /\ bytes[6] = EndLine) \/ <<"newline", "latam">> \in todo

\* A file will name a layout, unless a writer fails.
Heals(bytes, todo) ==
    \/ \E layout \in Layout : <<"name", layout>> \in todo
    \/ UsLine(bytes, todo) \/ LatamLine(bytes, todo)
    \/ todo = {} /\ Parsed(bytes) \in Layout

LEMMA NameHeals ==
    ASSUME NEW bytes \in Content, NEW layout \in Layout, NEW todo,
           <<"newline", layout>> \in todo
    PROVE  Heals(Over(bytes, 0, Text(layout)), todo)
<1> DEFINE text == Text(layout)
           new == Over(bytes, 0, text)
<1>1. text \in Content /\ 0 \in Nat
  BY Lines
<1> HIDE DEF text
<1>2. /\ new \in Content /\ Len(new) >= 0 + Len(text)
      /\ \A i \in 1..Len(text) : new[0 + i] = text[i]
  BY <1>1, OverBytes
<1> HIDE DEF new
<1>3. CASE layout = "us"
  <2>1. Len(text) = 2 /\ text[1] = "u" /\ text[2] = "s"
    BY <1>3, Lines DEF text
  <2>2. Len(new) >= 2 /\ new[0 + 1] = "u" /\ new[0 + 2] = "s"
    BY <1>2, <2>1
  <2>3. UsLine(new, todo)
    BY <1>3, <2>2 DEF UsLine
  <2> QED
    BY <2>3 DEF Heals, new, text
<1>4. CASE layout = "latam"
  <2>1. /\ Len(text) = 5 /\ text[1] = "l" /\ text[2] = "a" /\ text[3] = "t"
        /\ text[4] = "a" /\ text[5] = "m"
    BY <1>4, Lines DEF text
  <2>2. /\ Len(new) >= 5 /\ new[0 + 1] = "l" /\ new[0 + 2] = "a" /\ new[0 + 3] = "t"
        /\ new[0 + 4] = "a" /\ new[0 + 5] = "m"
    BY <1>2, <2>1
  <2>3. LatamLine(new, todo)
    BY <1>4, <2>2 DEF LatamLine
  <2> QED
    BY <2>3 DEF Heals, new, text
<1> QED
  BY <1>3, <1>4 DEF Layout

LEMMA EndHeals ==
    ASSUME NEW bytes \in Content, NEW layout \in Layout, NEW before, NEW after,
           Heals(bytes, before), <<"newline", layout>> \in before,
           before \ {<<"newline", layout>>} \subseteq after
    PROVE  Heals(Over(bytes, Len(Text(layout)), <<EndLine>>), after)
<1> DEFINE n == Len(Text(layout))
           end == <<EndLine>>
           new == Over(bytes, n, end)
<1>1. /\ end \in Content /\ Len(end) = 1 /\ end[1] = EndLine
      /\ layout = "us" => n = 2
      /\ layout = "latam" => n = 5
      /\ n \in Nat
  BY Lines DEF Layout
<1> HIDE DEF n, end
<1>2. /\ new \in Content /\ Len(new) >= Len(bytes) /\ Len(new) >= n + Len(end)
      /\ \A i \in 1..Len(end) : new[n + i] = end[i]
      /\ \A i \in 1..Len(bytes) : i \notin (n + 1)..(n + Len(end)) => new[i] = bytes[i]
  BY <1>1, OverBytes
<1>3. Len(bytes) \in Nat /\ Len(new) \in Nat
  BY <1>2, LenProperties DEF Content
<1> HIDE DEF new
<1>4. /\ Len(new) >= n + 1 /\ new[n + 1] = EndLine
      /\ \A i \in 1..Len(bytes) : i # n + 1 => new[i] = bytes[i]
  BY <1>1, <1>2, <1>3
<1>5. CASE \E l \in Layout : <<"name", l>> \in before
  <2>1. PICK l \in Layout : <<"name", l>> \in before
    BY <1>5
  <2>2. <<"name", l>> # <<"newline", layout>>
    OBVIOUS
  <2>3. <<"name", l>> \in after
    BY <2>1, <2>2
  <2> QED
    BY <2>3 DEF Heals, new, n, end
<1>6. CASE UsLine(bytes, before)
  <2>1. Len(bytes) >= 2 /\ bytes[1] = "u" /\ bytes[2] = "s"
    BY <1>6 DEF UsLine
  <2>2. Len(new) >= 2 /\ new[1] = "u" /\ new[2] = "s"
    BY <1>1, <1>2, <1>3, <1>4, <2>1 DEF Layout
  <2>3. (Len(new) >= 3 /\ new[3] = EndLine) \/ <<"newline", "us">> \in after
    <3>1. CASE layout = "us"
      BY <1>1, <1>4, <3>1
    <3>2. CASE layout = "latam" /\ Len(bytes) >= 3 /\ bytes[3] = EndLine
      BY <1>1, <1>2, <1>3, <1>4, <3>2
    <3>3. CASE layout = "latam" /\ <<"newline", "us">> \in before
      BY <3>3
    <3> QED
      BY <1>6, <3>1, <3>2, <3>3 DEF UsLine, Layout
  <2>4. UsLine(new, after)
    BY <2>2, <2>3 DEF UsLine
  <2> QED
    BY <2>4 DEF Heals, new, n, end
<1>7. CASE LatamLine(bytes, before)
  <2>1. /\ Len(bytes) >= 5 /\ bytes[1] = "l" /\ bytes[2] = "a" /\ bytes[3] \in {"t", EndLine}
        /\ bytes[4] = "a" /\ bytes[5] = "m"
    BY <1>7 DEF LatamLine
  <2>2. n = 2 \/ n = 5
    BY <1>1 DEF Layout
  <2>3. /\ Len(new) >= 5 /\ new[1] = "l" /\ new[2] = "a"
        /\ new[4] = "a" /\ new[5] = "m"
    <3>1. 1 # n + 1 /\ 2 # n + 1 /\ 4 # n + 1 /\ 5 # n + 1
      BY <2>2
    <3>2. {1, 2, 4, 5} \subseteq 1..Len(bytes)
      BY <1>3, <2>1
    <3>3. new[1] = bytes[1] /\ new[2] = bytes[2] /\ new[4] = bytes[4] /\ new[5] = bytes[5]
      BY <1>4, <3>1, <3>2
    <3> QED
      BY <1>2, <1>3, <2>1, <3>3
  <2>4. new[3] \in {"t", EndLine}
    <3>1. CASE n = 2
      BY <1>4, <3>1
    <3>2. CASE n = 5
      BY <1>3, <1>4, <2>1, <3>2
    <3> QED
      BY <2>2, <3>1, <3>2
  <2>5. (Len(new) >= 6 /\ new[6] = EndLine) \/ <<"newline", "latam">> \in after
    <3>1. CASE layout = "latam"
      BY <1>1, <1>4, <3>1
    <3>2. CASE layout = "us" /\ Len(bytes) >= 6 /\ bytes[6] = EndLine
      BY <1>1, <1>2, <1>3, <1>4, <3>2
    <3>3. CASE layout = "us" /\ <<"newline", "latam">> \in before
      BY <3>3
    <3> QED
      BY <1>7, <3>1, <3>2, <3>3 DEF LatamLine, Layout
  <2>6. LatamLine(new, after)
    BY <2>3, <2>4, <2>5 DEF LatamLine
  <2> QED
    BY <2>6 DEF Heals, new, n, end
<1> QED
  BY <1>5, <1>6, <1>7 DEF Heals

\* Once nobody writes to it any more, such a file names a layout.
LEMMA HealedParsed ==
    ASSUME NEW bytes \in Content, Heals(bytes, {})
    PROVE  Parsed(bytes) \in Layout
<1>1. CASE UsLine(bytes, {})
  BY <1>1, UsParsed DEF UsLine, Layout
<1>2. CASE LatamLine(bytes, {})
  BY <1>2, LatamParsed DEF LatamLine, Layout
<1> QED
  BY <1>1, <1>2 DEF Heals
----------------------------------------------------------------------------
(* Types *)

Labels == {"idle", "set", "open", "name", "newline", "rename"}

TypeOK ==
    /\ kernel \in Layout
    /\ file \in Stored /\ tmp \in Stored
    /\ pc \in [Proc \cup {Console} -> Labels \cup {"apply"}]
    /\ pc[Console] \in {"idle", "apply"}
    /\ \A p \in Proc : pc[p] \in Labels
    /\ want \in [Proc -> Layout]
    /\ fd \in [Proc -> {"tmp", "file", "gone", "none"}]
    /\ line \in Layout \cup {"none"}
    /\ ok \in BOOLEAN /\ together \in BOOLEAN /\ mixed \in BOOLEAN /\ hurt \in BOOLEAN

\* A file is open while it is written, and by the name of one that is there.
Descriptors ==
    \A p \in Proc :
        /\ fd[p] # "none" <=> pc[p] \in {"name", "newline"}
        /\ fd[p] = "tmp" => tmp # NoFile
        /\ fd[p] = "file" => file # NoFile

LEMMA InitType == Init => TypeOK /\ Descriptors
<1> SUFFICES ASSUME Init PROVE TypeOK /\ Descriptors
  OBVIOUS
<1>1. file \in Stored /\ tmp \in Stored
  BY KeymapAssumption DEF Init, Stored, Content
<1> QED
  BY <1>1 DEF Init, TypeOK, Descriptors, Labels, Layout

\* What a write leaves is a file.
LEMMA WritesType ==
    ASSUME TypeOK, Descriptors, NEW p \in Proc, NEW n \in Nat, NEW bytes \in Content,
           Writes(p, n, bytes)
    PROVE  /\ tmp' \in Stored /\ file' \in Stored
           /\ tmp # NoFile => tmp' # NoFile
           /\ file # NoFile => file' # NoFile
<1>1. NoFile \notin Content
  BY KeymapAssumption DEF Content
<1>2. fd[p] = "tmp" => tmp \in Content /\ Over(tmp, n, bytes) \in Content
  BY OverBytes DEF TypeOK, Descriptors, Stored
<1>3. fd[p] = "file" => file \in Content /\ Over(file, n, bytes) \in Content
  BY OverBytes DEF TypeOK, Descriptors, Stored
<1> QED
  BY <1>1, <1>2, <1>3 DEF Writes, TypeOK, Stored

LEMMA Lengths == \A layout \in Layout : Text(layout) \in Content /\ Len(Text(layout)) \in Nat
BY Lines DEF Layout

LEMMA NextType == TypeOK /\ Descriptors /\ [Next]_vars => TypeOK' /\ Descriptors'
<1> SUFFICES ASSUME TypeOK, Descriptors, [Next]_vars PROVE TypeOK' /\ Descriptors'
  OBVIOUS
<1> USE DEF TypeOK, Descriptors, Labels, filevars
<1>1. NoFile \notin Content /\ <<>> \in Content
  BY KeymapAssumption, Lines DEF Content
<1>2. Console \notin Proc
  BY KeymapAssumption
<1>3. ASSUME NEW p \in Proc, Start(p) PROVE TypeOK' /\ Descriptors'
  BY <1>2, <1>3 DEF Start, Starts, Goto
<1>4. ASSUME NEW p \in Proc, SetKernel(p) PROVE TypeOK' /\ Descriptors'
  BY <1>2, <1>4 DEF SetKernel, Goto
<1>5. ASSUME NEW p \in Proc, Open(p) PROVE TypeOK' /\ Descriptors'
  BY <1>1, <1>2, <1>5 DEF Open, Goto, Stored
<1>6. ASSUME NEW p \in Proc, WriteName(p) PROVE TypeOK' /\ Descriptors'
  <2>1. /\ tmp' \in Stored /\ file' \in Stored
        /\ tmp # NoFile => tmp' # NoFile
        /\ file # NoFile => file' # NoFile
    BY <1>6, Lengths, WritesType DEF WriteName
  <2> QED
    BY <1>2, <1>6, <2>1 DEF WriteName, Goto
<1>7. ASSUME NEW p \in Proc, WriteNewline(p) PROVE TypeOK' /\ Descriptors'
  <2>1. /\ tmp' \in Stored /\ file' \in Stored
        /\ tmp # NoFile => tmp' # NoFile
        /\ file # NoFile => file' # NoFile
    BY <1>7, Lengths, Lines, WritesType DEF WriteNewline
  <2> QED
    BY <1>2, <1>7, <2>1 DEF WriteNewline, Goto
<1>8. ASSUME NEW p \in Proc, Rename(p) PROVE TypeOK' /\ Descriptors'
  BY <1>2, <1>8 DEF Rename, Renamed, Goto, Stored
<1>9. ASSUME NEW p \in Proc, Fail(p) PROVE TypeOK' /\ Descriptors'
  <2>1. CASE pc[p] = "open"
    BY <1>2, <1>9, <2>1 DEF Fail, Goto
  <2>2. CASE pc[p] # "open"
    <3>1. Unlinked["tmp"] = "gone" /\ Unlinked["file"] = "file" /\ Unlinked["gone"] = "gone"
          /\ Unlinked["none"] = "none"
      BY DEF Unlinked, Renamed
    <3>2. /\ tmp' = NoFile /\ fd' = [q \in Proc |-> IF q = p THEN "none" ELSE Unlinked[fd[q]]]
          /\ pc' = [pc EXCEPT ![p] = "idle"]
          /\ ok' = FALSE /\ mixed' \in BOOLEAN /\ hurt' \in BOOLEAN
          /\ UNCHANGED <<kernel, file, want, line, together>>
      BY <1>9, <2>2 DEF Fail, Goto
    <3>3. fd' \in [Proc -> {"tmp", "file", "gone", "none"}]
      BY <3>1, <3>2
    <3>4. TypeOK'
      BY <1>2, <3>2, <3>3 DEF Stored
    <3>5. ASSUME NEW q \in Proc
          PROVE  /\ fd'[q] # "none" <=> pc'[q] \in {"name", "newline"}
                 /\ fd'[q] # "tmp"
                 /\ fd'[q] = "file" => file' # NoFile
      BY <1>2, <3>1, <3>2
    <3> QED
      BY <3>4, <3>5
  <2> QED
    BY <2>1, <2>2
<1>10. ASSUME NEW p \in Proc, Die(p) PROVE TypeOK' /\ Descriptors'
  BY <1>2, <1>10 DEF Die, Goto
<1>11. ASSUME ConsoleReads PROVE TypeOK' /\ Descriptors'
  BY <1>2, <1>11, ParsedType DEF ConsoleReads, Starts, Goto
<1>12. ASSUME ConsoleSets PROVE TypeOK' /\ Descriptors'
  BY <1>2, <1>12 DEF ConsoleSets, Goto
<1>13. CASE UNCHANGED vars
  BY <1>13 DEF vars
<1> QED
  BY <1>3, <1>4, <1>5, <1>6, <1>7, <1>8, <1>9, <1>10, <1>11, <1>12, <1>13 DEF Next
----------------------------------------------------------------------------
(* Writers that do not meet *)

\* The histories tell who can be beside whom.
OneWriter == ~ mixed => \A p, q \in Proc : Writing(p) /\ Writing(q) => p = q
OneRunner == ~ together => \A p, q \in DOMAIN pc : Running(p) /\ Running(q) => p = q

\* What is in the next file, at each place of the only one who writes it.
Written ==
    ~ mixed \/ ~ together =>
        \A p \in Proc :
            /\ pc[p] = "name" => fd[p] = "tmp" /\ tmp = <<>>
            /\ pc[p] = "newline" => fd[p] = "tmp" /\ tmp = Text(want[p])
            /\ pc[p] = "rename" => tmp = Text(want[p]) \o <<EndLine>>

\* The kernel is set before the file is written, and nothing moves after a
\* success.
SetBefore ==
    ~ together =>
        /\ \A p \in Proc : pc[p] = "open" \/ Writing(p) => kernel = want[p]
        /\ ok => Quiet /\ file # NoFile /\ Parsed(file) = kernel

Apart == OneWriter /\ OneRunner /\ Written /\ SetBefore /\ AlwaysALayout

LEMMA InitApart == Init => Apart
<1> SUFFICES ASSUME Init PROVE Apart
  OBVIOUS
<1>1. \A p \in DOMAIN pc : pc[p] = "idle"
  BY DEF Init
<1>2. Proc \subseteq DOMAIN pc
  BY DEF Init
<1>3. AlwaysALayout
  BY KeymapAssumption DEF Init, AlwaysALayout
<1> QED
  BY <1>1, <1>2, <1>3
  DEF Init, Apart, OneWriter, OneRunner, Written, SetBefore, Running, Writing

\* Every step is of one process: it starts and looks who is beside it, or it was
\* running, and the others stay where they are.
LEMMA NextHistories ==
    ASSUME TypeOK, Apart, [Next]_vars
    PROVE  OneWriter' /\ OneRunner'
<1> USE DEF TypeOK, Labels
<1> DEFINE Enters(p) == \E label \in Labels :
                            /\ Goto(p, label)
                            /\ Writing(p) \/ label \in {"idle", "set", "open", "name"}
<1>1. OneWriter /\ OneRunner /\ Console \notin Proc
  BY KeymapAssumption DEF Apart
<1>2. ASSUME NEW p \in Proc, Enters(p)
      PROVE  OneWriter'
  <2>1. PICK label \in Labels : Goto(p, label) /\ (Writing(p) \/ label \in {"idle", "set", "open", "name"})
    BY <1>2
  <2>2. CASE label = "name"
    BY <1>1, <2>1, <2>2 DEF Goto, OneWriter, Writing
  <2>3. CASE label # "name"
    <3>1. /\ mixed' <=> mixed
          /\ \A q \in Proc : Writing(q)' => Writing(q)
      BY <2>1, <2>3 DEF Goto, Writing
    <3> QED
      BY <1>1, <3>1 DEF OneWriter
  <2> QED
    BY <2>2, <2>3
<1>3. ASSUME NEW p \in Proc \cup {Console}, NEW label, Goto(p, label), Starts(p)
      PROVE  OneRunner'
  BY <1>3 DEF Goto, Starts, OneRunner, Running
<1>4. ASSUME NEW p \in Proc \cup {Console}, NEW label, Goto(p, label), Running(p),
             UNCHANGED together
      PROVE  OneRunner'
  BY <1>1, <1>4 DEF Goto, OneRunner, Running
<1>5. ASSUME NEW label, Goto(Console, label), label \in {"idle", "apply"}
      PROVE  OneWriter'
  BY <1>1, <1>5 DEF Goto, OneWriter, Writing
<1>6. ASSUME NEW p \in Proc, Start(p) PROVE OneWriter' /\ OneRunner'
  <2>1. Goto(p, "set") /\ Starts(p)
    BY <1>6 DEF Start
  <2> QED
    BY <1>2, <1>3, <2>1
<1>7. ASSUME NEW p \in Proc, SetKernel(p) PROVE OneWriter' /\ OneRunner'
  <2>1. Enters(p) /\ Running(p) /\ UNCHANGED together
    BY <1>7 DEF SetKernel, Running
  <2> QED
    BY <1>2, <1>4, <2>1
<1>8. ASSUME NEW p \in Proc, Open(p) PROVE OneWriter' /\ OneRunner'
  <2>1. Enters(p) /\ Running(p) /\ UNCHANGED together
    BY <1>8 DEF Open, Running
  <2> QED
    BY <1>2, <1>4, <2>1
<1>9. ASSUME NEW p \in Proc, WriteName(p) \/ WriteNewline(p) \/ Rename(p)
      PROVE OneWriter' /\ OneRunner'
  <2>1. Enters(p) /\ Running(p) /\ UNCHANGED together
    BY <1>9 DEF WriteName, WriteNewline, Rename, Running, Writing
  <2> QED
    BY <1>2, <1>4, <2>1
<1>10. ASSUME NEW p \in Proc, Fail(p) \/ Die(p) PROVE OneWriter' /\ OneRunner'
  <2>1. Enters(p) /\ Running(p) /\ UNCHANGED together
    BY <1>10 DEF Fail, Die, Running, Writing
  <2> QED
    BY <1>2, <1>4, <2>1
<1>11. ASSUME ConsoleReads PROVE OneWriter' /\ OneRunner'
  <2>1. Goto(Console, "apply") /\ Starts(Console)
    BY <1>11 DEF ConsoleReads
  <2> QED
    BY <1>3, <1>5, <2>1
<1>12. ASSUME ConsoleSets PROVE OneWriter' /\ OneRunner'
  <2>1. Goto(Console, "idle") /\ Running(Console) /\ UNCHANGED together
    BY <1>12 DEF ConsoleSets, Running
  <2> QED
    BY <1>4, <1>5, <2>1
<1>13. CASE UNCHANGED vars
  BY <1>1, <1>13 DEF vars, OneWriter, OneRunner, Writing, Running
<1> QED
  BY <1>6, <1>7, <1>8, <1>9, <1>10, <1>11, <1>12, <1>13 DEF Next

LEMMA NextWritten ==
    ASSUME TypeOK, Descriptors, Apart, [Next]_vars
    PROVE  Written' /\ AlwaysALayout'
<1> USE DEF TypeOK, Labels, filevars
<1>1. TypeOK' /\ OneWriter' /\ OneRunner'
  BY NextType, NextHistories
<1>2. OneWriter /\ OneRunner /\ Written /\ AlwaysALayout /\ Console \notin Proc
  BY KeymapAssumption DEF Apart
\* what follows for everyone but the one who takes the step
<1> DEFINE Same(q) == /\ fd'[q] = fd[q] /\ pc'[q] = pc[q] /\ want'[q] = want[q]
                      /\ tmp' = tmp
           Fits(q) == /\ pc'[q] = "name" => fd'[q] = "tmp" /\ tmp' = <<>>
                      /\ pc'[q] = "newline" => fd'[q] = "tmp" /\ tmp' = Text(want'[q])
                      /\ pc'[q] = "rename" => tmp' = Text(want'[q]) \o <<EndLine>>
<1>3. ASSUME ~ mixed \/ ~ together, NEW q \in Proc, Same(q)
      PROVE  Fits(q)
  BY <1>2, <1>3 DEF Written
<1>4. ASSUME ~ mixed' \/ ~ together' => \A q \in Proc : Fits(q)
      PROVE  Written'
  BY <1>4 DEF Written
<1> HIDE DEF Fits
<1>5. ASSUME NEW p \in Proc, Start(p) PROVE Written' /\ AlwaysALayout'
  <2>1. pc' = [pc EXCEPT ![p] = "set"] /\ (mixed' <=> mixed) /\ UNCHANGED <<file, tmp, fd>>
    BY <1>5 DEF Start, Goto
  <2>2. ASSUME ~ mixed' \/ ~ together', NEW q \in Proc PROVE Fits(q)
    <3>1. CASE q = p
      BY <2>1, <3>1 DEF Fits
    <3>2. CASE q # p /\ Running(q)
      <4>1. together'
        BY <1>5, <3>2 DEF Start, Starts
      <4>2. Same(q)
        BY <1>5, <2>1, <3>2 DEF Start
      <4> QED
        BY <1>3, <2>1, <2>2, <4>1, <4>2
    <3>3. CASE q # p /\ ~ Running(q)
      BY <2>1, <3>3 DEF Running, Fits
    <3> QED
      BY <3>1, <3>2, <3>3
  <2> QED
    BY <1>2, <1>4, <2>1, <2>2 DEF AlwaysALayout
<1>6. ASSUME NEW p \in Proc, SetKernel(p) PROVE Written' /\ AlwaysALayout'
  <2>1. /\ pc' = [pc EXCEPT ![p] = "open"] \/ pc' = [pc EXCEPT ![p] = "idle"]
        /\ (mixed' <=> mixed) /\ UNCHANGED <<file, tmp, fd, want, together>>
    BY <1>6 DEF SetKernel, Goto
  <2>2. ASSUME ~ mixed' \/ ~ together', NEW q \in Proc PROVE Fits(q)
    BY <1>3, <2>1, <2>2 DEF Fits
  <2> QED
    BY <1>2, <1>4, <2>1, <2>2 DEF AlwaysALayout
<1>7. ASSUME NEW p \in Proc, Open(p) PROVE Written' /\ AlwaysALayout'
  <2>1. /\ pc' = [pc EXCEPT ![p] = "name"] /\ (mixed => mixed')
        /\ fd' = [fd EXCEPT ![p] = "tmp"] /\ tmp' = <<>> /\ UNCHANGED file
    BY <1>7 DEF Open, Goto
  <2>2. ASSUME ~ mixed' \/ ~ together', NEW q \in Proc PROVE Fits(q)
    <3>1. CASE Writing(q)'
      <4>1. q = p
        BY <1>1, <2>1, <2>2, <3>1 DEF OneWriter, OneRunner, Writing, Running
      <4> QED
        <5>1. pc'[p] = "name" /\ fd'[p] = "tmp" /\ tmp' = <<>>
          BY <2>1
        <5> QED
          BY <4>1, <5>1 DEF Fits
    <3>2. CASE ~ Writing(q)'
      BY <3>2 DEF Writing, Fits
    <3> QED
      BY <3>1, <3>2
  <2> QED
    BY <1>2, <1>4, <2>1, <2>2 DEF AlwaysALayout
<1>8. ASSUME NEW p \in Proc, WriteName(p) PROVE Written' /\ AlwaysALayout'
  <2>1. /\ pc[p] = "name" /\ pc' = [pc EXCEPT ![p] = "newline"] /\ (mixed' <=> mixed)
        /\ UNCHANGED <<fd, want, together>> /\ Writes(p, 0, Text(want[p]))
    BY <1>8 DEF WriteName, Goto
  <2>2. ASSUME ~ mixed' \/ ~ together'
        PROVE  fd[p] = "tmp" /\ tmp' = Text(want[p]) /\ file' = file
    <3>1. fd[p] = "tmp" /\ tmp = <<>>
      BY <1>2, <2>1, <2>2 DEF Written
    <3>2. Len(<<>>) = 0 /\ Text(want[p]) \in Content /\ <<>> \in Content
      BY Lengths, Lines
    <3>3. Over(<<>>, 0, Text(want[p])) = <<>> \o Text(want[p])
      BY <3>2, OverEnd
    <3>4. <<>> \o Text(want[p]) = Text(want[p])
      BY <3>2 DEF Content
    <3> QED
      BY <2>1, <3>1, <3>3, <3>4 DEF Writes
  <2>3. ASSUME ~ mixed' \/ ~ together', NEW q \in Proc PROVE Fits(q)
    <3>1. CASE Writing(q)'
      <4>1. q = p
        BY <1>1, <2>1, <2>3, <3>1 DEF OneWriter, OneRunner, Writing, Running
      <4> QED
        BY <2>1, <2>2, <2>3, <4>1 DEF Fits
    <3>2. CASE ~ Writing(q)'
      BY <3>2 DEF Writing, Fits
    <3> QED
      BY <3>1, <3>2
  <2> QED
    BY <1>2, <1>4, <2>1, <2>2, <2>3 DEF AlwaysALayout
<1>9. ASSUME NEW p \in Proc, WriteNewline(p) PROVE Written' /\ AlwaysALayout'
  <2>1. /\ pc[p] = "newline" /\ pc' = [pc EXCEPT ![p] = "rename"] /\ (mixed' <=> mixed)
        /\ UNCHANGED <<want, together>>
        /\ Writes(p, Len(Text(want[p])), <<EndLine>>)
    BY <1>9 DEF WriteNewline, Goto
  <2>2. ASSUME ~ mixed' \/ ~ together'
        PROVE  tmp' = Text(want[p]) \o <<EndLine>> /\ file' = file
    <3>1. fd[p] = "tmp" /\ tmp = Text(want[p])
      BY <1>2, <2>1, <2>2 DEF Written
    <3>2. Text(want[p]) \in Content /\ <<EndLine>> \in Content
      BY Lengths, Lines
    <3>3. Over(Text(want[p]), Len(Text(want[p])), <<EndLine>>) = Text(want[p]) \o <<EndLine>>
      BY <3>2, OverEnd
    <3> QED
      BY <2>1, <3>1, <3>3 DEF Writes
  <2>3. ASSUME ~ mixed' \/ ~ together', NEW q \in Proc PROVE Fits(q)
    <3>1. CASE Writing(q)'
      <4>1. q = p
        BY <1>1, <2>1, <2>3, <3>1 DEF OneWriter, OneRunner, Writing, Running
      <4> QED
        BY <2>1, <2>2, <2>3, <4>1 DEF Fits
    <3>2. CASE ~ Writing(q)'
      BY <3>2 DEF Writing, Fits
    <3> QED
      BY <3>1, <3>2
  <2> QED
    BY <1>2, <1>4, <2>1, <2>2, <2>3 DEF AlwaysALayout
<1>10. ASSUME NEW p \in Proc, Rename(p) PROVE Written' /\ AlwaysALayout'
  <2>1. /\ pc[p] = "rename" /\ pc' = [pc EXCEPT ![p] = "idle"] /\ (mixed' <=> mixed)
        /\ UNCHANGED <<want, together>> /\ file' = tmp
    BY <1>10 DEF Rename, Goto
  <2>2. ASSUME ~ mixed' \/ ~ together', NEW q \in Proc PROVE Fits(q)
    <3>1. ~ Writing(q)'
      BY <1>2, <2>1, <2>2 DEF OneWriter, OneRunner, Writing, Running
    <3> QED
      BY <3>1 DEF Writing, Fits
  <2>3. AlwaysALayout'
    <3> SUFFICES ASSUME ~ mixed' PROVE Parsed(file') \in Layout
      BY DEF AlwaysALayout
    <3>1. tmp = Text(want[p]) \o <<EndLine>>
      BY <1>2, <2>1 DEF Written
    <3> QED
      BY <2>1, <3>1, LineParsed
  <2> QED
    BY <1>4, <2>2, <2>3
<1>11. ASSUME NEW p \in Proc, Fail(p) PROVE Written' /\ AlwaysALayout'
  <2>1. pc' = [pc EXCEPT ![p] = "idle"] /\ (mixed' <=> mixed) /\ UNCHANGED <<file, want, together>>
    BY <1>11 DEF Fail, Goto
  <2>2. CASE pc[p] = "open"
    <3>1. UNCHANGED <<tmp, fd>>
      BY <1>11, <2>2 DEF Fail
    <3>2. ASSUME ~ mixed' \/ ~ together', NEW q \in Proc PROVE Fits(q)
      BY <1>3, <2>1, <3>1, <3>2 DEF Fits
    <3> QED
      BY <1>2, <1>4, <2>1, <3>2 DEF AlwaysALayout
  <2>3. CASE Writing(p)
    <3>1. ASSUME ~ mixed' \/ ~ together', NEW q \in Proc PROVE Fits(q)
      <4>1. ~ Writing(q)'
        BY <1>2, <2>1, <2>3, <3>1 DEF OneWriter, OneRunner, Writing, Running
      <4> QED
        BY <4>1 DEF Writing, Fits
    <3> QED
      BY <1>2, <1>4, <2>1, <3>1 DEF AlwaysALayout
  <2> QED
    BY <1>11, <2>2, <2>3 DEF Fail
<1>12. ASSUME NEW p \in Proc, Die(p) PROVE Written' /\ AlwaysALayout'
  <2>1. /\ pc' = [pc EXCEPT ![p] = "idle"] /\ (mixed' <=> mixed)
        /\ fd' = [fd EXCEPT ![p] = "none"] /\ UNCHANGED <<file, tmp, want, together>>
    BY <1>12 DEF Die, Goto
  <2>2. ASSUME ~ mixed' \/ ~ together', NEW q \in Proc PROVE Fits(q)
    BY <1>3, <2>1, <2>2 DEF Fits
  <2> QED
    BY <1>2, <1>4, <2>1, <2>2 DEF AlwaysALayout
<1>13. ASSUME ConsoleReads PROVE Written' /\ AlwaysALayout'
  <2>1. pc' = [pc EXCEPT ![Console] = "apply"] /\ (mixed' <=> mixed) /\ UNCHANGED <<file, tmp, fd, want>>
    BY <1>13 DEF ConsoleReads, Goto
  <2>2. ASSUME ~ mixed' \/ ~ together', NEW q \in Proc PROVE Fits(q)
    <3>1. CASE Running(q)
      <4>1. together'
        BY <1>13, <3>1 DEF ConsoleReads, Starts
      <4> QED
        BY <1>2, <1>3, <2>1, <2>2, <4>1
    <3>2. CASE ~ Running(q)
      BY <1>2, <2>1, <3>2 DEF Running, Fits
    <3> QED
      BY <3>1, <3>2
  <2> QED
    BY <1>2, <1>4, <2>1, <2>2 DEF AlwaysALayout
<1>14. ASSUME ConsoleSets PROVE Written' /\ AlwaysALayout'
  <2>1. /\ pc' = [pc EXCEPT ![Console] = "idle"] /\ (mixed' <=> mixed)
        /\ UNCHANGED <<file, tmp, fd, want, together>>
    BY <1>14 DEF ConsoleSets, Goto
  <2>2. ASSUME ~ mixed' \/ ~ together', NEW q \in Proc PROVE Fits(q)
    BY <1>2, <1>3, <2>1, <2>2
  <2> QED
    BY <1>2, <1>4, <2>1, <2>2 DEF AlwaysALayout
<1>15. CASE UNCHANGED vars
  BY <1>2, <1>15 DEF vars, Written, AlwaysALayout
<1> QED
  BY <1>5, <1>6, <1>7, <1>8, <1>9, <1>10, <1>11, <1>12, <1>13, <1>14, <1>15 DEF Next
LEMMA NextSet ==
    ASSUME TypeOK, Descriptors, Apart, [Next]_vars
    PROVE  SetBefore'
<1> USE DEF TypeOK, Labels, filevars
<1>1. OneRunner /\ OneRunner' /\ Written /\ SetBefore /\ Console \notin Proc
  BY NextHistories, KeymapAssumption DEF Apart
\* who takes a step that is not its first was alone, and had no success yet
<1>2. ASSUME ~ together, NEW p \in Proc \cup {Console}, Running(p)
      PROVE  ~ ok /\ \A q \in Proc \cup {Console} : Running(q) => q = p
  BY <1>1, <1>2 DEF OneRunner, SetBefore, Quiet
<1>3. ASSUME ~ ok', ~ together', NEW p \in Proc \cup {Console},
             Running(p) \/ Starts(p),
             pc'[p] \in {"idle", "set", "apply"} \/ (p \in Proc /\ kernel' = want'[p]),
             NEW label, pc' = [pc EXCEPT ![p] = label],
             Running(p) => UNCHANGED together
      PROVE  SetBefore'
  <2>1. ASSUME NEW q \in Proc, Running(q)'
        PROVE  q = p
    <3>1. CASE Running(p)
      BY <1>2, <1>3, <2>1, <3>1 DEF Running
    <3>2. CASE Starts(p)
      BY <1>3, <2>1, <3>2 DEF Starts, Running
    <3> QED
      BY <1>3, <3>1, <3>2
  <2>2. ASSUME NEW q \in Proc, pc'[q] = "open" \/ Writing(q)'
        PROVE  kernel' = want'[q]
    <3>1. Running(q)' /\ pc'[q] \notin {"idle", "set", "apply"}
      BY <2>2 DEF Running, Writing
    <3>2. q = p
      BY <2>1, <3>1
    <3> QED
      BY <1>3, <3>1, <3>2
  <2> QED
    BY <1>3, <2>2 DEF SetBefore
<1>4. ASSUME ~ together' => SetBefore' PROVE SetBefore'
  BY <1>4 DEF SetBefore
<1>5. ASSUME NEW p \in Proc, Start(p) PROVE SetBefore'
  <2>1. /\ ~ ok' /\ Starts(p) /\ pc' = [pc EXCEPT ![p] = "set"] /\ pc'[p] = "set"
        /\ ~ Running(p)
    BY <1>5 DEF Start, Starts, Goto, Running
  <2> QED
    BY <1>3, <1>4, <2>1
<1>6. ASSUME NEW p \in Proc, SetKernel(p) PROVE SetBefore'
  <2>1. CASE Goto(p, "open") /\ kernel' = want[p]
    <3>1. /\ pc' = [pc EXCEPT ![p] = "open"] /\ Running(p) /\ UNCHANGED <<ok, together, want>>
          /\ kernel' = want'[p]
      BY <1>6, <2>1 DEF SetKernel, Goto, Running
    <3> QED
      BY <1>2, <1>3, <1>4, <3>1
  <2>2. CASE Goto(p, "idle")
    <3>1. /\ pc' = [pc EXCEPT ![p] = "idle"] /\ Running(p) /\ UNCHANGED <<ok, together, want>>
          /\ pc'[p] = "idle"
      BY <1>6, <2>2 DEF SetKernel, Goto, Running
    <3> QED
      BY <1>2, <1>3, <1>4, <3>1
  <2> QED
    BY <1>6, <2>1, <2>2 DEF SetKernel
<1>7. ASSUME NEW p \in Proc, NEW label, Running(p), pc[p] = "open" \/ Writing(p),
             pc' = [pc EXCEPT ![p] = label], UNCHANGED <<kernel, want, ok, together>>
      PROVE  SetBefore'
  <2>1. ~ together => kernel' = want'[p]
    BY <1>1, <1>7 DEF SetBefore
  <2> QED
    BY <1>2, <1>3, <1>4, <1>7, <2>1
<1>8. ASSUME NEW p \in Proc, Open(p) PROVE SetBefore'
  <2>1. /\ Running(p) /\ pc[p] = "open" /\ pc' = [pc EXCEPT ![p] = "name"]
        /\ UNCHANGED <<kernel, want, ok, together>>
    BY <1>8 DEF Open, Goto, Running
  <2> QED
    BY <1>7, <2>1
<1>9. ASSUME NEW p \in Proc, WriteName(p) PROVE SetBefore'
  <2>1. /\ Running(p) /\ Writing(p) /\ pc' = [pc EXCEPT ![p] = "newline"]
        /\ UNCHANGED <<kernel, want, ok, together>>
    BY <1>9 DEF WriteName, Goto, Running, Writing
  <2> QED
    BY <1>7, <2>1
<1>10. ASSUME NEW p \in Proc, WriteNewline(p) PROVE SetBefore'
  <2>1. /\ Running(p) /\ Writing(p) /\ pc' = [pc EXCEPT ![p] = "rename"]
        /\ UNCHANGED <<kernel, want, ok, together>>
    BY <1>10 DEF WriteNewline, Goto, Running, Writing
  <2> QED
    BY <1>7, <2>1
<1>11. ASSUME NEW p \in Proc, Rename(p) PROVE SetBefore'
  <2> SUFFICES ASSUME ~ together' PROVE SetBefore'
    BY <1>4
  <2>1. /\ Running(p) /\ Writing(p) /\ pc[p] = "rename" /\ pc' = [pc EXCEPT ![p] = "idle"]
        /\ UNCHANGED <<kernel, want, together>> /\ file' = tmp /\ tmp # NoFile
    BY <1>11 DEF Rename, Goto, Running, Writing
  <2>2. tmp = Text(want[p]) \o <<EndLine>> /\ kernel = want[p]
    BY <1>1, <2>1 DEF Written, SetBefore
  <2>3. file' # NoFile /\ Parsed(file') = kernel'
    BY <2>1, <2>2, LineParsed
  <2>4. \A q \in Proc \cup {Console} : ~ Running(q)'
    BY <1>2, <2>1 DEF Running
  <2>5. Quiet'
    BY <2>1, <2>4 DEF Quiet
  <2>6. \A q \in Proc : pc'[q] = "idle"
    BY <2>4 DEF Running
  <2> QED
    BY <2>3, <2>5, <2>6 DEF SetBefore, Writing
<1>12. ASSUME NEW p \in Proc, Fail(p) \/ Die(p) PROVE SetBefore'
  <2>1. /\ Running(p) /\ ~ ok' /\ pc' = [pc EXCEPT ![p] = "idle"] /\ pc'[p] = "idle"
        /\ UNCHANGED together
    BY <1>12 DEF Fail, Die, Goto, Running, Writing
  <2> QED
    BY <1>3, <1>4, <2>1
<1>13. ASSUME ConsoleReads PROVE SetBefore'
  <2>1. /\ ~ ok' /\ Starts(Console) /\ ~ Running(Console)
        /\ pc' = [pc EXCEPT ![Console] = "apply"] /\ pc'[Console] = "apply"
    BY <1>13 DEF ConsoleReads, Starts, Goto, Running
  <2> QED
    BY <1>3, <1>4, <2>1
<1>14. ASSUME ConsoleSets PROVE SetBefore'
  <2>1. /\ UNCHANGED <<ok, together>> /\ Running(Console)
        /\ pc' = [pc EXCEPT ![Console] = "idle"] /\ pc'[Console] = "idle"
    BY <1>14 DEF ConsoleSets, Goto, Running
  <2> QED
    BY <1>2, <1>3, <1>4, <2>1
<1>15. CASE UNCHANGED vars
  BY <1>1, <1>15 DEF vars, SetBefore, Writing, Running, Quiet
<1> QED
  BY <1>5, <1>6, <1>8, <1>9, <1>10, <1>11, <1>12, <1>13, <1>14, <1>15 DEF Next

LEMMA NextApart == TypeOK /\ Descriptors /\ Apart /\ [Next]_vars => Apart'
BY NextHistories, NextWritten, NextSet DEF Apart

----------------------------------------------------------------------------
(* Writers that do meet *)

\* Until a writer fails, what is in the files will name a layout.
Healing ==
    ~ hurt => /\ file # NoFile => Heals(file, Todo("file"))
              /\ tmp # NoFile => Heals(tmp, Todo("tmp"))

LEMMA InitHealing == Init => Healing
<1> SUFFICES ASSUME Init PROVE Healing
  OBVIOUS
<1>1. file # NoFile => Parsed(file) \in Layout
  BY KeymapAssumption DEF Init
<1>2. Todo("file") = {}
  BY DEF Init, Todo
<1> QED
  BY <1>1, <1>2 DEF Init, Healing, Heals

\* The writes to come to a file change only with those who have it open.
LEMMA TodoSame ==
    ASSUME NEW name,
           \A q \in Proc : fd'[q] = name <=> fd[q] = name,
           \A q \in Proc : fd[q] = name => pc'[q] = pc[q] /\ want'[q] = want[q]
    PROVE  Todo(name)' = Todo(name)
BY DEF Todo

\* No step spoils a file that would have come to name a layout: a write to one
\* file leaves the other as it is, and a rename takes the writers along.
LEMMA NextHealing ==
    ASSUME TypeOK, Descriptors, Healing, [Next]_vars
    PROVE  Healing'
<1> USE DEF TypeOK, Labels, Descriptors, filevars
<1>1. Console \notin Proc /\ NoFile \notin Content
  BY KeymapAssumption DEF Content
<1>2. ASSUME UNCHANGED <<file, tmp>>, ~ hurt' => ~ hurt,
             \A q \in Proc : fd'[q] = fd[q],
             \A q \in Proc : fd[q] # "none" => pc'[q] = pc[q] /\ want'[q] = want[q]
      PROVE  Healing'
  <2>1. Todo("file")' = Todo("file") /\ Todo("tmp")' = Todo("tmp")
    BY <1>2, TodoSame
  <2> QED
    BY <1>2, <2>1 DEF Healing
<1>3. ASSUME NEW p \in Proc, Start(p) PROVE Healing'
  <2>1. \A q \in Proc : q # p => pc'[q] = pc[q] /\ want'[q] = want[q]
    BY <1>3 DEF Start, Goto
  <2>2. fd[p] = "none" /\ UNCHANGED <<file, tmp, fd, hurt>>
    BY <1>3 DEF Start, Starts
  <2> QED
    BY <1>2, <2>1, <2>2
<1>4. ASSUME NEW p \in Proc, SetKernel(p) PROVE Healing'
  <2>1. \A q \in Proc : q # p => pc'[q] = pc[q]
    BY <1>4 DEF SetKernel, Goto
  <2>2. fd[p] = "none" /\ UNCHANGED <<file, tmp, fd, hurt, want>>
    BY <1>4 DEF SetKernel
  <2> QED
    BY <1>2, <2>1, <2>2
<1>5. ASSUME NEW p \in Proc, Open(p) PROVE Healing'
  <2>1. /\ pc' = [pc EXCEPT ![p] = "name"] /\ fd' = [fd EXCEPT ![p] = "tmp"] /\ fd[p] = "none"
        /\ tmp' = <<>> /\ UNCHANGED <<file, want, hurt>>
    BY <1>5 DEF Open, Goto
  <2>2. Todo("file")' = Todo("file")
    BY <2>1, TodoSame
  <2>3. <<"name", want'[p]>> \in Todo("tmp")' /\ want'[p] \in Layout
    BY <2>1 DEF Todo
  <2>4. Heals(tmp', Todo("tmp")')
    BY <2>3 DEF Heals
  <2> QED
    BY <2>1, <2>2, <2>4 DEF Healing
<1>6. ASSUME NEW p \in Proc, WriteName(p) PROVE Healing'
  <2>1. /\ pc[p] = "name" /\ pc' = [pc EXCEPT ![p] = "newline"]
        /\ UNCHANGED <<fd, want, hurt>> /\ Writes(p, 0, Text(want[p]))
    BY <1>6 DEF WriteName, Goto
  <2>2. ASSUME NEW name, name = fd[p]
        PROVE  <<"newline", want[p]>> \in Todo(name)'
    BY <2>1, <2>2 DEF Todo
  <2>3. ASSUME NEW name, name # fd[p]
        PROVE  Todo(name)' = Todo(name)
    BY <2>1, <2>3, TodoSame
  <2>4. CASE fd[p] = "tmp"
    <3>1. tmp \in Content /\ tmp' = Over(tmp, 0, Text(want[p])) /\ file' = file
      BY <2>1, <2>4 DEF Writes, Stored
    <3>2. Heals(tmp', Todo("tmp")')
      <4>1. <<"newline", want[p]>> \in Todo("tmp")' /\ want[p] \in Layout
        BY <2>2, <2>4
      <4>2. Heals(Over(tmp, 0, Text(want[p])), Todo("tmp")')
        BY <3>1, <4>1, NameHeals
      <4> QED
        BY <3>1, <4>2
    <3> QED
      BY <2>1, <2>3, <2>4, <3>1, <3>2 DEF Healing
  <2>5. CASE fd[p] = "file"
    <3>1. file \in Content /\ file' = Over(file, 0, Text(want[p])) /\ tmp' = tmp
      BY <2>1, <2>5 DEF Writes, Stored
    <3>2. Heals(file', Todo("file")')
      <4>1. <<"newline", want[p]>> \in Todo("file")' /\ want[p] \in Layout
        BY <2>2, <2>5
      <4>2. Heals(Over(file, 0, Text(want[p])), Todo("file")')
        BY <3>1, <4>1, NameHeals
      <4> QED
        BY <3>1, <4>2
    <3> QED
      BY <2>1, <2>3, <2>5, <3>1, <3>2 DEF Healing
  <2>6. CASE fd[p] \notin {"tmp", "file"}
    BY <2>1, <2>3, <2>6 DEF Writes, Healing
  <2> QED
    BY <2>4, <2>5, <2>6
<1>7. ASSUME NEW p \in Proc, WriteNewline(p) PROVE Healing'
  <2> DEFINE text == Text(want[p])
  <2>1. /\ pc[p] = "newline" /\ pc' = [pc EXCEPT ![p] = "rename"]
        /\ fd' = [fd EXCEPT ![p] = "none"]
        /\ UNCHANGED <<want, hurt>> /\ Writes(p, Len(text), <<EndLine>>)
    BY <1>7 DEF WriteNewline, Goto
  <2>2. ASSUME NEW name, name = fd[p], name # "none"
        PROVE  /\ <<"newline", want[p]>> \in Todo(name)
               /\ Todo(name) \ {<<"newline", want[p]>>} \subseteq Todo(name)'
    <3>1. <<"newline", want[p]>> \in Todo(name)
      BY <2>1, <2>2 DEF Todo
    <3>2. ASSUME NEW todo \in Todo(name), todo # <<"newline", want[p]>>
          PROVE  todo \in Todo(name)'
      <4>1. PICK q \in Proc : fd[q] = name /\ todo = <<pc[q], want[q]>>
        BY DEF Todo
      <4>2. fd'[q] = name /\ todo = <<pc'[q], want'[q]>>
        BY <2>1, <3>2, <4>1
      <4> QED
        BY <4>2 DEF Todo
    <3> QED
      BY <3>1, <3>2
  <2>3. ASSUME NEW name \in {"tmp", "file"}, name # fd[p]
        PROVE  Todo(name)' = Todo(name)
    BY <2>1, <2>3, TodoSame
  <2>4. CASE fd[p] = "tmp"
    <3>1. tmp \in Content /\ tmp' = Over(tmp, Len(text), <<EndLine>>) /\ file' = file
      BY <2>1, <2>4 DEF Writes, Stored
    <3>2. ~ hurt => Heals(tmp', Todo("tmp")')
      <4>1. ~ hurt => Heals(tmp, Todo("tmp"))
        BY <1>1, <3>1 DEF Healing
      <4>2. /\ <<"newline", want[p]>> \in Todo("tmp") /\ want[p] \in Layout
            /\ Todo("tmp") \ {<<"newline", want[p]>>} \subseteq Todo("tmp")'
        BY <2>2, <2>4
      <4>3. ~ hurt => Heals(Over(tmp, Len(text), <<EndLine>>), Todo("tmp")')
        BY <3>1, <4>1, <4>2, EndHeals
      <4> QED
        BY <3>1, <4>3
    <3> QED
      BY <2>1, <2>3, <2>4, <3>1, <3>2 DEF Healing
  <2>5. CASE fd[p] = "file"
    <3>1. file \in Content /\ file' = Over(file, Len(text), <<EndLine>>) /\ tmp' = tmp
      BY <2>1, <2>5 DEF Writes, Stored
    <3>2. ~ hurt => Heals(file', Todo("file")')
      <4>1. ~ hurt => Heals(file, Todo("file"))
        BY <1>1, <3>1 DEF Healing
      <4>2. /\ <<"newline", want[p]>> \in Todo("file") /\ want[p] \in Layout
            /\ Todo("file") \ {<<"newline", want[p]>>} \subseteq Todo("file")'
        BY <2>2, <2>5
      <4>3. ~ hurt => Heals(Over(file, Len(text), <<EndLine>>), Todo("file")')
        BY <3>1, <4>1, <4>2, EndHeals
      <4> QED
        BY <3>1, <4>3
    <3> QED
      BY <2>1, <2>3, <2>5, <3>1, <3>2 DEF Healing
  <2>6. CASE fd[p] \notin {"tmp", "file"}
    BY <2>1, <2>3, <2>6 DEF Writes, Healing
  <2> QED
    BY <2>4, <2>5, <2>6
<1>8. ASSUME NEW p \in Proc, Rename(p) PROVE Healing'
  <2>1. /\ fd[p] = "none" /\ pc' = [pc EXCEPT ![p] = "idle"] /\ UNCHANGED <<want, hurt>>
        /\ file' = tmp /\ tmp' = NoFile /\ tmp # NoFile
        /\ fd' = [q \in Proc |-> Renamed[fd[q]]]
    BY <1>8 DEF Rename, Goto
  <2>2. \A q \in Proc : fd'[q] = "file" <=> fd[q] = "tmp"
    BY <2>1 DEF Renamed
  <2>3. Todo("file")' = Todo("tmp")
    <3>1. {q \in Proc : fd'[q] = "file"} = {q \in Proc : fd[q] = "tmp"}
      BY <2>2
    <3>2. \A q \in Proc : fd[q] = "tmp" => <<pc'[q], want'[q]>> = <<pc[q], want[q]>>
      BY <2>1
    <3> QED
      BY <3>1, <3>2 DEF Todo
  <2> QED
    BY <2>1, <2>3 DEF Healing
<1>9. ASSUME NEW p \in Proc, Fail(p) PROVE Healing'
  <2>1. CASE pc[p] = "open"
    <3>1. UNCHANGED <<file, tmp, fd, want>> /\ (~ hurt' => ~ hurt) /\ fd[p] = "none"
      BY <1>9, <2>1 DEF Fail
    <3>2. \A q \in Proc : q # p => pc'[q] = pc[q]
      BY <1>9 DEF Fail, Goto
    <3> QED
      BY <1>2, <3>1, <3>2
  <2>2. CASE pc[p] \in {"name", "newline"}
    BY <1>9, <2>2 DEF Fail, Healing
  <2>3. CASE pc[p] = "rename"
    <3>1. /\ fd[p] = "none" /\ pc' = [pc EXCEPT ![p] = "idle"] /\ UNCHANGED <<file, want>>
          /\ tmp' = NoFile /\ (~ hurt' => ~ hurt)
          /\ fd' = [q \in Proc |-> IF q = p THEN "none" ELSE Unlinked[fd[q]]]
      BY <1>9, <2>3 DEF Fail, Goto
    <3>2. \A q \in Proc : fd'[q] = "file" <=> fd[q] = "file"
      <4>1. Unlinked["tmp"] = "gone" /\ Unlinked["file"] = "file" /\ Unlinked["gone"] = "gone"
            /\ Unlinked["none"] = "none"
        BY DEF Unlinked, Renamed
      <4> QED
        BY <3>1, <4>1
    <3>3. Todo("file")' = Todo("file")
      BY <3>1, <3>2, TodoSame
    <3> QED
      BY <3>1, <3>3 DEF Healing
  <2> QED
    BY <1>9, <2>1, <2>2, <2>3 DEF Fail, Writing
<1>10. ASSUME NEW p \in Proc, Die(p) PROVE Healing'
  <2>1. CASE pc[p] \in {"name", "newline"}
    BY <1>10, <2>1 DEF Die, Healing
  <2>2. CASE pc[p] \notin {"name", "newline"}
    <3>1. UNCHANGED <<file, tmp, want>> /\ (~ hurt' => ~ hurt) /\ fd[p] = "none"
          /\ fd' = [fd EXCEPT ![p] = "none"]
      BY <1>10, <2>2 DEF Die
    <3>2. \A q \in Proc : fd'[q] = fd[q] /\ (q # p => pc'[q] = pc[q])
      BY <1>10, <3>1 DEF Die, Goto
    <3> QED
      BY <1>2, <3>1, <3>2
  <2> QED
    BY <2>1, <2>2
<1>11. ASSUME ConsoleReads PROVE Healing'
  <2>1. UNCHANGED <<file, tmp, want, fd, hurt>> /\ \A q \in Proc : pc'[q] = pc[q]
    BY <1>1, <1>11 DEF ConsoleReads, Goto
  <2> QED
    BY <1>2, <2>1
<1>12. ASSUME ConsoleSets PROVE Healing'
  <2>1. UNCHANGED <<file, tmp, want, fd, hurt>> /\ \A q \in Proc : pc'[q] = pc[q]
    BY <1>1, <1>12 DEF ConsoleSets, Goto
  <2> QED
    BY <1>2, <2>1
<1>13. CASE UNCHANGED vars
  BY <1>2, <1>13 DEF vars
<1> QED
  BY <1>3, <1>4, <1>5, <1>6, <1>7, <1>8, <1>9, <1>10, <1>11, <1>12, <1>13 DEF Next

----------------------------------------------------------------------------
(* Theorems *)

IInv == TypeOK /\ Descriptors /\ Apart /\ Healing

\* The inductive invariant: what is open, what the one writer of the next file has
\* put there so far, and what writers of the same file make of it together.
THEOREM Invariants == Spec => []IInv
<1>1. Init => IInv
  BY InitType, InitApart, InitHealing DEF IInv
<1>2. IInv /\ [Next]_vars => IInv'
  BY NextType, NextApart, NextHealing DEF IInv
<1> QED
  BY <1>1, <1>2, PTL DEF Spec

\* Every file is bytes, each process is at a place of ir0_keymap_write_file, and
\* it has a file open exactly between the open and the close.
THEOREM TypeCorrect == Spec => [](TypeOK /\ Descriptors)
<1>1. IInv => TypeOK /\ Descriptors
  BY DEF IInv
<1> QED
  BY <1>1, Invariants, PTL

\* /etc/keymap never shows a part of a name while writers do not meet, whoever
\* of them fails or is killed: any number of keymap(1) processes.
THEOREM AlwaysNamed == Spec => []AlwaysALayout
<1>1. IInv => AlwaysALayout
  BY DEF IInv, Apart
<1> QED
  BY <1>1, Invariants, PTL

\* Any number of writers of one file that all end well leave the name of a
\* layout there, in whatever order their bytes came.
THEOREM Healed == Spec => []MixHeals
<1>1. IInv => MixHeals
  <2> SUFFICES ASSUME IInv, Quiet, ~ hurt, file # NoFile PROVE Parsed(file) \in Layout
    BY DEF MixHeals
  <2>1. file \in Content /\ Heals(file, Todo("file"))
    BY DEF IInv, TypeOK, Stored, Healing
  <2>2. \A q \in Proc : fd[q] = "none"
    BY DEF IInv, TypeOK, Descriptors, Quiet, Running
  <2>3. Todo("file") = {}
    BY <2>2 DEF Todo
  <2> QED
    BY <2>1, <2>3, HealedParsed
<1> QED
  BY <1>1, Invariants, PTL

\* A success of a keymap(1) that ran by itself is one of both steps: the layout
\* in force is the one the next start of the console reads.
THEOREM Agreed == Spec => []AloneAgrees
<1>1. IInv => AloneAgrees
  BY DEF IInv, Apart, SetBefore, AloneAgrees
<1> QED
  BY <1>1, Invariants, PTL

==============================================================================
