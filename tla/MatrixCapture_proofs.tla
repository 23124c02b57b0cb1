----------------------- MODULE MatrixCapture_proofs ------------------------
(* The matcher and the store of matrix_capture.c, for every needle, every   *)
(* stream and every way to cut it into chunks.                              *)
EXTENDS MatrixCapture, TLAPS

\* A match that is not complete is shorter than the needle.
MatchIsShort == ~ found /\ needle # <<>> => matched < Len(needle)

\* While the needle has not been found, what is matched is the end of what
\* the matcher has passed.
MatchIsEnd == ~ found => EndsWith(needle, stream, pos, matched)

\* For a simple needle it is the longest such prefix, and no occurrence has
\* been passed over.
MatchIsLongest ==
    Simple(needle) /\ needle # <<>> /\ ~ found =>
        /\ \A k \in 1..Len(needle) : EndsWith(needle, stream, pos, k) => k <= matched
        /\ ~ Occurs(needle, stream, pos)

\* The cut of a needle is a sequence of bytes.
LEMMA LookedType ==
    ASSUME NEW n \in Needles
    PROVE  Looked(n) \in Seq(Byte)
<1>1. n \in Seq(Byte) /\ Window \in Nat
  BY CaptureAssumption
<1>2. Lesser(Len(n), Window) \in 0..Len(n)
  BY <1>1 DEF Lesser
<1> QED
  BY <1>1, <1>2 DEF Looked

\* A chunk put behind a stream leaves the bytes before it as they were.
LEMMA Appended ==
    ASSUME NEW s \in Seq(Byte), NEW c \in Chunk
    PROVE  /\ s \o c \in Seq(Byte)
           /\ Len(s \o c) = Len(s) + Len(c)
           /\ Len(c) \in Nat \ {0}
           /\ \A i \in 1..Len(s) : (s \o c)[i] = s[i]
<1>1. PICK n \in 1..MaxChunk : c \in [1..n -> Byte]
  BY DEF Chunk
<1>2. n \in Nat \ {0}
  BY CaptureAssumption
<1>3. c \in Seq(Byte) /\ Len(c) = n
  BY <1>1, <1>2
<1> QED
  BY <1>2, <1>3

\* Before the first byte nothing is matched and the store is empty.
LEMMA InitType == Init => TypeOK /\ MatchIsShort
<1> SUFFICES ASSUME Init PROVE TypeOK /\ MatchIsShort
  OBVIOUS
<1>1. needle \in Seq(Byte)
  BY LookedType DEF Init
<1>2. needle # <<>> => Len(needle) > 0
  BY <1>1
<1>3. /\ stream \in Seq(Byte) /\ Len(stream) = 0
      /\ store \in Seq(Byte)
  BY DEF Init
<1>4. Len(needle) \in Nat
  BY <1>1
<1>5. /\ matched = 0 /\ found = FALSE /\ pos = 0
      /\ bytes_seen = 0 /\ truncated = FALSE
  BY DEF Init
<1>6. matched \in 0..Len(needle) /\ pos \in 0..Len(stream) /\ bytes_seen \in 0..pos
  BY <1>3, <1>4, <1>5
<1>7. TypeOK
  BY <1>1, <1>3, <1>5, <1>6 DEF TypeOK
<1>8. MatchIsShort
  BY <1>2, <1>5 DEF MatchIsShort
<1> QED
  BY <1>7, <1>8

\* What the capture stores of a chunk is a sequence of bytes.
LEMMA KeepType == TypeOK /\ Keep => store' \in Seq(Byte)
<1> SUFFICES ASSUME TypeOK, Keep PROVE store' \in Seq(Byte)
  OBVIOUS
<1>1. CASE StoreCap < 2
  BY <1>1 DEF Keep, TypeOK
<1>2. CASE ~ (StoreCap < 2)
  <2> DEFINE copy == Lesser(NewBytes, Room)
  <2>1. store' = store \o SubSeq(stream, bytes_seen + 1, bytes_seen + copy)
    BY <1>2 DEF Keep
  <2>2. copy \in Int /\ copy <= NewBytes
    BY CaptureAssumption DEF TypeOK, Lesser, NewBytes, Room
  <2>3. bytes_seen + copy <= Len(stream) /\ bytes_seen + 1 \in 1..(Len(stream) + 1)
    BY <2>2 DEF TypeOK, NewBytes
  <2> HIDE DEF copy
  <2>4. SubSeq(stream, bytes_seen + 1, bytes_seen + copy) \in Seq(Byte)
    BY <2>2, <2>3 DEF TypeOK
  <2> QED
    BY <2>1, <2>4 DEF TypeOK
<1> QED
  BY <1>1, <1>2

\* A byte or a read keeps the types and the length of the match.
LEMMA NextType ==
    TypeOK /\ MatchIsShort /\ [Next]_vars => TypeOK' /\ MatchIsShort'
<1> SUFFICES ASSUME TypeOK, MatchIsShort, [Next]_vars
             PROVE  TypeOK' /\ MatchIsShort'
  OBVIOUS
<1> USE DEF TypeOK, MatchIsShort
<1>1. CASE Read
  <2>1. PICK c \in Chunk : stream' = stream \o c
    BY <1>1 DEF Read
  <2>2. stream' \in Seq(Byte) /\ Len(stream) <= Len(stream')
    BY <2>1, Appended
  <2> QED
    BY <1>1, <2>2 DEF Read, matchvars, storevars
<1>2. CASE FeedByte
  <2>0. needle # <<>> /\ ~ found /\ matched < Len(needle) /\ Len(needle) \in Nat
    BY <1>2 DEF FeedByte, Sated
  <2>1. CASE Match
    <3>1. /\ matched' = matched + 1
          /\ found' \in BOOLEAN
          /\ ~ found' => matched + 1 # Len(needle)
      BY <2>1 DEF Match
    <3> QED
      BY <1>2, <2>0, <3>1 DEF FeedByte, storevars
  <2>2. CASE Mismatch
    <3>1. matched' \in {0, 1} /\ (matched' = 1 => matched > 0) /\ found' = found
      BY <2>2 DEF Mismatch
    <3> QED
      BY <1>2, <2>0, <3>1 DEF FeedByte, storevars
  <2> QED
    BY <1>2, <2>1, <2>2 DEF FeedByte
<1>3. CASE FeedNothing
  BY <1>3 DEF FeedNothing, storevars
<1>4. CASE Keep
  BY <1>4, KeepType DEF Keep, matchvars
<1>5. CASE UNCHANGED vars
  BY <1>5 DEF vars, matchvars, storevars
<1> QED
  BY <1>1, <1>2, <1>3, <1>4, <1>5 DEF Next

----------------------------------------------------------------------------
(* The matcher *)

\* No step changes a byte the matcher has passed.
LEMMA PassedIsKept ==
    ASSUME TypeOK, [Next]_vars, NEW p \in 0..pos, NEW k \in Nat
    PROVE  /\ needle' = needle
           /\ EndsWith(needle, stream', p, k) <=> EndsWith(needle, stream, p, k)
<1>1. CASE Read
  <2>1. PICK c \in Chunk : stream' = stream \o c
    BY <1>1 DEF Read
  <2>2. \A i \in 1..Len(stream) : stream'[i] = stream[i]
    BY <2>1, Appended DEF TypeOK
  <2>3. ASSUME k <= p, NEW j \in 1..k
        PROVE  stream'[p - k + j] = stream[p - k + j]
    <3>1. p - k + j \in 1..Len(stream)
      BY <2>3 DEF TypeOK
    <3> QED
      BY <2>2, <3>1
  <2> QED
    BY <1>1, <2>3 DEF Read, EndsWith
<1>2. CASE needle' = needle /\ stream' = stream
  BY <1>2
<1>3. Read \/ (needle' = needle /\ stream' = stream)
  BY DEF Next, vars, FeedByte, FeedNothing, Keep
<1> QED
  BY <1>1, <1>2, <1>3

\* One more equal byte makes an end one longer, and the other way round.
LEMMA EndExtends ==
    ASSUME NEW n, NEW s, NEW p \in Nat, NEW k \in Nat
    PROVE  EndsWith(n, s, p + 1, k + 1) <=>
               EndsWith(n, s, p, k) /\ s[p + 1] = n[k + 1]
<1>1. ASSUME NEW j \in 1..(k + 1) PROVE (p + 1) - (k + 1) + j = p - k + j
  OBVIOUS
<1>2. p - k + (k + 1) = p + 1
  OBVIOUS
<1>3. 1..(k + 1) = (1..k) \cup {k + 1}
  OBVIOUS
<1>4. k + 1 <= p + 1 <=> k <= p
  OBVIOUS
<1>5. EndsWith(n, s, p + 1, k + 1) <=>
          k <= p /\ \A j \in 1..(k + 1) : s[p - k + j] = n[j]
  BY <1>1, <1>4 DEF EndsWith
<1>6. (\A j \in 1..(k + 1) : s[p - k + j] = n[j]) <=>
          (\A j \in 1..k : s[p - k + j] = n[j]) /\ s[p + 1] = n[k + 1]
  <2> HIDE DEF EndsWith
  <2>1. (\A j \in 1..(k + 1) : s[p - k + j] = n[j]) <=>
          (\A j \in 1..k : s[p - k + j] = n[j]) /\ s[p - k + (k + 1)] = n[k + 1]
    BY <1>3, Zenon
  <2> QED
    BY <1>2, <2>1
<1> QED
  BY <1>5, <1>6 DEF EndsWith

\* The empty match ends the empty stream.
LEMMA InitMatcher == Init => MatchIsEnd /\ FoundIsThere
BY DEF Init, MatchIsEnd, FoundIsThere, EndsWith

\* What is matched stays the end of the stream.
LEMMA NextMatcher ==
    TypeOK /\ MatchIsShort /\ MatchIsEnd /\ FoundIsThere /\ [Next]_vars
    => MatchIsEnd' /\ FoundIsThere'
<1> SUFFICES ASSUME TypeOK, MatchIsShort, MatchIsEnd, FoundIsThere, [Next]_vars
             PROVE  MatchIsEnd' /\ FoundIsThere'
  OBVIOUS
<1>0. Len(needle) \in Nat /\ pos \in Nat /\ matched \in Nat
  BY DEF TypeOK
<1>1. CASE FeedByte
  <2>0. /\ ~ found /\ needle' = needle /\ stream' = stream
        /\ pos' = pos + 1 /\ EndsWith(needle, stream, pos, matched)
    BY <1>1 DEF FeedByte, Sated, MatchIsEnd
  <2>1. CASE Match
    <3>1. /\ stream[pos + 1] = needle[matched + 1] /\ matched' = matched + 1
          /\ found' => matched + 1 = Len(needle)
      BY <2>1 DEF Match
    <3>2. EndsWith(needle, stream, pos + 1, matched + 1)
      BY <1>0, <2>0, <3>1, EndExtends
    <3>3. found' => Occurs(needle, stream, pos + 1)
      BY <1>0, <3>1, <3>2 DEF Occurs
    <3> QED
      BY <2>0, <3>1, <3>2, <3>3 DEF MatchIsEnd, FoundIsThere
  <2>2. CASE Mismatch
    <3>1. ~ found'
      BY <2>0, <2>2 DEF Mismatch
    <3>2. EndsWith(needle, stream, pos + 1, 0)
      BY <1>0 DEF EndsWith
    <3>3. stream[pos + 1] = needle[1] => EndsWith(needle, stream, pos + 1, 1)
      BY <1>0 DEF EndsWith
    <3>4. EndsWith(needle, stream, pos + 1, matched')
      BY <2>2, <3>2, <3>3 DEF Mismatch
    <3> QED
      BY <2>0, <3>1, <3>4 DEF MatchIsEnd, FoundIsThere
  <2> QED
    BY <1>1, <2>1, <2>2 DEF FeedByte
<1>2. CASE FeedNothing
  <2>1. /\ needle' = needle /\ stream' = stream /\ matched' = matched
        /\ found' = found /\ pos' \in Nat /\ pos <= pos'
    BY <1>2 DEF FeedNothing, TypeOK
  <2>2. ~ found => matched = 0
    BY <1>2 DEF FeedNothing, Sated, TypeOK
  <2>3. MatchIsEnd'
    BY <2>1, <2>2 DEF MatchIsEnd, EndsWith
  <2>4. FoundIsThere'
    BY <1>0, <2>1 DEF FoundIsThere, Occurs
  <2> QED
    BY <2>3, <2>4
<1>3. CASE Read \/ Keep \/ UNCHANGED vars
  <2>1. matched' = matched /\ found' = found /\ pos' = pos
    BY <1>3 DEF Read, Keep, vars, matchvars
  <2>2. \A p \in 0..pos, k \in Nat :
            EndsWith(needle, stream', p, k) <=> EndsWith(needle, stream, p, k)
    BY PassedIsKept
  <2>3. needle' = needle
    BY <1>3 DEF Read, Keep, vars
  <2>4. MatchIsEnd'
    BY <1>0, <2>1, <2>2, <2>3 DEF MatchIsEnd
  <2>5. FoundIsThere'
    BY <1>0, <2>1, <2>2, <2>3 DEF FoundIsThere, Occurs
  <2> QED
    BY <2>4, <2>5
<1> QED
  BY <1>1, <1>2, <1>3 DEF Next

\* Two ends of one stream: the shorter one is an end of the longer one.
LEMMA EndOfEnd ==
    ASSUME NEW n, NEW s, NEW p \in Nat, NEW m \in Nat, NEW k \in 0..m,
           EndsWith(n, s, p, m), EndsWith(n, s, p, k)
    PROVE  EndsWith(n, n, m, k)
<1> SUFFICES ASSUME NEW j \in 1..k PROVE n[m - k + j] = n[j]
  BY DEF EndsWith
<1>1. m - k + j \in 1..m /\ p - m + (m - k + j) = p - k + j
  OBVIOUS
<1>2. s[p - m + (m - k + j)] = n[m - k + j]
  BY <1>1 DEF EndsWith
<1>3. s[p - k + j] = n[j]
  BY DEF EndsWith
<1> QED
  BY <1>1, <1>2, <1>3

\* Without its last byte an end is the end of what comes before that byte.
LEMMA EndShrinks ==
    ASSUME pos \in Nat, NEW k \in Nat \ {0}, EndsWith(needle, stream, pos + 1, k)
    PROVE  EndsWith(needle, stream, pos, k - 1) /\ stream[pos + 1] = needle[k]
<1>1. PICK i \in Nat : k = i + 1
  OBVIOUS
<1>2. EndsWith(needle, stream, pos + 1, i + 1)
  BY <1>1
<1>3. EndsWith(needle, stream, pos, i) /\ stream[pos + 1] = needle[i + 1]
  BY <1>2, EndExtends
<1>4. k - 1 = i
  BY <1>1
<1> QED
  BY <1>1, <1>3, <1>4

\* What a byte does to the longest match of a simple needle.
LEMMA LongestKept ==
    ASSUME TypeOK, MatchIsShort, MatchIsEnd, MatchIsLongest, FeedByte, ~ found',
           Simple(needle), NEW k \in 1..Len(needle),
           EndsWith(needle, stream, pos + 1, k)
    PROVE  k <= matched'
<1>0. /\ Len(needle) \in Nat /\ pos \in Nat /\ matched \in Nat
      /\ ~ found /\ needle # <<>> /\ matched < Len(needle)
      /\ EndsWith(needle, stream, pos, matched)
  BY DEF TypeOK, FeedByte, Sated, MatchIsEnd, MatchIsShort
<1>1. k - 1 \in Nat /\ k = (k - 1) + 1
  BY <1>0
<1>2. EndsWith(needle, stream, pos, k - 1) /\ stream[pos + 1] = needle[k]
  <2>1. pos \in Nat
    BY <1>0
  <2> QED
    BY <1>1, <2>1, EndShrinks
<1>3. k - 1 <= matched
  <2>1. CASE k = 1
    BY <1>0, <2>1
  <2>2. CASE k # 1
    <3>1. k - 1 \in 1..Len(needle)
      BY <1>0, <2>2
    <3> QED
      BY <1>0, <1>2, <3>1 DEF MatchIsLongest
  <2> QED
    BY <2>1, <2>2
<1>4. CASE Match
  BY <1>0, <1>3, <1>4 DEF Match
<1>5. CASE Mismatch
  <2>1. k - 1 # matched
    BY <1>1, <1>2, <1>5 DEF Mismatch
  <2>2. k = 1
    <3> SUFFICES ASSUME k # 1 PROVE FALSE
      OBVIOUS
    <3>1. matched \in 1..(Len(needle) - 1) /\ k - 1 \in 1..(matched - 1)
      BY <1>0, <1>3, <2>1
    <3>2. EndsWith(needle, needle, matched, k - 1)
      <4>1. k - 1 \in 0..matched
        BY <3>1
      <4> QED
        BY <1>0, <1>2, <4>1, EndOfEnd
    <3> QED
      BY <3>1, <3>2 DEF Simple
  <2>3. matched > 0 /\ stream[pos + 1] = needle[1]
    BY <1>0, <1>2, <1>3, <2>1, <2>2
  <2> QED
    BY <1>5, <2>2, <2>3 DEF Mismatch
<1> QED
  BY <1>4, <1>5 DEF FeedByte

\* The empty match is the longest in an empty stream.
LEMMA InitLongest == Init => MatchIsLongest
<1> SUFFICES ASSUME Init, needle # <<>> PROVE
        /\ \A k \in 1..Len(needle) : ~ EndsWith(needle, stream, 0, k)
        /\ ~ Occurs(needle, stream, 0)
  BY DEF Init, MatchIsLongest
<1>1. needle \in Seq(Byte) /\ Len(needle) \in Nat /\ Len(needle) > 0
  BY LookedType DEF Init
<1> QED
  BY <1>1 DEF EndsWith, Occurs

\* For a simple needle the naive restart keeps the longest match.
LEMMA NextLongest ==
    TypeOK /\ MatchIsShort /\ MatchIsEnd /\ MatchIsLongest /\ [Next]_vars
    => MatchIsLongest'
<1> SUFFICES ASSUME TypeOK, MatchIsShort, MatchIsEnd, MatchIsLongest, [Next]_vars,
                    Simple(needle'), needle' # <<>>, ~ found'
             PROVE  /\ \A k \in 1..Len(needle') :
                           EndsWith(needle', stream', pos', k) => k <= matched'
                    /\ ~ Occurs(needle', stream', pos')
  BY DEF MatchIsLongest
<1>0. /\ Len(needle) \in Nat /\ pos \in Nat /\ matched \in Nat
      /\ needle' = needle
  BY DEF TypeOK, Next, Read, FeedByte, FeedNothing, Keep, vars
<1>1. CASE FeedByte
  <2>0. ~ found /\ stream' = stream /\ pos' = pos + 1
    BY <1>1 DEF FeedByte, Sated
  <2>1. \A k \in 1..Len(needle) : EndsWith(needle, stream, pos + 1, k) => k <= matched'
    BY <1>0, <1>1, LongestKept
  <2>2. matched' < Len(needle) /\ Len(needle) \in 1..Len(needle)
    BY <1>0, NextType DEF MatchIsShort, TypeOK
  <2>3. ~ EndsWith(needle, stream, pos + 1, Len(needle))
    BY <1>0, <2>1, <2>2, NextType DEF TypeOK
  <2>4. ~ Occurs(needle, stream, pos)
    BY <1>0, <2>0 DEF MatchIsLongest
  <2>5. 0..(pos + 1) = (0..pos) \cup {pos + 1}
    BY <1>0
  <2>6. ~ Occurs(needle, stream, pos + 1)
    BY <2>3, <2>4, <2>5 DEF Occurs
  <2> QED
    BY <1>0, <2>0, <2>1, <2>6
<1>2. CASE FeedNothing
  BY <1>0, <1>2 DEF FeedNothing, Sated
<1>3. CASE Read \/ Keep \/ UNCHANGED vars
  <2>1. matched' = matched /\ found' = found /\ pos' = pos
    BY <1>3 DEF Read, Keep, vars, matchvars
  <2>2. \A p \in 0..pos, k \in Nat :
            EndsWith(needle, stream', p, k) <=> EndsWith(needle, stream, p, k)
    BY PassedIsKept
  <2>3. /\ \A k \in 1..Len(needle) : EndsWith(needle, stream, pos, k) => k <= matched
        /\ ~ Occurs(needle, stream, pos)
    BY <1>0, <2>1 DEF MatchIsLongest
  <2> QED
    BY <1>0, <2>1, <2>2, <2>3 DEF Occurs
<1> QED
  BY <1>1, <1>2, <1>3 DEF Next

----------------------------------------------------------------------------
(* The store *)

\* The empty store is a prefix.
LEMMA InitStore == Init => StoreIsPrefix
<1> SUFFICES ASSUME Init, StoreCap >= 2 PROVE StoreIsPrefix
  BY DEF StoreIsPrefix
<1>1. Lesser(0, StoreCap - 1) = 0
  BY CaptureAssumption DEF Lesser
<1>2. SubSeq(stream, 1, 0) = <<>>
  BY DEF Init
<1> QED
  BY <1>1, <1>2, CaptureAssumption DEF Init, StoreIsPrefix

\* Two pieces of a sequence that follow each other are one piece.
LEMMA Pieces ==
    ASSUME NEW s \in Seq(Byte), NEW a \in 0..Len(s), NEW b \in a..Len(s)
    PROVE  SubSeq(s, 1, a) \o SubSeq(s, a + 1, b) = SubSeq(s, 1, b)
<1> DEFINE l == SubSeq(s, 1, a) \o SubSeq(s, a + 1, b)
           r == SubSeq(s, 1, b)
<1>1. /\ SubSeq(s, 1, a) \in Seq(Byte) /\ Len(SubSeq(s, 1, a)) = a
      /\ SubSeq(s, a + 1, b) \in Seq(Byte) /\ Len(SubSeq(s, a + 1, b)) = b - a
      /\ r \in Seq(Byte) /\ Len(r) = b
  OBVIOUS
<1>2. l \in Seq(Byte) /\ Len(l) = b
  BY <1>1
<1>3. ASSUME NEW i \in 1..b PROVE l[i] = r[i]
  <2>1. CASE i <= a
    BY <1>1, <2>1
  <2>2. CASE i > a
    BY <1>1, <2>2
  <2> QED
    BY <2>1, <2>2
<1> QED
  BY <1>1, <1>2, <1>3

\* A byte is kept, or dropped and reported.
LEMMA NextStore == TypeOK /\ StoreIsPrefix /\ [Next]_vars => StoreIsPrefix'
<1> SUFFICES ASSUME TypeOK, StoreIsPrefix, [Next]_vars, StoreCap >= 2
             PROVE  StoreIsPrefix'
  BY DEF StoreIsPrefix
<1>0. /\ stream \in Seq(Byte) /\ bytes_seen \in 0..Len(stream) /\ StoreCap \in Nat
      /\ store = SubSeq(stream, 1, Lesser(bytes_seen, StoreCap - 1))
      /\ truncated <=> bytes_seen > StoreCap - 1
      /\ truncated \in BOOLEAN
  BY CaptureAssumption DEF TypeOK, StoreIsPrefix
<1>1. CASE Keep
  <2> DEFINE copy == Lesser(NewBytes, Room)
  <2> DEFINE had == Lesser(bytes_seen, StoreCap - 1)
  <2>1. /\ store' = store \o SubSeq(stream, bytes_seen + 1, bytes_seen + copy)
        /\ truncated' <=> (truncated \/ copy < NewBytes)
        /\ bytes_seen' = Len(stream) /\ stream' = stream
    <3>1. ~ (StoreCap < 2)
      BY <1>0
    <3> QED
      BY <1>1, <3>1 DEF Keep
  <2>2. had \in 0..Len(stream) /\ Len(store) = had
    BY <1>0 DEF Lesser
  <2>3. NewBytes = Len(stream) - bytes_seen /\ Room = StoreCap - 1 - had
    BY <2>2 DEF NewBytes, Room
  <2>4. copy \in Nat /\ had + copy = Lesser(Len(stream), StoreCap - 1)
    <3>1. CASE bytes_seen < StoreCap - 1
      <4>1. had = bytes_seen /\ Room = StoreCap - 1 - bytes_seen
        BY <2>3, <3>1 DEF Lesser
      <4> QED
        BY <1>0, <2>3, <3>1, <4>1 DEF Lesser
    <3>2. CASE ~ (bytes_seen < StoreCap - 1)
      <4>1. had = StoreCap - 1 /\ Room = 0
        BY <1>0, <2>3, <3>2 DEF Lesser
      <4>2. copy = 0
        BY <1>0, <2>3, <4>1 DEF Lesser
      <4> QED
        BY <1>0, <3>2, <4>1, <4>2 DEF Lesser
    <3> QED
      BY <3>1, <3>2
  <2>5. copy > 0 => had = bytes_seen
    BY <1>0, <2>3 DEF Lesser
  <2>6. copy < NewBytes <=> Len(stream) > StoreCap - 1 /\ NewBytes > 0
    BY <1>0, <2>3 DEF Lesser
  <2>7. NewBytes > 0
    BY <1>0, <1>1, <2>3 DEF Keep
  <2> HIDE DEF copy, had
  <2>8. store' = SubSeq(stream, 1, had + copy)
    <3>1. CASE copy = 0
      <4>1. SubSeq(stream, bytes_seen + 1, bytes_seen + copy) = <<>>
        BY <1>0, <3>1
      <4> QED
        BY <1>0, <2>1, <2>2, <3>1, <4>1 DEF had, TypeOK
    <3>2. CASE copy > 0
      <4>1. had + copy \in had..Len(stream)
        BY <1>0, <2>2, <2>4 DEF Lesser
      <4>2. store = SubSeq(stream, 1, had)
        BY <1>0 DEF had
      <4> QED
        BY <1>0, <2>1, <2>2, <2>5, <3>2, <4>1, <4>2, Pieces
    <3> QED
      BY <2>4, <3>1, <3>2
  <2>9. truncated' <=> Len(stream) > StoreCap - 1
    <3>1. bytes_seen > StoreCap - 1 => Len(stream) > StoreCap - 1
      BY <1>0
    <3>2. truncated => Len(stream) > StoreCap - 1
      BY <1>0, <3>1
    <3> QED
      BY <2>1, <2>6, <2>7, <3>2
  <2> QED
    BY <2>1, <2>4, <2>8, <2>9 DEF StoreIsPrefix
<1>2. CASE Read
  <2>1. PICK c \in Chunk : stream' = stream \o c
    BY <1>2 DEF Read
  <2>2. stream' \in Seq(Byte) /\ Len(stream) <= Len(stream')
        /\ \A i \in 1..Len(stream) : stream'[i] = stream[i]
    BY <2>1, Appended, <1>0
  <2>3. /\ bytes_seen' = bytes_seen /\ store' = store /\ truncated' = truncated
    BY <1>2 DEF Read, storevars
  <2>4. ASSUME NEW k \in 0..Len(stream)
        PROVE  SubSeq(stream', 1, k) = SubSeq(stream, 1, k)
    BY <1>0, <2>2
  <2>5. Lesser(bytes_seen, StoreCap - 1) \in 0..Len(stream)
    BY <1>0 DEF Lesser
  <2> QED
    BY <1>0, <2>3, <2>4, <2>5 DEF StoreIsPrefix
<1>3. CASE FeedByte \/ FeedNothing \/ UNCHANGED vars
  BY <1>0, <1>3 DEF FeedByte, FeedNothing, vars, storevars, StoreIsPrefix
<1> QED
  BY <1>1, <1>2, <1>3 DEF Next

----------------------------------------------------------------------------
(* Theorems *)

\* The inductive invariant.
IInv ==
    /\ TypeOK
    /\ MatchIsShort
    /\ MatchIsEnd
    /\ MatchIsLongest
    /\ FoundIsThere
    /\ StoreIsPrefix

\* The whole invariant, every part of it, holds for every needle and stream.
LEMMA Invariance == Spec => []IInv
<1>1. Init => IInv
  BY InitType, InitMatcher, InitLongest, InitStore DEF IInv
<1>2. IInv /\ [Next]_vars => IInv'
  BY NextType, NextMatcher, NextLongest, NextStore DEF IInv
<1> QED
  BY <1>1, <1>2, PTL DEF Spec

\* The capture keeps its fields in range, for every needle and stream.
THEOREM TypeCorrect == Spec => []TypeOK
<1>1. IInv => TypeOK
  BY DEF IInv
<1> QED
  BY <1>1, Invariance, PTL

\* matrix_needle_feed reports a needle only when the output has it, for every
\* needle, however the output is cut into reads.
THEOREM NeedleIsThere == Spec => []FoundIsThere
<1>1. IInv => FoundIsThere
  BY DEF IInv
<1> QED
  BY <1>1, Invariance, PTL

\* It misses no simple needle: those are the ones the naive restart is good
\* enough for.
THEOREM NaiveRestartIsEnough == Spec => []SimpleIsFound
<1>1. IInv => SimpleIsFound
  BY DEF IInv, MatchIsLongest, SimpleIsFound, TypeOK
<1> QED
  BY <1>1, Invariance, PTL

\* What matrix_capture_feed stores is the beginning of the output, and it says
\* truncated exactly when that is not the whole.
THEOREM StoreIsTrue == Spec => []StoreIsPrefix
<1>1. IInv => StoreIsPrefix
  BY DEF IInv
<1> QED
  BY <1>1, Invariance, PTL
=============================================================================
