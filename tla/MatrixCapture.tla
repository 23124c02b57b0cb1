--------------------------- MODULE MatrixCapture ---------------------------
(* The capture of a worker's output (smoke/matrix_capture.c): a matcher     *)
(* that looks for a needle in the stream, whatever the chunks it arrives    *)
(* in, and a store that keeps the stream's beginning.                       *)
EXTENDS Integers, Sequences

CONSTANTS
    Byte,       \* what a stream is made of
    Needles,    \* the needles of the cases; the empty one stands for none
    Window,     \* longest needle: MATRIX_NEEDLE_WINDOW_MAX
    StoreCap,   \* size of the store: MATRIX_CAPTURE_STORE_MAX
    MaxChunk,   \* bytes one read(2) returns at most: 256
    MaxStream   \* bound on the length of a stream

ASSUME CaptureAssumption ==
    /\ Needles \subseteq Seq(Byte)
    /\ Window \in Nat \ {0}
    /\ StoreCap \in Nat
    /\ MaxChunk \in Nat \ {0}
    /\ MaxStream \in Nat

VARIABLES
    needle,     \* what is looked for
    matched,    \* bytes of it matched so far
    found,      \* whether it has been found
    stream,     \* everything read so far
    pos,        \* bytes of the stream the matcher has passed
    bytes_seen, \* bytes of the stream counted
    store,      \* the bytes kept
    truncated   \* whether some were not kept

matchvars == <<matched, found, pos>>
storevars == <<bytes_seen, store, truncated>>
vars == <<needle, matchvars, stream, storevars>>

Lesser(a, b) == IF a < b THEN a ELSE b
Chunk == UNION {[1..n -> Byte] : n \in 1..MaxChunk}
\* What the matcher is to look for: a needle that is too long is cut.
Looked(n) == SubSeq(n, 1, Lesser(Len(n), Window))

Init ==
    /\ \E n \in Needles : needle = Looked(n)
    /\ matched = 0 /\ found = FALSE /\ pos = 0
    /\ stream = <<>>
    /\ bytes_seen = 0 /\ store = <<>> /\ truncated = FALSE

\* matrix_needle_feed returns at once: nothing to look for, or found.
Sated == needle = <<>> \/ found

\* read(2) returns another chunk.
Read ==
    /\ pos = Len(stream) /\ bytes_seen = Len(stream)
    /\ \E c \in Chunk :
           /\ Len(stream) + Len(c) <= MaxStream
           /\ stream' = stream \o c
    /\ UNCHANGED <<needle, matchvars, storevars>>

\* A mistake: after a mismatch the byte is not tried as the needle's first.
MismatchDropping ==
    /\ stream[pos + 1] # needle[matched + 1]
    /\ matched' = 0
    /\ UNCHANGED found

\* The byte does not continue the match; it may begin one.
Mismatch ==
    /\ stream[pos + 1] # needle[matched + 1]
    /\ matched' = IF matched > 0 /\ stream[pos + 1] = needle[1] THEN 1 ELSE 0
    /\ UNCHANGED found

\* A mistake: found one byte early.
MatchEarly ==
    /\ stream[pos + 1] = needle[matched + 1]
    /\ matched' = matched + 1
    /\ found' = (matched + 2 >= Len(needle))

Match ==
    /\ stream[pos + 1] = needle[matched + 1]
    /\ matched' = matched + 1
    /\ found' = (matched + 1 = Len(needle))

\* The matcher's loop takes one byte of the chunk.
FeedByte ==
    /\ ~ Sated
    /\ pos < Len(stream)
    /\ Match \/ Mismatch
    /\ pos' = pos + 1
    /\ UNCHANGED <<needle, stream, storevars>>

\* It needs no more of this chunk, nor of any later one.
FeedNothing ==
    /\ Sated
    /\ pos < Len(stream)
    /\ pos' = Len(stream)
    /\ UNCHANGED <<needle, matched, found, stream, storevars>>

\* One byte of the store is for the terminator.
Room == StoreCap - 1 - Len(store)
NewBytes == Len(stream) - bytes_seen

\* A mistake: a chunk that just fills the store is counted as cut.
KeepAtLimit ==
    /\ pos = Len(stream) /\ bytes_seen < Len(stream)
    /\ bytes_seen' = Len(stream)
    /\ IF StoreCap < 2
       THEN UNCHANGED <<store, truncated>>
       ELSE LET copy == Lesser(NewBytes, Room) IN
            /\ store' = store \o SubSeq(stream, bytes_seen + 1, bytes_seen + copy)
            /\ truncated' = (truncated \/ copy = Room)
    /\ UNCHANGED <<needle, matchvars, stream>>

\* The chunk is counted, and what there is room for is stored.
Keep ==
    /\ pos = Len(stream) /\ bytes_seen < Len(stream)
    /\ bytes_seen' = Len(stream)
    /\ IF StoreCap < 2
       THEN UNCHANGED <<store, truncated>>
       ELSE LET copy == Lesser(NewBytes, Room) IN
            /\ store' = store \o SubSeq(stream, bytes_seen + 1, bytes_seen + copy)
            /\ truncated' = (truncated \/ copy < NewBytes)
    /\ UNCHANGED <<needle, matchvars, stream>>

Next == Read \/ FeedByte \/ FeedNothing \/ Keep
Spec == Init /\ [][Next]_vars

----------------------------------------------------------------------------
(* Properties *)

TypeOK ==
    /\ needle \in Seq(Byte)
    /\ matched \in 0..Len(needle)
    /\ found \in BOOLEAN
    /\ stream \in Seq(Byte)
    /\ pos \in 0..Len(stream)
    /\ bytes_seen \in 0..pos
    /\ store \in Seq(Byte)
    /\ truncated \in BOOLEAN

\* The first k bytes of n are the last k of the first p bytes of s.
EndsWith(n, s, p, k) == k <= p /\ \A j \in 1..k : s[p - k + j] = n[j]
\* n occurs in the first p bytes of s.
Occurs(n, s, p) == \E q \in 0..p : EndsWith(n, s, q, Len(n))

\* A needle is reported only if the output has it: the cuts between the
\* reads, and the restarts of the match, put together no needle that is not
\* there (matrix_needle_feed).
FoundIsThere == found => Occurs(needle, stream, pos)

\* No proper prefix of the needle ends as it begins.  Only for such needles
\* is it right to restart a match from scratch.
Simple(n) == \A m \in 1..(Len(n) - 1) : \A k \in 1..(m - 1) : ~ EndsWith(n, n, m, k)

\* A simple needle that is in the output is found, however the output is cut
\* into reads and also beyond what is stored ("naive; good enough for short
\* BusyBox needles", "matcher keeps observing past this").
SimpleIsFound ==
    Simple(needle) /\ needle # <<>> /\ Occurs(needle, stream, pos) => found

\* The store and its flag tell the truth: the store is the beginning of the
\* output, it and its terminator fit, and bytes are missing from it exactly
\* when the capture says so (matrix_capture_feed).
StoreIsPrefix ==
    StoreCap >= 2 =>
        /\ store = SubSeq(stream, 1, Lesser(bytes_seen, StoreCap - 1))
        /\ truncated <=> bytes_seen > StoreCap - 1
=============================================================================
