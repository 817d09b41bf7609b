---------------------------- MODULE DtlsFragment ----------------------------
(***************************************************************************)
(* The byte-level algorithms of the DTLS record layer (conn/mod.rs), as   *)
(* pure operators over byte sequences:                                    *)
(*   - split_bytes and fragment_handshake, which cut an outbound          *)
(*     handshake message into fragments of at most the MTU;               *)
(*   - compact_raw_packets, which packs consecutive records into          *)
(*     datagrams.                                                         *)
(* FragmentationMeetsSpec and CompactionMeetsSpec compare them with      *)
(* reference definitions over every input up to a bound, and the          *)
(* fragments with the fragment buffer of spec 4.2, in every arrival      *)
(* order.  They are constant, so TLC evaluates them once; DtlsConn states *)
(* them, with what its own datagrams satisfy, as RecordLayerMeetsSpec.    *)
(***************************************************************************)
EXTENDS Naturals, Sequences
LOCAL INSTANCE SequencesExt

Smaller(a, b) == IF a < b THEN a ELSE b

\* Mutant: each slice takes split_len + 1 bytes, the last overlapping the
\* next slice.
RECURSIVE SplitBytesOverlap(_, _)
SplitBytesOverlap(bytes, n) ==
    IF bytes = << >> THEN << >>
    ELSE << SubSeq(bytes, 1, Smaller(n + 1, Len(bytes))) >>
         \o SplitBytesOverlap(SubSeq(bytes, n + 1, Len(bytes)), n)

\* split_bytes: slices [i, min(i + split_len, len)) for i stepping by
\* split_len from 0; nothing for no bytes.  step_by(0) panics, so
\* split_len is positive.
RECURSIVE SplitBytes(_, _)
SplitBytes(bytes, n) ==
    IF bytes = << >> THEN << >>
    ELSE << SubSeq(bytes, 1, Smaller(n, Len(bytes))) >>
         \o SplitBytes(SubSeq(bytes, n + 1, Len(bytes)), n)

\* fragment_handshake: the marshalled body split by the MTU (one empty
\* fragment for an empty body); every fragment keeps the message's length
\* and message_sequence, with the running offset and its own length.
FragmentHandshake(mtu, h) ==
    LET parts  == SplitBytes(h.body, mtu)
        frags  == IF parts = << >> THEN << << >> >> ELSE parts
        Off(k) == FoldLeft(LAMBDA acc, p : acc + Len(p), 0, SubSeq(frags, 1, k - 1))
    IN  [k \in DOMAIN frags |->
           [length |-> Len(h.body), mseq |-> h.mseq, offset |-> Off(k),
            flen |-> Len(frags[k]), data |-> frags[k]]]

\* Bytes of the packets whose indices are idx.
BytesOf(sizes, idx) == FoldLeft(LAMBDA acc, i : acc + sizes[i], 0, idx)

\* Mutant: a record that brings the datagram to exactly the MTU joins it.
RECURSIVE CompactFromOverMtu(_, _, _, _, _)
CompactFromOverMtu(sizes, mtu, i, cur, dgs) ==
    IF i > Len(sizes) THEN Append(dgs, cur)
    ELSE IF cur # << >> /\ BytesOf(sizes, cur) + sizes[i] > mtu
         THEN CompactFromOverMtu(sizes, mtu, i + 1, << i >>, Append(dgs, cur))
         ELSE CompactFromOverMtu(sizes, mtu, i + 1, Append(cur, i), dgs)

\* compact_raw_packets from packet i on: the current datagram is closed
\* when it is not empty and the next packet would bring it to the MTU or
\* past it.  The last datagram is always pushed, so no packets give one
\* empty datagram.  Datagrams are sequences of packet indices.
RECURSIVE CompactFrom(_, _, _, _, _)
CompactFrom(sizes, mtu, i, cur, dgs) ==
    IF i > Len(sizes) THEN Append(dgs, cur)
    ELSE IF cur # << >> /\ BytesOf(sizes, cur) + sizes[i] >= mtu
         THEN CompactFrom(sizes, mtu, i + 1, << i >>, Append(dgs, cur))
         ELSE CompactFrom(sizes, mtu, i + 1, Append(cur, i), dgs)

CompactRawPackets(sizes, mtu) == CompactFrom(sizes, mtu, 1, << >>, << >>)

-----------------------------------------------------------------------------
(* The fragment buffer of spec 4.2, for one (epoch, message_sequence):    *)
(* the byte slots received so far, keyed by offset.                       *)

NoSlots == [o \in {} |-> 0]

Push(slots, f) ==
    [o \in DOMAIN slots \cup {f.offset + j : j \in 0..(f.flen - 1)} |->
        IF o \in DOMAIN slots THEN slots[o] ELSE f.data[o - f.offset + 1]]

IsComplete(slots, len) == DOMAIN slots = 0..(len - 1)

Reassembled(slots, len) == [i \in 1..len |-> slots[i - 1]]

-----------------------------------------------------------------------------
(* Bounded inputs and reference definitions                               *)

MaxBody == 4                 \* bound: bytes of a message body
FragMtus == 1..3             \* bound: MTUs the fragmentation is checked at
MaxPackets == 4              \* bound: packets handed to compaction
PacketSizes == 1..3          \* bound: bytes of a packet
PackMtus == 1..4             \* bound: MTUs the compaction is checked at

Bodies == UNION {[1..n -> {0, 1}] : n \in 0..MaxBody}
Messages == [mseq : {0}, body : Bodies]
PacketRuns == UNION {[1..n -> PacketSizes] : n \in 1..MaxPackets}

\* Spec 4.1 "Fragmentation": ceil(|body| / mtu) fragments, one empty one
\* for an empty body, each with the message's length and sequence and its
\* own (offset, length), covering the body in order without gap or overlap.
FragmentsOK(mtu, h, fs) ==
    LET n == Len(h.body)
    IN  /\ Len(fs) = IF n = 0 THEN 1 ELSE (n + mtu - 1) \div mtu
        /\ fs[1].offset = 0
        /\ fs[Len(fs)].offset + fs[Len(fs)].flen = n
        /\ \A k \in DOMAIN fs :
              /\ fs[k].length = n /\ fs[k].mseq = h.mseq
              /\ fs[k].flen = Len(fs[k].data) /\ fs[k].flen <= mtu
              /\ fs[k].data = SubSeq(h.body, fs[k].offset + 1, fs[k].offset + fs[k].flen)
        /\ \A k \in 1..(Len(fs) - 1) :
              fs[k + 1].offset = fs[k].offset + fs[k].flen

\* Spec 4.1 "compacted": the packets in order, no datagram empty, a
\* datagram of two or more packets below the MTU, and each datagram closed
\* only when the next packet would not have fitted.
CompactOK(sizes, mtu, dgs) ==
    /\ FlattenSeq(dgs) = [i \in DOMAIN sizes |-> i]
    /\ \A k \in DOMAIN dgs : dgs[k] # << >>
    /\ \A k \in DOMAIN dgs : Len(dgs[k]) > 1 => BytesOf(sizes, dgs[k]) < mtu
    /\ \A k \in 1..(Len(dgs) - 1) :
          BytesOf(sizes, dgs[k]) + sizes[dgs[k + 1][1]] >= mtu

\* Fragments delivered in every order reassemble, in the fragment buffer,
\* into the message body, and the buffer reports the message complete
\* exactly when the last missing fragment arrives.
ReassemblesInAnyOrder(fs, body) ==
    \A order \in SetToSeqs(DOMAIN fs) :
        LET s[k \in 0..Len(order)] ==
              IF k = 0 THEN NoSlots ELSE Push(s[k - 1], fs[order[k]])
        IN  /\ \A k \in 1..Len(order) :
                  IsComplete(s[k], fs[order[k]].length) <=> k = Len(order)
            /\ Reassembled(s[Len(order)], fs[1].length) = body

\* fragment_handshake (with split_bytes) meets spec 4.1 and 4.2 on every
\* body of up to MaxBody bytes at every MTU of FragMtus.
FragmentationMeetsSpec ==
    \A mtu \in FragMtus, h \in Messages :
        LET fs == FragmentHandshake(mtu, h)
        IN  FragmentsOK(mtu, h, fs) /\ ReassemblesInAnyOrder(fs, h.body)

\* compact_raw_packets meets spec 4.1 on every run of up to MaxPackets
\* packets at every MTU of PackMtus.  A single packet at or above the MTU
\* (a full fragment is the MTU plus the 13-byte record and 12-byte
\* handshake headers) still travels alone.
CompactionMeetsSpec ==
    \A mtu \in PackMtus, sizes \in PacketRuns :
        CompactOK(sizes, mtu, CompactRawPackets(sizes, mtu))
=============================================================================
