---------------------------- MODULE Sound_proofs ----------------------------
(***************************************************************************)
(* Sound, for every buffer size and any number of frames, bytes and        *)
(* samples: the mixer's ring plays in order, provided one audio_render     *)
(* produces no more than one buffer; VERA's PCM ring plays whole frames;   *)
(* the WAV recorder's file holds the recording; and the MIDI card plays    *)
(* what is pressed.                                                        *)
(***************************************************************************)
EXTENDS AudioRing, PcmFifo, WavRecorder, MidiUart, SequenceTheorems, NatLemmas

\* The host's sample rate is not above the fastest source's by so much that a
\* render exceeds a buffer: with such a render the ring may skip what it then counts.
SlowHost == MaxLen <= Frames

\* The ring has at least three buffers (audio_init).
LEMMA SizeValue ==
  Size \in Nat /\ Size >= 1 /\ Frames \in Nat /\ Frames >= 1 /\ Size >= 3 * Frames
<1>1. Frames \in Nat /\ Bufs \in Nat /\ Frames >= 1 /\ Bufs >= 3
  BY AudioAssumption
<1>2. Frames * Bufs \in Nat /\ Frames * Bufs >= Frames * 3
  BY <1>1
<1>3. QED
  BY <1>1, <1>2 DEF Size

\* Adding to an index, with the modulus resolved.
LEMMA AdvanceValue ==
  ASSUME NEW i \in 0 .. Size - 1, NEW n \in 0 .. Size
  PROVE  /\ Advance(i, n) \in 0 .. Size - 1
         /\ Advance(i, n) = IF i + n < Size THEN i + n ELSE i + n - Size
         /\ (i + n) % Size = IF i + n < Size THEN i + n ELSE i + n - Size
BY SizeValue DEF Advance

LEMMA DistanceValue ==
  ASSUME NEW i \in 0 .. Size - 1, NEW j \in 0 .. Size - 1
  PROVE  (i - j) % Size = IF i >= j THEN i - j ELSE i - j + Size
BY SizeValue

LEMMA IndexInRange == ASSUME NEW a \in Nat PROVE a % Size \in 0 .. Size - 1
BY SizeValue

\* Going once more round the ring changes no index.
LEMMA RoundTheRing == ASSUME NEW a \in 0 .. 2 * Size PROVE (a + Size) % Size = a % Size
<1> USE SizeValue
<1>1. CASE a < Size
  BY <1>1
<1>2. CASE Size <= a /\ a < 2 * Size
  BY <1>2
<1>3. CASE a = 2 * Size
  BY <1>3
<1>4. QED
  BY <1>1, <1>2, <1>3

LEMMA FunctionIsSeq ==
  ASSUME NEW S, NEW n \in Nat, NEW f \in [1 .. n -> S]
  PROVE  f \in Seq(S) /\ Len(f) = n
<1>1. f \in Seq(S)
  BY SeqDef
<1>2. DOMAIN f = 1 .. n /\ DOMAIN f = 1 .. Len(f) /\ Len(f) \in Nat
  BY <1>1, LenProperties
<1>3. QED
  BY <1>1, <1>2

LEMMA RemainderOfIndex == ASSUME NEW i \in 0 .. Size - 1 PROVE i % Size = i
BY SizeValue

\* What the callback or a render has put out last: the newest frame played.
Newest == IF played = <<>> THEN last ELSE played[Len(played)]

\* The inductive invariant: the write index is `written' slots after the read
\* index, and nothing played is newer than what is pending.
RingInv ==
    /\ TypeOK
    /\ NoOverflow
    /\ wridx = Advance(rdidx, written)
    /\ written <= rendered
    /\ PendingIsLatest
    /\ PlayedInOrder
    /\ Newest <= rendered - written

\* The callback's two copies together take what it asks for or what there is;
\* from a full ring, whose indices are equal, nothing.
LEMMA CallbackCount ==
  ASSUME TypeOK, NoOverflow, wridx = Advance(rdidx, written)
  PROVE  ToEnd + ToWrite = IF written = Size THEN 0 ELSE Lesser(Frames, written)
<1> USE DEF TypeOK, NoOverflow
<1>1. written \in 0 .. Size /\ Frames \in Nat
  BY AudioAssumption, SizeValue
<1>2. wridx = IF rdidx + written < Size THEN rdidx + written ELSE rdidx + written - Size
  BY <1>1, AdvanceValue
<1>3. CASE rdidx > wridx
  <2>1. rdidx + written >= Size /\ written < Size /\ wridx = rdidx + written - Size
    BY <1>1, <1>2, <1>3, SizeValue
  <2>2. ToEnd = Lesser(Frames, Size - rdidx)
    BY <1>3 DEF ToEnd
  <2>3. CASE Frames < Size - rdidx
    BY <1>1, <1>3, <2>1, <2>2, <2>3, SizeValue DEF ToWrite, Lesser
  <2>4. CASE Frames >= Size - rdidx
    <3>1. ToEnd = Size - rdidx
      BY <1>1, <2>2, <2>4, SizeValue DEF Lesser
    <3>2. (rdidx + ToEnd) % Size = 0
      BY <3>1, SizeValue
    <3>3. ToWrite = Lesser(Frames - ToEnd, wridx)
      BY <3>1, <3>2, SizeValue DEF ToWrite
    <3>4. QED
      BY <1>1, <2>1, <2>4, <3>1, <3>3, SizeValue DEF Lesser
  <2>5. QED
    BY <1>1, <2>3, <2>4, SizeValue
<1>4. CASE ~(rdidx > wridx)
  <2>1. ToEnd = 0
    BY <1>4 DEF ToEnd
  <2>2. (rdidx + ToEnd) % Size = rdidx
    <3>1. rdidx + ToEnd = rdidx
      BY <2>1
    <3>2. rdidx % Size = rdidx
      BY RemainderOfIndex
    <3>3. QED
      BY <3>1, <3>2
  <2>3. ToWrite = Lesser(Frames, wridx - rdidx)
    BY <1>1, <1>4, <2>1, <2>2 DEF ToWrite
  <2>4. QED
    BY <1>1, <1>2, <1>4, <2>1, <2>3, SizeValue DEF Lesser
<1>5. QED
  BY <1>3, <1>4

\* Slot number k from the read index, after the read index has moved on by n.
LEMMA SlotAfter ==
  ASSUME NEW r \in 0 .. Size - 1, NEW n \in 0 .. Size, NEW k \in Nat, n + k <= Size
  PROVE  (Advance(r, n) + k) % Size = (r + (n + k)) % Size
<1>1. k \in 0 .. Size /\ n + k \in 0 .. Size
  BY SizeValue
<1>2. Advance(r, n) \in 0 .. Size - 1
  BY AdvanceValue
<1>3. (Advance(r, n) + k) % Size = IF Advance(r, n) + k < Size THEN Advance(r, n) + k
                                   ELSE Advance(r, n) + k - Size
  BY <1>1, <1>2, AdvanceValue
<1>4. (r + (n + k)) % Size = IF r + (n + k) < Size THEN r + (n + k) ELSE r + (n + k) - Size
  BY <1>1, AdvanceValue
<1>5. Advance(r, n) = IF r + n < Size THEN r + n ELSE r + n - Size
  BY AdvanceValue
<1>6. QED
  BY <1>2, <1>3, <1>4, <1>5, SizeValue

\* A callback takes frames from the front of what is pending and plays them.
LEMMA CallbackStep == RingInv /\ audio_callback => RingInv'
<1> SUFFICES ASSUME RingInv, audio_callback PROVE RingInv'
  OBVIOUS
<1> DEFINE n == ToEnd + ToWrite
<1> USE SizeValue
<1>1. /\ rdidx \in 0 .. Size - 1 /\ wridx \in 0 .. Size - 1 /\ written \in 0 .. Size
      /\ rendered \in 0 .. MaxFrame /\ written <= rendered
      /\ wridx = Advance(rdidx, written)
  BY DEF RingInv, TypeOK, NoOverflow
<1>2. n \in 0 .. Size /\ n <= written
  <2>1. TypeOK /\ NoOverflow
    BY DEF RingInv
  <2>2. n = IF written = Size THEN 0 ELSE Lesser(Frames, written)
    BY <1>1, <2>1, CallbackCount
  <2>3. Frames \in Nat
    BY AudioAssumption
  <2> HIDE DEF n
  <2>4. QED
    BY <1>1, <2>2, <2>3 DEF Lesser
<1>3. /\ played' = [i \in 1 .. n |-> buffer[(rdidx + i - 1) % Size]]
      /\ last' = Newest
      /\ rdidx' = Advance(rdidx, n)
      /\ written' = written - n
      /\ UNCHANGED <<buffer, wridx, rendered>>
  BY DEF audio_callback, Newest
<1> HIDE DEF n
<1>4. ASSUME NEW k \in 0 .. written - 1
      PROVE  buffer[(rdidx + k) % Size] = rendered - written + k + 1
  BY DEF RingInv, PendingIsLatest
<1>5. played' \in Seq(0 .. MaxFrame) /\ Len(played') = n
      /\ \A i \in 1 .. n : played'[i] = rendered - written + i
  <2>1. ASSUME NEW i \in 1 .. n
        PROVE  /\ buffer[(rdidx + i - 1) % Size] = rendered - written + i
               /\ buffer[(rdidx + i - 1) % Size] \in 0 .. MaxFrame
    <3>1. i - 1 \in 0 .. written - 1
      BY <1>1, <1>2
    <3>2. rdidx + (i - 1) = rdidx + i - 1
      BY <1>1
    <3>3. buffer[(rdidx + i - 1) % Size] = rendered - written + (i - 1) + 1
      BY <1>4, <3>1, <3>2
    <3>4. rendered \in 0 .. MaxFrame /\ MaxFrame \in Nat
      BY <1>1, AudioAssumption
    <3>5. rendered - written + (i - 1) + 1 = rendered - written + i
      BY <1>1, <1>2, <3>4
    <3>6. rendered - written + i \in 0 .. MaxFrame
      BY <1>1, <1>2, <3>4
    <3>7. QED
      BY <3>3, <3>5, <3>6
  <2>2. n \in Nat
    BY <1>2
  <2>3. played' = [i \in 1 .. n |-> buffer[(rdidx + i - 1) % Size]]
    BY <1>3
  <2>4. played' \in [1 .. n -> 0 .. MaxFrame]
    BY <2>1, <2>3
  <2>5. played' \in Seq(0 .. MaxFrame) /\ Len(played') = n
    BY <2>2, <2>4, FunctionIsSeq
  <2>6. \A i \in 1 .. n : played'[i] = rendered - written + i
    BY <2>1, <2>3
  <2>7. QED
    BY <2>5, <2>6
<1>6. Newest \in 0 .. MaxFrame /\ Newest <= rendered - written
  <2>1. CASE played = <<>>
    BY <2>1 DEF Newest, RingInv, TypeOK
  <2>2. CASE played # <<>>
    <3>1. played \in Seq(0 .. MaxFrame)
      BY DEF RingInv, TypeOK
    <3>2. Len(played) \in 1 .. Len(played)
      BY <2>2, <3>1
    <3>3. played[Len(played)] \in 0 .. MaxFrame
      BY <3>1, <3>2, ElementOfSeq
    <3>4. QED
      BY <2>2, <3>3 DEF Newest, RingInv
  <2>3. QED
    BY <2>1, <2>2
<1>7. wridx' = Advance(rdidx', written')
  <2>1. written' \in Nat /\ n + written' <= Size /\ n + written' = written
    BY <1>1, <1>2, <1>3
  <2>2. (Advance(rdidx, n) + written') % Size = (rdidx + (n + written')) % Size
    BY <1>1, <1>2, <2>1, SlotAfter
  <2>3. QED
    BY <1>1, <1>3, <2>1, <2>2 DEF Advance
<1>8. PendingIsLatest'
  <2> SUFFICES ASSUME NEW k \in 0 .. written' - 1
               PROVE  buffer'[(rdidx' + k) % Size] = rendered' - written' + k + 1
    BY DEF PendingIsLatest, Size
  <2>1. k \in Nat /\ n + k \in 0 .. written - 1 /\ n + k <= Size
    BY <1>1, <1>2, <1>3
  <2>2. (Advance(rdidx, n) + k) % Size = (rdidx + (n + k)) % Size
    BY <1>1, <1>2, <2>1, SlotAfter
  <2>3. buffer[(rdidx + (n + k)) % Size] = rendered - written + (n + k) + 1
    BY <1>4, <2>1
  <2>4. QED
    BY <1>1, <1>2, <1>3, <2>1, <2>2, <2>3
<1>9. TypeOK' /\ NoOverflow' /\ written' <= rendered'
  <2>1. rdidx' \in 0 .. Size - 1
    BY <1>1, <1>2, <1>3, AdvanceValue
  <2>2. written' \in 0 .. Size /\ written' <= rendered'
    BY <1>1, <1>2, <1>3
  <2>3. QED
    BY <1>1, <1>3, <1>5, <1>6, <2>1, <2>2 DEF RingInv, TypeOK, NoOverflow, Size
<1>10. PlayedInOrder'
  <2>1. ASSUME NEW i \in 1 .. Len(played') - 1
        PROVE  played'[i + 1] = played'[i] + 1
    BY <1>1, <1>2, <1>5
  <2>2. played' # <<>> => played'[1] > last'
    <3> SUFFICES ASSUME played' # <<>> PROVE played'[1] > last'
      OBVIOUS
    <3>1. 1 \in 1 .. n
      BY <1>2, <1>5
    <3>2. played'[1] = rendered - written + 1
      BY <1>5, <3>1
    <3>3. rendered - written + 1 > Newest
      BY <1>1, <1>6
    <3>4. QED
      BY <1>3, <3>2, <3>3
  <2>3. QED
    BY <2>1, <2>2 DEF PlayedInOrder
<1>11. Newest' <= rendered' - written'
  <2>1. CASE played' = <<>>
    BY <1>1, <1>2, <1>3, <1>5, <1>6, <2>1 DEF Newest
  <2>2. CASE played' # <<>>
    <3>1. n >= 1
      BY <1>2, <1>5, <2>2
    <3>2. n \in 1 .. n
      BY <1>2, <3>1
    <3>3. played'[Len(played')] = rendered - written + n
      BY <1>5, <3>2
    <3>4. Newest' = rendered - written + n
      BY <2>2, <3>3 DEF Newest
    <3>5. QED
      BY <1>1, <1>2, <1>3, <3>4
  <2>3. QED
    BY <2>1, <2>2
<1>12. QED
  BY <1>7, <1>8, <1>9, <1>10, <1>11 DEF RingInv

\* With at most one buffer rendered at a time the reader is moved on by no
\* more than one buffer.
LEMMA SkippedValue ==
  ASSUME NEW w \in 0 .. Size + Frames
  PROVE  Skipped(w) = IF w > Size THEN Frames ELSE 0
<1>1. Frames \in Nat
  BY AudioAssumption
<1>2. CASE w > Size
  <2>1. w \div Size = 1
    BY <1>1, <1>2, SizeValue
  <2>2. QED
    BY <1>1, <1>2, <2>1 DEF Skipped
<1>3. QED
  BY <1>1, <1>2 DEF Skipped

\* A render puts the new frames behind the pending ones and, when that is more
\* than fits, drops one buffer of the oldest.
LEMMA RenderStep ==
  ASSUME SlowHost, RingInv, NEW len \in 0 .. MaxLen, audio_render(len)
  PROVE  RingInv'
<1> DEFINE w == written + len
           s == Skipped(w)
<1> USE SizeValue
<1>1. /\ rdidx \in 0 .. Size - 1 /\ wridx \in 0 .. Size - 1 /\ written \in 0 .. Size
      /\ rendered \in 0 .. MaxFrame /\ written <= rendered
      /\ wridx = Advance(rdidx, written)
      /\ Frames \in Nat /\ MaxFrame \in Nat /\ len \in 0 .. Frames /\ len \in 0 .. Size
  BY AudioAssumption DEF RingInv, TypeOK, NoOverflow, SlowHost
<1>2. w \in 0 .. Size + Frames /\ s = IF w > Size THEN Frames ELSE 0
  <2>1. w \in 0 .. Size + Frames
    BY <1>1
  <2> HIDE DEF w
  <2>2. QED
    BY <2>1, SkippedValue
<1>3. /\ rendered + len <= MaxFrame
      /\ buffer' = [i \in 0 .. Size - 1 |->
                      IF Ahead(i) < len THEN rendered + Ahead(i) + 1 ELSE buffer[i]]
      /\ wridx' = Advance(wridx, len)
      /\ rendered' = rendered + len
      /\ rdidx' = Advance(rdidx, s)
      /\ written' = w - s
      /\ UNCHANGED <<played, last>>
  <2>1. /\ rendered + len <= MaxFrame
        /\ buffer' = [i \in 0 .. Size - 1 |->
                        IF Ahead(i) < len THEN rendered + Ahead(i) + 1 ELSE buffer[i]]
    BY DEF audio_render
  <2>2. /\ wridx' = Advance(wridx, len) /\ rendered' = rendered + len
        /\ UNCHANGED <<played, last>>
    BY DEF audio_render
  <2>3. rdidx' = Advance(rdidx, s)
    BY DEF audio_render
  <2>4. written' = w - s
    <3>1. written' = written + len - Skipped(written + len)
      BY DEF audio_render
    <3>2. Skipped(written + len) \in Nat
      BY <1>1, <1>2
    <3>3. QED
      BY <1>1, <3>1, <3>2
  <2>5. QED
    BY <2>1, <2>2, <2>3, <2>4
<1> HIDE DEF s
<1>4. /\ s \in 0 .. Size /\ w - s \in 0 .. Size /\ w = written + len
      /\ s <= w
  BY <1>1, <1>2
<1> HIDE DEF w
<1>5. rdidx' \in 0 .. Size - 1 /\ wridx' \in 0 .. Size - 1
  BY <1>1, <1>3, <1>4, AdvanceValue
<1>6. wridx' = Advance(rdidx', written')
  <2>1. wridx = IF rdidx + written < Size THEN rdidx + written ELSE rdidx + written - Size
    BY <1>1, AdvanceValue
  <2>2. wridx' = IF wridx + len < Size THEN wridx + len ELSE wridx + len - Size
    BY <1>1, <1>3, AdvanceValue
  <2>3. rdidx' = IF rdidx + s < Size THEN rdidx + s ELSE rdidx + s - Size
    BY <1>1, <1>3, <1>4, AdvanceValue
  <2>4. Advance(rdidx', written') = IF rdidx' + written' < Size THEN rdidx' + written'
                                    ELSE rdidx' + written' - Size
    BY <1>3, <1>4, <1>5, AdvanceValue
  <2>5. written' = written + len - s
    BY <1>1, <1>3, <1>4
  <2>6. QED
    BY <1>1, <1>2, <1>4, <1>5, <2>1, <2>2, <2>3, <2>4, <2>5
<1>7. PendingIsLatest'
  <2> SUFFICES ASSUME NEW k \in 0 .. written' - 1
               PROVE  buffer'[(rdidx' + k) % Size] = rendered' - written' + k + 1
    BY DEF PendingIsLatest, Size
  <2> DEFINE j == (rdidx + (s + k)) % Size
             d == Ahead(j)
  <2>1. k \in Nat /\ s + k \in 0 .. w - 1 /\ s + k \in 0 .. Size + Frames /\ k < Size
        /\ k < w - s
    BY <1>1, <1>2, <1>3, <1>4
  <2>2. (rdidx' + k) % Size = j /\ j \in 0 .. Size - 1
    <3>1. rdidx' = IF rdidx + s < Size THEN rdidx + s ELSE rdidx + s - Size
      BY <1>1, <1>3, <1>4, AdvanceValue
    <3>2. CASE rdidx + s < Size
      <4>1. rdidx' + k = rdidx + (s + k)
        BY <1>1, <1>4, <2>1, <3>1, <3>2
      <4>2. rdidx + (s + k) \in Nat
        BY <1>1, <1>4, <2>1
      <4>3. (rdidx + (s + k)) % Size \in 0 .. Size - 1
        BY <4>2, IndexInRange
      <4>4. QED
        BY <4>1, <4>3
    <3>3. CASE rdidx + s >= Size
      <4>1. rdidx' + k = rdidx + (s + k) - Size
        BY <1>1, <1>4, <2>1, <3>1, <3>3
      <4>2. rdidx' + k \in 0 .. 2 * Size /\ (rdidx' + k) + Size = rdidx + (s + k)
        BY <1>1, <1>4, <2>1, <3>3, <4>1
      <4>3. (rdidx' + k) % Size = j
        BY <4>2, RoundTheRing
      <4>4. j \in 0 .. Size - 1
        BY <1>1, <1>4, <2>1, IndexInRange
      <4>5. QED
        BY <4>3, <4>4
    <3>4. QED
      BY <1>1, <1>4, <3>2, <3>3
  <2>3. wridx = IF rdidx + written < Size THEN rdidx + written ELSE rdidx + written - Size
    BY <1>1, AdvanceValue
  <2>4. d = IF j >= wridx THEN j - wridx ELSE j - wridx + Size
    BY <1>1, <2>2, DistanceValue DEF Ahead
  <2>5. buffer'[j] = IF d < len THEN rendered + d + 1 ELSE buffer[j]
    BY <1>3, <2>2
  <2>6. rendered' - written' + k + 1 = rendered - written + (s + k) + 1
    BY <1>1, <1>3, <1>4, <2>1
  <2>7. CASE s + k >= written
    <3>1. d = s + k - written
      <4>1. s + k - written < len /\ len < Size
        BY <1>1, <1>4, <2>1, <2>7
      <4>2. j = (wridx + (s + k - written)) % Size
        <5>1. CASE rdidx + written < Size
          <6>1. wridx + (s + k - written) = rdidx + (s + k)
            BY <1>1, <1>4, <2>1, <2>3, <5>1
          <6>2. QED
            BY <6>1
        <5>2. CASE rdidx + written >= Size
          <6>1. wridx + (s + k - written) = rdidx + (s + k) - Size
            BY <1>1, <1>4, <2>1, <2>3, <5>2
          <6>2. /\ wridx + (s + k - written) \in 0 .. 2 * Size
                /\ (wridx + (s + k - written)) + Size = rdidx + (s + k)
            BY <1>1, <1>4, <2>1, <2>7, <4>1, <5>2, <6>1
          <6>3. QED
            BY <6>2, RoundTheRing
        <5>3. QED
          BY <1>1, <5>1, <5>2
      <4>3. s + k - written \in 0 .. Size
        BY <1>1, <1>4, <2>1, <2>7, <4>1
      <4>4. j = IF wridx + (s + k - written) < Size THEN wridx + (s + k - written)
                ELSE wridx + (s + k - written) - Size
        BY <1>1, <4>2, <4>3, AdvanceValue
      <4> HIDE DEF d, j
      <4>5. QED
        BY <1>1, <1>4, <2>1, <2>2, <2>4, <4>1, <4>3, <4>4
    <3>2. d < len
      BY <1>1, <1>4, <2>1, <3>1
    <3> HIDE DEF d, j
    <3>3. QED
      BY <1>1, <1>4, <2>1, <2>2, <2>5, <2>6, <3>1, <3>2
  <2>8. CASE s + k < written
    <3>1. s + k \in 0 .. written - 1 /\ s + k \in 0 .. Size
      BY <1>1, <1>4, <2>1, <2>8
    <3>2. buffer[j] = rendered - written + (s + k) + 1
      BY <3>1 DEF RingInv, PendingIsLatest
    <3>3. j = IF rdidx + (s + k) < Size THEN rdidx + (s + k) ELSE rdidx + (s + k) - Size
      BY <1>1, <3>1, AdvanceValue
    <3>4. len <= s + k - written + Size
      BY <1>1, <1>4, <2>1
    <3> HIDE DEF d, j
    <3>5. d = s + k - written + Size
      BY <1>1, <1>4, <2>1, <2>2, <2>3, <2>4, <2>8, <3>1, <3>3
    <3>6. QED
      BY <1>1, <1>4, <2>1, <2>2, <2>5, <2>6, <3>2, <3>4, <3>5
  <2>9. QED
    BY <1>1, <1>4, <2>1, <2>7, <2>8
<1>8. TypeOK' /\ NoOverflow' /\ written' <= rendered'
  <2>1. written' \in 0 .. Size /\ written' <= rendered' /\ rendered' \in 0 .. MaxFrame
    BY <1>1, <1>3, <1>4
  <2>2. ASSUME NEW i \in 0 .. Size - 1
        PROVE  buffer'[i] \in 0 .. MaxFrame
    <3>1. Ahead(i) \in Nat
      BY <1>1, DistanceValue DEF Ahead
    <3>2. buffer[i] \in 0 .. MaxFrame
      BY DEF RingInv, TypeOK
    <3>3. buffer'[i] = IF Ahead(i) < len THEN rendered + Ahead(i) + 1 ELSE buffer[i]
      BY <1>3
    <3>4. Ahead(i) < len => rendered + Ahead(i) + 1 \in 0 .. MaxFrame
      BY <1>1, <1>3, <3>1
    <3>5. QED
      BY <3>2, <3>3, <3>4
  <2>3. buffer' \in [0 .. Size - 1 -> 0 .. MaxFrame]
    BY <1>3, <2>2
  <2>4. QED
    BY <1>3, <1>5, <2>1, <2>3 DEF RingInv, TypeOK, NoOverflow, Size
<1>9. PlayedInOrder' /\ Newest' = Newest
  BY <1>3 DEF RingInv, PlayedInOrder, Newest
<1>10. Newest' <= rendered' - written'
  <2>1. Newest \in Int /\ Newest <= rendered - written
    <3>1. CASE played = <<>>
      BY <3>1 DEF RingInv, TypeOK, Newest
    <3>2. CASE played # <<>>
      <4>1. played \in Seq(0 .. MaxFrame)
        BY DEF RingInv, TypeOK
      <4>2. Len(played) \in 1 .. Len(played)
        BY <3>2, <4>1
      <4>3. played[Len(played)] \in 0 .. MaxFrame
        BY <4>1, <4>2, ElementOfSeq
      <4>4. QED
        BY <3>2, <4>3 DEF RingInv, Newest
    <3>3. QED
      BY <3>1, <3>2
  <2>2. QED
    BY <1>1, <1>3, <1>4, <1>9, <2>1
<1>11. QED
  BY <1>6, <1>7, <1>8, <1>9, <1>10 DEF RingInv

LEMMA InitIInv == Init => RingInv
<1> SUFFICES ASSUME Init PROVE RingInv
  OBVIOUS
<1>1. TypeOK /\ NoOverflow /\ written <= rendered
  BY SizeValue, AudioAssumption DEF Init, TypeOK, NoOverflow
<1>2. wridx = Advance(rdidx, written)
  <2>1. rdidx = 0 /\ wridx = 0 /\ written = 0 
    BY DEF Init
  <2>3. 0 \in 0 .. Size - 1 /\ 0 + 0 = 0
    BY SizeValue
  <2>2. QED
    BY <2>1, <2>3, RemainderOfIndex DEF Advance
<1>3. PendingIsLatest /\ PlayedInOrder /\ Newest <= rendered - written
  BY DEF Init, PendingIsLatest, PlayedInOrder, Newest
<1>4. QED
  BY <1>1, <1>2, <1>3 DEF RingInv

\* The indices and buffer_written agree whenever the reader is that far behind.
LEMMA IndicesAgree == RingInv => WrittenMatchesIndices
<1> SUFFICES ASSUME RingInv PROVE written % Size = (wridx - rdidx) % Size
  BY DEF WrittenMatchesIndices
<1> USE SizeValue
<1>1. rdidx \in 0 .. Size - 1 /\ wridx \in 0 .. Size - 1 /\ written \in 0 .. Size
  BY DEF RingInv, TypeOK, NoOverflow
<1>2. wridx = IF rdidx + written < Size THEN rdidx + written ELSE rdidx + written - Size
  BY <1>1, AdvanceValue DEF RingInv
<1>3. (wridx - rdidx) % Size = IF wridx >= rdidx THEN wridx - rdidx ELSE wridx - rdidx + Size
  BY <1>1, DistanceValue
<1>4. CASE written = Size
  <2>1. wridx = rdidx /\ written % Size = 0
    BY <1>1, <1>2, <1>4
  <2>2. QED
    BY <1>1, <1>3, <2>1
<1>5. CASE written < Size
  <2>1. written % Size = written
    BY <1>1, <1>5
  <2>2. QED
    BY <1>1, <1>2, <1>3, <1>5, <2>1
<1>6. QED
  BY <1>1, <1>4, <1>5

\* For every buffer size and however long the two threads run, a host that
\* renders at most a buffer at a time never overflows the ring, keeps the
\* indices and buffer_written in agreement, and plays the frames in the order
\* they were rendered (audio_callback, audio_render).
THEOREM RingSafe ==
  SlowHost => (Spec => [](PlaysInOrder /\ NoOverflow /\ WrittenMatchesIndices))
<1> SUFFICES ASSUME SlowHost
             PROVE  Spec => [](PlaysInOrder /\ NoOverflow /\ WrittenMatchesIndices)
  OBVIOUS
<1>1. RingInv /\ [Next]_vars => RingInv'
  <2> SUFFICES ASSUME RingInv, [Next]_vars PROVE RingInv'
    OBVIOUS
  <2>1. CASE audio_callback
    BY <2>1, CallbackStep
  <2>2. CASE \E len \in 0 .. MaxLen : audio_render(len)
    BY <2>2, RenderStep
  <2>3. CASE UNCHANGED vars
    BY <2>3 DEF vars, RingInv, TypeOK, NoOverflow, Advance, PendingIsLatest, PlayedInOrder,
                Newest, Size
  <2>4. QED
    BY <2>1, <2>2, <2>3 DEF Next
<1>2. RingInv => PlaysInOrder /\ NoOverflow /\ WrittenMatchesIndices
  BY IndicesAgree DEF RingInv, PlaysInOrder
<1>3. QED
  BY InitIInv, <1>1, <1>2, PTL DEF Spec

-----------------------------------------------------------------------------
(* The PCM ring *)


Wrap(i) == IF i < PcmSize THEN i ELSE i - PcmSize

\* The write index has gone round with what was written, and the slots below it
\* hold the bytes a restart plays again.
Restartable ==
    /\ fifo_wridx = pcm_written % PcmSize
    /\ \A j \in 0 .. fifo_wridx - 1 :
           fifo[j] = [of |-> stream, n |-> pcm_written - fifo_wridx + j + 1]

\* Bytes leave by whole frames.
InStep == ~ torn => taken % frame = 0

PcmInv ==
    /\ HoldsTheRest /\ PlaysWholeFrames
    /\ fifo_wridx = Wrap(fifo_rdidx + fifo_cnt)
    /\ Restartable /\ InStep

LEMMA PcmSizes ==
    ASSUME PcmAssumption
    PROVE  /\ PcmSize \in Nat \ {0} /\ PcmSize > 1 /\ MaxWritten \in Nat /\ MaxWritten > 0
BY DEF PcmAssumption

LEMMA FrameSizeValues ==
    ASSUME PcmAssumption
    PROVE  /\ 1 \in FrameSizes
           /\ \A f \in FrameSizes : f \in Nat \ {0} /\ f < PcmSize /\ PcmSize % f = 0
BY DEF PcmAssumption

LEMMA WrapValue ==
    ASSUME PcmAssumption, NEW i \in 0 .. 2 * PcmSize - 1
    PROVE  i % PcmSize = Wrap(i) /\ Wrap(i) \in 0 .. PcmSize - 1
<1>1. CASE i < PcmSize
  BY <1>1, PcmSizes DEF Wrap
<1>2. CASE i >= PcmSize
  <2>1. i = PcmSize * 1 + (i - PcmSize) /\ i - PcmSize \in 0 .. PcmSize - 1 /\ i \in Nat
    BY <1>2, PcmSizes
  <2>2. 1 \in Nat /\ PcmSize \in Nat \ {0}
    BY PcmSizes
  <2> DEFINE r == i - PcmSize
  <2>3. r \in 0 .. PcmSize - 1 /\ i = PcmSize * 1 + r
    BY <2>1
  <2> HIDE DEF r
  <2>4. i % PcmSize = r
    BY <2>1, <2>2, <2>3, DivUnique
  <2> QED BY <1>2, <2>1, <2>4, PcmSizes DEF Wrap, r
<1> QED BY <1>1, <1>2, PcmSizes

\* What a restart skips is a number of rounds, and so of frames.
LEMMA RestartInStep ==
    ASSUME PcmAssumption, NEW w \in Nat, NEW f \in FrameSizes
    PROVE  /\ w - (w % PcmSize) \in Nat
           /\ (w - (w % PcmSize)) % f = 0
<1> DEFINE q == w \div PcmSize
           k == PcmSize \div f
<1>1. q \in Nat /\ w % PcmSize \in Nat /\ w = PcmSize * q + (w % PcmSize)
  <2>1. PcmSize \in Nat \ {0}
    BY PcmSizes
  <2> QED BY <2>1, DivMod
<1>2. f \in Nat \ {0} /\ k \in Nat /\ PcmSize = f * k
  <2>1. f \in Nat \ {0} /\ PcmSize \in Nat /\ PcmSize % f = 0
    BY PcmSizes, FrameSizeValues
  <2>2. k \in Nat /\ PcmSize = f * k + (PcmSize % f)
    BY <2>1, DivMod
  <2> QED BY <2>1, <2>2
<1> HIDE DEF q, k
<1>3. w - (w % PcmSize) = PcmSize * q
  BY <1>1, PcmSizes
<1>4. PcmSize * q = f * (k * q) + 0 /\ k * q \in Nat /\ PcmSize * q \in Nat
  BY <1>1, <1>2
<1>5. (PcmSize * q) % f = 0
  <2> DEFINE a == PcmSize * q
             b == k * q
  <2>1. a \in Nat /\ b \in Nat /\ a = f * b + 0 /\ 0 \in 0 .. f - 1
    BY <1>2, <1>4
  <2> HIDE DEF a, b
  <2>2. a % f = 0
    BY <1>2, <2>1, DivUnique
  <2> QED BY <2>2 DEF a
<1> QED BY <1>3, <1>4, <1>5

LEMMA FrameInStep ==
    ASSUME PcmAssumption, NEW t \in Nat, NEW f \in FrameSizes, t % f = 0
    PROVE  (t + f) % f = 0
<1>1. f \in Nat \ {0}
  BY FrameSizeValues
<1>2. ((t % f) + f) % f = (t + f) % f
  BY <1>1, ModPlus
<1>3. f % f = 0
  BY <1>1
<1> QED BY <1>1, <1>2, <1>3

\* What the invariant says in one place.
Pending ==
    /\ fifo_cnt = pcm_written - taken
    /\ \A i \in 0 .. fifo_cnt - 1 :
           fifo[Wrap(fifo_rdidx + i)] = [of |-> stream, n |-> taken + i + 1]

LEMMA PendingWraps ==
    ASSUME PcmAssumption, PcmTypes
    PROVE  RingHolds <=> Pending
<1>1. ASSUME NEW i \in 0 .. fifo_cnt - 1
      PROVE  (fifo_rdidx + i) % PcmSize = Wrap(fifo_rdidx + i)
  <2>1. fifo_rdidx + i \in 0 .. 2 * PcmSize - 1
    BY PcmSizes DEF PcmTypes
  <2> QED BY <2>1, WrapValue
<1> QED BY <1>1 DEF RingHolds, Pending

-----------------------------------------------------------------------------
LEMMA PcmInitHolds == ASSUME PcmAssumption, PcmInit PROVE PcmInv
<1> USE PcmSizes
<1>1. NoByte \in PcmByte /\ 0 \in 0 .. PcmSize - 1
  BY DEF NoByte, PcmByte, Streams
<1>2. PcmTypes
  <2>1. fifo \in [0 .. PcmSize - 1 -> PcmByte] /\ frame \in FrameSizes
    BY <1>1, FrameSizeValues DEF PcmInit
  <2>2. fifo_wridx = 0 /\ fifo_rdidx = 0 /\ fifo_cnt = 0 /\ pcm_written = 0 /\ taken = 0
    BY DEF PcmInit
  <2>3. playing = <<>> /\ loop \in BOOLEAN /\ stream \in Streams /\ torn \in BOOLEAN /\ current \in BOOLEAN
    BY DEF PcmInit, Streams
  <2>4. Len(playing) \in {0} \cup FrameSizes
    BY <2>3
  <2> QED BY <1>1, <2>1, <2>2, <2>3, <2>4 DEF PcmTypes
<1>3. RingHolds /\ LoopNeverDry /\ PlaysWholeFrames
  BY DEF PcmInit, RingHolds, LoopNeverDry, PlaysWholeFrames
<1>4. fifo_wridx = Wrap(fifo_rdidx + fifo_cnt)
  BY DEF PcmInit, Wrap
<1>5. Restartable
  <2>1. fifo_wridx = 0 /\ pcm_written = 0
    BY DEF PcmInit
  <2>2. 0 % PcmSize = 0
    OBVIOUS
  <2> QED BY <2>1, <2>2 DEF Restartable
<1>6. InStep
  <2>1. taken = 0 /\ frame \in Nat \ {0}
    BY FrameSizeValues DEF PcmInit
  <2> QED BY <2>1 DEF InStep
<1> QED BY <1>2, <1>3, <1>4, <1>5, <1>6 DEF PcmInv, HoldsTheRest

\* A cleared ring, of any frame size.
LEMMA ClearHolds ==
    ASSUME PcmAssumption, PcmInv, fifo_reset, NewStream, frame' \in FrameSizes,
           loop' \in BOOLEAN, playing' \in {playing, <<>>}
    PROVE  PcmInv'
<1> USE PcmSizes
<1>1. /\ fifo_wridx' = 0 /\ fifo_rdidx' = 0 /\ fifo_cnt' = 0 /\ fifo' = fifo
      /\ pcm_written' = 0 /\ taken' = 0 /\ torn' = FALSE /\ current' = FALSE /\ stream' = 1 - stream
  BY DEF fifo_reset, NewStream
<1>2. stream' \in Streams
  BY <1>1 DEF PcmInv, HoldsTheRest, PcmTypes, Streams
<1>3. PcmTypes'
  <2>1. Len(playing') \in {0} \cup FrameSizes
    BY DEF PcmInv, HoldsTheRest, PcmTypes
  <2>2. 0 \in 0 .. PcmSize - 1 /\ 0 \in 0 .. MaxWritten /\ 0 \in 0 .. 0
    OBVIOUS
  <2>3. fifo' \in [0 .. PcmSize - 1 -> PcmByte]
    BY <1>1 DEF PcmInv, HoldsTheRest, PcmTypes
  <2> QED BY <1>1, <1>2, <2>1, <2>2, <2>3 DEF PcmTypes
<1>4. RingHolds' /\ LoopNeverDry' /\ PlaysWholeFrames'
  BY <1>1 DEF RingHolds, LoopNeverDry, PlaysWholeFrames
<1>5. (fifo_wridx = Wrap(fifo_rdidx + fifo_cnt))'
  BY <1>1 DEF Wrap
<1>6. Restartable'
  <2>1. 0 % PcmSize = 0
    OBVIOUS
  <2> QED BY <1>1, <2>1 DEF Restartable
<1>7. InStep'
  <2>1. taken' = 0 /\ frame' \in Nat \ {0}
    BY <1>1, FrameSizeValues
  <2>2. ASSUME NEW f \in Nat \ {0} PROVE 0 % f = 0
    OBVIOUS
  <2>3. 0 % frame' = 0
    BY <2>1, <2>2
  <2> QED BY <2>1, <2>3 DEF InStep
<1> QED BY <1>3, <1>4, <1>5, <1>6, <1>7 DEF PcmInv, HoldsTheRest

\* A ring whose reader goes back to the first slot, by a restart or a loop.
LEMMA RewindHolds ==
    ASSUME PcmAssumption, PcmInv, UNCHANGED <<fifo, fifo_wridx, stream, pcm_written>>,
           frame' \in FrameSizes,
           fifo_rdidx' = 0, fifo_cnt' = fifo_wridx, taken' = pcm_written - fifo_wridx,
           loop' \in BOOLEAN, torn' \in BOOLEAN, current' \in BOOLEAN,
           Len(playing') \in {0} \cup FrameSizes, PlaysWholeFrames'
    PROVE  PcmInv'
<1> USE PcmSizes
<1>1. PcmTypes /\ Restartable
  BY DEF PcmInv, HoldsTheRest
<1>2. /\ pcm_written \in Nat /\ fifo_wridx = pcm_written % PcmSize /\ fifo_wridx \in 0 .. PcmSize - 1
  BY <1>1 DEF PcmTypes, Restartable
<1>3. taken' \in Nat /\ taken' % frame' = 0 /\ taken' <= pcm_written
  BY <1>2, RestartInStep
<1>4. PcmTypes'
  <2>1. fifo_rdidx' \in 0 .. PcmSize - 1 /\ fifo_cnt' \in 0 .. PcmSize - 1 /\ taken' \in 0 .. pcm_written
    BY <1>2, <1>3
  <2> QED BY <1>1, <2>1 DEF PcmTypes
<1>5. Pending'
  <2>1. ASSUME NEW i \in 0 .. fifo_wridx - 1
        PROVE  fifo'[Wrap(0 + i)] = [of |-> stream, n |-> taken' + i + 1]
    <3>0. i \in Nat /\ i < PcmSize
      BY <1>2
    <3>1. Wrap(0 + i) = i
      BY <3>0 DEF Wrap
    <3> QED BY <1>1, <3>1 DEF Restartable
  <2> QED BY <1>2, <2>1 DEF Pending
<1>6. LoopNeverDry'
  <2>1. ASSUME pcm_written < PcmSize PROVE fifo_wridx = pcm_written
    <3>0. pcm_written \in 0 .. PcmSize - 1
      BY <1>2, <2>1
    <3>1. pcm_written % PcmSize = pcm_written
      BY <3>0, SMTT(30)
    <3> QED BY <1>2, <3>1
  <2>2. ASSUME pcm_written \in 1 .. PcmSize - 1 PROVE fifo_cnt' > 0
    <3>1. pcm_written < PcmSize /\ pcm_written > 0
      BY <2>2
    <3> QED BY <2>1, <3>1
  <2> QED BY <2>2 DEF LoopNeverDry
<1>7. (fifo_wridx = Wrap(fifo_rdidx + fifo_cnt))'
  BY <1>2 DEF Wrap
<1>8. Restartable'
  BY <1>1 DEF Restartable
<1>9. InStep'
  BY <1>3 DEF InStep
<1>10. RingHolds'
  BY <1>4, <1>5, PendingWraps, PTL
<1> QED BY <1>4, <1>6, <1>7, <1>8, <1>9, <1>10 DEF PcmInv, HoldsTheRest

\* A byte goes behind the last, and a slot that a restart plays is written once.
LEMMA WriteHolds == ASSUME PcmAssumption, PcmInv, pcm_write_fifo PROVE PcmInv'
<1> USE PcmSizes
<1>1. /\ PcmTypes /\ Pending /\ Restartable /\ fifo_wridx = Wrap(fifo_rdidx + fifo_cnt)
      /\ LoopNeverDry /\ PlaysWholeFrames /\ InStep
  BY PendingWraps DEF PcmInv, HoldsTheRest
<1>2. CASE ~ Room
  <2>1. torn' = TRUE /\ UNCHANGED <<ringVars, frame, loop, playing, stream, pcm_written, taken, current>>
    BY <1>2 DEF pcm_write_fifo
  <2> QED BY <1>1, <2>1
          DEF PcmInv, HoldsTheRest, ringVars, PcmTypes, RingHolds, LoopNeverDry, PlaysWholeFrames,
              Restartable, InStep
<1>3. CASE Room
  <2> DEFINE byte == [of |-> stream, n |-> pcm_written + 1]
  <2>1. /\ pcm_written < MaxWritten /\ fifo_cnt < PcmSize - 1
        /\ fifo' = [fifo EXCEPT ![fifo_wridx] = byte]
        /\ fifo_wridx' = After(fifo_wridx)
        /\ fifo_cnt' = fifo_cnt + 1
        /\ pcm_written' = pcm_written + 1
        /\ UNCHANGED <<fifo_rdidx, frame, loop, playing, stream, taken, torn, current>>
    BY <1>3 DEF pcm_write_fifo, Room
  <2>2. /\ fifo \in [0 .. PcmSize - 1 -> PcmByte] /\ fifo_wridx \in 0 .. PcmSize - 1
        /\ fifo_rdidx \in 0 .. PcmSize - 1 /\ fifo_cnt \in 0 .. PcmSize - 1
        /\ pcm_written \in Nat /\ taken \in Nat /\ stream \in Streams
    BY <1>1 DEF PcmTypes
  <2>3. byte \in PcmByte
    BY <2>1, <2>2 DEF PcmByte
  <2>4. fifo_wridx' = Wrap(fifo_wridx + 1) /\ fifo_wridx' \in 0 .. PcmSize - 1
    <3>1. fifo_wridx + 1 \in 0 .. 2 * PcmSize - 1
      BY <2>2
    <3> QED BY <2>1, <3>1, WrapValue DEF After
  <2>5. PcmTypes'
    BY <1>1, <2>1, <2>2, <2>3, <2>4 DEF PcmTypes
  <2>6. Pending'
    <3>1. ASSUME NEW i \in 0 .. fifo_cnt
          PROVE  fifo'[Wrap(fifo_rdidx + i)] = [of |-> stream, n |-> taken + i + 1]
      <4>1. CASE i = fifo_cnt
        BY <1>1, <2>1, <2>2, <4>1 DEF Pending
      <4>2. CASE i < fifo_cnt
        <5>1. Wrap(fifo_rdidx + i) # fifo_wridx /\ Wrap(fifo_rdidx + i) \in 0 .. PcmSize - 1
          BY <1>1, <2>1, <2>2, <4>2 DEF Wrap
        <5>2. i \in 0 .. fifo_cnt - 1
          BY <4>2, <2>2
        <5> QED BY <1>1, <2>1, <2>2, <5>1, <5>2 DEF Pending
      <4> QED BY <2>2, <4>1, <4>2
    <3>2. fifo_cnt' = pcm_written' - taken'
      BY <1>1, <2>1, <2>2 DEF Pending
    <3>3. 0 .. fifo_cnt' - 1 = 0 .. fifo_cnt
      BY <2>1, <2>2
    <3> QED BY <2>1, <3>1, <3>2, <3>3 DEF Pending
  <2>7. RingHolds'
    BY <2>5, <2>6, PendingWraps, PTL
  <2>8. LoopNeverDry' /\ PlaysWholeFrames' /\ InStep'
    BY <1>1, <2>1, <2>2 DEF LoopNeverDry, PlaysWholeFrames, InStep
  <2>9. (fifo_wridx = Wrap(fifo_rdidx + fifo_cnt))'
    BY <1>1, <2>1, <2>2, <2>4 DEF Wrap
  <2>10. Restartable'
    <3>1. pcm_written' % PcmSize = fifo_wridx'
      BY <1>1, <2>1, <2>2, ModPlus DEF Restartable, After
    <3>2. ASSUME NEW j \in 0 .. fifo_wridx' - 1
          PROVE  fifo'[j] = [of |-> stream', n |-> pcm_written' - fifo_wridx' + j + 1]
      <4>1. fifo_wridx' = fifo_wridx + 1
        BY <2>2, <2>4, <3>2 DEF Wrap
      <4>2. pcm_written' - fifo_wridx' = pcm_written - fifo_wridx
        BY <2>1, <2>2, <4>1
      <4>3. CASE j = fifo_wridx
        BY <2>1, <2>2, <4>2, <4>3
      <4>4. CASE j \in 0 .. fifo_wridx - 1
        <5>1. fifo'[j] = fifo[j]
          BY <2>1, <2>2, <4>4
        <5> QED BY <1>1, <2>1, <4>2, <4>4, <5>1 DEF Restartable
      <4>5. j = fifo_wridx \/ j \in 0 .. fifo_wridx - 1
        BY <2>2, <4>1
      <4> QED BY <4>3, <4>4, <4>5
    <3> QED BY <3>1, <3>2 DEF Restartable
  <2> QED BY <2>5, <2>7, <2>8, <2>9, <2>10 DEF PcmInv, HoldsTheRest
<1> QED BY <1>2, <1>3

\* Bytes leave from the front.
LEMMA LeaveHolds ==
    ASSUME PcmAssumption, PcmInv, NEW gone \in 0 .. fifo_cnt,
           NEW rd, rd = Wrap(fifo_rdidx + gone) \/ (gone = fifo_cnt /\ rd = fifo_wridx),
           Leaves(fifo_cnt - gone, rd),
           UNCHANGED <<frame, loop, stream, pcm_written>>,
           torn' \in BOOLEAN, current' \in BOOLEAN,
           Len(playing') \in {0} \cup FrameSizes, PlaysWholeFrames',
           ~ torn' => ~ torn /\ ((gone = fifo_cnt /\ gone = 0) \/ gone = frame)
    PROVE  PcmInv'
<1> USE PcmSizes
<1>1. /\ PcmTypes /\ Pending /\ Restartable /\ fifo_wridx = Wrap(fifo_rdidx + fifo_cnt)
      /\ LoopNeverDry /\ PlaysWholeFrames /\ InStep
  BY PendingWraps DEF PcmInv, HoldsTheRest
<1>2. CASE StartsOver(fifo_cnt - gone)
  <2>1. /\ fifo_rdidx' = 0 /\ fifo_cnt' = fifo_wridx /\ taken' = pcm_written - fifo_wridx
        /\ UNCHANGED <<fifo, fifo_wridx>>
    BY <1>2 DEF Leaves
  <2>2. loop' \in BOOLEAN /\ frame' \in FrameSizes
    BY <1>1 DEF PcmTypes
  <2> QED BY <2>1, <2>2, RewindHolds
<1>3. CASE ~ StartsOver(fifo_cnt - gone)
  <2>1. /\ fifo_rdidx' = rd /\ fifo_cnt' = fifo_cnt - gone /\ taken' = pcm_written - (fifo_cnt - gone)
        /\ UNCHANGED <<fifo, fifo_wridx>>
    BY <1>3 DEF Leaves
  <2>2. /\ fifo_wridx \in 0 .. PcmSize - 1 /\ fifo_rdidx \in 0 .. PcmSize - 1
        /\ fifo_cnt \in 0 .. PcmSize - 1 /\ pcm_written \in Nat /\ taken \in 0 .. pcm_written
        /\ fifo_cnt = pcm_written - taken
    BY <1>1 DEF PcmTypes, Pending
  <2>3. rd = Wrap(fifo_rdidx + gone)
    BY <1>1
  <2>4. rd \in 0 .. PcmSize - 1
    BY <2>2, <2>3 DEF Wrap
  <2>5. taken' = taken + gone /\ gone \in Nat /\ taken' \in 0 .. pcm_written
    BY <2>1, <2>2
  <2>6. PcmTypes'
    BY <1>1, <2>1, <2>2, <2>4, <2>5 DEF PcmTypes
  <2>7. Pending'
    <3>1. ASSUME NEW i \in 0 .. fifo_cnt' - 1
          PROVE  fifo'[Wrap(fifo_rdidx' + i)] = [of |-> stream, n |-> taken' + i + 1]
      <4>1. gone + i \in 0 .. fifo_cnt - 1 /\ i \in Nat
        BY <2>1, <2>2, <2>5
      <4>2. Wrap(rd + i) = Wrap(fifo_rdidx + (gone + i))
        BY <2>2, <2>3, <2>5, <4>1 DEF Wrap
      <4>3. taken + (gone + i) + 1 = taken' + i + 1
        BY <2>2, <2>5, <4>1
      <4>4. fifo[Wrap(fifo_rdidx + (gone + i))] = [of |-> stream, n |-> taken + (gone + i) + 1]
        BY <1>1, <4>1 DEF Pending
      <4> QED BY <2>1, <4>2, <4>3, <4>4
    <3>2. fifo_cnt' = pcm_written' - taken'
      BY <2>1, <2>2, <2>5
    <3> QED BY <3>1, <3>2 DEF Pending
  <2>8. RingHolds'
    BY <2>6, <2>7, PendingWraps, PTL
  <2>9. LoopNeverDry'
    BY <1>3, <2>1, <2>2, <2>5 DEF StartsOver, LoopNeverDry
  <2>10. InStep'
    <3>1. ASSUME ~ torn' PROVE taken' % frame' = 0
      <4>1. taken % frame = 0 /\ frame \in FrameSizes /\ taken \in Nat
        BY <1>1, <2>2, <3>1 DEF InStep, PcmTypes
      <4>2. CASE gone = 0
        BY <2>2, <2>5, <4>1, <4>2
      <4>3. CASE gone = frame
        BY <2>5, <4>1, <4>3, FrameInStep
      <4> QED BY <3>1, <4>2, <4>3
    <3> QED BY <3>1 DEF InStep
  <2>11. Restartable'
    BY <1>1, <2>1 DEF Restartable
  <2>12. (fifo_wridx = Wrap(fifo_rdidx + fifo_cnt))'
    BY <1>1, <2>1, <2>2, <2>3, <2>5 DEF Wrap
  <2> QED BY <2>6, <2>8, <2>9, <2>10, <2>11, <2>12 DEF PcmInv, HoldsTheRest
<1> QED BY <1>2, <1>3

LEMMA RenderHolds ==
    ASSUME PcmAssumption, PcmInv, RenderSilence \/ RenderPartial \/ RenderFrame
    PROVE  PcmInv'
<1> USE PcmSizes
<1>1. /\ PcmTypes /\ Pending /\ fifo_wridx = Wrap(fifo_rdidx + fifo_cnt)
      /\ PlaysWholeFrames /\ InStep /\ fifo_cnt \in Nat
  BY PendingWraps DEF PcmInv, HoldsTheRest, PcmTypes
<1>2. CASE RenderSilence
  <2>1. /\ playing' = <<>>
        /\ UNCHANGED <<fifo, fifo_wridx, fifo_rdidx, fifo_cnt, frame, loop, stream, pcm_written,
                       taken, torn, current>>
    BY <1>2 DEF RenderSilence, ringVars, pcmGhosts
  <2>2. Len(playing') = 0 /\ PlaysWholeFrames'
    BY <2>1 DEF PlaysWholeFrames
  <2>3. PcmTypes'
    BY <2>1, <2>2 DEF PcmInv, HoldsTheRest, PcmTypes
  <2>4. RingHolds' /\ LoopNeverDry' /\ Restartable' /\ InStep'
    BY <2>1 DEF PcmInv, HoldsTheRest, RingHolds, LoopNeverDry, Restartable, InStep
  <2> QED BY <2>1, <2>2, <2>3, <2>4 DEF PcmInv, HoldsTheRest
<1>3. CASE RenderPartial
  <2>1. /\ Leaves(0, fifo_wridx) /\ torn' = TRUE
        /\ UNCHANGED <<frame, loop, playing, stream, pcm_written, current>>
    BY <1>3 DEF RenderPartial
  <2>2. PlaysWholeFrames'
    BY <1>1, <2>1 DEF PlaysWholeFrames
  <2>3. fifo_cnt \in 0 .. fifo_cnt /\ fifo_cnt - fifo_cnt = 0
    BY <1>1
  <2>4. current' \in BOOLEAN /\ Len(playing') \in {0} \cup FrameSizes
    BY <1>1, <2>1 DEF PcmTypes
  <2> QED BY <2>1, <2>2, <2>3, <2>4, LeaveHolds
<1>4. CASE RenderFrame
  <2>1. /\ fifo_cnt >= frame /\ playing' = FrameAt(fifo_rdidx) /\ current' = TRUE
        /\ Leaves(fifo_cnt - frame, (fifo_rdidx + frame) % PcmSize)
        /\ UNCHANGED <<frame, loop, stream, pcm_written, torn>>
    BY <1>4 DEF RenderFrame
  <2>2. /\ frame \in FrameSizes /\ frame \in Nat /\ frame > 0 /\ frame < PcmSize
        /\ fifo_rdidx \in 0 .. PcmSize - 1 /\ fifo_cnt \in 0 .. PcmSize - 1
        /\ taken \in Nat /\ fifo \in [0 .. PcmSize - 1 -> PcmByte]
    BY <1>1, FrameSizeValues DEF PcmTypes
  <2>3. ASSUME NEW i \in 1 .. frame
        PROVE  /\ fifo[(fifo_rdidx + i - 1) % PcmSize] \in PcmByte
               /\ fifo[(fifo_rdidx + i - 1) % PcmSize] = [of |-> stream, n |-> taken + i]
    <3>1. fifo_rdidx + i - 1 \in 0 .. 2 * PcmSize - 1 /\ i - 1 \in 0 .. fifo_cnt - 1
      BY <2>1, <2>2
    <3>2. (fifo_rdidx + i - 1) % PcmSize = Wrap(fifo_rdidx + (i - 1))
          /\ Wrap(fifo_rdidx + (i - 1)) \in 0 .. PcmSize - 1
      <4>1. fifo_rdidx + (i - 1) = fifo_rdidx + i - 1
        BY <2>2
      <4> QED BY <3>1, <4>1, WrapValue
    <3>3. taken + (i - 1) + 1 = taken + i
      BY <2>2
    <3> QED BY <1>1, <2>2, <3>1, <3>2, <3>3 DEF Pending
  <2>4. playing' \in Seq(PcmByte) /\ Len(playing') = frame
        /\ \A i \in 1 .. frame : playing'[i] = [of |-> stream, n |-> taken + i]
    <3>1. FrameAt(fifo_rdidx) \in Seq(PcmByte) /\ Len(FrameAt(fifo_rdidx)) = frame
      BY <2>2, <2>3 DEF FrameAt
    <3> QED BY <2>1, <2>3, <3>1 DEF FrameAt
  <2>5. PlaysWholeFrames'
    <3>1. ASSUME NEW i \in 1 .. frame
          PROVE  playing'[i] = [of |-> stream', n |-> playing'[1].n + i - 1]
                 /\ (~ torn' => (playing'[1].n - 1) % frame = 0)
      <4>1. playing'[1].n = taken + 1 /\ playing'[i] = [of |-> stream, n |-> taken + i]
        <5>1. 1 \in 1 .. frame
          BY <2>2
        <5>2. playing'[1] = [of |-> stream, n |-> taken + 1]
          BY <2>4, <5>1
        <5>3. playing'[i] = [of |-> stream, n |-> taken + i]
          BY <2>4
        <5> QED BY <5>2, <5>3
      <4>2. ~ torn' => taken % frame = 0
        BY <1>1, <2>1 DEF InStep
      <4>3. playing'[1].n - 1 = taken /\ playing'[1].n + i - 1 = taken + i
        <5>1. ASSUME NEW t \in Nat, NEW p, p = t + 1 PROVE p - 1 = t /\ p + i - 1 = t + i
          BY <5>1
        <5> QED BY <2>2, <4>1, <5>1
      <4> QED BY <2>1, <4>1, <4>2, <4>3
    <3> QED BY <2>1, <2>4, <3>1 DEF PlaysWholeFrames
  <2>6. (fifo_rdidx + frame) % PcmSize = Wrap(fifo_rdidx + frame)
    <3>1. fifo_rdidx + frame \in 0 .. 2 * PcmSize - 1
      BY <2>2
    <3> QED BY <3>1, WrapValue
  <2>7. frame \in 0 .. fifo_cnt /\ torn' \in BOOLEAN /\ current' \in BOOLEAN
    BY <1>1, <2>1, <2>2 DEF PcmTypes
  <2> QED BY <2>1, <2>2, <2>4, <2>5, <2>6, <2>7, LeaveHolds
<1> QED BY <1>2, <1>3, <1>4

LEMMA PcmStep == ASSUME PcmAssumption, PcmInv, [PcmNext]_pcmVars PROVE PcmInv'
<1>1. CASE pcm_reset
  <2>1. loop' \in BOOLEAN /\ frame' \in FrameSizes
    BY <1>1, FrameSizeValues DEF pcm_reset, PcmInv, HoldsTheRest, PcmTypes
  <2> QED BY <1>1, <2>1, ClearHolds DEF pcm_reset
<1>2. CASE \E f \in FrameSizes : CtrlReset(f)
  BY <1>2, ClearHolds DEF CtrlReset
<1>3. ASSUME NEW looping \in BOOLEAN, NEW f \in FrameSizes, CtrlRestart(looping, f) PROVE PcmInv'
  <2>1. /\ fifo_rdidx' = 0 /\ fifo_cnt' = fifo_wridx /\ taken' = pcm_written - fifo_wridx
        /\ UNCHANGED <<fifo, fifo_wridx, stream, pcm_written, playing, torn, current>>
        /\ loop' = looping /\ frame' \in FrameSizes
    BY <1>3 DEF CtrlRestart, fifo_restart, Restarted
  <2>2. PlaysWholeFrames' /\ Len(playing') \in {0} \cup FrameSizes
        /\ torn' \in BOOLEAN /\ current' \in BOOLEAN
    BY <2>1 DEF PcmInv, HoldsTheRest, PcmTypes, PlaysWholeFrames
  <2> QED BY <2>1, <2>2, RewindHolds
<1>5. ASSUME NEW f \in FrameSizes, CtrlPlain(f) PROVE PcmInv'
  <2>1. /\ UNCHANGED <<fifo, fifo_wridx, fifo_rdidx, fifo_cnt, playing, stream, pcm_written,
                      taken, current>>
        /\ loop' = FALSE /\ frame' = f /\ torn' = (torn \/ (f # frame /\ pcm_written > 0))
    BY <1>5 DEF CtrlPlain, ringVars
  <2>2. torn' \in BOOLEAN /\ (~ torn' => ~ torn)
    BY <2>1 DEF PcmInv, HoldsTheRest, PcmTypes
  <2>3. PcmTypes'
    BY <2>1, <2>2 DEF PcmInv, HoldsTheRest, PcmTypes
  <2>4. RingHolds' /\ LoopNeverDry' /\ Restartable'
    BY <2>1 DEF PcmInv, HoldsTheRest, RingHolds, LoopNeverDry, Restartable
  <2>5. PlaysWholeFrames'
    BY <2>1, <2>2 DEF PcmInv, PlaysWholeFrames
  <2>6. InStep'
    <3> SUFFICES ASSUME ~ torn' PROVE taken % f = 0
      BY <2>1 DEF InStep
    <3>1. CASE f = frame
      BY <2>2, <3>1 DEF PcmInv, InStep
    <3>2. CASE f # frame
      <4>0. ~ (pcm_written > 0)
        BY <2>1, <3>2, Zenon
      <4>4. pcm_written \in 0 .. MaxWritten /\ taken \in 0 .. pcm_written /\ MaxWritten \in Nat
        BY PcmSizes DEF PcmInv, HoldsTheRest, PcmTypes
      <4>1. pcm_written = 0 /\ taken = 0
        BY <4>0, <4>4
      <4>2. f \in Nat \ {0}
        BY FrameSizeValues
      <4>3. 0 % f = 0
        BY <4>2
      <4> QED BY <4>1, <4>3
    <3> QED BY <3>1, <3>2
  <2> QED BY <2>1, <2>3, <2>4, <2>5, <2>6 DEF PcmInv, HoldsTheRest
<1>4. CASE UNCHANGED pcmVars
  <2>1. /\ UNCHANGED <<fifo, fifo_wridx, fifo_rdidx, fifo_cnt, frame, playing, stream, pcm_written,
                      taken, torn, current>>
        /\ loop' = loop
    BY <1>4 DEF pcmVars, pcmGhosts, ringVars
  <2>2. PcmTypes'
    BY <2>1 DEF PcmInv, HoldsTheRest, PcmTypes
  <2>3. RingHolds' /\ PlaysWholeFrames' /\ Restartable' /\ InStep'
    BY <2>1 DEF PcmInv, HoldsTheRest, RingHolds, PlaysWholeFrames, Restartable, InStep
  <2>4. LoopNeverDry'
    BY <2>1 DEF PcmInv, HoldsTheRest, LoopNeverDry
  <2> QED BY <2>1, <2>2, <2>3, <2>4 DEF PcmInv, HoldsTheRest
<1> QED BY <1>1, <1>2, <1>3, <1>4, <1>5, WriteHolds, RenderHolds DEF PcmNext

\* For every size of the ring, set of frame sizes that divide it, and order of
\* writes, commands, resets and frames falling due: the indices and the count say
\* which bytes are still to be played, and a loop goes on (vera_pcm.c).
THEOREM PcmHolds == ASSUME PcmAssumption PROVE PcmSpec => []HoldsTheRest
<1>1. PcmInit => PcmInv
  BY PcmInitHolds
<1>2. PcmInv /\ [PcmNext]_pcmVars => PcmInv'
  BY PcmStep
<1>3. PcmInv => HoldsTheRest
  BY DEF PcmInv
<1> QED BY <1>1, <1>2, <1>3, PTL DEF PcmSpec

\* And what is played is bytes in order, and whole frames in step unless a byte was
\* refused, half a frame was found when one fell due or the format was changed
\* inside a stream (pcm_render, fifo_restart, pcm_write_ctrl).
THEOREM PcmInFrames == ASSUME PcmAssumption PROVE PcmSpec => []PlaysWholeFrames
<1>1. PcmInit => PcmInv
  BY PcmInitHolds
<1>2. PcmInv /\ [PcmNext]_pcmVars => PcmInv'
  BY PcmStep
<1>3. PcmInv => PlaysWholeFrames
  BY DEF PcmInv
<1> QED BY <1>1, <1>2, <1>3, PTL DEF PcmSpec

-----------------------------------------------------------------------------
(* The WAV recorder *)


WavTypes ==
    /\ Wav_record_state \in {"PAUSED", "AUTOSTARTING", "RECORDING"}
    /\ wav_file \in BOOLEAN /\ failed \in BOOLEAN /\ running \in BOOLEAN
    /\ wav_samples_written \in Nat /\ wav_rendered \in Nat /\ begun \in Nat
    /\ disk \in [size : Nat, data : Seq(Nat)] /\ due \in Seq(Nat)

\* A first recording counts its samples from the start, and while it goes on the
\* file is open and holds what is due.
FirstRecording ==
    /\ begun = 0 => wav_samples_written = 0 /\ Wav_record_state # "RECORDING"
    /\ ~ failed /\ begun = 1 /\ Wav_record_state = "RECORDING" =>
           /\ disk.data = due
           /\ wav_samples_written = Len(due)
           /\ running => wav_file
           /\ ~ running => disk.size = Len(due)

WavInv == WavTypes /\ FirstRecording

LEMMA WavInitHolds == ASSUME WavInit PROVE WavInv
<1>1. << >> \in Seq(Nat) /\ Len(<< >>) = 0
  OBVIOUS
<1>2. NoFile \in [size : Nat, data : Seq(Nat)] /\ NoFile.data = << >>
  BY <1>1 DEF NoFile
<1>3. WavTypes
  BY <1>1, <1>2 DEF WavInit, WavTypes
<1>4. FirstRecording
  <2>2. Wav_record_state = "RECORDING" => wav_file
    BY DEF WavInit
  <2>1. begun = 0 => Wav_record_state # "RECORDING"
    <3>1. wav_file => begun = 1
      BY DEF WavInit
    <3> QED BY <2>2, <3>1
  <2>3. disk.data = due /\ wav_samples_written = 0 /\ Len(due) = 0 /\ running
    BY <1>1, <1>2 DEF WavInit
  <2> QED BY <2>1, <2>2, <2>3 DEF FirstRecording
<1> QED BY <1>3, <1>4 DEF WavInv

\* A recording that begins holds what it begins with.
LEMMA BeginHolds ==
    ASSUME WavInv, running, running' = running, wav_rendered' \in Nat,
           NEW samples \in Seq(Nat), Wav_record_state' = "RECORDING",
           wav_begin(samples), due' = samples
    PROVE  WavInv'
<1>1. Len(samples) \in Nat /\ << >> \in Seq(Nat)
  OBVIOUS
<1>2. NoFile \in [size : Nat, data : Seq(Nat)] /\ [NoFile EXCEPT !.data = samples] \in [size : Nat, data : Seq(Nat)]
      /\ [NoFile EXCEPT !.data = samples].data = samples
  BY <1>1 DEF NoFile
<1>3. WavTypes'
  <2>0. wav_file' \in BOOLEAN /\ failed' \in BOOLEAN
    BY Zenon DEF wav_begin, WavInv, WavTypes
  <2>1. wav_file' \in BOOLEAN /\ failed' \in BOOLEAN /\ begun' \in Nat
    BY <2>0 DEF wav_begin, WavInv, WavTypes
  <2>2. wav_samples_written' \in Nat
    BY <1>1 DEF wav_begin, WavInv, WavTypes
  <2>3. disk' \in [size : Nat, data : Seq(Nat)]
    BY <1>2 DEF wav_begin, WavInv, WavTypes
  <2> QED BY <2>1, <2>2, <2>3 DEF WavInv, WavTypes
<1>4. FirstRecording'
  BY <1>1, <1>2 DEF wav_begin, WavInv, WavTypes, FirstRecording
<1> QED BY <1>3, <1>4 DEF WavInv

LEMMA AddHolds ==
    ASSUME WavInv, running, running' = running, wav_rendered' \in Nat,
           NEW samples \in Seq(Nat), Wav_record_state = "RECORDING",
           UNCHANGED Wav_record_state, wav_add(samples), due' = due \o samples
    PROVE  WavInv'
<1>1. /\ due \o samples \in Seq(Nat) /\ Len(due \o samples) = Len(due) + Len(samples)
      /\ Len(due) \in Nat /\ Len(samples) \in Nat
      /\ disk.data \o samples \in Seq(Nat)
  BY DEF WavInv, WavTypes
<1>2. /\ [disk EXCEPT !.data = @ \o samples] \in [size : Nat, data : Seq(Nat)]
      /\ [disk EXCEPT !.data = @ \o samples].data = disk.data \o samples
  BY <1>1 DEF WavInv, WavTypes
<1>3. WavTypes'
  <2>1. wav_file' \in BOOLEAN /\ failed' \in BOOLEAN /\ begun' \in Nat
    BY DEF wav_add, WavInv, WavTypes
  <2>2. wav_samples_written' \in Nat
    BY <1>1 DEF wav_add, WavInv, WavTypes
  <2>3. disk' \in [size : Nat, data : Seq(Nat)]
    BY <1>2 DEF wav_add, WavInv, WavTypes
  <2> QED BY <1>1, <2>1, <2>2, <2>3 DEF WavInv, WavTypes
<1>4. FirstRecording'
  BY <1>1, <1>2 DEF wav_add, WavInv, WavTypes, FirstRecording
<1> QED BY <1>3, <1>4 DEF WavInv

LEMMA WavStep == ASSUME WavAssumption, WavInv, [WavNext]_wavVars PROVE WavInv'
<1>1. ASSUME NEW loud \in [1 .. WavLen -> BOOLEAN], NEW n \in 1 .. WavLen, running, UNCHANGED running,
             wav_rendered' = wav_rendered + n,
             wav_recorder_process([i \in 1 .. n |-> IF loud[i] THEN wav_rendered + i ELSE 0])
      PROVE  WavInv'
  <2> DEFINE samples == [i \in 1 .. n |-> IF loud[i] THEN wav_rendered + i ELSE 0]
  <2>1. samples \in Seq(Nat) /\ wav_rendered' \in Nat
    <3>1. n \in Nat /\ wav_rendered \in Nat
      BY <1>1 DEF WavAssumption, WavInv, WavTypes
    <3>2. \A i \in 1 .. n : (IF loud[i] THEN wav_rendered + i ELSE 0) \in Nat
      BY <3>1
    <3> QED BY <1>1, <3>1, <3>2
  <2>2. wav_recorder_process(samples)
    BY <1>1
  <2> HIDE DEF samples
  <2>3. CASE Wav_record_state = "AUTOSTARTING" /\ Loud(samples)
    BY <1>1, <2>1, <2>2, <2>3, BeginHolds DEF wav_recorder_process, Recorded
  <2>4. CASE Wav_record_state = "RECORDING"
    BY <1>1, <2>1, <2>2, <2>4, AddHolds DEF wav_recorder_process
  <2>5. CASE ~ (Wav_record_state = "AUTOSTARTING" /\ Loud(samples)) /\ Wav_record_state # "RECORDING"
    <3>1. UNCHANGED <<Wav_record_state, wav_file, wav_samples_written, disk, due, begun, failed>>
      BY <2>2, <2>5 DEF wav_recorder_process
    <3> QED BY <1>1, <2>1, <3>1 DEF WavInv, WavTypes, FirstRecording
  <2> QED BY <2>3, <2>4, <2>5
<1>2. CASE Render
  BY <1>1, <1>2 DEF Render
<1>3. ASSUME NEW command \in 0 .. 2, wav_recorder_set(command) PROVE WavInv'
  <2>1. running /\ UNCHANGED running /\ wav_rendered' \in Nat
    BY <1>3 DEF wav_recorder_set, WavInv, WavTypes
  <2>2. CASE command = 1
    <3>1. << >> \in Seq(Nat)
      OBVIOUS
    <3>2. Wav_record_state' = "RECORDING" /\ wav_begin(<< >>) /\ due' = << >>
      BY <1>3, <2>2 DEF wav_recorder_set
    <3> QED BY <2>1, <3>1, <3>2, BeginHolds
  <2>3. CASE command # 1
    <3>1. Wav_record_state' \in {"PAUSED", "AUTOSTARTING"}
      BY <1>3, <2>3 DEF wav_recorder_set
    <3>2. UNCHANGED <<wav_file, wav_samples_written, disk, due, begun, failed>>
      BY <1>3, <2>3 DEF wav_recorder_set
    <3> QED BY <2>1, <3>1, <3>2 DEF WavInv, WavTypes, FirstRecording
  <2> QED BY <2>2, <2>3
<1>4. CASE Exit
  <2> DEFINE ends == Wav_record_state = "RECORDING" /\ wav_file
  <2>1. /\ running /\ ~ running'
        /\ wav_file' = (wav_file /\ ~ ends)
        /\ disk' = IF ends THEN [disk EXCEPT !.size = wav_samples_written] ELSE disk
        /\ UNCHANGED <<Wav_record_state, wav_samples_written, wav_rendered, due, begun, failed>>
    BY <1>4 DEF Exit
  <2>2. /\ [disk EXCEPT !.size = wav_samples_written] \in [size : Nat, data : Seq(Nat)]
        /\ [disk EXCEPT !.size = wav_samples_written].data = disk.data
        /\ [disk EXCEPT !.size = wav_samples_written].size = wav_samples_written
    BY DEF WavInv, WavTypes
  <2>3. WavTypes'
    BY <1>4, <2>1, <2>2 DEF Exit, WavInv, WavTypes
  <2>4. FirstRecording'
    BY <2>1, <2>2 DEF WavInv, WavTypes, FirstRecording
  <2> QED BY <2>3, <2>4 DEF WavInv
<1>5. CASE UNCHANGED wavVars
  BY <1>5 DEF wavVars, WavInv, WavTypes, FirstRecording
<1> QED BY <1>2, <1>3, <1>4, <1>5 DEF WavNext, Done

\* For any calls of the renderer, commands and failures: one recording, once begun
\* and not paused, is in the file from the sample that started it to the last, and
\* after the exit the header counts it (wav_recorder_process, wav_end).
THEOREM RecordingCorrect == ASSUME WavAssumption PROVE WavSpec => []RecordingIsWhole
<1>1. WavInit => WavInv
  BY WavInitHolds
<1>2. WavInv /\ [WavNext]_wavVars => WavInv'
  BY WavStep
<1>3. WavInv => RecordingIsWhole
  BY DEF WavInv, WavTypes, FirstRecording, RecordingIsWhole
<1> QED BY <1>1, <1>2, <1>3, PTL DEF WavSpec

-----------------------------------------------------------------------------
(* The MIDI UART. *)

\* Bytes on their way from the thread's queue to the parser, the oldest first.
MidiByte == Status \cup Data
Stream == ((ofifo \o held) \o ififo) \o queue

MidiTypes ==
    /\ queue \in Seq(MidiByte) /\ ififo \in Seq(MidiByte)
    /\ held \in Seq(MidiByte) /\ ofifo \in Seq(MidiByte)
    /\ accepted \in Seq(Events) /\ midi_played \in Seq(Events)
    /\ in_last \in {""} \cup TwoData \cup OneData

\* The guest writes no more than the transmitter's FIFO has room for.
GuestInRoom ==
    /\ pc = "read" => ififo # << >>
    /\ pc = "write" => room \in Nat \ {0} /\ Len(ofifo) + room <= Fifo /\ held # << >>

\* What is played is what was accepted first, and the thread's running status
\* is that of the last event.
Sounded == Len(midi_played)
PlayedFirst ==
    /\ Sounded <= Len(accepted)
    /\ \A i \in 1 .. Sounded : midi_played[i] = accepted[i]
Remembered ==
    in_last # "" => IF Sounded = Len(accepted) THEN out_last = in_last
                    ELSE accepted[Len(accepted)].cmd = in_last

\* Where the events not yet played are in the stream: a[i] is the place of the
\* i-th one's status, or of the byte before its first when the status runs on
\* or is parsed already, and EndOf(a, i) that of its last byte.
EndOf(a, i) == a[i] + Len(accepted[i].data) + (IF accepted[i].cmd = "f0" THEN 1 ELSE 0)
Spelled(a, i) ==
    /\ \A j \in 1 .. Len(accepted[i].data) :
          a[i] + j >= 1 => Stream[a[i] + j] = accepted[i].data[j]
    /\ accepted[i].cmd = "f0" /\ EndOf(a, i) >= 1 => Stream[EndOf(a, i)] = "f7"
Follows(a, i) ==
    \/ /\ a[i] = EndOf(a, i - 1) + 1
       /\ a[i] >= 1 => Stream[a[i]] = accepted[i].cmd
    \/ /\ a[i] = EndOf(a, i - 1)
       /\ accepted[i].cmd = accepted[i - 1].cmd /\ accepted[i].cmd # "f0"

\* The parser has the status of an event and k bytes of its data.
Reading(ev, k) ==
    /\ ev.cmd \in TwoData =>
         /\ out_last = ev.cmd
         /\ \/ k = 0 /\ midi_state = "Normal"
            \/ k = 1 /\ midi_state = "Param" /\ out_data = <<ev.data[1]>>
    /\ ev.cmd \in OneData => out_last = ev.cmd /\ k = 0 /\ midi_state = "Normal"
    /\ ev.cmd = "f0" =>
         midi_state = "SysEx" /\ k \in 0 .. Len(ev.data) /\ out_data = SubSeq(ev.data, 1, k)

\* The event that comes next, of which the parser may have a part.
Parsing(a) ==
    IF Sounded = Len(accepted)
    THEN midi_state = "Normal" /\ Len(Stream) = 0
    ELSE /\ a[Sounded + 1] <= 1
         /\ a[Sounded + 1] = 1 => midi_state = "Normal" /\ Stream[1] = accepted[Sounded + 1].cmd
         /\ a[Sounded + 1] < 1 => Reading(accepted[Sounded + 1], 0 - a[Sounded + 1])
         /\ EndOf(a, Len(accepted)) = Len(Stream)
Placed(a) ==
    /\ Parsing(a)
    /\ \A i \in Sounded + 2 .. Len(accepted) : Follows(a, i)
    /\ \A i \in Sounded + 1 .. Len(accepted) : Spelled(a, i) /\ EndOf(a, i) <= Len(Stream)

Agrees ==
    /\ MidiTypes /\ GuestInRoom /\ PlayedFirst /\ Remembered
    /\ \E a \in [Nat -> Int] : Placed(a)
MidiInv == ~ overrun => Agrees

\* Bytes that go from the head of a queue to the end of the one before it.
LEMMA HeadMoves ==
    ASSUME NEW S, NEW q \in Seq(S), NEW r \in Seq(S), r # << >>
    PROVE  Append(q, Head(r)) \o Tail1(r) = q \o r
<1> DEFINE t == Tail1(r)
<1> DEFINE h == Head(r)
<1>0. Len(r) \in Nat /\ Len(r) >= 1
  OBVIOUS
<1>1. t \in Seq(S)
  BY DEF Tail1
<1>2. Len(t) = Len(r) - 1
  <2>1. PICK n \in Nat : n = Len(r) /\ n >= 1
    BY <1>0
  <2>2. Len(SubSeq(r, 2, n)) = n - 1
    BY <2>1
  <2> QED BY <2>1, <2>2 DEF Tail1
<1>3. \A i \in 1 .. Len(r) - 1 : t[i] = r[i + 1]
  BY DEF Tail1
<1>4. h \in S /\ h = r[1]
  OBVIOUS
<1> HIDE DEF t, h
<1>5. <<h>> \in Seq(S) /\ Len(<<h>>) = 1
  BY <1>4
<1>6. <<h>> \o t = r
  <2>1. <<h>> \o t \in Seq(S) /\ Len(<<h>> \o t) = Len(r)
    BY <1>1, <1>2, <1>5, ConcatProperties
  <2>2. ASSUME NEW i \in 1 .. Len(r) PROVE (<<h>> \o t)[i] = r[i]
    <3>1. (<<h>> \o t)[i] = IF i <= 1 THEN <<h>>[i] ELSE t[i - 1]
      BY <1>1, <1>2, <1>5, ConcatProperties
    <3>2. CASE i = 1
      <4>1. <<h>>[1] = h
        OBVIOUS
      <4>2. (<<h>> \o t)[1] = <<h>>[1]
        BY <3>1, <3>2
      <4>3. (<<h>> \o t)[1] = r[1]
        BY <1>4, <4>1, <4>2
      <4> QED BY <3>2, <4>3, Zenon
    <3>3. CASE i # 1
      <4>1. i - 1 \in 1 .. Len(r) - 1 /\ ~ (i <= 1) /\ (i - 1) + 1 = i
        BY <3>3
      <4>2. t[i - 1] = r[(i - 1) + 1]
        BY <1>3, <4>1
      <4>3. (<<h>> \o t)[i] = t[i - 1]
        BY <3>1, <4>1, Zenon
      <4>4. r[(i - 1) + 1] = r[i]
        BY <4>1
      <4> QED BY <4>2, <4>3, <4>4, Zenon
    <3> QED BY <3>2, <3>3
  <2> QED BY <2>1, <2>2, SeqEqual
<1>7. Append(q, h) = q \o <<h>>
  BY <1>4, AppendIsConcat
<1>8. (q \o <<h>>) \o t = q \o (<<h>> \o t)
  BY <1>1, <1>5, ConcatAssociative
<1> QED BY <1>6, <1>7, <1>8 DEF t, h

LEMMA AppendLast ==
    ASSUME NEW S, NEW q \in Seq(S), NEW r \in Seq(S), NEW b \in S
    PROVE  q \o Append(r, b) = Append(q \o r, b)
<1>1. q \o Append(r, b) \in Seq(S) /\ Append(q \o r, b) \in Seq(S)
      /\ Len(q \o Append(r, b)) = Len(Append(q \o r, b))
  OBVIOUS
<1>2. \A i \in 1 .. Len(q \o Append(r, b)) : (q \o Append(r, b))[i] = Append(q \o r, b)[i]
  OBVIOUS
<1> QED BY <1>1, <1>2, SeqEqual

LEMMA TailFirst ==
    ASSUME NEW S, NEW q \in Seq(S), NEW r \in Seq(S), q # << >>
    PROVE  Tail1(q) \o r = Tail1(q \o r)
<1>1. Tail1(q) \o r \in Seq(S) /\ Tail1(q \o r) \in Seq(S)
      /\ Len(Tail1(q) \o r) = Len(Tail1(q \o r))
  BY DEF Tail1
<1>2. \A i \in 1 .. Len(Tail1(q) \o r) : (Tail1(q) \o r)[i] = Tail1(q \o r)[i]
  BY DEF Tail1
<1> QED BY <1>1, <1>2, SeqEqual

LEMMA EventTypes ==
    ASSUME NEW ev \in Events
    PROVE  /\ ev.cmd \in TwoData \cup OneData \cup {"f0"} /\ ev.data \in Seq(Data)
           /\ ev = [cmd |-> ev.cmd, data |-> ev.data]
           /\ ev.cmd \in TwoData => Len(ev.data) = 2
           /\ ev.cmd \in OneData => Len(ev.data) = 1
           /\ \A j \in 1 .. Len(ev.data) : ev.data[j] \in Data /\ ev.data[j] \notin Status
<1>0. \A b \in Data : b \notin Status
  BY MidiAssumption
<1>1. CASE ev \in [cmd : TwoData, data : {<<u, v>> : u, v \in Data}]
  <2>1. ev.cmd \in TwoData /\ ev = [cmd |-> ev.cmd, data |-> ev.data]
    BY <1>1
  <2>2. PICK u \in Data, v \in Data : ev.data = <<u, v>>
    BY <1>1
  <2>3. <<u, v>> \in Seq(Data) /\ Len(<<u, v>>) = 2 /\ <<u, v>>[1] = u /\ <<u, v>>[2] = v
    OBVIOUS
  <2>4. ev.cmd \notin OneData
    BY <2>1 DEF OneData, TwoData
  <2>5. ev.data \in Seq(Data) /\ Len(ev.data) = 2
    BY <2>2, <2>3
  <2>6. \A j \in 1 .. Len(ev.data) : ev.data[j] \in Data /\ ev.data[j] \notin Status
    <3>1. \A j \in 1 .. Len(ev.data) : j = 1 \/ j = 2
      BY <2>5
    <3> QED BY <1>0, <2>2, <2>3, <3>1
  <2> QED BY <2>1, <2>4, <2>5, <2>6
<1>2. CASE ev \in [cmd : OneData, data : {<<u>> : u \in Data}]
  <2>1. ev.cmd \in OneData /\ ev = [cmd |-> ev.cmd, data |-> ev.data]
    BY <1>2
  <2>2. PICK u \in Data : ev.data = <<u>>
    BY <1>2
  <2>3. <<u>> \in Seq(Data) /\ Len(<<u>>) = 1 /\ \A j \in 1 .. 1 : <<u>>[j] = u
    OBVIOUS
  <2>4. ev.cmd \notin TwoData
    BY <2>1 DEF OneData, TwoData
  <2>5. ev.data \in Seq(Data) /\ Len(ev.data) = 1
    BY <2>2, <2>3
  <2>6. \A j \in 1 .. Len(ev.data) : ev.data[j] \in Data /\ ev.data[j] \notin Status
    BY <1>0, <2>2, <2>3, <2>5
  <2> QED BY <2>1, <2>4, <2>5, <2>6
<1>3. CASE ev \in [cmd : {"f0"}, data : Seq(Data)]
  <2>1. ev.cmd = "f0" /\ ev.data \in Seq(Data) /\ ev = [cmd |-> ev.cmd, data |-> ev.data]
    BY <1>3
  <2>2. ev.cmd \notin TwoData /\ ev.cmd \notin OneData
    BY <2>1 DEF TwoData, OneData
  <2>3. \A j \in 1 .. Len(ev.data) : ev.data[j] \in Data
    BY <2>1
  <2> QED BY <1>0, <2>1, <2>2, <2>3
<1> QED BY <1>1, <1>2, <1>3, MidiAssumption

\* The parser gets a status.
LEMMA ParserBegins ==
    ASSUME NEW ev \in Events, midi_state = "Normal", midi_byte_out(ev.cmd)
    PROVE  midi_played' = midi_played /\ Reading(ev, 0)'
<1>1. ev.cmd \in Status /\ ev.cmd \in TwoData \cup OneData \cup {"f0"} /\ ev.data \in Seq(Data)
  BY EventTypes DEF Status
<1>2. midi_state' = (IF ev.cmd = "f0" THEN "SysEx" ELSE "Normal")
      /\ out_last' = (IF ev.cmd \in {"f0", "f7"} THEN "" ELSE ev.cmd)
      /\ out_data' = << >> /\ midi_played' = midi_played
  BY <1>1 DEF midi_byte_out
<1>3. ev.cmd # "f7" /\ (ev.cmd \in TwoData => ev.cmd # "f0") /\ (ev.cmd \in OneData => ev.cmd # "f0")
      /\ (ev.cmd \in TwoData => ev.cmd \notin OneData)
  BY <1>1 DEF TwoData, OneData
<1>4. SubSeq(ev.data, 1, 0) = << >> /\ 0 \in 0 .. Len(ev.data)
  BY <1>1
<1> QED BY <1>2, <1>3, <1>4 DEF Reading

\* The parser gets the next byte of an event that it has k bytes of.
LEMMA ParserGoesOn ==
    ASSUME NEW ev \in Events, NEW k \in Nat, Reading(ev, k), NEW b, midi_byte_out(b),
           k < Len(ev.data) => b = ev.data[k + 1],
           k = Len(ev.data) => b = "f7",
           midi_played \in Seq(Events),
           NEW n, n = Len(ev.data) + (IF ev.cmd = "f0" THEN 1 ELSE 0)
    PROVE  IF k + 1 = n
           THEN /\ midi_played' = Append(midi_played, ev) /\ midi_state' = "Normal"
                /\ ev.cmd # "f0" => out_last' = ev.cmd
           ELSE midi_played' = midi_played /\ Reading(ev, k + 1)'
<1>1. ev.cmd \in TwoData \cup OneData \cup {"f0"} /\ ev.data \in Seq(Data)
      /\ ev = [cmd |-> ev.cmd, data |-> ev.data]
      /\ \A j \in 1 .. Len(ev.data) : ev.data[j] \in Data /\ ev.data[j] \notin Status
  BY EventTypes
<1>2. CASE ev.cmd \in TwoData
  <2>1. ev.cmd # "f0" /\ ev.cmd \notin OneData /\ Len(ev.data) = 2 /\ out_last = ev.cmd
    BY <1>2, EventTypes DEF TwoData, OneData, Reading
  <2>2. CASE k = 0
    <3>1. b = ev.data[1] /\ b \notin Status
      BY <1>1, <2>1, <2>2
    <3>2. midi_state = "Normal"
      BY <1>2, <2>2 DEF Reading
    <3>3. midi_state' = "Param" /\ out_data' = <<b>> /\ out_last' = out_last /\ midi_played' = midi_played
      BY <1>2, <2>1, <3>1, <3>2 DEF midi_byte_out
    <3> QED BY <1>2, <2>1, <2>2, <3>1, <3>3 DEF Reading
  <2>3. CASE k # 0
    <3>1. k = 1 /\ midi_state = "Param" /\ out_data = <<ev.data[1]>>
      BY <1>2, <2>3 DEF Reading
    <3>2. b = ev.data[2]
      BY <2>1, <3>1
    <3>3. midi_state' = "Normal" /\ out_last' = out_last
          /\ midi_played' = Append(midi_played, [cmd |-> out_last, data |-> Append(out_data, b)])
      BY <3>1 DEF midi_byte_out, Play
    <3>4. ev.data = <<ev.data[1], ev.data[2]>>
      BY <1>1, <2>1
    <3>5. Append(out_data, b) = ev.data
      BY <3>1, <3>2, <3>4
    <3> QED BY <1>1, <2>1, <3>1, <3>3, <3>5
  <2> QED BY <2>2, <2>3
<1>3. CASE ev.cmd \in OneData
  <2>1. ev.cmd # "f0" /\ ev.cmd \notin TwoData /\ Len(ev.data) = 1 /\ out_last = ev.cmd
        /\ k = 0 /\ midi_state = "Normal"
    BY <1>3, EventTypes DEF TwoData, OneData, Reading
  <2>2. b = ev.data[1] /\ b \notin Status
    BY <1>1, <2>1
  <2>3. midi_state' = "Normal" /\ out_last' = out_last
        /\ midi_played' = Append(midi_played, [cmd |-> out_last, data |-> <<b>>])
    BY <1>3, <2>1, <2>2 DEF midi_byte_out, Play
  <2>4. ev.data = <<b>>
    BY <1>1, <2>1, <2>2
  <2> QED BY <1>1, <2>1, <2>3, <2>4
<1>4. CASE ev.cmd = "f0"
  <2>1. midi_state = "SysEx" /\ k \in 0 .. Len(ev.data) /\ out_data = SubSeq(ev.data, 1, k)
        /\ ev.cmd \notin TwoData /\ ev.cmd \notin OneData
    BY <1>4 DEF Reading, TwoData, OneData
  <2>2. CASE k < Len(ev.data)
    <3>1. b = ev.data[k + 1] /\ b \notin Status
      BY <1>1, <2>2
    <3>2. out_data' = Append(out_data, b) /\ midi_state' = midi_state /\ midi_played' = midi_played
      BY <2>1, <3>1 DEF midi_byte_out
    <3>3. Append(SubSeq(ev.data, 1, k), ev.data[k + 1]) = SubSeq(ev.data, 1, k + 1)
      BY <1>1, <2>2
    <3>4. k + 1 \in 0 .. Len(ev.data) /\ k + 1 # Len(ev.data) + 1
      BY <2>1, <2>2
    <3> QED BY <1>4, <2>1, <3>1, <3>2, <3>3, <3>4 DEF Reading
  <2>3. CASE k = Len(ev.data)
    <3>1. b = "f7" /\ b \in Status
      BY <2>3 DEF Status
    <3>2. midi_state' = "Normal"
          /\ midi_played' = Append(midi_played, [cmd |-> "f0", data |-> out_data])
      BY <2>1, <3>1 DEF midi_byte_out, Play
    <3>3. out_data = ev.data
      BY <1>1, <2>1, <2>3
    <3>4. midi_played' = Append(midi_played, ev)
      BY <1>1, <1>4, <3>2, <3>3
    <3>5. k + 1 = n
      BY <1>4, <2>3
    <3>6. ev.cmd # "f0" => out_last' = ev.cmd
      BY <1>4
    <3> QED BY <3>2, <3>4, <3>5, <3>6
  <2>4. k < Len(ev.data) \/ k = Len(ev.data)
    BY <1>1, <2>1
  <2> QED BY <2>2, <2>3, <2>4
<1> QED BY <1>1, <1>2, <1>3, <1>4

\* What is heard agrees with what was accepted.
Sounding == PlayedFirst /\ Remembered /\ \E a \in [Nat -> Int] : Placed(a)

LEMMA StreamTyped == MidiTypes => Stream \in Seq(MidiByte)
BY ConcatProperties DEF MidiTypes, Stream

LEMMA EndsTyped ==
    ASSUME MidiTypes, NEW a \in [Nat -> Int], NEW i \in 1 .. Len(accepted)
    PROVE  /\ EndOf(a, i) \in Int /\ a[i] \in Int /\ a[i] + Len(accepted[i].data) <= EndOf(a, i)
           /\ accepted[i] \in Events /\ accepted[i].data \in Seq(Data)
<1>1. accepted[i] \in Events /\ i \in Nat
  <2>1. accepted \in Seq(Events)
    BY DEF MidiTypes
  <2> QED BY <2>1
<1>2. accepted[i].data \in Seq(Data)
  BY <1>1, EventTypes
<1>3. PICK n \in Nat : n = Len(accepted[i].data)
  BY <1>2
<1>4. a[i] \in Int
  BY <1>1
<1> QED BY <1>1, <1>2, <1>3, <1>4 DEF EndOf

\* Nothing is heard of bytes that only move on.
LEMMA SoundingKept ==
    ASSUME Sounding, Stream' = Stream, in_last' = in_last \/ in_last' = "",
           UNCHANGED <<accepted, midi_played, midi_state, out_last, out_data>>
    PROVE  Sounding'
<1>1. PICK a \in [Nat -> Int] : Placed(a)
  BY DEF Sounding
<1> HIDE DEF Stream
<1>2. Placed(a)'
  BY <1>1 DEF Placed, Parsing, Follows, Spelled, EndOf, Reading, Sounded
<1>3. PlayedFirst' /\ Remembered'
  BY DEF Sounding, PlayedFirst, Remembered, Sounded
<1> QED BY <1>2, <1>3 DEF Sounding

\* The parser takes the first byte of the stream.
LEMMA ByteHeard ==
    ASSUME MidiTypes, Sounding, Len(Stream) > 0, midi_byte_out(Stream[1]),
           Stream' = Tail1(Stream), UNCHANGED <<accepted, in_last>>
    PROVE  Sounding' /\ midi_played' \in Seq(Events)
<1>1. PICK a \in [Nat -> Int] : Placed(a)
  BY DEF Sounding
<1>0. PICK N \in Nat, P \in Nat : N = Len(accepted) /\ P = Sounded
  <2>1. accepted \in Seq(Events) /\ midi_played \in Seq(Events)
    BY DEF MidiTypes
  <2>2. Len(accepted) \in Nat /\ Len(midi_played) \in Nat
    BY <2>1
  <2> QED BY <2>2, Zenon DEF Sounded
<1>2. N \in Nat /\ P \in Nat /\ Stream \in Seq(MidiByte) /\ Len(Stream) \in Nat
  <2>1. accepted \in Seq(Events) /\ midi_played \in Seq(Events)
    BY DEF MidiTypes
  <2>2. Stream \in Seq(MidiByte)
    BY StreamTyped
  <2> HIDE DEF Stream
  <2>3. N \in Nat /\ P \in Nat /\ Len(Stream) \in Nat
    BY <1>0, <2>2
  <2> QED BY <2>2, <2>3
<1> HIDE DEF Stream
<1>3. P # N /\ P <= N
  BY <1>0, <1>1 DEF Placed, Parsing, Sounding, PlayedFirst
<1>4. P + 1 \in 1 .. N /\ P + 1 \in Nat /\ P + 1 \in P + 1 .. N
  BY <1>2, <1>3
<1>e. PICK ev \in Events : ev = accepted[P + 1]
  BY <1>0, <1>4, EndsTyped DEF Placed
<1>5. ev \in Events /\ ev.data \in Seq(Data) /\ a[P + 1] \in Int
      /\ EndOf(a, P + 1) = a[P + 1] + Len(ev.data) + (IF ev.cmd = "f0" THEN 1 ELSE 0)
  BY <1>0, <1>4, <1>e, EndsTyped DEF EndOf
<1>6. a[P + 1] <= 1 /\ EndOf(a, N) = Len(Stream)
      /\ (a[P + 1] = 1 => midi_state = "Normal" /\ Stream[1] = ev.cmd)
      /\ (a[P + 1] < 1 => Reading(ev, 0 - a[P + 1]))
  BY <1>0, <1>1, <1>3, <1>e DEF Placed, Parsing
<1>7. /\ \A i \in P + 2 .. N : Follows(a, i)
      /\ \A i \in P + 1 .. N : Spelled(a, i) /\ EndOf(a, i) <= Len(Stream)
  BY <1>0, <1>1 DEF Placed
<1>8. PICK c \in [Nat -> Int] : \A i \in Nat : c[i] = a[i] - 1
  <2>1. [i \in Nat |-> a[i] - 1] \in [Nat -> Int]
    OBVIOUS
  <2> QED BY <2>1
<1>9. Len(Stream') = Len(Stream) - 1 /\ \A q \in 1 .. Len(Stream) - 1 : Stream'[q] = Stream[q + 1]
  <2>1. PICK n \in Nat : n = Len(Stream) /\ n >= 1
    BY <1>2
  <2>2. Len(SubSeq(Stream, 2, n)) = n - 1 /\ \A q \in 1 .. n - 1 : SubSeq(Stream, 2, n)[q] = Stream[q + 1]
    BY <1>2, <2>1
  <2> QED BY <2>1, <2>2 DEF Tail1
<1>10. ASSUME NEW i \in P + 1 .. N
       PROVE  EndOf(c, i)' = EndOf(a, i) - 1 /\ EndOf(c, i)' <= Len(Stream')
  <2>1. i \in 1 .. N /\ i \in Nat
    BY <1>2
  <2>2. EndOf(a, i) \in Int /\ a[i] \in Int /\ accepted[i].data \in Seq(Data) /\ c[i] = a[i] - 1
    BY <1>0, <1>8, <2>1, EndsTyped
  <2>3. PICK n \in Nat : n = Len(accepted[i].data)
    BY <2>2
  <2>4. EndOf(c, i)' = EndOf(a, i) - 1
    <3>1. PICK w \in {0, 1} : w = (IF accepted[i].cmd = "f0" THEN 1 ELSE 0)
      OBVIOUS
    <3>2. PICK z \in Int : z = a[i] /\ c[i] = z - 1
      BY <2>2
    <3>3. EndOf(a, i) = z + n + w
      BY <2>3, <3>1, <3>2 DEF EndOf
    <3>4. EndOf(c, i)' = (z - 1) + n + w
      BY <2>3, <3>1, <3>2 DEF EndOf
    <3>5. (z - 1) + n + w = (z + n + w) - 1
      <4>1. \A s \in Int, t \in Nat, v \in {0, 1} : (s - 1) + t + v = (s + t + v) - 1
        OBVIOUS
      <4> QED BY <2>3, <3>1, <3>2, <4>1, Zenon
    <3> QED BY <3>3, <3>4, <3>5, Zenon
  <2>5. EndOf(a, i) <= Len(Stream)
    BY <1>7
  <2> QED BY <1>2, <1>9, <2>2, <2>4, <2>5
<1>11. ASSUME NEW i \in P + 1 .. N PROVE Spelled(c, i)'
  <2>1. i \in 1 .. N /\ i \in Nat
    BY <1>2
  <2>2. EndOf(a, i) \in Int /\ a[i] \in Int /\ accepted[i].data \in Seq(Data) /\ c[i] = a[i] - 1
        /\ a[i] + Len(accepted[i].data) <= EndOf(a, i)
    BY <1>0, <1>8, <2>1, EndsTyped
  <2>3. Spelled(a, i) /\ EndOf(a, i) <= Len(Stream)
    BY <1>7
  <2>4. ASSUME NEW j \in 1 .. Len(accepted[i].data), c[i] + j >= 1
        PROVE  Stream'[c[i] + j] = accepted[i].data[j]
    <3>0. PICK n \in Nat : n = Len(accepted[i].data)
      BY <2>2
    <3>a. PICK z \in Int : z = a[i] /\ c[i] = z - 1
      BY <2>2
    <3>b. PICK l \in 1 .. n : l = j
      BY <3>0
    <3>c. PICK q \in Int : q = (z - 1) + l /\ q + 1 = z + l /\ l <= n
      <4>1. \A s \in Int, t \in Nat : \A r \in 1 .. t :
               (s - 1) + r \in Int /\ ((s - 1) + r) + 1 = s + r /\ r <= t
        OBVIOUS
      <4> QED BY <3>0, <3>a, <3>b, <4>1, Zenon
    <3>1. q = c[i] + j /\ q + 1 = a[i] + j
      BY <3>a, <3>b, <3>c
    <3>2. q \in 1 .. Len(Stream) - 1 /\ a[i] + j >= 1
      <4>1. PICK y \in Int : y = EndOf(a, i) /\ y <= Len(Stream) /\ z + n <= y
        BY <2>2, <2>3, <3>0, <3>a
      <4>2. q >= 1
        BY <2>4, <3>1
      <4>3. PICK m \in Nat : m = Len(Stream)
        BY <1>2
      <4>4. q \in 1 .. m - 1 /\ z + l >= 1
        <5>1. y <= m
          BY <4>1, <4>3
        <5>2. \A s \in Int, t \in Nat, x \in Int, u \in Nat, v \in Int : \A r \in 1 .. t :
                 v = (s - 1) + r /\ v >= 1 /\ s + t <= x /\ x <= u => v \in 1 .. u - 1 /\ s + r >= 1
          OBVIOUS
        <5>3. z \in Int /\ n \in Nat /\ y \in Int /\ m \in Nat /\ q \in Int /\ l \in 1 .. n
          BY <3>0, <3>a, <3>b, <3>c, <4>1, <4>3
        <5>4. q = (z - 1) + l /\ q >= 1 /\ z + n <= y /\ y <= m
          BY <3>c, <4>1, <4>2, <5>1, Zenon
        <5> QED BY <5>2, <5>3, <5>4, Zenon
      <4> QED BY <3>a, <3>b, <4>3, <4>4
    <3>3. Stream[a[i] + j] = accepted[i].data[j]
      BY <2>3, <3>2 DEF Spelled
    <3> QED BY <1>9, <3>1, <3>2, <3>3
  <2>5. ASSUME accepted[i].cmd = "f0", EndOf(c, i)' >= 1 PROVE Stream'[EndOf(c, i)'] = "f7"
    <3>1. PICK q \in Int : q = EndOf(c, i)' /\ q + 1 = EndOf(a, i)
      BY <1>10, <2>2
    <3>2. q \in 1 .. Len(Stream) - 1 /\ EndOf(a, i) >= 1
      <4>1. PICK z \in Int : z = EndOf(a, i) /\ z <= Len(Stream)
        BY <2>2, <2>3
      <4>2. q >= 1 /\ q + 1 = z
        BY <2>5, <3>1, <4>1
      <4> QED BY <1>2, <4>1, <4>2
    <3>3. Stream[EndOf(a, i)] = "f7"
      BY <2>3, <2>5, <3>2 DEF Spelled
    <3> QED BY <1>9, <3>1, <3>2, <3>3
  <2>6. accepted' = accepted
    OBVIOUS
  <2> HIDE DEF EndOf
  <2> QED BY <2>4, <2>5, <2>6 DEF Spelled
<1>12. ASSUME NEW i \in P + 2 .. N PROVE Follows(c, i)'
  <2>1. i \in Nat /\ i - 1 \in P + 1 .. N /\ i \in P + 1 .. N /\ i \in 1 .. N /\ i - 1 \in 1 .. N
    BY <1>2
  <2>2. EndOf(c, i - 1)' = EndOf(a, i - 1) - 1 /\ EndOf(c, i)' = EndOf(a, i) - 1
        /\ EndOf(a, i) <= Len(Stream) /\ c[i] = a[i] - 1
    BY <1>7, <1>8, <1>10, <2>1
  <2>3. EndOf(a, i - 1) \in Int /\ a[i] \in Int /\ a[i] + Len(accepted[i].data) <= EndOf(a, i)
        /\ accepted[i].data \in Seq(Data) /\ EndOf(a, i) \in Int
    BY <1>0, <2>1, EndsTyped
  <2>4. Follows(a, i)
    BY <1>7
  <2>5. ASSUME a[i] = EndOf(a, i - 1) + 1, a[i] >= 1 => Stream[a[i]] = accepted[i].cmd
        PROVE  Follows(c, i)'
    <3>1. c[i] = EndOf(c, i - 1)' + 1
      BY <2>2, <2>3, <2>5
    <3>2. ASSUME c[i] >= 1 PROVE Stream'[c[i]] = accepted[i].cmd
      <4>0. accepted[i].data \in Seq(Data) /\ a[i] \in Int /\ c[i] = a[i] - 1
        BY <2>2, <2>3
      <4>1. PICK n \in Nat : n = Len(accepted[i].data)
        BY <4>0
      <4>2. PICK q \in Int : q = c[i] /\ q + 1 = a[i]
        BY <4>0
      <4>a. PICK w \in Int : w = a[i] /\ w = q + 1
        BY <4>0, <4>2
      <4>3. q \in 1 .. Len(Stream) - 1 /\ a[i] >= 1
        <5>1. PICK z \in Int : z = EndOf(a, i) /\ z <= Len(Stream) /\ w + n <= z
          BY <2>2, <2>3, <4>1, <4>a
        <5>2. q >= 1
          BY <3>2, <4>2
        <5>3. PICK m \in Nat : m = Len(Stream)
          BY <1>2
        <5>4. z <= m /\ q >= 1 /\ w = q + 1 /\ w + n <= z
          BY <4>a, <5>1, <5>2, <5>3
        <5>5. q \in 1 .. m - 1 /\ w >= 1
          <6>1. \A s \in Int, t \in Nat, x \in Int, u \in Nat, v \in Int :
                   s = v + 1 /\ v >= 1 /\ s + t <= x /\ x <= u => v \in 1 .. u - 1 /\ s >= 1
            OBVIOUS
          <6> QED BY <4>1, <4>2, <4>a, <5>1, <5>3, <5>4, <6>1, Zenon
        <5> QED BY <4>a, <5>3, <5>5
      <4> QED BY <1>9, <2>5, <4>2, <4>3
    <3>3. accepted' = accepted
      OBVIOUS
    <3> HIDE DEF EndOf
    <3> QED BY <3>1, <3>2, <3>3 DEF Follows
  <2>6. ASSUME a[i] = EndOf(a, i - 1), accepted[i].cmd = accepted[i - 1].cmd, accepted[i].cmd # "f0"
        PROVE  Follows(c, i)'
    <3>1. c[i] = EndOf(c, i - 1)'
      BY <2>2, <2>3, <2>6
    <3>2. accepted' = accepted
      OBVIOUS
    <3> HIDE DEF EndOf
    <3> QED BY <2>6, <3>1, <3>2 DEF Follows
  <2> QED BY <2>4, <2>5, <2>6 DEF Follows
<1>13. c[P + 1] = a[P + 1] - 1 /\ c[P + 1] \in Int /\ EndOf(c, N)' = Len(Stream') /\ N \in P + 1 .. N
  <2>1. N \in P + 1 .. N
    BY <1>2, <1>4
  <2>2. EndOf(c, N)' = EndOf(a, N) - 1
    BY <1>10, <2>1
  <2>3. c[P + 1] = a[P + 1] - 1 /\ c[P + 1] \in Int
    BY <1>4, <1>8
  <2> QED BY <1>6, <1>9, <2>1, <2>2, <2>3
<1>14. accepted' = accepted /\ in_last' = in_last /\ midi_played \in Seq(Events)
  BY DEF MidiTypes
<1> HIDE DEF EndOf
<1>15. ASSUME midi_played' = midi_played, Reading(ev, 0 - c[P + 1])', c[P + 1] < 1
       PROVE  Sounding' /\ midi_played' \in Seq(Events)
  <2>1. Sounded' = P
    BY <1>0, <1>15 DEF Sounded
  <2>2. PlayedFirst' /\ Remembered'
    <3>1. PlayedFirst /\ Remembered /\ Sounded # Len(accepted)
      BY <1>0, <1>3 DEF Sounding
    <3> QED BY <1>14, <1>15, <3>1 DEF PlayedFirst, Remembered, Sounded
  <2>3. Parsing(c)'
    <3>1. c[P + 1] <= 1 /\ c[P + 1] # 1
      <4>1. \A z \in Int : z < 1 => z <= 1 /\ z # 1
        OBVIOUS
      <4> QED BY <1>13, <1>15, <4>1, Zenon
    <3>2. (Reading(accepted[Sounded + 1], 0 - c[Sounded + 1]))'
      <4>1. accepted'[Sounded' + 1] = ev /\ 0 - c[Sounded' + 1] = 0 - c[P + 1]
        BY <1>e, <1>14, <2>1
      <4> HIDE DEF Sounded
      <4> QED BY <1>15, <4>1 DEF Reading
    <3>3. Len(accepted') = N /\ Sounded' # Len(accepted')
      BY <1>0, <1>3, <1>14, <2>1
    <3>4. EndOf(c, Len(accepted))' = Len(Stream)'
      BY <1>0, <1>13, <1>14
    <3> QED BY <2>1, <3>1, <3>2, <3>3, <3>4 DEF Parsing
  <2>4. Placed(c)'
    <3>1. Len(accepted') = N
      BY <1>0, <1>14
    <3> QED BY <1>10, <1>11, <1>12, <2>1, <2>3, <3>1 DEF Placed
  <2> QED BY <1>8, <1>14, <1>15, <2>2, <2>4 DEF Sounding
<1>16. CASE a[P + 1] = 1
  <2>1. midi_played' = midi_played /\ Reading(ev, 0)'
    <3>1. midi_state = "Normal" /\ midi_byte_out(ev.cmd)
      BY <1>6, <1>16
    <3> QED BY <1>5, <3>1, ParserBegins
  <2>2. c[P + 1] = 0
    <3>1. c[P + 1] = 1 - 1
      BY <1>13, <1>16, Zenon
    <3> QED BY <3>1
  <2>3. 0 - c[P + 1] = 0 /\ c[P + 1] < 1
    BY <2>2
  <2> QED BY <1>15, <2>1, <2>3
<1>17. CASE a[P + 1] < 1
  <2>1. PICK k \in Nat : a[P + 1] = 0 - k /\ k = 0 - a[P + 1]
    <3>1. \A z \in Int : z < 1 => 0 - z \in Nat /\ z = 0 - (0 - z)
      OBVIOUS
    <3>2. 0 - a[P + 1] \in Nat /\ a[P + 1] = 0 - (0 - a[P + 1])
      BY <1>5, <1>17, <3>1
    <3> QED BY <3>2
  <2>2. Reading(ev, k)
    BY <1>6, <1>17, <2>1
  <2>3. PICK l \in Nat : l = Len(ev.data)
    BY <1>5
  <2>4. PICK n \in Nat : n = l + (IF ev.cmd = "f0" THEN 1 ELSE 0)
    <3>1. l + 1 \in Nat /\ l + 0 \in Nat
      BY <2>3
    <3> QED BY <3>1, Zenon
  <2>5. EndOf(a, P + 1) = n - k
    <3>1. PICK w \in {0, 1} : w = (IF ev.cmd = "f0" THEN 1 ELSE 0)
      OBVIOUS
    <3>2. EndOf(a, P + 1) = ((0 - k) + l) + w /\ n = l + w
      BY <1>5, <2>1, <2>3, <2>4, <3>1
    <3>3. \A s, t \in Nat, v \in {0, 1} : ((0 - s) + t) + v = (t + v) - s
      OBVIOUS
    <3> QED BY <2>1, <2>3, <3>1, <3>2, <3>3
  <2>6. ev.cmd \in TwoData \cup OneData \cup {"f0"} /\ (ev.cmd \in TwoData => l = 2)
    BY <1>5, <2>3, EventTypes
  <2>7. ev.cmd \in OneData => l = 1
    BY <1>5, <2>3, EventTypes
  <2>8. k <= l /\ (k = l => ev.cmd = "f0")
    <3>1. ev.cmd \in TwoData => k = 0 \/ k = 1
      BY <2>2 DEF Reading
    <3>2. ev.cmd \in OneData => k = 0
      BY <2>2 DEF Reading
    <3>3. ev.cmd = "f0" => k <= l
      BY <2>2, <2>3 DEF Reading
    <3>4. ev.cmd \in OneData => ev.cmd # "f0" /\ ev.cmd \notin TwoData
      BY DEF OneData, TwoData
    <3>5. ev.cmd \in TwoData => k <= l /\ k # l
      BY <2>6, <3>1
    <3>6. ev.cmd \in OneData => k <= l /\ k # l
      BY <2>7, <3>2
    <3> QED BY <2>6, <3>3, <3>5, <3>6, Zenon
  <2>9. Spelled(a, P + 1)
    BY <1>4, <1>7
  <2>10. ASSUME k < l PROVE Stream[1] = ev.data[k + 1]
    <3>1. k + 1 \in 1 .. Len(ev.data) /\ a[P + 1] + (k + 1) = 1
      <4>1. k + 1 \in 1 .. l
        BY <2>10
      <4>2. \A t \in Nat : (0 - t) + (t + 1) = 1
        OBVIOUS
      <4>3. a[P + 1] + (k + 1) = (0 - k) + (k + 1)
        BY <2>1, Zenon
      <4> QED BY <2>3, <4>1, <4>2, <4>3
    <3>2. a[P + 1] + (k + 1) >= 1
      BY <3>1
    <3> QED BY <1>e, <2>9, <3>1, <3>2 DEF Spelled
  <2>11. ASSUME k = l PROVE Stream[1] = "f7"
    <3>1. ev.cmd = "f0"
      BY <2>8, <2>11
    <3>2. EndOf(a, P + 1) = 1
      BY <2>4, <2>5, <2>11, <3>1
    <3> QED BY <1>e, <2>9, <3>1, <3>2 DEF Spelled
  <2>12. IF k + 1 = n
         THEN /\ midi_played' = Append(midi_played, ev) /\ midi_state' = "Normal"
              /\ ev.cmd # "f0" => out_last' = ev.cmd
         ELSE midi_played' = midi_played /\ Reading(ev, k + 1)'
    <3>1. k < Len(ev.data) => Stream[1] = ev.data[k + 1]
      BY <2>3, <2>10
    <3>2. k = Len(ev.data) => Stream[1] = "f7"
      BY <2>3, <2>11
    <3>3. n = Len(ev.data) + (IF ev.cmd = "f0" THEN 1 ELSE 0)
      BY <2>3, <2>4
    <3>4. midi_byte_out(Stream[1])
      OBVIOUS
    <3> QED BY <1>5, <1>14, <2>2, <3>1, <3>2, <3>3, <3>4, ParserGoesOn
  <2>13. CASE k + 1 # n
    <3>1. midi_played' = midi_played /\ Reading(ev, k + 1)'
      BY <2>12, <2>13
    <3>2. 0 - c[P + 1] = k + 1 /\ c[P + 1] < 1
      <4>1. \A t \in Nat : 0 - ((0 - t) - 1) = t + 1 /\ (0 - t) - 1 < 1
        OBVIOUS
      <4>2. c[P + 1] = (0 - k) - 1
        BY <1>13, <2>1, Zenon
      <4> QED BY <4>1, <4>2
    <3> QED BY <1>15, <3>1, <3>2
  <2>14. CASE k + 1 = n
    <3>1. midi_played' = Append(midi_played, ev) /\ midi_state' = "Normal"
          /\ (ev.cmd # "f0" => out_last' = ev.cmd)
      BY <2>12, <2>14
    <3>2. EndOf(a, P + 1) = 1 /\ EndOf(c, P + 1)' = 0
      <4>1. n - k = 1
        BY <2>14
      <4>2. EndOf(c, P + 1)' = EndOf(a, P + 1) - 1
        BY <1>4, <1>10
      <4>3. EndOf(a, P + 1) = 1
        BY <2>5, <4>1, Zenon
      <4> QED BY <4>2, <4>3
    <3>3. midi_played' \in Seq(Events) /\ Sounded' = P + 1
          /\ (\A i \in 1 .. P : midi_played'[i] = midi_played[i])
          /\ midi_played'[P + 1] = ev
      BY <1>0, <1>2, <1>5, <1>14, <3>1 DEF Sounded
    <3>4. PlayedFirst'
      <4>1. \A i \in 1 .. P : midi_played[i] = accepted[i]
        BY <1>0 DEF Sounding, PlayedFirst
      <4>2. \A i \in 1 .. P + 1 : i \in 1 .. P \/ i = P + 1
        BY <1>2
      <4>3. \A i \in 1 .. P + 1 : midi_played'[i] = accepted'[i]
        <5>1. \A i \in 1 .. P : midi_played'[i] = accepted'[i]
          BY <1>14, <3>3, <4>1
        <5>2. midi_played'[P + 1] = accepted'[P + 1]
          <6>1. midi_played'[P + 1] = ev
            BY <3>3, Zenon
          <6>2. accepted'[P + 1] = accepted[P + 1]
            BY <1>14, Zenon
          <6> QED BY <1>e, <6>1, <6>2, Zenon
        <5> QED BY <4>2, <5>1, <5>2
      <4>4. P + 1 <= Len(accepted')
        BY <1>0, <1>4, <1>14
      <4> QED BY <3>3, <4>3, <4>4 DEF PlayedFirst
    <3>5. Remembered'
      <4>1. in_last # "" => accepted[N].cmd = in_last
        BY <1>0, <1>3 DEF Sounding, Remembered
      <4>2. in_last # "f0"
        BY DEF MidiTypes, TwoData, OneData
      <4>3. P + 1 = N /\ in_last # "" => out_last' = in_last
        BY <1>e, <3>1, <4>1, <4>2
      <4>4. Len(accepted') = N
        BY <1>0, <1>14
      <4> QED BY <1>14, <3>3, <4>1, <4>3, <4>4 DEF Remembered
    <3>6. Parsing(c)'
      <4>1. Len(accepted') = N
        BY <1>0, <1>14
      <4>2. CASE P + 1 = N
        <5>1. Len(Stream') = 0
          <6>1. Len(Stream') = EndOf(c, P + 1)'
            BY <1>13, <4>2
          <6> QED BY <3>2, <6>1
        <5> QED BY <3>1, <3>3, <4>1, <4>2, <5>1 DEF Parsing
      <4>3. CASE P + 1 # N
        <5>1. P + 2 \in P + 2 .. N /\ (P + 2) - 1 = P + 1 /\ (P + 1) + 1 = P + 2 /\ P + 2 \in Nat
          BY <1>2, <1>4, <4>3
        <5>2. Follows(c, P + 2)'
          BY <1>12, <5>1, Zenon
        <5>3. \/ c[P + 2] = 1 /\ (c[P + 2] >= 1 => Stream'[c[P + 2]] = accepted[P + 2].cmd)
              \/ c[P + 2] = 0 /\ accepted[P + 2].cmd = ev.cmd /\ ev.cmd # "f0"
          <6>1. EndOf(c, (P + 2) - 1)' = 0 /\ accepted'[(P + 2) - 1] = ev
            BY <1>e, <1>14, <3>2, <5>1
          <6>2. \/ c[P + 2] = 0 + 1 /\ (c[P + 2] >= 1 => Stream'[c[P + 2]] = accepted[P + 2].cmd)
                \/ c[P + 2] = 0 /\ accepted[P + 2].cmd = ev.cmd /\ accepted[P + 2].cmd # "f0"
            BY <1>14, <5>2, <6>1, Zenon DEF Follows
          <6> QED BY <6>2
        <5>4. EndOf(c, Len(accepted))' = Len(Stream')
          <6>1. EndOf(c, Len(accepted))' = EndOf(c, N)'
            BY <4>1
          <6> QED BY <1>13, <6>1
        <5>5. CASE c[P + 2] = 1
          <6>1. Stream'[1] = accepted[P + 2].cmd
            BY <5>3, <5>5
          <6>2. Sounded' # Len(accepted') /\ Sounded' + 1 = P + 2
            BY <3>3, <4>1, <4>3, <5>1
          <6>3. c[Sounded' + 1] = 1 /\ Stream'[1] = accepted'[Sounded' + 1].cmd
            BY <1>14, <5>5, <6>1, <6>2
          <6> HIDE DEF Sounded
          <6> QED BY <3>1, <5>4, <6>2, <6>3 DEF Parsing
        <5>6. CASE c[P + 2] = 0 /\ accepted[P + 2].cmd = ev.cmd /\ ev.cmd # "f0"
          <6>1. Reading(accepted[P + 2], 0)'
            <7>1. accepted'[P + 2].cmd = ev.cmd /\ out_last' = ev.cmd
              BY <1>14, <3>1, <5>6
            <7> QED BY <3>1, <5>6, <7>1 DEF Reading
          <6>2. 0 - c[P + 2] = 0 /\ c[P + 2] < 1 /\ c[P + 2] # 1 /\ c[P + 2] <= 1
            <7>1. c[P + 2] = 0
              BY <5>6
            <7> QED BY <7>1
          <6>3. Sounded' # Len(accepted') /\ Sounded' + 1 = P + 2
            BY <3>3, <4>1, <4>3, <5>1
          <6>4. c[Sounded' + 1] < 1 /\ c[Sounded' + 1] # 1 /\ c[Sounded' + 1] <= 1
            BY <6>2, <6>3
          <6>5. Reading(accepted[Sounded + 1], 0 - c[Sounded + 1])'
            <7>1. accepted'[Sounded' + 1] = accepted'[P + 2] /\ 0 - c[Sounded' + 1] = 0
              BY <6>2, <6>3
            <7> QED BY <6>1, <7>1 DEF Reading
          <6> QED BY <5>4, <6>3, <6>4, <6>5 DEF Parsing
        <5> QED BY <5>3, <5>5, <5>6
      <4> QED BY <4>2, <4>3
    <3>7. Placed(c)'
      <4>1. Len(accepted') = N
        BY <1>0, <1>14
      <4>2. /\ \A i \in (P + 1) + 2 .. N : i \in P + 2 .. N
            /\ \A i \in (P + 1) + 1 .. N : i \in P + 1 .. N
        BY <1>2
      <4>3. /\ \A i \in (P + 1) + 2 .. N : Follows(c, i)'
            /\ \A i \in (P + 1) + 1 .. N : Spelled(c, i)' /\ EndOf(c, i)' <= Len(Stream')
        BY <1>10, <1>11, <1>12, <4>2
      <4> QED BY <3>3, <3>6, <4>1, <4>3 DEF Placed
    <3> QED BY <1>8, <3>3, <3>4, <3>5, <3>7 DEF Sounding
  <2> QED BY <2>13, <2>14
<1>18. a[P + 1] = 1 \/ a[P + 1] < 1
  BY <1>5, <1>6
<1> QED BY <1>16, <1>17, <1>18

\* What the thread queues of an event: its status, unless that runs on, its
\* data and the end of a sysex.
Spells(ev, b, d, w) ==
    /\ d = IF in_last = ev.cmd THEN 0 ELSE 1
    /\ w = IF ev.cmd = "f0" THEN 1 ELSE 0
    /\ b \in Seq(MidiByte) /\ Len(b) = (d + Len(ev.data)) + w
    /\ d = 1 => b[1] = ev.cmd
    /\ \A j \in 1 .. Len(ev.data) : b[d + j] = ev.data[j]
    /\ w = 1 => b[(d + Len(ev.data)) + 1] = "f7"

LEMMA Encoded ==
    ASSUME MidiTypes, NEW ev \in Events, Enqueue(ev).ok
    PROVE  \E d, w \in {0, 1} :
              /\ Spells(ev, Enqueue(ev).bytes, d, w)
              /\ Enqueue(ev).last = IF w = 1 THEN "" ELSE ev.cmd
<1>0. PICK d \in {0, 1}, w \in {0, 1} :
         d = (IF in_last = ev.cmd THEN 0 ELSE 1) /\ w = (IF ev.cmd = "f0" THEN 1 ELSE 0)
  OBVIOUS
<1> SUFFICES /\ Enqueue(ev).bytes \in Seq(MidiByte)
             /\ Len(Enqueue(ev).bytes) = (d + Len(ev.data)) + w
             /\ d = 1 => Enqueue(ev).bytes[1] = ev.cmd
             /\ \A j \in 1 .. Len(ev.data) : Enqueue(ev).bytes[d + j] = ev.data[j]
             /\ w = 1 => Enqueue(ev).bytes[(d + Len(ev.data)) + 1] = "f7"
             /\ Enqueue(ev).last = IF w = 1 THEN "" ELSE ev.cmd
  BY <1>0, Zenon DEF Spells
<1>1. ev.cmd \in TwoData \cup OneData \cup {"f0"} /\ ev.data \in Seq(Data) /\ ev.data \in Seq(MidiByte)
  <2>1. ev.cmd \in TwoData \cup OneData \cup {"f0"} /\ ev.data \in Seq(Data)
    BY EventTypes
  <2> QED BY <2>1 DEF MidiByte
<1>2. PICK data \in Seq(MidiByte) : data = ev.data
  BY <1>1
<1>3. PICK n \in Nat : n = Len(data)
  OBVIOUS
<1>4. PICK head \in Seq(MidiByte) : head = <<ev.cmd>> /\ Len(head) = 1 /\ head[1] = ev.cmd
  <2>1. ev.cmd \in MidiByte
    BY <1>1 DEF MidiByte, Status
  <2>2. <<ev.cmd>> \in Seq(MidiByte) /\ Len(<<ev.cmd>>) = 1 /\ <<ev.cmd>>[1] = ev.cmd
    BY <2>1
  <2> QED BY <2>2, Zenon
<1>5. PICK both \in Seq(MidiByte) : both = head \o data /\ Len(both) = n + 1 /\ both[1] = ev.cmd
                                    /\ \A j \in 1 .. n : both[1 + j] = data[j]
  <2>1. head \o data \in Seq(MidiByte) /\ Len(head \o data) = 1 + n
    BY <1>3, <1>4, ConcatProperties
  <2>2. \A j \in 1 .. 1 + n : (head \o data)[j] = IF j <= 1 THEN head[j] ELSE data[j - 1]
    BY <1>3, <1>4, ConcatProperties
  <2>3. (head \o data)[1] = ev.cmd
    BY <1>3, <1>4, <2>2
  <2>4. ASSUME NEW j \in 1 .. n PROVE (head \o data)[1 + j] = data[j]
    <3>1. 1 + j \in 1 .. 1 + n /\ ~ (1 + j <= 1) /\ (1 + j) - 1 = j
      BY <1>3
    <3> QED BY <2>2, <3>1
  <2>5. Len(head \o data) = n + 1
    BY <1>3, <2>1
  <2> QED BY <2>1, <2>3, <2>4, <2>5, Zenon
<1>b. both = <<ev.cmd>> \o ev.data
  BY <1>2, <1>4, <1>5, Zenon
<1>6. CASE ev.cmd \in TwoData \cup OneData
  <2>1. ev.cmd # "f0" /\ w = 0
    BY <1>0, <1>6 DEF TwoData, OneData
  <2>2. Enqueue(ev).bytes = (IF Running(ev.cmd) THEN data ELSE both) /\ Enqueue(ev).last = ev.cmd
    <3>1. Enqueue(ev) = (IF Len(queue) >= Queue - Len(ev.data)
                         THEN [bytes |-> << >>, last |-> "", ok |-> FALSE]
                         ELSE [bytes |-> IF Running(ev.cmd) THEN ev.data ELSE <<ev.cmd>> \o ev.data,
                               last |-> ev.cmd, ok |-> TRUE])
      BY <1>6, <2>1 DEF Enqueue
    <3>2. ~ (Len(queue) >= Queue - Len(ev.data))
      <4>1. [bytes |-> << >>, last |-> "", ok |-> FALSE].ok = FALSE
        OBVIOUS
      <4> QED BY <3>1, <4>1
    <3>3. Enqueue(ev) = [bytes |-> IF Running(ev.cmd) THEN data ELSE both, last |-> ev.cmd, ok |-> TRUE]
      BY <1>2, <1>b, <3>1, <3>2, Zenon
    <3> QED BY <3>3
  <2>3. CASE in_last = ev.cmd
    <3>1. d = 0 /\ Enqueue(ev).bytes = data
      BY <1>0, <2>2, <2>3 DEF Running
    <3>2. (d + n) + w = n /\ \A j \in 1 .. n : d + j = j
      BY <1>3, <2>1, <3>1
    <3>3. Len(data) = (d + Len(data)) + w /\ d # 1 /\ w # 1
      BY <1>3, <2>1, <3>1, <3>2
    <3>4. \A j \in 1 .. Len(data) : data[d + j] = data[j]
      BY <1>3, <3>2
    <3> QED BY <1>2, <2>2, <3>1, <3>3, <3>4, Zenon
  <2>4. CASE in_last # ev.cmd
    <3>1. d = 1 /\ Enqueue(ev).bytes = both
      BY <1>0, <2>2, <2>4 DEF Running
    <3>2. (d + n) + w = n + 1
      BY <1>3, <2>1, <3>1
    <3>3. Len(both) = (d + Len(data)) + w /\ w # 1
      BY <1>3, <1>5, <2>1, <3>1, <3>2
    <3>4. \A j \in 1 .. Len(data) : both[d + j] = data[j]
      BY <1>3, <1>5, <3>1
    <3> QED BY <1>2, <1>5, <2>2, <3>1, <3>3, <3>4, Zenon
  <2> QED BY <2>3, <2>4
<1>7. CASE ev.cmd = "f0"
  <2>1. w = 1 /\ d = 1 /\ ev.cmd \notin TwoData \cup OneData
    BY <1>0, <1>7 DEF MidiTypes, TwoData, OneData
  <2>2. PICK tail \in Seq(MidiByte) : tail = <<"f7">> /\ Len(tail) = 1 /\ tail[1] = "f7"
    <3>1. "f7" \in MidiByte
      BY DEF MidiByte, Status
    <3>2. <<"f7">> \in Seq(MidiByte) /\ Len(<<"f7">>) = 1 /\ <<"f7">>[1] = "f7"
      BY <3>1
    <3> QED BY <3>2, Zenon
  <2>3. Enqueue(ev).bytes = both \o tail /\ Enqueue(ev).last = ""
    <3>1. Enqueue(ev) = (IF Len(queue) >= (Queue - 1) - (Len(ev.data) + 2)
                         THEN [bytes |-> << >>, last |-> "", ok |-> FALSE]
                         ELSE [bytes |-> (<<"f0">> \o ev.data) \o <<"f7">>, last |-> "", ok |-> TRUE])
      BY <1>7, <2>1 DEF Enqueue
    <3>2. ~ (Len(queue) >= (Queue - 1) - (Len(ev.data) + 2))
      <4>1. [bytes |-> << >>, last |-> "", ok |-> FALSE].ok = FALSE
        OBVIOUS
      <4> QED BY <3>1, <4>1
    <3>3. Enqueue(ev) = [bytes |-> both \o tail, last |-> "", ok |-> TRUE]
      BY <1>7, <1>b, <2>2, <3>1, <3>2, Zenon
    <3>4. \A x, y : [bytes |-> x, last |-> y, ok |-> TRUE].bytes = x
                  /\ [bytes |-> x, last |-> y, ok |-> TRUE].last = y
      OBVIOUS
    <3>5. [bytes |-> both \o tail, last |-> "", ok |-> TRUE].bytes = both \o tail
          /\ [bytes |-> both \o tail, last |-> "", ok |-> TRUE].last = ""
      BY <3>4
    <3> QED BY <3>3, <3>5, Zenon
  <2>4. both \o tail \in Seq(MidiByte) /\ Len(both \o tail) = (n + 1) + 1
    BY <1>5, <2>2, ConcatProperties
  <2>5. \A j \in 1 .. (n + 1) + 1 :
           (both \o tail)[j] = IF j <= n + 1 THEN both[j] ELSE tail[j - (n + 1)]
    BY <1>5, <2>2, ConcatProperties
  <2>6. (both \o tail)[1] = ev.cmd
    <3>1. 1 \in 1 .. (n + 1) + 1 /\ 1 <= n + 1
      BY <1>3
    <3> QED BY <1>5, <2>5, <3>1
  <2>7. ASSUME NEW j \in 1 .. n PROVE (both \o tail)[1 + j] = data[j]
    <3>1. 1 + j \in 1 .. (n + 1) + 1 /\ 1 + j <= n + 1
      BY <1>3
    <3> QED BY <1>5, <2>5, <3>1
  <2>8. (both \o tail)[(1 + n) + 1] = "f7"
    <3>1. (1 + n) + 1 \in 1 .. (n + 1) + 1 /\ ~ ((1 + n) + 1 <= n + 1) /\ ((1 + n) + 1) - (n + 1) = 1
      BY <1>3
    <3> QED BY <2>2, <2>5, <3>1
  <2>9. (n + 1) + 1 = (d + n) + w
    <3>1. (n + 1) + 1 = (1 + n) + 1
      BY <1>3
    <3> QED BY <2>1, <3>1, Zenon
  <2> QED BY <1>2, <1>3, <2>1, <2>3, <2>4, <2>6, <2>7, <2>8, <2>9
<1> QED BY <1>1, <1>6, <1>7

\* Bytes are queued, and come last in the stream.
Queues(b) == queue' = queue \o b /\ UNCHANGED <<ofifo, held, ififo>>
Grows(b) == Stream' = Stream \o b
Accepts(ev, w) ==
    accepted' = Append(accepted, ev) /\ in_last' = IF w = 1 THEN "" ELSE ev.cmd

\* Bytes in three parts, put together from either end.
LEMMA BytesAssociative ==
    ASSUME NEW s \in Seq(MidiByte), NEW t \in Seq(MidiByte), NEW u \in Seq(MidiByte)
    PROVE  (s \o t) \o u = s \o (t \o u)
BY ConcatAssociative

LEMMA StreamGrows ==
    ASSUME MidiTypes, NEW b \in Seq(MidiByte), Queues(b)
    PROVE  Grows(b)
<1>1. PICK before \in Seq(MidiByte) : before = (ofifo \o held) \o ififo
  BY ConcatProperties DEF MidiTypes
<1>2. queue \in Seq(MidiByte)
  BY DEF MidiTypes
<1>3. \A s, t, u \in Seq(MidiByte) : (s \o t) \o u = s \o (t \o u)
  BY BytesAssociative, Zenon
<1>4. before \o (queue \o b) = (before \o queue) \o b
  BY <1>1, <1>2, <1>3, Zenon
<1> QED BY <1>1, <1>4, Zenon DEF Stream, Grows, Queues

\* An event that is queued comes after those before it.
LEMMA EventHeard ==
    ASSUME MidiTypes, Sounding, NEW ev \in Events, NEW b, NEW d \in {0, 1}, NEW w \in {0, 1},
           Spells(ev, b, d, w), Accepts(ev, w), Grows(b),
           UNCHANGED <<midi_played, midi_state, out_last, out_data>>
    PROVE  Sounding'
<1>1. PICK a \in [Nat -> Int] : Placed(a)
  BY DEF Sounding
<1>0. PICK N \in Nat, P \in Nat : N = Len(accepted) /\ P = Sounded
  <2>1. accepted \in Seq(Events) /\ midi_played \in Seq(Events)
    BY DEF MidiTypes
  <2>2. Len(accepted) \in Nat /\ Len(midi_played) \in Nat
    BY <2>1
  <2> QED BY <2>2, Zenon DEF Sounded
<1>2. PICK L \in Nat, n \in Nat : L = Len(Stream) /\ n = Len(ev.data)
  <2>1. Len(Stream) \in Nat
    BY StreamTyped
  <2>2. Len(ev.data) \in Nat
    BY EventTypes
  <2> QED BY <2>1, <2>2, Zenon
<1>a. /\ b \in Seq(MidiByte) /\ Len(b) = (d + n) + w
      /\ d = 1 => b[1] = ev.cmd
      /\ \A j \in 1 .. n : b[d + j] = ev.data[j]
      /\ w = 1 => b[(d + n) + 1] = "f7"
  BY <1>2, Zenon DEF Spells
<1>b. /\ d = (IF in_last = ev.cmd THEN 0 ELSE 1)
      /\ w = (IF ev.cmd = "f0" THEN 1 ELSE 0)
  BY Zenon DEF Spells
<1>c. d \in Nat /\ w \in Nat
  OBVIOUS
<1>3. /\ Len(Stream') = L + ((d + n) + w)
      /\ \A q \in 1 .. L : Stream'[q] = Stream[q]
      /\ \A q \in 1 .. (d + n) + w : Stream'[L + q] = b[q]
  <2>1. Stream \in Seq(MidiByte)
    BY StreamTyped
  <2> HIDE DEF Stream
  <2>2. PICK m \in Nat : m = Len(b) /\ m = (d + n) + w
    <3>1. \A s \in Nat, u, v \in {0, 1} : (u + s) + v \in Nat
      OBVIOUS
    <3> QED BY <1>2, <1>a, <3>1, Zenon
  <2>b. b \in Seq(MidiByte)
    BY <1>a, Zenon
  <2>c. /\ Len(Stream \o b) = Len(Stream) + Len(b)
        /\ \A q \in 1 .. Len(Stream) + Len(b) :
              (Stream \o b)[q] = IF q <= Len(Stream) THEN Stream[q] ELSE b[q - Len(Stream)]
    BY <2>1, <2>b, ConcatProperties
  <2>3. Len(Stream \o b) = L + m
    BY <1>2, <2>2, <2>c, Zenon
  <2>4. \A q \in 1 .. L + m : (Stream \o b)[q] = IF q <= L THEN Stream[q] ELSE b[q - L]
    BY <1>2, <2>2, <2>c, Zenon
  <2>5. ASSUME NEW q \in 1 .. L PROVE (Stream \o b)[q] = Stream[q]
    <3>1. q \in 1 .. L + m /\ q <= L
      BY <1>2, <2>2
    <3> QED BY <2>4, <3>1
  <2>6. ASSUME NEW q \in 1 .. m PROVE (Stream \o b)[L + q] = b[q]
    <3>1. L + q \in 1 .. L + m /\ ~ (L + q <= L) /\ (L + q) - L = q
      BY <1>2, <2>2
    <3> QED BY <2>4, <3>1
  <2>7. Stream' = Stream \o b
    BY Zenon DEF Grows
  <2> QED BY <2>2, <2>3, <2>5, <2>6, <2>7, Zenon
<1> HIDE DEF Stream
<1>4. Len(accepted') = N + 1 /\ accepted'[N + 1] = ev /\ (\A i \in 1 .. N : accepted'[i] = accepted[i])
      /\ in_last' = IF w = 1 THEN "" ELSE ev.cmd
  <2>1. accepted \in Seq(Events)
    BY DEF MidiTypes
  <2>2. accepted' = Append(accepted, ev) /\ in_last' = IF w = 1 THEN "" ELSE ev.cmd
    BY Zenon DEF Accepts
  <2>3. /\ Len(Append(accepted, ev)) = Len(accepted) + 1
        /\ Append(accepted, ev)[Len(accepted) + 1] = ev
        /\ \A i \in 1 .. Len(accepted) : Append(accepted, ev)[i] = accepted[i]
    BY <2>1
  <2> QED BY <1>0, <2>2, <2>3, Zenon
<1>5. PICK c \in [Nat -> Int] : c[N + 1] = L + d /\ \A i \in 1 .. N : c[i] = a[i]
  <2>1. [i \in Nat |-> IF i = N + 1 THEN L + d ELSE a[i]] \in [Nat -> Int]
    OBVIOUS
  <2>2. N + 1 \in Nat /\ \A i \in 1 .. N : i \in Nat /\ i # N + 1
    OBVIOUS
  <2> QED BY <2>1, <2>2
<1>6. Sounded' = P /\ P <= N /\ P \in 0 .. N
  <2>1. Sounded' = P /\ P <= N
    BY <1>0 DEF Sounded, Sounding, PlayedFirst
  <2> QED BY <2>1
<1>7. /\ \A i \in P + 2 .. N : Follows(a, i)
      /\ \A i \in P + 1 .. N : Spelled(a, i) /\ EndOf(a, i) <= L
  BY <1>0, <1>1, <1>2 DEF Placed
<1>8. ASSUME NEW i \in P + 1 .. N
      PROVE  EndOf(c, i)' = EndOf(a, i) /\ EndOf(a, i) \in Int /\ EndOf(a, i) <= L /\ c[i] = a[i]
             /\ a[i] \in Int /\ a[i] + Len(accepted[i].data) <= EndOf(a, i) /\ accepted'[i] = accepted[i]
             /\ Len(accepted[i].data) \in Nat
  <2>1. i \in 1 .. N /\ i \in Nat
    OBVIOUS
  <2>2. c[i] = a[i] /\ accepted'[i] = accepted[i]
    BY <1>4, <1>5, <2>1
  <2>3. EndOf(c, i)' = EndOf(a, i)
    BY <2>2 DEF EndOf
  <2>4. accepted[i].data \in Seq(Data) /\ a[i] \in Int /\ EndOf(a, i) \in Int
        /\ a[i] + Len(accepted[i].data) <= EndOf(a, i)
    BY <1>0, <2>1, EndsTyped
  <2>5. Len(accepted[i].data) \in Nat
    <3>1. \A s \in Seq(Data) : Len(s) \in Nat
      OBVIOUS
    <3> QED BY <2>4, <3>1, Zenon
  <2>6. EndOf(a, i) <= L
    BY <1>7
  <2> QED BY <2>2, <2>3, <2>4, <2>5, <2>6
<1>9. EndOf(c, N + 1)' = Len(Stream')
  <2>1. EndOf(c, N + 1)' = ((L + d) + n) + w
    BY <1>2, <1>4, <1>5, <1>b, Zenon DEF EndOf
  <2>3. L \in Nat /\ n \in Nat
    BY <1>2
  <2>4. ((L + d) + n) + w = L + ((d + n) + w)
    BY <1>c, <2>3
  <2> QED BY <1>3, <2>1, <2>4, Zenon
<1> HIDE DEF EndOf
<1>10. ASSUME NEW i \in P + 1 .. N
       PROVE  Spelled(c, i)' /\ EndOf(c, i)' <= Len(Stream')
  <2>1. PICK x \in Int : x = EndOf(a, i) /\ x <= L /\ x = EndOf(c, i)'
    BY <1>8
  <2>2. PICK z \in Int : z = a[i] /\ z = c[i]
    BY <1>8
  <2>3. PICK m \in Nat : m = Len(accepted[i].data) /\ z + m <= x
    BY <1>8, <2>1, <2>2
  <2>4. Spelled(a, i) /\ accepted'[i] = accepted[i]
    BY <1>7, <1>8
  <2>5. ASSUME NEW j \in 1 .. Len(accepted[i].data), c[i] + j >= 1
        PROVE  Stream'[c[i] + j] = accepted[i].data[j]
    <3>1. j \in 1 .. m
      BY <2>3
    <3>2. z + j \in 1 .. L
      <4>1. \A s, u \in Int, t, v \in Nat : \A r \in 1 .. t :
               s + r >= 1 /\ s + t <= u /\ u <= v => s + r \in 1 .. v
        OBVIOUS
      <4>2. z + j >= 1
        BY <2>2, <2>5
      <4> QED BY <1>2, <2>1, <2>3, <3>1, <4>1, <4>2, Zenon
    <3>3. Stream[z + j] = accepted[i].data[j]
      BY <2>2, <2>4, <2>5 DEF Spelled
    <3> QED BY <1>3, <2>2, <3>2, <3>3
  <2>6. ASSUME accepted[i].cmd = "f0", EndOf(c, i)' >= 1 PROVE Stream'[EndOf(c, i)'] = "f7"
    <3>1. x \in 1 .. L /\ EndOf(a, i) >= 1
      BY <2>1, <2>6
    <3>2. Stream[x] = "f7"
      BY <2>1, <2>4, <2>6, <3>1 DEF Spelled
    <3> QED BY <1>3, <2>1, <3>1, <3>2
  <2>7. x <= L + ((d + n) + w)
    <3>1. \A q \in Int, s, t, u, v \in Nat : q <= s => q <= s + ((t + u) + v)
      OBVIOUS
    <3>2. x \in Int /\ L \in Nat /\ n \in Nat /\ x <= L
      BY <1>2, <2>1
    <3> QED BY <1>c, <3>1, <3>2
  <2> QED BY <1>3, <2>1, <2>4, <2>5, <2>6, <2>7 DEF Spelled
<1>11. ASSUME NEW i \in P + 2 .. N PROVE Follows(c, i)'
  <2>1. i \in P + 1 .. N /\ i - 1 \in P + 1 .. N
    OBVIOUS
  <2>2. EndOf(c, i - 1)' = EndOf(a, i - 1) /\ c[i] = a[i] /\ accepted'[i] = accepted[i]
        /\ accepted'[i - 1] = accepted[i - 1]
    BY <1>8, <2>1
  <2>3. ASSUME c[i] >= 1, Stream[a[i]] = accepted[i].cmd PROVE Stream'[c[i]] = accepted[i].cmd
    <3>1. PICK z \in Int : z = a[i] /\ z = c[i]
      BY <1>8, <2>1
    <3>2. PICK x \in Int, m \in Nat : x = EndOf(a, i) /\ m = Len(accepted[i].data)
                                      /\ z + m <= x /\ x <= L
      BY <1>8, <2>1, <3>1
    <3>3. z \in 1 .. L
      <4>1. z >= 1
        BY <2>3, <3>1
      <4>2. \A s, u \in Int, t, v \in Nat : s >= 1 /\ s + t <= u /\ u <= v => s \in 1 .. v
        OBVIOUS
      <4> QED BY <1>2, <3>1, <3>2, <4>1, <4>2, Zenon
    <3> QED BY <1>3, <2>3, <3>1, <3>3
  <2>4. Follows(a, i)
    BY <1>7
  <2> QED BY <2>2, <2>3, <2>4 DEF Follows
<1>12. Spelled(c, N + 1)'
  <2>1. ASSUME NEW j \in 1 .. Len(ev.data) PROVE Stream'[c[N + 1] + j] = ev.data[j]
    <3>1. PICK r \in 1 .. n : r = j
      BY <1>2, <2>1
    <3>2. d + r \in 1 .. (d + n) + w /\ (L + d) + r = L + (d + r)
      <4>1. L \in Nat /\ n \in Nat /\ r \in 1 .. n
        BY <1>2, <3>1
      <4> QED BY <1>c, <4>1
    <3>3. Stream'[L + (d + r)] = b[d + r]
      BY <1>3, <3>2
    <3>4. b[d + r] = ev.data[r]
      BY <1>a, <3>1, Zenon
    <3> QED BY <1>5, <3>1, <3>2, <3>3, <3>4
  <2>2. ASSUME ev.cmd = "f0" PROVE Stream'[EndOf(c, N + 1)'] = "f7"
    <3>1. w = 1
      BY <1>b, <2>2
    <3>2. (d + n) + 1 \in 1 .. (d + n) + w
      BY <1>2, <3>1
    <3>3. Stream'[L + ((d + n) + 1)] = b[(d + n) + 1]
      BY <1>3, <3>2
    <3>4. b[(d + n) + 1] = "f7"
      BY <1>a, <3>1, Zenon
    <3> QED BY <1>3, <1>9, <3>1, <3>3, <3>4
  <2> QED BY <1>4, <2>1, <2>2 DEF Spelled
<1>13. P # N => EndOf(a, N) = L /\ N \in P + 1 .. N
  BY <1>0, <1>1, <1>2, <1>6 DEF Placed, Parsing
<1>14. in_last # "f0"
  BY DEF MidiTypes, TwoData, OneData
<1>15. d = 1 => Stream'[L + 1] = ev.cmd
  <2>1. d = 1 => 1 \in 1 .. (d + n) + w
    BY <1>2
  <2> QED BY <1>3, <1>a, <2>1, Zenon
<1>16. ASSUME P # N PROVE Follows(c, N + 1)'
  <2>1. EndOf(c, (N + 1) - 1)' = L /\ accepted'[(N + 1) - 1] = accepted[N]
    <3>1. (N + 1) - 1 = N
      OBVIOUS
    <3>2. EndOf(c, N)' = L /\ accepted'[N] = accepted[N]
      BY <1>8, <1>13, <1>16
    <3> QED BY <3>1, <3>2
  <2>2. CASE d = 1
    BY <1>4, <1>5, <1>15, <2>1, <2>2 DEF Follows
  <2>3. CASE d = 0
    <3>1. in_last = ev.cmd /\ in_last # ""
      <4>1. in_last = ev.cmd
        BY <1>b, <2>3
      <4>2. ev.cmd # ""
        BY EventTypes DEF TwoData, OneData
      <4> QED BY <4>1, <4>2
    <3>2. accepted[N].cmd = ev.cmd /\ ev.cmd # "f0"
      BY <1>0, <1>14, <1>16, <3>1 DEF Sounding, Remembered
    <3>3. c[N + 1] = L
      BY <1>2, <1>5, <2>3
    <3> QED BY <1>4, <2>1, <3>2, <3>3 DEF Follows
  <2> QED BY <2>2, <2>3
<1>17. Parsing(c)'
  <2>1. Sounded' # Len(accepted') /\ Sounded' + 1 = P + 1
    <3>1. \A s, t \in Nat : s <= t => s # t + 1
      OBVIOUS
    <3> QED BY <1>4, <1>6, <3>1, Zenon
  <2>2. EndOf(c, Len(accepted))' = Len(Stream')
    BY <1>4, <1>9
  <2>3. CASE P = N
    <3>1. midi_state = "Normal" /\ L = 0
      BY <1>0, <1>1, <1>2, <2>3 DEF Placed, Parsing
    <3>2. c[Sounded' + 1] = d /\ accepted'[Sounded' + 1] = ev
      <4>1. 0 + d = d
        OBVIOUS
      <4> QED BY <1>4, <1>5, <2>1, <2>3, <3>1, <4>1, Zenon
    <3>3. CASE d = 1
      BY <1>15, <2>1, <2>2, <3>1, <3>2, <3>3 DEF Parsing
    <3>4. CASE d = 0
      <4>1. in_last = ev.cmd /\ ev.cmd # ""
        <5>1. in_last = ev.cmd
          BY <1>b, <3>4
        <5> QED BY <5>1, EventTypes DEF TwoData, OneData
      <4>2. out_last' = ev.cmd /\ ev.cmd # "f0" /\ midi_state' = "Normal"
        BY <1>0, <1>14, <2>3, <3>1, <4>1 DEF Sounding, Remembered
      <4>3. Reading(ev, 0)'
        BY <4>2 DEF Reading
      <4>4. Reading(accepted[Sounded + 1], 0 - c[Sounded + 1])'
        <5>1. 0 - c[Sounded' + 1] = 0
          BY <3>2, <3>4
        <5> HIDE DEF Sounded
        <5> QED BY <3>2, <4>3, <5>1 DEF Reading
      <4> QED BY <2>1, <2>2, <3>2, <3>4, <4>4 DEF Parsing
    <3> QED BY <3>3, <3>4
  <2>4. CASE P # N
    <3>1. P + 1 \in P + 1 .. N
      BY <1>6, <2>4
    <3>2. c[P + 1] = a[P + 1] /\ accepted'[P + 1] = accepted[P + 1] /\ a[P + 1] \in Int
      BY <1>8, <3>1
    <3>3. a[P + 1] <= 1
          /\ (a[P + 1] = 1 => midi_state = "Normal" /\ Stream[1] = accepted[P + 1].cmd)
          /\ (a[P + 1] < 1 => Reading(accepted[P + 1], 0 - a[P + 1]))
      BY <1>0, <1>1, <2>4 DEF Placed, Parsing
    <3>4. ASSUME a[P + 1] = 1 PROVE Stream'[1] = Stream[1]
      <4>1. PICK x \in Int, m \in Nat : x = EndOf(a, P + 1) /\ m = Len(accepted[P + 1].data)
                                        /\ 1 + m <= x /\ x <= L
        BY <1>8, <3>1, <3>4
      <4>2. 1 \in 1 .. L
        BY <1>2, <4>1
      <4> QED BY <1>3, <4>2
    <3>5. ASSUME a[P + 1] < 1 PROVE Reading(accepted[P + 1], 0 - c[P + 1])'
      BY <3>2, <3>3, <3>5 DEF Reading
    <3>6. c[Sounded' + 1] = a[P + 1] /\ accepted'[Sounded' + 1] = accepted[P + 1]
      BY <2>1, <3>2
    <3>7. a[P + 1] < 1 => Reading(accepted[Sounded + 1], 0 - c[Sounded + 1])'
      BY <2>1, <3>2, <3>5 DEF Reading
    <3> HIDE DEF Sounded
    <3> QED BY <2>1, <2>2, <3>3, <3>4, <3>6, <3>7 DEF Parsing
  <2> QED BY <2>3, <2>4
<1>18. Placed(c)'
  <2>1. \A i \in P + 2 .. N + 1 : Follows(c, i)'
    <3>1. \A i \in P + 2 .. N + 1 : i \in P + 2 .. N \/ (i = N + 1 /\ P # N)
      OBVIOUS
    <3> QED BY <1>11, <1>16, <3>1
  <2>2. \A i \in P + 1 .. N + 1 : Spelled(c, i)' /\ EndOf(c, i)' <= Len(Stream')
    <3>1. \A i \in P + 1 .. N + 1 : i \in P + 1 .. N \/ i = N + 1
      OBVIOUS
    <3>2. EndOf(c, N + 1)' <= Len(Stream')
      <4>1. L + ((d + n) + w) \in Nat
        BY <1>2, <1>c
      <4>2. \A s \in Nat : s <= s
        OBVIOUS
      <4> QED BY <1>3, <1>9, <4>1, <4>2, Zenon
    <3> QED BY <1>10, <1>12, <3>1, <3>2
  <2> QED BY <1>4, <1>6, <1>17, <2>1, <2>2 DEF Placed
<1>19. PlayedFirst'
  <2>1. \A i \in 1 .. P : midi_played[i] = accepted[i]
    BY <1>0 DEF Sounding, PlayedFirst
  <2>2. \A i \in 1 .. P : i \in 1 .. N
    BY <1>6
  <2>3. P <= N + 1
    BY <1>6
  <2> QED BY <1>4, <1>6, <2>1, <2>2, <2>3 DEF PlayedFirst
<1>20. Remembered'
  <2>1. Sounded' # Len(accepted')
    <3>1. \A s, t \in Nat : s <= t => s # t + 1
      OBVIOUS
    <3> QED BY <1>4, <1>6, <3>1, Zenon
  <2>2. in_last' # "" => accepted'[Len(accepted')].cmd = in_last'
    BY <1>4
  <2> QED BY <2>1, <2>2 DEF Remembered
<1> QED BY <1>5, <1>18, <1>19, <1>20 DEF Sounding

\* An event that finds no room leaves the queue as it is.
LEMMA Refused ==
    ASSUME MidiTypes, NEW ev \in Events, ~ Enqueue(ev).ok
    PROVE  queue \o Enqueue(ev).bytes = queue /\ Enqueue(ev).last = ""
<1>1. ev.cmd \in TwoData \cup OneData \cup {"f0"}
  BY EventTypes
<1>2. "f0" \notin TwoData \cup OneData
  BY DEF TwoData, OneData
<1> DEFINE none == [bytes |-> << >>, last |-> "", ok |-> FALSE]
<1>3. Enqueue(ev) = none
  <2>1. \A x, y : [bytes |-> x, last |-> y, ok |-> TRUE].ok
    OBVIOUS
  <2>2. CASE ev.cmd \in TwoData \cup OneData
    <3>1. Enqueue(ev) = (IF Len(queue) >= Queue - Len(ev.data) THEN none
                         ELSE [bytes |-> IF Running(ev.cmd) THEN ev.data ELSE <<ev.cmd>> \o ev.data,
                               last |-> ev.cmd, ok |-> TRUE])
      BY <1>2, <2>2 DEF Enqueue
    <3> HIDE DEF none
    <3> QED BY <2>1, <3>1, Zenon
  <2>3. CASE ev.cmd = "f0"
    <3>1. Enqueue(ev) = (IF Len(queue) >= (Queue - 1) - (Len(ev.data) + 2) THEN none
                         ELSE [bytes |-> (<<"f0">> \o ev.data) \o <<"f7">>, last |-> "", ok |-> TRUE])
      BY <1>2, <2>3 DEF Enqueue
    <3> HIDE DEF none
    <3> QED BY <2>1, <3>1, Zenon
  <2> QED BY <1>1, <2>2, <2>3
<1>4. none.bytes = << >> /\ none.last = ""
  OBVIOUS
<1> HIDE DEF none
<1>5. queue \o << >> = queue
  <2>1. queue \in Seq(MidiByte)
    BY DEF MidiTypes
  <2> QED BY <2>1, ConcatEmptySeq
<1> QED BY <1>3, <1>4, <1>5, Zenon

\* The bytes that the guest reads, and those that the receiver gets, stay in order.
LEMMA ByteMoves ==
    ASSUME NEW p \in Seq(MidiByte), NEW q \in Seq(MidiByte), NEW r \in Seq(MidiByte), r # << >>
    PROVE  (p \o Append(q, Head(r))) \o Tail1(r) = (p \o q) \o r
<1>1. Append(q, Head(r)) \in Seq(MidiByte) /\ Tail1(r) \in Seq(MidiByte)
  BY DEF Tail1
<1>2. \A s, t, u \in Seq(MidiByte) : (s \o t) \o u = s \o (t \o u)
  BY BytesAssociative, Zenon
<1>3. Append(q, Head(r)) \o Tail1(r) = q \o r
  BY HeadMoves
<1>4. (p \o Append(q, Head(r))) \o Tail1(r) = p \o (Append(q, Head(r)) \o Tail1(r))
  BY <1>1, <1>2
<1>5. (p \o q) \o r = p \o (q \o r)
  BY <1>2
<1> QED BY <1>3, <1>4, <1>5, Zenon

InLine(p, q, r, t) == ((p \o q) \o r) \o t

LEMMA FirstLeaves ==
    ASSUME NEW p \in Seq(MidiByte), NEW q \in Seq(MidiByte), NEW r \in Seq(MidiByte), NEW t \in Seq(MidiByte), p # << >>
    PROVE  /\ InLine(Tail1(p), q, r, t) = Tail1(InLine(p, q, r, t))
           /\ Len(InLine(p, q, r, t)) > 0 /\ InLine(p, q, r, t)[1] = Head(p)
<1>1. ASSUME NEW u \in Seq(MidiByte), NEW v \in Seq(MidiByte), u # << >>
      PROVE  /\ u \o v \in Seq(MidiByte) /\ u \o v # << >> /\ Tail1(u) \o v = Tail1(u \o v)
             /\ Len(u \o v) > 0 /\ Head(u \o v) = Head(u) /\ (u \o v)[1] = Head(u)
  <2>1. Tail1(u) \o v = Tail1(u \o v)
    BY <1>1, TailFirst
  <2>2. u \o v \in Seq(MidiByte) /\ Len(u \o v) > 0 /\ (u \o v)[1] = u[1]
    BY <1>1
  <2>3. u \o v # << >> /\ Head(u \o v) = (u \o v)[1] /\ Head(u) = u[1]
    BY <2>2
  <2> QED BY <2>1, <2>2, <2>3, Zenon
<1>2. p \o q \in Seq(MidiByte) /\ p \o q # << >> /\ Tail1(p) \o q = Tail1(p \o q) /\ Head(p \o q) = Head(p)
  BY <1>1
<1>3. PICK w \in Seq(MidiByte) : w = p \o q /\ w # << >> /\ Head(w) = Head(p)
  BY <1>2, Zenon
<1>4. w \o r \in Seq(MidiByte) /\ w \o r # << >> /\ Tail1(w) \o r = Tail1(w \o r) /\ Head(w \o r) = Head(w)
  BY <1>1, <1>3
<1>5. PICK z \in Seq(MidiByte) : z = w \o r /\ z # << >> /\ Head(z) = Head(w)
  BY <1>4, Zenon
<1>6. Tail1(z) \o t = Tail1(z \o t) /\ Len(z \o t) > 0 /\ (z \o t)[1] = Head(z)
  BY <1>1, <1>5
<1> QED BY <1>2, <1>3, <1>4, <1>5, <1>6, Zenon DEF InLine

LEMMA AgreesSplit == Agrees <=> MidiTypes /\ GuestInRoom /\ Sounding
BY DEF Agrees, Sounding

LEMMA EventAgrees ==
    ASSUME Agrees, NEW ev \in Events, handle_midi_event(ev) PROVE Agrees'
<1>1. MidiTypes /\ GuestInRoom /\ Sounding
  BY AgreesSplit
<1>2. /\ queue' = queue \o Enqueue(ev).bytes /\ in_last' = Enqueue(ev).last
      /\ accepted' = IF Enqueue(ev).ok THEN Append(accepted, ev) ELSE accepted
      /\ UNCHANGED <<ififo, ofifo, pc, held, room, midi_state, out_last, out_data, midi_played>>
  BY Zenon DEF handle_midi_event, guestVars, synthVars
<1>3. GuestInRoom'
  BY <1>1, <1>2 DEF GuestInRoom
<1>4. CASE Enqueue(ev).ok
  <2>1. PICK d \in {0, 1}, w \in {0, 1} :
           Spells(ev, Enqueue(ev).bytes, d, w) /\ Enqueue(ev).last = IF w = 1 THEN "" ELSE ev.cmd
    BY <1>1, <1>4, Encoded
  <2>2. Enqueue(ev).bytes \in Seq(MidiByte)
    BY <2>1 DEF Spells
  <2>3. Queues(Enqueue(ev).bytes) /\ Accepts(ev, w)
    BY <1>2, <1>4, <2>1, Zenon DEF Queues, Accepts
  <2>4. Grows(Enqueue(ev).bytes)
    BY <1>1, <2>2, <2>3, StreamGrows
  <2>5. Sounding'
    BY <1>1, <1>2, <2>1, <2>3, <2>4, EventHeard
  <2>6. queue' \in Seq(MidiByte)
    <3>1. queue \in Seq(MidiByte)
      BY <1>1 DEF MidiTypes
    <3>2. queue \o Enqueue(ev).bytes \in Seq(MidiByte)
      BY <2>2, <3>1, ConcatProperties
    <3> QED BY <1>2, <3>2, Zenon
  <2>7. accepted' \in Seq(Events)
    <3>0. accepted \in Seq(Events)
      BY <1>1 DEF MidiTypes
    <3>1. Append(accepted, ev) \in Seq(Events)
      BY <3>0
    <3> QED BY <1>2, <1>4, <3>1, Zenon
  <2>8. in_last' \in {""} \cup TwoData \cup OneData
    <3>1. w = IF ev.cmd = "f0" THEN 1 ELSE 0
      BY <2>1 DEF Spells
    <3>2. ev.cmd \in TwoData \cup OneData \cup {"f0"}
      BY EventTypes
    <3>3. in_last' = IF w = 1 THEN "" ELSE ev.cmd
      BY <1>2, <2>1, Zenon
    <3> QED BY <3>1, <3>2, <3>3
  <2>9. MidiTypes'
    BY <1>1, <1>2, <2>6, <2>7, <2>8 DEF MidiTypes
  <2> QED BY <1>3, <2>5, <2>9, AgreesSplit, PTL
<1>5. CASE ~ Enqueue(ev).ok
  <2>1. queue \o Enqueue(ev).bytes = queue /\ Enqueue(ev).last = ""
    BY <1>1, <1>5, Refused
  <2>2. queue' = queue /\ in_last' = "" /\ accepted' = accepted
    BY <1>2, <1>5, <2>1, Zenon
  <2>3. Stream' = Stream
    BY <1>2, <2>2 DEF Stream
  <2>4. Sounding'
    BY <1>1, <1>2, <2>2, <2>3, SoundingKept
  <2>5. MidiTypes'
    BY <1>1, <1>2, <2>2 DEF MidiTypes
  <2> QED BY <1>3, <2>4, <2>5, AgreesSplit, PTL
<1> QED BY <1>4, <1>5

\* What the receiver takes in it takes from the queue.
LEMMA ReceiveKeeps ==
    ASSUME MidiTypes, Receive, ~ overrun'
    PROVE  /\ queue' \in Seq(MidiByte) /\ ififo' \in Seq(MidiByte)
           /\ ififo # << >> => ififo' # << >>
           /\ \A x \in Seq(MidiByte) : (x \o ififo') \o queue' = (x \o ififo) \o queue
<1>1. queue \in Seq(MidiByte) /\ ififo \in Seq(MidiByte)
  BY DEF MidiTypes
<1>2. \/ queue' = queue /\ ififo' = ififo
      \/ queue # << >> /\ queue' = Tail1(queue) /\ ififo' = Append(ififo, Head(queue))
  BY Zenon DEF Receive
<1>3. CASE queue' = queue /\ ififo' = ififo
  BY <1>1, <1>3, Zenon
<1>4. CASE queue # << >> /\ queue' = Tail1(queue) /\ ififo' = Append(ififo, Head(queue))
  <2>1. Tail1(queue) \in Seq(MidiByte)
    BY <1>1 DEF Tail1
  <2>2. Append(ififo, Head(queue)) \in Seq(MidiByte) /\ Append(ififo, Head(queue)) # << >>
    <3>1. Head(queue) \in MidiByte
      BY <1>1, <1>4
    <3>2. \A s \in Seq(MidiByte), b \in MidiByte :
             Append(s, b) \in Seq(MidiByte) /\ Len(Append(s, b)) = Len(s) + 1
      OBVIOUS
    <3>3. \A s \in Seq(MidiByte) : Len(s) + 1 # 0
      OBVIOUS
    <3>4. Len(<< >>) = 0
      OBVIOUS
    <3> QED BY <1>1, <3>1, <3>2, <3>3, <3>4, Zenon
  <2>3. \A x \in Seq(MidiByte) :
           (x \o Append(ififo, Head(queue))) \o Tail1(queue) = (x \o ififo) \o queue
    <3>1. queue # << >>
      BY <1>4
    <3>2. ASSUME NEW x \in Seq(MidiByte)
          PROVE  (x \o Append(ififo, Head(queue))) \o Tail1(queue) = (x \o ififo) \o queue
      BY <1>1, <3>1, ByteMoves, Zenon
    <3> QED BY <3>2
  <2> QED BY <1>4, <2>1, <2>2, <2>3, Zenon
<1> QED BY <1>2, <1>3, <1>4

\* A bit's time: a byte may leave at either end of the stream.
LEMMA StepAgrees ==
    ASSUME Agrees, midi_serial_step, ~ overrun' PROVE Agrees'
<1>1. MidiTypes /\ GuestInRoom /\ Sounding
  BY AgreesSplit
<1>2. /\ queue' \in Seq(MidiByte) /\ ififo' \in Seq(MidiByte)
      /\ ififo # << >> => ififo' # << >>
      /\ \A x \in Seq(MidiByte) : (x \o ififo') \o queue' = (x \o ififo) \o queue
  BY <1>1, ReceiveKeeps DEF midi_serial_step
<1>3. UNCHANGED <<in_last, accepted, pc, held, room>>
  BY Zenon DEF midi_serial_step, guestVars
<1>4. /\ queue \in Seq(MidiByte) /\ ififo \in Seq(MidiByte)
      /\ held \in Seq(MidiByte) /\ ofifo \in Seq(MidiByte)
  BY <1>1 DEF MidiTypes
<1>5. \/ ofifo' = ofifo /\ UNCHANGED synthVars
      \/ ofifo # << >> /\ ofifo' = Tail1(ofifo) /\ midi_byte_out(Head(ofifo))
  BY Zenon DEF midi_serial_step, Transmit
<1>6. ofifo' \in Seq(MidiByte) /\ Len(ofifo') <= Len(ofifo)
  <2>1. CASE ofifo' = ofifo
    BY <1>4, <2>1
  <2>2. CASE ofifo # << >> /\ ofifo' = Tail1(ofifo)
    <3>1. Tail1(ofifo) \in Seq(MidiByte) /\ Len(Tail1(ofifo)) <= Len(ofifo)
      BY <1>4, <2>2 DEF Tail1
    <3> QED BY <2>2, <3>1, Zenon
  <2> QED BY <1>5, <2>1, <2>2
<1>7. Stream' = ((ofifo' \o held) \o ififo) \o queue
  <2>1. ofifo' \o held \in Seq(MidiByte)
    BY <1>4, <1>6, ConcatProperties
  <2> QED BY <1>2, <1>3, <2>1, Zenon DEF Stream
<1>8. Sounding' /\ midi_played' \in Seq(Events)
  <2>1. CASE ofifo' = ofifo /\ UNCHANGED synthVars
    <3>1. Stream' = Stream
      BY <1>7, <2>1, Zenon DEF Stream
    <3>2. midi_played' \in Seq(Events)
      BY <1>1, <2>1 DEF MidiTypes, synthVars
    <3> QED BY <1>1, <1>3, <2>1, <3>1, <3>2, SoundingKept DEF synthVars
  <2>2. CASE ofifo # << >> /\ ofifo' = Tail1(ofifo) /\ midi_byte_out(Head(ofifo))
    <3>1. /\ InLine(Tail1(ofifo), held, ififo, queue) = Tail1(InLine(ofifo, held, ififo, queue))
          /\ Len(InLine(ofifo, held, ififo, queue)) > 0
          /\ InLine(ofifo, held, ififo, queue)[1] = Head(ofifo)
      <4>1. ofifo # << >>
        BY <2>2
      <4> QED BY <1>4, <4>1, FirstLeaves
    <3>2. Stream' = Tail1(Stream) /\ Len(Stream) > 0 /\ Stream[1] = Head(ofifo)
      BY <1>7, <2>2, <3>1, Zenon DEF Stream, InLine
    <3>3. midi_byte_out(Stream[1])
      BY <2>2, <3>2, Zenon
    <3> QED BY <1>1, <1>3, <3>2, <3>3, ByteHeard
  <2> QED BY <1>5, <2>1, <2>2
<1>9. MidiTypes'
  BY <1>1, <1>2, <1>3, <1>6, <1>8 DEF MidiTypes
<1>10. GuestInRoom'
  <2>1. pc' = "read" => ififo' # << >>
    BY <1>1, <1>2, <1>3 DEF GuestInRoom
  <2>2. ASSUME pc' = "write" PROVE room' \in Nat \ {0} /\ Len(ofifo') + room' <= Fifo /\ held' # << >>
    <3>1. room \in Nat \ {0} /\ Len(ofifo) + room <= Fifo /\ held # << >>
      BY <1>1, <1>3, <2>2 DEF GuestInRoom
    <3>2. PICK m \in Nat, n \in Nat : m = Len(ofifo) /\ n = Len(ofifo') /\ n <= m
      BY <1>4, <1>6
    <3>3. n + room <= Fifo
      BY <3>1, <3>2, MidiAssumption
    <3> QED BY <1>3, <3>1, <3>2, <3>3
  <2> QED BY <2>1, <2>2 DEF GuestInRoom
<1> QED BY <1>8, <1>9, <1>10, AgreesSplit, PTL

\* The guest's handler: what it holds and what room it has.
LEMMA HandlerAgrees ==
    ASSUME Agrees, Handler PROVE Agrees'
<1>1. MidiTypes /\ GuestInRoom /\ Sounding
  BY AgreesSplit
<1>2. UNCHANGED <<queue, in_last, accepted, midi_state, out_last, out_data, midi_played>>
  BY Zenon DEF Handler, ReadIir, ReadLsr, ReadRbr, WriteThr, inVars, synthVars
<1>3. /\ queue \in Seq(MidiByte) /\ ififo \in Seq(MidiByte)
      /\ held \in Seq(MidiByte) /\ ofifo \in Seq(MidiByte)
  BY <1>1 DEF MidiTypes
<1>4. ASSUME Stream' = Stream, ififo' \in Seq(MidiByte), held' \in Seq(MidiByte),
             ofifo' \in Seq(MidiByte), GuestInRoom'
      PROVE  Agrees'
  <2>1. Sounding'
    BY <1>1, <1>2, <1>4, SoundingKept
  <2>2. MidiTypes'
    BY <1>1, <1>2, <1>4 DEF MidiTypes
  <2> QED BY <1>4, <2>1, <2>2, AgreesSplit, PTL
<1>5. CASE ReadIir
  <2>1. UNCHANGED <<ififo, held, ofifo>> /\ pc' = "lsr"
    BY <1>5, Zenon DEF ReadIir
  <2>2. Stream' = Stream
    BY <1>2, <2>1, Zenon DEF Stream
  <2> QED BY <1>3, <1>4, <2>1, <2>2 DEF GuestInRoom
<1>6. CASE ReadLsr
  <2>1. /\ UNCHANGED <<ififo, held, ofifo>> /\ room' = Fifo
        /\ pc' = IF ififo # << >> THEN "read"
                 ELSE IF ofifo = << >> /\ held # << >> THEN "write" ELSE "idle"
    BY <1>6, Zenon DEF ReadLsr
  <2>2. Stream' = Stream
    BY <1>2, <2>1, Zenon DEF Stream
  <2>3. GuestInRoom'
    <3>1. pc' = "read" => ififo' # << >>
      BY <2>1
    <3>2. ASSUME pc' = "write" PROVE ofifo' = << >> /\ held' # << >>
      BY <2>1, <3>2
    <3>3. room' \in Nat \ {0} /\ Len(<< >>) + room' <= Fifo
      BY <2>1, MidiAssumption
    <3> QED BY <3>1, <3>2, <3>3 DEF GuestInRoom
  <2> QED BY <1>3, <1>4, <2>1, <2>2, <2>3
<1>7. CASE ReadRbr
  <2>1. /\ held' = Append(held, Head(ififo)) /\ ififo' = Tail1(ififo)
        /\ ofifo' = ofifo /\ pc' = "lsr" /\ pc = "read"
    BY <1>7, Zenon DEF ReadRbr
  <2>2. ififo # << >>
    BY <1>1, <2>1 DEF GuestInRoom
  <2>3. Append(held, Head(ififo)) \in Seq(MidiByte) /\ Tail1(ififo) \in Seq(MidiByte)
    <3>1. Head(ififo) \in MidiByte
      BY <1>3, <2>2
    <3> QED BY <1>3, <3>1 DEF Tail1
  <2>4. (ofifo \o Append(held, Head(ififo))) \o Tail1(ififo) = (ofifo \o held) \o ififo
    BY <1>3, <2>2, ByteMoves, Zenon
  <2>5. Stream' = Stream
    BY <1>2, <2>1, <2>4, Zenon DEF Stream
  <2>6. GuestInRoom'
    BY <2>1 DEF GuestInRoom
  <2>7. ififo' \in Seq(MidiByte) /\ held' \in Seq(MidiByte) /\ ofifo' \in Seq(MidiByte)
    BY <1>3, <2>1, <2>3, Zenon
  <2> QED BY <1>4, <2>5, <2>6, <2>7
<1>8. CASE WriteThr
  <2>1. room \in Nat \ {0} /\ Len(ofifo) + room <= Fifo /\ held # << >>
    BY <1>1, <1>8 DEF GuestInRoom, WriteThr
  <2>2. PICK m \in Nat : m = Len(ofifo)
    BY <1>3
  <2>3. m < Fifo /\ Fifo \in Nat /\ m + room <= Fifo
    BY <2>1, <2>2, MidiAssumption
  <2>4. /\ held' = Tail1(held) /\ room' = room - 1 /\ ififo' = ififo
        /\ pc' = IF room' > 0 /\ held' # << >> THEN "write" ELSE "idle"
        /\ ofifo' = Append(ofifo, Head(held))
    BY <1>8, <2>2, <2>3, Zenon DEF WriteThr
  <2>5. Append(ofifo, Head(held)) \in Seq(MidiByte) /\ Tail1(held) \in Seq(MidiByte)
        /\ Len(Append(ofifo, Head(held))) = Len(ofifo) + 1
    <3>1. Head(held) \in MidiByte
      BY <1>3, <2>1
    <3> QED BY <1>3, <3>1 DEF Tail1
  <2>6. Append(ofifo, Head(held)) \o Tail1(held) = ofifo \o held
    BY <1>3, <2>1, HeadMoves
  <2>7. Stream' = Stream
    BY <1>2, <2>4, <2>6, Zenon DEF Stream
  <2>8. GuestInRoom'
    <3>1. Len(ofifo') = m + 1
      BY <2>2, <2>4, <2>5, Zenon
    <3>2. pc' = "write" => room' > 0 /\ held' # << >>
      BY <2>4
    <3>3. room' > 0 => room' \in Nat \ {0} /\ (m + 1) + room' <= Fifo
      BY <2>1, <2>3, <2>4
    <3>4. pc' # "read"
      BY <2>4
    <3> QED BY <3>1, <3>2, <3>3, <3>4 DEF GuestInRoom
  <2>9. ififo' \in Seq(MidiByte) /\ held' \in Seq(MidiByte) /\ ofifo' \in Seq(MidiByte)
    BY <1>3, <2>4, <2>5, Zenon
  <2> QED BY <1>4, <2>7, <2>8, <2>9
<1> QED BY <1>5, <1>6, <1>7, <1>8 DEF Handler

LEMMA MidiStarts == MidiInit => MidiInv
<1> SUFFICES ASSUME MidiInit PROVE MidiInv
  OBVIOUS
<1>1. /\ queue = << >> /\ in_last = "" /\ ififo = << >> /\ ofifo = << >> /\ held = << >>
      /\ accepted = << >> /\ midi_played = << >> /\ midi_state = "Normal" /\ pc = "idle"
  BY Zenon DEF MidiInit
<1>2. \A S : << >> \in Seq(S)
  OBVIOUS
<1>3. MidiTypes
  BY <1>1, <1>2, Zenon DEF MidiTypes
<1>4. GuestInRoom
  BY <1>1 DEF GuestInRoom
<1>5. Len(Stream) = 0
  <2>1. << >> \in Seq(MidiByte) /\ << >> \o << >> = << >>
    BY <1>2, ConcatEmptySeq
  <2>2. Stream = << >>
    BY <1>1, <2>1, Zenon DEF Stream
  <2> QED BY <2>2
<1>6. Len(accepted) = 0 /\ Sounded = 0
  BY <1>1 DEF Sounded
<1> HIDE DEF Stream
<1>7. PlayedFirst /\ Remembered
  <2>1. \A i \in 1 .. 0 : FALSE
    OBVIOUS
  <2>2. PlayedFirst
    BY <1>6, <2>1 DEF PlayedFirst
  <2>3. in_last = ""
    BY <1>1
  <2> QED BY <2>2, <2>3 DEF Remembered
<1>8. [i \in Nat |-> 0] \in [Nat -> Int]
  OBVIOUS
<1>9. Placed([i \in Nat |-> 0])
  <2>1. \A i \in 0 + 2 .. 0 : FALSE
    OBVIOUS
  <2>2. \A i \in 0 + 1 .. 0 : FALSE
    OBVIOUS
  <2>3. Parsing([i \in Nat |-> 0])
    BY <1>1, <1>5, <1>6 DEF Parsing
  <2> QED BY <1>6, <2>1, <2>2, <2>3, Zenon DEF Placed
<1> QED BY <1>3, <1>4, <1>7, <1>8, <1>9 DEF MidiInv, Agrees

LEMMA MidiKeeps == MidiInv /\ [MidiNext]_midiVars => MidiInv'
<1> SUFFICES ASSUME MidiInv, [MidiNext]_midiVars, ~ overrun' PROVE Agrees'
  BY DEF MidiInv
<1>1. ASSUME NEW ev \in Events, handle_midi_event(ev) PROVE Agrees'
  <2>1. ~ overrun
    BY <1>1 DEF handle_midi_event
  <2> QED BY <1>1, <2>1, EventAgrees DEF MidiInv
<1>2. CASE midi_serial_step
  <2>1. ~ overrun
    BY <1>2, Zenon DEF midi_serial_step, Receive
  <2> QED BY <1>2, <2>1, StepAgrees DEF MidiInv
<1>3. CASE Handler
  <2>1. ~ overrun
    BY <1>3, Zenon DEF Handler, ReadIir, ReadLsr, ReadRbr, WriteThr
  <2> QED BY <1>3, <2>1, HandlerAgrees DEF MidiInv
<1>4. CASE UNCHANGED midiVars
  <2>1. UNCHANGED <<queue, in_last, ififo, ofifo, pc, held, room, accepted, midi_played>>
    BY <1>4 DEF midiVars
  <2>2. UNCHANGED <<midi_state, out_last, out_data, overrun>>
    BY <1>4 DEF midiVars
  <2>3. MidiTypes /\ GuestInRoom /\ Sounding
    BY <2>2, AgreesSplit DEF MidiInv
  <2>4. Stream' = Stream
    BY <2>1, Zenon DEF Stream
  <2>5. Sounding'
    BY <2>1, <2>2, <2>3, <2>4, SoundingKept
  <2>6. MidiTypes' /\ GuestInRoom'
    BY <2>1, <2>3 DEF MidiTypes, GuestInRoom
  <2> QED BY <2>5, <2>6, AgreesSplit, PTL
<1> QED BY <1>1, <1>2, <1>3, <1>4 DEF MidiNext

\* What the host's keys send comes out of the synthesizer event by event, in
\* order, for every set of events and size of FIFOs and queue, as long as the
\* receiver loses no byte.
THEOREM MidiCorrect == MidiSpec => []PlaysWhatIsPressed
<1>1. MidiInv => PlaysWhatIsPressed
  <2> SUFFICES ASSUME MidiInv, ~ overrun
               PROVE  Len(midi_played) <= Len(accepted)
                      /\ midi_played = SubSeq(accepted, 1, Len(midi_played))
    BY DEF PlaysWhatIsPressed
  <2>1. MidiTypes /\ PlayedFirst
    BY DEF MidiInv, Agrees
  <2>2. accepted \in Seq(Events) /\ midi_played \in Seq(Events)
    BY <2>1 DEF MidiTypes
  <2>3. PICK p \in Nat : p = Len(midi_played) /\ p <= Len(accepted)
        /\ \A i \in 1 .. p : midi_played[i] = accepted[i]
    BY <2>1, <2>2 DEF PlayedFirst, Sounded
  <2>4. SubSeq(accepted, 1, p) \in Seq(Events) /\ Len(SubSeq(accepted, 1, p)) = p
        /\ \A i \in 1 .. p : SubSeq(accepted, 1, p)[i] = accepted[i]
    BY <2>2, <2>3
  <2>5. midi_played = SubSeq(accepted, 1, p)
    BY <2>2, <2>3, <2>4, SeqEqual
  <2> QED BY <2>3, <2>5, Zenon
<1> QED BY <1>1, MidiStarts, MidiKeeps, PTL DEF MidiSpec
=============================================================================
