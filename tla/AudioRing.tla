----------------------------- MODULE AudioRing -----------------------------
(***************************************************************************)
(* The ring of mixed samples between the emulator's thread, which renders  *)
(* (audio_render), and SDL's audio thread, which plays (audio_callback).   *)
(*                                                                         *)
(* SDL holds the device's lock around the callback and audio_render takes  *)
(* it around the part modelled here, so each is one step.  Indices count   *)
(* stereo frames; the code counts two int16_t for each.  A frame is its    *)
(* number in the order of rendering, which is what the order properties    *)
(* compare; how it is mixed is left out.                                   *)
(***************************************************************************)
EXTENDS Integers, Sequences

CONSTANTS
    Frames,     \* SAMPLES_PER_BUFFER, what the callback asks for at a time
    Bufs,       \* num_bufs, at least 3 (audio_init)
    MaxLen,     \* most frames one audio_render produces
    MaxFrame    \* bound: frames rendered in all

ASSUME AudioAssumption ==
    /\ Frames \in Nat \ {0}
    /\ Bufs \in Nat /\ Bufs >= 3
    /\ MaxLen \in Nat /\ MaxLen <= Frames * Bufs
    /\ MaxFrame \in Nat

Size == Frames * Bufs

VARIABLES
    buffer,     \* the frame in each slot, 0 before the first
    rdidx, wridx,
    written,    \* buffer_written
    rendered,   \* number of the frame rendered last
    played,     \* history: what the last callback played, without its silence
    last        \* history: the newest frame played before that

vars == <<buffer, rdidx, wridx, written, rendered, played, last>>

Lesser(a, b) == IF a < b THEN a ELSE b

-----------------------------------------------------------------------------
\* How many frames the callback copies up to the end of the buffer, and how
\* many it goes on to copy from its (new) read index up to the write index.
ToEnd == IF rdidx > wridx THEN Lesser(Frames, Size - rdidx) ELSE 0

\* Mutation: the second copy is not limited to what was rendered.
ToWrite_all == Frames - ToEnd

ToWrite == IF rdidx > wridx /\ ToEnd < Size - rdidx THEN 0
           ELSE Lesser(Frames - ToEnd, wridx - ((rdidx + ToEnd) % Size))

Advance(i, n) == (i + n) % Size

audio_callback ==
    /\ LET n == ToEnd + ToWrite
       IN  /\ played' = [i \in 1 .. n |-> buffer[(rdidx + i - 1) % Size]]
           /\ last' = IF played = <<>> THEN last ELSE played[Len(played)]
           /\ rdidx' = Advance(rdidx, n)
           /\ written' = written - n
    /\ UNCHANGED <<buffer, wridx, rendered>>

\* The frames by which the read index is moved ahead when the ring overflows.
Skipped(w) == IF w > Size THEN (w \div Size) * Frames ELSE 0

\* How many frames a render writes before it comes to slot i.
Ahead(i) == (i - wridx) % Size

\* audio_render's locked part: len frames go into the ring, wherever the reader
\* is, and the reader is moved ahead if it was overrun.
audio_render(len) ==
    /\ rendered + len <= MaxFrame
    /\ buffer' = [i \in 0 .. Size - 1 |->
                     IF Ahead(i) < len THEN rendered + Ahead(i) + 1 ELSE buffer[i]]
    /\ wridx' = Advance(wridx, len)
    /\ rendered' = rendered + len
    /\ rdidx' = Advance(rdidx, Skipped(written + len))
    /\ written' = written + len - Skipped(written + len)
    /\ UNCHANGED <<played, last>>

-----------------------------------------------------------------------------
Init ==
    /\ buffer = [i \in 0 .. Size - 1 |-> 0]
    /\ rdidx = 0 /\ wridx = 0
    /\ written = 0
    /\ rendered = 0
    /\ played = <<>>
    /\ last = 0

Next ==
    \/ audio_callback
    \/ \E len \in 0 .. MaxLen : audio_render(len)

Spec == Init /\ [][Next]_vars

-----------------------------------------------------------------------------
\* Types; the indices stay inside the buffer (audio.c).
TypeOK ==
    /\ buffer \in [0 .. Size - 1 -> 0 .. MaxFrame]
    /\ rdidx \in 0 .. Size - 1
    /\ wridx \in 0 .. Size - 1
    /\ written \in Nat
    /\ rendered \in 0 .. MaxFrame
    /\ played \in Seq(0 .. MaxFrame)
    /\ last \in 0 .. MaxFrame

\* buffer_written and the two indices, which the two threads update in
\* different steps, always describe the same amount of sound (modulo the ring:
\* an empty and a full ring have equal indices).
WrittenMatchesIndices == written % Size = (wridx - rdidx) % Size

\* The ring never claims more than it has room for: what the skip in
\* audio_render is for ("Prevent the buffer from overflowing by skipping the
\* read pointer ahead").
NoOverflow == written <= Size

\* What waits to be played is what was rendered last: the slots from the read
\* index on hold the last `written' frames in order.
PendingIsLatest ==
    \A k \in 0 .. written - 1 : buffer[(rdidx + k) % Size] = rendered - written + k + 1

\* A callback plays consecutive frames, all newer than any it played before, and
\* never a slot nothing was rendered into.
PlayedInOrder ==
    /\ \A i \in 1 .. Len(played) - 1 : played[i + 1] = played[i] + 1
    /\ played # <<>> => played[1] > last

\* The sound comes out in the order it was rendered, and what is still to come is
\* what was rendered last.  A skip may lose frames but may not turn back, nor leave
\* old frames among the new (audio_callback, audio_render).
PlaysInOrder == TypeOK /\ PendingIsLatest /\ PlayedInOrder
=============================================================================
