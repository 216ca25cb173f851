------------------------------- MODULE PcmFifo -------------------------------
(***************************************************************************)
(* VERA's PCM channel (vera_pcm.c): the ring of Size bytes between a guest *)
(* that writes samples byte by byte and the renderer that takes a frame at *)
(* each output sample, with its four formats, the loop and restart bits,   *)
(* and resets at any moment.                                               *)
(*                                                                         *)
(* The renderer's phase accumulator only says when the next frame is due;  *)
(* here a frame may fall due at any moment.  A byte is named by the stream *)
(* it belongs to (a stream ends when the ring is cleared) and its place in *)
(* it.  MaxWritten bounds a stream.                                        *)
(***************************************************************************)
EXTENDS Integers, Sequences

CONSTANTS PcmSize,     \* slots of the ring, 4096 in the code
          MaxWritten,  \* bound on the bytes of a stream
          FrameSizes   \* frame sizes, {1, 2, 4} in the code

PcmAssumption ==
    /\ PcmSize \in Nat \ {0, 1}
    /\ MaxWritten \in Nat \ {0}
    /\ 1 \in FrameSizes
    /\ \A f \in FrameSizes : f \in 1..(PcmSize - 1) /\ PcmSize % f = 0

VARIABLES fifo, fifo_wridx, fifo_rdidx, fifo_cnt,
          frame,     \* bytes of a frame, from ctrl bits 5 and 4
          loop,
          playing,   \* the bytes cur_l and cur_r were made of
          stream,    \* which of two successive streams is being written
          pcm_written, \* bytes of it the ring has accepted
          taken,     \* and how many of them have left it
          torn,      \* a byte was refused, or thrown away with half a frame, or
                     \* the format was changed inside the stream
          current    \* playing came from this stream

ringVars == <<fifo, fifo_wridx, fifo_rdidx, fifo_cnt>>
pcmGhosts == <<stream, pcm_written, taken, torn, current>>
pcmVars == <<ringVars, frame, loop, playing, pcmGhosts>>

Streams == {0, 1}
PcmByte == [of : Streams, n : 1..MaxWritten]
NoByte == [of |-> 0, n |-> 1]     \* what a slot holds before its first use
After(i) == (i + 1) % PcmSize

-----------------------------------------------------------------------------
NewStream ==
    /\ stream' = 1 - stream
    /\ pcm_written' = 0
    /\ taken' = 0
    /\ torn' = FALSE
    /\ current' = FALSE

fifo_reset ==
    /\ fifo_wridx' = 0
    /\ fifo_rdidx' = 0
    /\ fifo_cnt' = 0
    /\ UNCHANGED fifo

\* Mutation: the count is left to the old data.
Restarted_count == fifo_cnt

Restarted == fifo_wridx

fifo_restart ==
    /\ fifo_rdidx' = 0
    /\ fifo_cnt' = Restarted
    /\ UNCHANGED <<fifo, fifo_wridx>>

(* video.c: video_reset; the loop flag is kept *)
pcm_reset ==
    /\ fifo_reset
    /\ NewStream
    /\ frame' = 1
    /\ playing' = <<>>
    /\ UNCHANGED loop

(* pcm_write_ctrl, by its bits 7 and 6; every write sets the format.          *)
CtrlPlain(f) ==
    /\ loop' = FALSE
    /\ frame' = f
    /\ torn' = (torn \/ (f # frame /\ pcm_written > 0))
    /\ UNCHANGED <<ringVars, playing, stream, pcm_written, taken, current>>

CtrlReset(f) ==
    /\ fifo_reset
    /\ NewStream
    /\ loop' = FALSE
    /\ frame' = f
    /\ UNCHANGED playing

CtrlRestart(looping, f) ==
    /\ fifo_restart
    /\ loop' = looping
    /\ frame' = f
    /\ taken' = pcm_written - fifo_wridx
    /\ UNCHANGED <<playing, stream, pcm_written, torn, current>>

Room == fifo_cnt < PcmSize - 1

pcm_write_fifo ==
    IF Room
    THEN /\ pcm_written < MaxWritten
         /\ fifo' = [fifo EXCEPT ![fifo_wridx] = [of |-> stream, n |-> pcm_written + 1]]
         /\ fifo_wridx' = After(fifo_wridx)
         /\ fifo_cnt' = fifo_cnt + 1
         /\ pcm_written' = pcm_written + 1
         /\ UNCHANGED <<fifo_rdidx, frame, loop, playing, stream, taken, torn, current>>
    ELSE /\ torn' = TRUE
         /\ UNCHANGED <<ringVars, frame, loop, playing, stream, pcm_written, taken, current>>

-----------------------------------------------------------------------------
(* pcm_render when the phase asks for the next frame.  left says how many     *)
(* bytes stay in the ring; when none do, a looping channel starts over.       *)

StartsOver(left) == loop /\ left = 0

Leaves(left, rdidx) ==
    /\ fifo_rdidx' = IF StartsOver(left) THEN 0 ELSE rdidx
    /\ fifo_cnt' = IF StartsOver(left) THEN fifo_wridx ELSE left
    /\ taken' = IF StartsOver(left) THEN pcm_written - fifo_wridx ELSE pcm_written - left
    /\ UNCHANGED <<fifo, fifo_wridx>>

RenderSilence ==
    /\ fifo_cnt = 0
    /\ playing' = <<>>
    /\ UNCHANGED <<ringVars, frame, loop, pcmGhosts>>

RenderPartial ==
    /\ 0 < fifo_cnt /\ fifo_cnt < frame
    /\ Leaves(0, fifo_wridx)
    /\ torn' = TRUE
    /\ UNCHANGED <<frame, loop, playing, stream, pcm_written, current>>

\* Mutation: one byte is read twice.
FrameAt_twice(rdidx) == [i \in 1..frame |-> fifo[(rdidx + (i \div 2)) % PcmSize]]

FrameAt(rdidx) == [i \in 1..frame |-> fifo[(rdidx + i - 1) % PcmSize]]

RenderFrame ==
    /\ fifo_cnt >= frame
    /\ playing' = FrameAt(fifo_rdidx)
    /\ Leaves(fifo_cnt - frame, (fifo_rdidx + frame) % PcmSize)
    /\ current' = TRUE
    /\ UNCHANGED <<frame, loop, stream, pcm_written, torn>>

PcmInit ==
    /\ fifo = [i \in 0..(PcmSize - 1) |-> NoByte]
    /\ fifo_wridx = 0
    /\ fifo_rdidx = 0
    /\ fifo_cnt = 0
    /\ frame = 1
    /\ loop = FALSE
    /\ playing = <<>>
    /\ stream = 0
    /\ pcm_written = 0
    /\ taken = 0
    /\ torn = FALSE
    /\ current = FALSE

PcmNext ==
    \/ pcm_reset
    \/ \E f \in FrameSizes : CtrlPlain(f) \/ CtrlReset(f)
    \/ \E looping \in BOOLEAN, f \in FrameSizes : CtrlRestart(looping, f)
    \/ pcm_write_fifo
    \/ RenderSilence
    \/ RenderPartial
    \/ RenderFrame

PcmSpec == PcmInit /\ [][PcmNext]_pcmVars

-----------------------------------------------------------------------------
PcmTypes ==
    /\ fifo \in [0..(PcmSize - 1) -> PcmByte]
    /\ fifo_wridx \in 0..(PcmSize - 1)
    /\ fifo_rdidx \in 0..(PcmSize - 1)
    /\ fifo_cnt \in 0..(PcmSize - 1)
    /\ frame \in FrameSizes
    /\ loop \in BOOLEAN
    /\ Len(playing) \in {0} \cup FrameSizes
    /\ stream \in Streams
    /\ pcm_written \in 0..MaxWritten
    /\ taken \in 0..pcm_written
    /\ torn \in BOOLEAN
    /\ current \in BOOLEAN

\* The ring holds exactly the bytes of the stream that have not been taken, in
\* the order they were written, through wrap-arounds, restarts and loops.
RingHolds ==
    /\ fifo_cnt = pcm_written - taken
    /\ \A i \in 0..(fifo_cnt - 1) :
           fifo[(fifo_rdidx + i) % PcmSize] = [of |-> stream, n |-> taken + i + 1]

\* A looping channel whose sample fits in the ring never runs dry: the moment
\* its last byte is taken the whole sample is there again.
LoopNeverDry ==
    loop /\ pcm_written \in 1..(PcmSize - 1) => fifo_cnt > 0

\* The two indices and the count, which fifo_restart, pcm_write_fifo, read_fifo
\* and pcm_render update apart, always say which bytes are still to be played,
\* and a loop goes on.
HoldsTheRest == PcmTypes /\ RingHolds /\ LoopNeverDry

\* What is played is bytes in the order the guest wrote them; and, unless one was
\* refused, half a frame was found when a frame fell due, or the format changed
\* under the samples, they begin where a frame does (no swapped channels, no
\* swapped halves of a sample).
PlaysWholeFrames ==
    current =>
        \A i \in 1..Len(playing) :
            /\ playing[i] = [of |-> stream, n |-> playing[1].n + i - 1]
            /\ ~torn => (playing[1].n - 1) % Len(playing) = 0
=============================================================================
