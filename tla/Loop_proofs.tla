----------------------------- MODULE Loop_proofs -----------------------------
(***************************************************************************)
(* The emulator's loop: what its exits leave behind, the NVRAM's file and  *)
(* the last picture, for frames of any length and any pace of warp mode.   *)
(***************************************************************************)
EXTENDS MainLoop, NatLemmas

\* The ways out that follow the end of a frame.
FrameWays == {"window", "keys", "guest"}

\* The file is the NVRAM of the last frame's end, and the NVRAM of this moment
\* while nothing was written since.
FileInv ==
    /\ nvram_dirty \in BOOLEAN
    /\ ~ failed => file = at_frame /\ (nvram_dirty \/ file = nvram)
    /\ phase \in FrameWays => ~ nvram_dirty

\* After the guest asked, warp mode is off; when the countdown stands at 1 the
\* frame that runs is whole so far, or begins; the guest's exit follows one.
PictureInv ==
    /\ exit_countdown \in Int
    /\ exit_countdown < 2 => asked
    /\ asked /\ ~ warped => ~ warp_mode
    /\ phase = "frame" => scan = 0
    /\ asked /\ ~ warped /\ exit_countdown < 2 =>
           IF phase = "frame" THEN whole ELSE whole \/ scan = 0
    /\ phase = "guest" /\ ~ warped => shown

\* Values that tell the phases and the flags apart.
Flags ==
    /\ phase \in {"top", "cpu", "devices", "frame", "irq"} \cup Ways
    /\ warp_mode \in BOOLEAN /\ warped \in BOOLEAN /\ asked \in BOOLEAN
    /\ whole \in BOOLEAN /\ new_frame \in BOOLEAN /\ failed \in BOOLEAN

-----------------------------------------------------------------------------
LEMMA MainInitHolds == Init => Flags /\ FileInv /\ PictureInv
<1> SUFFICES ASSUME Init PROVE Flags /\ FileInv /\ PictureInv
  OBVIOUS
<1>1. Flags
  BY DEF Init, Flags
<1>2. FileInv
  BY DEF Init, FileInv, FrameWays
<1>3. PictureInv
  BY DEF Init, PictureInv
<1> QED BY <1>1, <1>2, <1>3

\* The flags keep their types.
LEMMA FlagsKept ==
    ASSUME Flags, [Next]_vars
    PROVE  Flags'
<1> USE DEF Flags, Ways, beam, memory, leaving
<1>1. CASE Top
  BY <1>1 DEF Top, RestartBeam
<1>2. CASE step6502
  BY <1>2 DEF step6502, AskToExit, RestartBeam
<1>3. ASSUME video_step PROVE new_frame' \in BOOLEAN /\ whole' \in BOOLEAN
  BY <1>3 DEF video_step, Rendered
<1>4. CASE Devices
  <2>1. new_frame' \in BOOLEAN /\ whole' \in BOOLEAN
    BY <1>3, <1>4 DEF Devices
  <2> QED BY <1>4, <2>1 DEF Devices
<1>5. CASE PowerOff
  <2>1. new_frame' \in BOOLEAN /\ whole' \in BOOLEAN
    BY <1>3, <1>5 DEF PowerOff
  <2> QED BY <1>5, <2>1 DEF PowerOff
<1>6. CASE EndFrame
  BY <1>6 DEF EndFrame, Flush, Countdown, RestartBeam, SetWarp
<1>7. CASE Irq
  BY <1>7 DEF Irq, SetWarp
<1>8. CASE Intercepted \/ Ended \/ UNCHANGED vars
  BY <1>8 DEF Intercepted, Ended, vars
<1> QED BY <1>1, <1>2, <1>4, <1>5, <1>6, <1>7, <1>8 DEF Next, Run

\* No step parts the file from the NVRAM of the last frame's end.
LEMMA FileKept ==
    ASSUME Flags, FileInv, [Next]_vars
    PROVE  FileInv'
<1> USE DEF FileInv, FrameWays, memory
<1>1. CASE Top
  BY <1>1 DEF Top
<1>2. CASE step6502
  BY <1>2 DEF step6502
<1>3. CASE Devices
  <2>1. phase' \in {"frame", "irq"} /\ file' = file /\ at_frame' = at_frame /\ failed' = failed
    BY <1>3 DEF Devices
  <2>2. nvram_dirty' = TRUE \/ (nvram' = nvram /\ nvram_dirty' = nvram_dirty)
    BY <1>3 DEF Devices
  <2> QED BY <2>1, <2>2
<1>4. CASE PowerOff
  BY <1>4 DEF PowerOff
<1>5. CASE EndFrame
  <2>1. nvram_dirty' = FALSE /\ at_frame' = nvram /\ nvram' = nvram
    BY <1>5 DEF EndFrame, Flush
  <2>2. ~ failed' => ~ failed /\ file' = nvram
    <3>1. CASE ~ nvram_dirty /\ file' = file /\ failed' = failed
      BY <3>1
    <3>2. CASE file' = nvram /\ failed' = failed
      BY <3>2
    <3>3. CASE failed' = TRUE
      BY <3>3
    <3> QED BY <1>5, <3>1, <3>2, <3>3 DEF EndFrame, Flush
  <2> QED BY <2>1, <2>2
<1>6. CASE Irq
  BY <1>6 DEF Irq
<1>7. CASE Intercepted \/ Ended \/ UNCHANGED vars
  BY <1>7 DEF Intercepted, Ended, vars
<1> QED BY <1>1, <1>2, <1>3, <1>4, <1>5, <1>6, <1>7 DEF Next, Run

\* A step of the beam keeps a whole frame whole where lines are drawn.
LEMMA BeamKept ==
    ASSUME Flags, video_step, ~ warp_mode, whole \/ scan = 0
    PROVE  whole'
BY DEF video_step, Rendered, Flags

LEMMA PictureKept ==
    ASSUME Flags, PictureInv, [Next]_vars
    PROVE  PictureInv'
<1> USE DEF PictureInv, leaving
<1>1. CASE Top
  BY <1>1 DEF Top, RestartBeam
<1>2. CASE step6502
  BY <1>2 DEF step6502, AskToExit, RestartBeam, Flags
<1>3. CASE Devices
  <2>1. CASE headless
    BY <1>3, <2>1 DEF Devices, beam
  <2>2. CASE ~ headless
    <3>1. video_step
      BY <1>3, <2>2 DEF Devices
    <3>2. new_frame' <=> scan' = 0
      BY <3>1 DEF video_step
    <3>3. asked /\ ~ warped /\ exit_countdown < 2 => whole'
      BY <1>3, <3>1, BeamKept DEF Devices
    <3> QED BY <1>3, <2>2, <3>2, <3>3 DEF Devices
  <2> QED BY <2>1, <2>2
<1>4. CASE PowerOff
  <2>1. CASE headless
    BY <1>4, <2>1 DEF PowerOff, beam
  <2>2. CASE ~ headless
    <3>1. asked /\ ~ warped /\ exit_countdown < 2 => whole'
      BY <1>4, <2>2, BeamKept DEF PowerOff
    <3> QED BY <1>4, <3>1 DEF PowerOff
  <2> QED BY <2>1, <2>2
<1>5. CASE EndFrame
  <2>1. scan' = 0 /\ phase' # "frame" /\ asked' = asked /\ shown' = whole
    BY <1>5 DEF EndFrame, Countdown, RestartBeam
  <2>2. exit_countdown' \in Int /\ (exit_countdown' < 2 => asked)
    BY <1>5 DEF EndFrame, Countdown
  <2>3. asked /\ ~ warped' => ~ warped /\ ~ warp_mode'
    BY <1>5 DEF EndFrame, SetWarp, RestartBeam, Flags
  <2>4. phase' = "guest" => asked /\ exit_countdown = 1
    BY <1>5 DEF EndFrame, Countdown
  <2>5. phase' = "guest" /\ ~ warped' => whole
    BY <1>5, <2>3, <2>4 DEF EndFrame
  <2> QED BY <2>1, <2>2, <2>3, <2>5
<1>6. CASE Irq
  BY <1>6 DEF Irq, SetWarp, beam, Flags
<1>7. CASE Intercepted \/ Ended \/ UNCHANGED vars
  BY <1>7 DEF Intercepted, Ended, vars
<1> QED BY <1>1, <1>2, <1>3, <1>4, <1>5, <1>6, <1>7 DEF Next, Run

\* The counters' ranges; the loop goes on only while the countdown does.
Counters ==
    /\ scan \in 0 .. FrameLen - 1 /\ frame_count \in 0 .. Skip - 1
    /\ exit_countdown \in 0 .. 2 /\ (phase \in Ways \/ exit_countdown > 0)
    /\ restarts \in 0 .. MaxRestarts
    /\ nvram \in 0 .. MaxWrites /\ file \in 0 .. nvram /\ at_frame \in 0 .. nvram

LEMMA CountersStart == ASSUME MainAssumption, Init PROVE Counters
<1>1. 0 \in 0 .. FrameLen - 1 /\ 0 \in 0 .. Skip - 1 /\ 0 \in 0 .. MaxRestarts /\ 0 \in 0 .. MaxWrites
      /\ 0 \in 0 .. 0
  BY DEF MainAssumption
<1> QED BY <1>1 DEF Init, Counters

LEMMA CountersKept ==
    ASSUME MainAssumption, Flags, Counters, [Next]_vars
    PROVE  Counters'
<1> USE DEF beam, memory, leaving
<1>1. /\ FrameLen \in Nat \ {0} /\ Skip \in Nat \ {0} /\ MaxRestarts \in Nat /\ MaxWrites \in Nat
      /\ 0 \in 0 .. FrameLen - 1
  BY DEF MainAssumption
<1>2. ASSUME video_step
      PROVE  scan' \in 0 .. FrameLen - 1 /\ frame_count' \in 0 .. Skip - 1
  <2>1. scan + 1 \in Int /\ frame_count + 1 \in Int
    BY <1>1 DEF Counters
  <2>2. (scan + 1) % FrameLen \in 0 .. FrameLen - 1 /\ (frame_count + 1) % Skip \in 0 .. Skip - 1
    BY <1>1, <2>1
  <2> QED BY <1>2, <2>2 DEF video_step, Counters
<1>3. restarts < MaxRestarts /\ restarts' = restarts + 1 => restarts' \in 0 .. MaxRestarts
  BY <1>1 DEF Counters
<1>4. CASE Top
  <2>1. scan' = scan \/ scan' = 0
    BY <1>4 DEF Top, RestartBeam
  <2>2. UNCHANGED <<frame_count, exit_countdown, restarts, nvram, file, at_frame>> /\ phase \notin Ways
    BY <1>4 DEF Top, Ways
  <2> QED BY <1>1, <2>1, <2>2 DEF Counters
<1>5. CASE step6502
  <2>1. scan' = scan \/ scan' = 0
    BY <1>5 DEF step6502, RestartBeam
  <2>2. restarts' \in 0 .. MaxRestarts
    BY <1>3, <1>5 DEF step6502, Counters
  <2>3. UNCHANGED <<frame_count, exit_countdown, nvram, file, at_frame>> /\ phase \notin Ways
    BY <1>5 DEF step6502, AskToExit, Ways
  <2> QED BY <1>1, <2>1, <2>2, <2>3 DEF Counters
<1>6. CASE Devices
  <2>1. scan' \in 0 .. FrameLen - 1 /\ frame_count' \in 0 .. Skip - 1
    BY <1>2, <1>6 DEF Devices, Counters
  <2>2. restarts' \in 0 .. MaxRestarts
    BY <1>3, <1>6 DEF Devices, Counters
  <2>3. nvram' \in 0 .. MaxWrites /\ nvram' >= nvram
    BY <1>1, <1>6 DEF Devices, Counters
  <2>4. UNCHANGED <<exit_countdown, file, at_frame>> /\ phase \notin Ways
    BY <1>6 DEF Devices, Ways
  <2>5. file \in 0 .. nvram' /\ at_frame \in 0 .. nvram'
    BY <2>3 DEF Counters
  <2> QED BY <2>1, <2>2, <2>3, <2>4, <2>5 DEF Counters
<1>7. CASE PowerOff
  <2>1. scan' \in 0 .. FrameLen - 1 /\ frame_count' \in 0 .. Skip - 1
    BY <1>2, <1>7 DEF PowerOff, Counters
  <2>2. UNCHANGED <<exit_countdown, restarts, nvram, file, at_frame>> /\ phase' \in Ways
    BY <1>7 DEF PowerOff, Ways
  <2> QED BY <2>1, <2>2 DEF Counters
<1>8. CASE EndFrame
  <2>1. scan' = scan \/ scan' = 0
    BY <1>8 DEF EndFrame, RestartBeam
  <2>2. nvram' = nvram /\ at_frame' = nvram /\ (file' = file \/ file' = nvram)
    BY <1>8 DEF EndFrame, Flush
  <2>3. file' \in 0 .. nvram' /\ at_frame' \in 0 .. nvram' /\ nvram' \in 0 .. MaxWrites
    BY <1>1, <2>2 DEF Counters
  <2>4. exit_countdown' \in 0 .. 2 /\ (phase' \in Ways \/ exit_countdown' > 0)
    <3>1. exit_countdown \in 1 .. 2
      BY <1>8 DEF EndFrame, Counters, Ways
    <3>2. PICK next \in {"irq", "window", "keys"} : Countdown(next)
      BY <1>8 DEF EndFrame
    <3>3. CASE ~ asked \/ next # "irq"
      BY <3>1, <3>2, <3>3 DEF Countdown
    <3>4. CASE ~ (~ asked \/ next # "irq")
      <4>1. exit_countdown' = exit_countdown - 1
            /\ phase' = IF exit_countdown' = 0 THEN "guest" ELSE next
        BY <3>2, <3>4 DEF Countdown
      <4> QED BY <3>1, <4>1 DEF Ways
    <3> QED BY <3>3, <3>4
  <2>5. UNCHANGED <<frame_count, restarts>>
    BY <1>8 DEF EndFrame
  <2> QED BY <1>1, <2>1, <2>3, <2>4, <2>5 DEF Counters
<1>9. CASE Irq
  <2>1. UNCHANGED <<scan, frame_count, exit_countdown, restarts, nvram, file, at_frame>> /\ phase \notin Ways
    BY <1>9 DEF Irq, Ways
  <2> QED BY <2>1 DEF Counters
<1>10. CASE Intercepted \/ Ended \/ UNCHANGED vars
  BY <1>10 DEF Intercepted, Ended, vars, Counters
<1> QED BY <1>4, <1>5, <1>6, <1>7, <1>8, <1>9, <1>10 DEF Next, Run

-----------------------------------------------------------------------------
\* For frames of any length: every exit leaves in the NVRAM's file what the last
\* end of a frame found, which is everything where a frame's end led to the exit
\* (main.c's flush in emulator_loop).
THEOREM FileSafe == ASSUME MainAssumption PROVE Spec => []SavedOnExit
<1>1. Init => Flags /\ FileInv /\ Counters
  BY MainInitHolds, CountersStart
<1>2. Flags /\ FileInv /\ Counters /\ [Next]_vars => Flags' /\ FileInv' /\ Counters'
  BY FlagsKept, FileKept, CountersKept
<1>3. Flags /\ FileInv /\ Counters => SavedOnExit
  <2> SUFFICES ASSUME Flags, FileInv, Counters PROVE SavedOnExit
    OBVIOUS
  <2>1. TypeOK
    BY DEF Flags, Counters, TypeOK
  <2> QED BY <2>1 DEF FileInv, SavedOnExit, FrameWays, Ways
<1> QED BY <1>1, <1>2, <1>3, PTL DEF Spec

\* And, however many frames warp mode skips, the guest's exit follows a picture
\* that was drawn whole after it asked (memory.c:454, main.c's countdown).
THEOREM PictureSafe == Spec => []LastPictureWhole
<1>1. Init => Flags /\ PictureInv
  BY MainInitHolds
<1>2. Flags /\ PictureInv /\ [Next]_vars => Flags' /\ PictureInv'
  BY FlagsKept, PictureKept
<1>3. PictureInv => LastPictureWhole
  BY DEF PictureInv, LastPictureWhole
<1> QED BY <1>1, <1>2, <1>3, PTL DEF Spec
=============================================================================
