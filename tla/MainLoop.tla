------------------------------ MODULE MainLoop ------------------------------
(***************************************************************************)
(* The emulator's loop (emulator_loop of main.c): one instruction, then    *)
(* the devices, then, when a frame has ended, the NVRAM file, the picture, *)
(* the user's events and the guest's request to exit.  What can be lost is *)
(* what happened since the last frame, and with -testbench (headless)      *)
(* there are no frames.                                                    *)
(*                                                                         *)
(* A version number stands for the NVRAM's contents, FrameLen instructions *)
(* for a frame's.                                                          *)
(***************************************************************************)
EXTENDS Integers

CONSTANTS
    headless,       \* no window
    FrameLen,       \* instructions in a frame
    Skip,           \* warp mode draws one frame in Skip
    MaxWrites,      \* bounds the writes to the NVRAM,
    MaxRestarts     \* and the restarts of the beam

MainAssumption ==
    FrameLen \in Nat \ {0} /\ Skip \in Nat \ {0} /\ MaxWrites \in Nat /\ MaxRestarts \in Nat

VARIABLES
    phase,          \* "top", "cpu", "devices", "frame", "irq" or how it ended
    scan,           \* instructions since the frame began
    frame_count,    \* modulo Skip
    warp_mode,
    new_frame,
    nvram, nvram_dirty, file,
    smc_requested_reset,
    asked,          \* guest_exit_status >= 0
    exit_countdown,
    held,           \* the debugger holds the program
    restarts,
    whole,          \* history: all the lines of this frame so far were drawn
    at_frame,       \* history: nvram when the last frame ended
    failed,         \* history: the NVRAM file once could not be opened
    warped,         \* history: warp mode was turned on after the guest asked
    shown           \* history: the last picture was whole

vars == <<phase, scan, frame_count, warp_mode, new_frame, nvram, nvram_dirty, file,
          smc_requested_reset, asked, exit_countdown, held, restarts,
          whole, at_frame, failed, warped, shown>>

beam == <<scan, frame_count, new_frame, whole>>
memory == <<nvram, nvram_dirty, file, at_frame, failed>>
leaving == <<asked, exit_countdown, shown>>

Ways == {"window", "guest", "keys", "power", "pc", "debugger"}

-----------------------------------------------------------------------------
(* The beam and warp mode. *)

\* The beam back at the start of its frame (video_reset).
RestartBeam == scan' = 0 /\ whole' = TRUE

\* Are the lines of this frame drawn (render_line)?
Rendered == ~ warp_mode \/ frame_count = 0

\* video_step: the lines of one instruction's time.
video_step ==
    /\ scan' = (scan + 1) % FrameLen
    /\ new_frame' = (scan' = 0)
    /\ frame_count' = IF new_frame' THEN (frame_count + 1) % Skip ELSE frame_count
    /\ whole' = ((whole \/ scan = 0) /\ Rendered)

SetWarp(on) == warp_mode' = on /\ warped' = (warped \/ (on /\ asked))

-----------------------------------------------------------------------------
(* Before the instruction. *)

\* The SMC's reset, then the debugger, which holds the program or leaves.
Top ==
    /\ phase = "top"
    /\ IF smc_requested_reset THEN RestartBeam ELSE UNCHANGED <<scan, whole>>
    /\ smc_requested_reset' = FALSE
    /\ \/ phase' = "cpu" /\ held' = FALSE
       \/ phase' = "top" /\ held' = TRUE
       \/ phase' = "debugger" /\ held' = FALSE
    /\ UNCHANGED <<frame_count, warp_mode, new_frame, memory, leaving, restarts, warped>>

\* handle_ieee_intercept did the KERNAL's work: no clock passes, and the
\* instruction it returns to follows.
Intercepted ==
    /\ phase = "cpu"
    /\ UNCHANGED vars

\* Mutation: each store starts the countdown anew.
AskToExit_anew == asked' = TRUE /\ warp_mode' = FALSE /\ exit_countdown' = 2

\* A store to $9FBC.
AskToExit == asked' = TRUE /\ warp_mode' = FALSE /\ UNCHANGED exit_countdown

\* An instruction, which may store to $9FBC or reset VERA.
step6502 ==
    /\ phase = "cpu" /\ phase' = "devices"
    /\ \/ UNCHANGED <<asked, exit_countdown, warp_mode, scan, whole, restarts>>
       \/ AskToExit /\ UNCHANGED <<scan, whole, restarts>>
       \/ /\ restarts < MaxRestarts
          /\ restarts' = restarts + 1
          /\ RestartBeam
          /\ UNCHANGED <<asked, exit_countdown, warp_mode>>
    /\ UNCHANGED <<frame_count, new_frame, memory, smc_requested_reset, shown, held, warped>>

-----------------------------------------------------------------------------
(* The devices, up to the I2C bus's, through which the guest writes the      *)
(* NVRAM, asks for a reset and turns the power off.                          *)

\* The SMC's power off leaves at once, from inside the step (smc_write).
PowerOff ==
    /\ phase = "devices" /\ phase' = "power"
    /\ IF headless THEN UNCHANGED beam ELSE video_step
    /\ UNCHANGED <<warp_mode, memory, smc_requested_reset, leaving, held, restarts, warped>>

Devices ==
    /\ phase = "devices"
    /\ IF headless THEN UNCHANGED beam ELSE video_step
    /\ phase' = IF ~ headless /\ new_frame' THEN "frame" ELSE "irq"
    /\ \/ UNCHANGED <<nvram, nvram_dirty, smc_requested_reset, restarts>>
       \/ /\ nvram < MaxWrites
          /\ nvram' = nvram + 1 /\ nvram_dirty' = TRUE
          /\ UNCHANGED <<smc_requested_reset, restarts>>
       \/ /\ restarts < MaxRestarts
          /\ restarts' = restarts + 1 /\ smc_requested_reset' = TRUE
          /\ UNCHANGED <<nvram, nvram_dirty>>
    /\ UNCHANGED <<warp_mode, file, at_frame, failed, leaving, held, warped>>

-----------------------------------------------------------------------------
(* The end of a frame. *)

\* Mutation: the file is saved with the frames that are drawn only.
Flush_drawn ==
    /\ IF nvram_dirty /\ shown' THEN file' = nvram /\ nvram_dirty' = FALSE
       ELSE UNCHANGED <<file, nvram_dirty>>
    /\ at_frame' = nvram
    /\ UNCHANGED <<nvram, failed>>

\* The NVRAM's file, if it can be opened; the NVRAM is clean either way.
Flush ==
    /\ \/ ~ nvram_dirty /\ UNCHANGED <<file, failed>>
       \/ nvram_dirty /\ file' = nvram /\ UNCHANGED failed
       \/ nvram_dirty /\ failed' = TRUE /\ UNCHANGED file
    /\ nvram_dirty' = FALSE
    /\ at_frame' = nvram
    /\ UNCHANGED nvram

\* Mutation: the guest leaves at the end of the frame in which it asks.
Countdown_now(next) ==
    IF ~ asked \/ next # "irq" THEN phase' = next /\ UNCHANGED exit_countdown
    ELSE phase' = "guest" /\ UNCHANGED exit_countdown

\* The guest's request is counted down by frames whose events did not leave.
Countdown(next) ==
    IF ~ asked \/ next # "irq" THEN phase' = next /\ UNCHANGED exit_countdown
    ELSE /\ exit_countdown' = exit_countdown - 1
         /\ phase' = IF exit_countdown' = 0 THEN "guest" ELSE next

\* video_update shows the picture, then takes the user's events: closing the
\* window, ALT+F4, a reset, a change of warp mode.
EndFrame ==
    /\ phase = "frame"
    /\ shown' = whole
    /\ Flush
    /\ \E next \in {"irq", "window", "keys"} : Countdown(next)
    /\ \/ UNCHANGED <<scan, whole, smc_requested_reset, warp_mode, warped>>
       \/ RestartBeam /\ smc_requested_reset' = FALSE /\ UNCHANGED <<warp_mode, warped>>
       \/ SetWarp(~ warp_mode) /\ UNCHANGED <<scan, whole, smc_requested_reset>>
    /\ UNCHANGED <<frame_count, new_frame, asked, held, restarts>>

-----------------------------------------------------------------------------
(* The interrupts, the end of the program at $ffff, and a paste, which may   *)
(* turn warp mode on while it lasts (warp_pastes; where its characters go,   *)
(* memory no program of this machine reads, is left out).                    *)

Irq ==
    /\ phase = "irq"
    /\ phase' \in {"top", "pc"}
    /\ \/ UNCHANGED <<warp_mode, warped>>
       \/ phase' = "top" /\ \E on \in BOOLEAN : SetWarp(on)
    /\ UNCHANGED <<beam, memory, smc_requested_reset, leaving, held, restarts>>

\* The process has ended (main_shutdown, exit).
Ended == phase \in Ways /\ UNCHANGED vars

Init ==
    /\ phase = "top" /\ scan = 0 /\ frame_count = 0 /\ warp_mode \in BOOLEAN
    /\ new_frame = FALSE
    /\ nvram = 0 /\ nvram_dirty = FALSE /\ file = 0
    /\ smc_requested_reset = FALSE /\ asked = FALSE /\ exit_countdown = 2
    /\ held = FALSE /\ restarts = 0
    /\ whole = TRUE /\ at_frame = 0 /\ failed = FALSE /\ warped = FALSE /\ shown = FALSE

Run == Top \/ step6502 \/ Devices \/ EndFrame \/ Irq

Next == Run \/ Intercepted \/ PowerOff \/ Ended

\* The loop runs for ever, and between two intercepted calls of the KERNAL the
\* program runs an instruction.
Spec == Init /\ [][Next]_vars /\ WF_vars(Run)

-----------------------------------------------------------------------------
(* Properties. *)

TypeOK ==
    /\ phase \in {"top", "cpu", "devices", "frame", "irq"} \cup Ways
    /\ scan \in 0 .. FrameLen - 1 /\ frame_count \in 0 .. Skip - 1
    /\ exit_countdown \in 0 .. 2 /\ restarts \in 0 .. MaxRestarts
    /\ nvram \in 0 .. MaxWrites /\ file \in 0 .. nvram /\ at_frame \in 0 .. nvram

\* The NVRAM's file ends up with what the guest wrote when the user closes the
\* window or presses ALT+F4 and when the guest asks for the exit; an exit in
\* the middle of a frame (power off, $ffff, the debugger) loses that frame's
\* writes and no more.  Only a file that could not be opened is an exception,
\* for the NVRAM is marked clean all the same (main.c:1918).
SavedOnExit ==
    /\ TypeOK
    /\ phase \in Ways /\ ~ failed =>
           file = IF phase \in {"window", "keys", "guest"} THEN nvram ELSE at_frame

\* When the guest asks for the exit, the last picture before it is one of which
\* every line was drawn after the request, warp mode or not ("so the frames
\* between here and the deferred exit render in full", memory.c:459), unless
\* warp mode is turned on again.
LastPictureWhole == phase = "guest" /\ ~ warped => shown

\* The emulator leaves some time after the guest asks for it ("a finished suite
\* should not have to wait out the host's timeout", memory.c:451), unless the
\* debugger holds the program.
ExitsWhenAsked == asked ~> (phase \in Ways \/ held)
=============================================================================
