------------------------------ MODULE VeraBeam ------------------------------
(***************************************************************************)
(* VERA's beam (video_step of video.c): the VGA and the NTSC line counters *)
(* that run side by side, the frames and interrupts they give, sprite      *)
(* collisions, and the display base of VERA2's bitmap, latched when a      *)
(* frame ends.                                                             *)
(*                                                                         *)
(* One instruction's pixels are fewer than a line's, so a step ends at     *)
(* most one line of each kind; which ones is left open.  NTSC is           *)
(* interlaced; its progressive mode and what a line looks like are left    *)
(* out.                                                                    *)
(***************************************************************************)
EXTENDS Integers, FiniteSets

CONSTANTS
    SCAN_HEIGHT,        \* lines of a VGA frame, half the NTSC counter's turn
    SCREEN_HEIGHT,      \* visible lines
    OFFSET_LOW,         \* NTSC_Y_OFFSET_LOW, of the field 0
    OFFSET_HIGH,        \* NTSC_Y_OFFSET_HIGH, of the field 1
    Lines,              \* values of irq_line the guest sets
    Bases,              \* values of a part of DISPBASE
    Collisions          \* may sprites collide

BeamAssumption ==
    /\ SCREEN_HEIGHT \in Nat \ {0} /\ SCREEN_HEIGHT % 2 = 0
    /\ OFFSET_LOW % 2 = 0 /\ OFFSET_HIGH % 2 = 0
    /\ SCAN_HEIGHT \in Nat /\ OFFSET_LOW \in Nat \ {0} /\ OFFSET_HIGH \in Nat
    /\ OFFSET_LOW + SCREEN_HEIGHT < SCAN_HEIGHT
    /\ SCAN_HEIGHT < OFFSET_HIGH /\ OFFSET_HIGH + SCREEN_HEIGHT < 2 * SCAN_HEIGHT
    /\ Lines \subseteq Nat /\ 0 \in Bases /\ Collisions \in BOOLEAN

VARIABLES
    vga_scan_pos_y, ntsc_scan_pos_y,
    ntsc_mode,      \* bit 1 of reg_composer[0]
    field,          \* its bit 7
    irq_line,
    isr,            \* subset of {"vsync", "line", "sprite"}
    coll,           \* sprite_line_collisions # 0
    v2_disp, v2_disp_latched,   \* <<low part, high part>>
    new_frame,      \* what the step returned to the main loop
    since           \* history of the frame that the last end of frame began

beamVars == <<vga_scan_pos_y, ntsc_scan_pos_y, ntsc_mode, field, irq_line, isr, coll,
          v2_disp, v2_disp_latched, new_frame, since>>

Kinds == {"vsync", "line", "sprite"}
Screen == 0 .. SCREEN_HEIGHT - 1

\* A frame that begins: the guest left the mode and irq_line alone (whole),
\* no interrupt, no line drawn, no bitmap shown, no collision, and no line out
\* of place, which is one drawn a second time or after the vsync.
Fresh == [whole |-> TRUE, count |-> [k \in Kinds |-> 0], drawn |-> {},
          shown |-> {}, hit |-> FALSE, stray |-> FALSE]

\* A frame in which it did not: nothing more is noted of it.
Broken == [Fresh EXCEPT !.whole = FALSE]

\* The history that the next step goes on with, and that of a step that draws
\* at least a part of some lines and the end of those in drawn, with a collision
\* or not, and raises interrupts.
Current == IF new_frame THEN Fresh ELSE since

After(part, drawn, hit, raised) ==
    IF ~ Current.whole THEN Current
    ELSE [Current EXCEPT
            !.count = [k \in Kinds |-> @[k] + (IF k \in raised THEN 1 ELSE 0)],
            !.drawn = @ \cup drawn,
            !.shown = IF part = {} THEN @ ELSE @ \cup {v2_disp_latched},
            !.hit = @ \/ hit,
            !.stray = \/ @
                      \/ part # {} /\ Current.count["vsync"] > 0
                      \/ Current.drawn \cap drawn # {}]

-----------------------------------------------------------------------------
(* The beam. *)

\* The line of the screen of a value of the NTSC counter.
NtscLine(pos) == pos - (IF pos < SCAN_HEIGHT THEN OFFSET_LOW ELSE OFFSET_HIGH)

\* The line that render_line is called for, if it is visible.
Drawn(vga, ntsc) ==
    Screen \cap (IF ~ ntsc_mode THEN {vga}
                 ELSE IF NtscLine(ntsc) % 2 # 0 THEN {}
                 ELSE IF ntsc < SCAN_HEIGHT THEN {NtscLine(ntsc)}
                 ELSE {NtscLine(ntsc) + 1})

\* update_isr_and_coll: what the beam raises when it arrives at line y.
Raised(y, collided) ==
    LET compare == IF ntsc_mode THEN irq_line - (irq_line % 2) ELSE irq_line
    IN  {k \in Kinds : \/ k = "vsync" /\ y = SCREEN_HEIGHT
                       \/ k = "line" /\ y = compare
                       \/ k = "sprite" /\ y = SCREEN_HEIGHT /\ collided}

NextVga(v) == IF v THEN (vga_scan_pos_y + 1) % SCAN_HEIGHT ELSE vga_scan_pos_y
NextNtsc(n) == IF n THEN (ntsc_scan_pos_y + 1) % (2 * SCAN_HEIGHT) ELSE ntsc_scan_pos_y

\* Did a line of the mode in use end?
Moved(v, n) == IF ntsc_mode THEN n ELSE v

\* The line that the beam then arrives at.
Arrived(v, n) == IF ntsc_mode THEN NtscLine(NextNtsc(n)) ELSE NextVga(v)

\* Mutation: a line's collisions are forgotten with the line.
Collected_line(v, n, hit) == hit /\ ~ Moved(v, n)

\* The collisions collected so far; the vertical sync takes them.
Collected(v, n, hit) == (coll \/ hit) /\ ~ (Moved(v, n) /\ Arrived(v, n) = SCREEN_HEIGHT)

\* One instruction's time.  A line is drawn when the beam leaves it, and the
\* interrupts are raised when the beam arrives at the next.
video_step(v, n, hit) ==
    LET moved == Moved(v, n)
        drawn == IF moved THEN Drawn(vga_scan_pos_y, ntsc_scan_pos_y) ELSE {}
        raised == IF moved THEN Raised(Arrived(v, n), coll \/ hit) ELSE {}
        ended == moved /\ (IF ntsc_mode THEN NextNtsc(n) % SCAN_HEIGHT = 0 ELSE NextVga(v) = 0)
    IN  /\ hit => drawn # {} /\ Collisions
        /\ vga_scan_pos_y' = NextVga(v) /\ ntsc_scan_pos_y' = NextNtsc(n)
        /\ field' = IF n /\ NextNtsc(n) % SCAN_HEIGHT = 0 THEN NextNtsc(n) = SCAN_HEIGHT ELSE field
        /\ isr' = isr \cup raised
        /\ coll' = Collected(v, n, hit)
        /\ v2_disp_latched' = IF ended THEN v2_disp ELSE v2_disp_latched
        /\ new_frame' = ended
        /\ since' = After(drawn, drawn, hit, raised)
        /\ UNCHANGED <<ntsc_mode, irq_line, v2_disp>>

-----------------------------------------------------------------------------
(* The guest's registers.  A store to a data port or to DC_VIDEO first draws *)
(* the line up to the beam.                                                  *)

\* video_step(MHZ, 0, true): the line up to the beam, and its collisions.
Midline(hit) == hit => Drawn(vga_scan_pos_y, ntsc_scan_pos_y) # {} /\ Collisions
MidlineSeen(hit) == After(Drawn(vga_scan_pos_y, ntsc_scan_pos_y), {}, hit, {})

WriteData(hit) ==
    /\ Midline(hit)
    /\ coll' = (coll \/ hit)
    /\ new_frame' = FALSE /\ since' = MidlineSeen(hit)
    /\ UNCHANGED <<vga_scan_pos_y, ntsc_scan_pos_y, ntsc_mode, field, irq_line, isr,
                   v2_disp, v2_disp_latched>>

\* DC_VIDEO: the guest sets the mode; its bit 7, the field, is the beam's.
SetMode(m, hit) ==
    /\ Midline(hit)
    /\ coll' = (coll \/ hit)
    /\ ntsc_mode' = m
    /\ new_frame' = FALSE /\ since' = IF m = ntsc_mode THEN MidlineSeen(hit) ELSE Broken
    /\ UNCHANGED <<vga_scan_pos_y, ntsc_scan_pos_y, field, irq_line, isr,
                   v2_disp, v2_disp_latched>>

SetLine(l) ==
    /\ irq_line' = l
    /\ new_frame' = FALSE
    /\ since' = Broken
    /\ UNCHANGED <<vga_scan_pos_y, ntsc_scan_pos_y, ntsc_mode, field, isr, coll,
                   v2_disp, v2_disp_latched>>

\* A write to ISR clears the bits it has.
Acknowledge(bits) ==
    /\ isr' = isr \ bits
    /\ new_frame' = FALSE /\ since' = Current
    /\ UNCHANGED <<vga_scan_pos_y, ntsc_scan_pos_y, ntsc_mode, field, irq_line, coll,
                   v2_disp, v2_disp_latched>>

\* A write to one of DISPBASE's registers (vera2_write).
SetBase(part, b) ==
    /\ v2_disp' = [v2_disp EXCEPT ![part] = b]
    /\ new_frame' = FALSE /\ since' = Current
    /\ UNCHANGED <<vga_scan_pos_y, ntsc_scan_pos_y, ntsc_mode, field, irq_line, isr, coll,
                   v2_disp_latched>>

\* Registers and beam back to the start, by machine_reset or by CTRL.
video_reset ==
    /\ vga_scan_pos_y' = 0 /\ ntsc_scan_pos_y' = 0
    /\ ntsc_mode' = FALSE /\ field' = FALSE /\ irq_line' = 0
    /\ isr' = {} /\ coll' = FALSE
    /\ new_frame' = FALSE /\ since' = Fresh

WriteCtrl == video_reset /\ UNCHANGED <<v2_disp, v2_disp_latched>>

\* machine_reset resets VERA2 too (vera2_reset).
vera2_reset ==
    /\ video_reset
    /\ v2_disp' = <<0, 0>> /\ v2_disp_latched' = <<0, 0>>

-----------------------------------------------------------------------------

BeamInit ==
    /\ vga_scan_pos_y = 0 /\ ntsc_scan_pos_y = 0
    /\ ntsc_mode = FALSE /\ field = FALSE /\ irq_line = 0
    /\ isr = {} /\ coll = FALSE
    /\ v2_disp = <<0, 0>> /\ v2_disp_latched = <<0, 0>>
    /\ new_frame = FALSE /\ since = Fresh

BeamNext ==
    \/ \E v \in BOOLEAN, n \in BOOLEAN, hit \in BOOLEAN : video_step(v, n, hit)
    \/ \E hit \in BOOLEAN : WriteData(hit)
    \/ \E m, hit \in BOOLEAN : SetMode(m, hit)
    \/ \E l \in Lines : SetLine(l)
    \/ \E bits \in SUBSET Kinds : Acknowledge(bits)
    \/ \E part \in {1, 2}, b \in Bases : SetBase(part, b)
    \/ WriteCtrl
    \/ vera2_reset

BeamSpec == BeamInit /\ [][BeamNext]_beamVars

-----------------------------------------------------------------------------
(* Properties. *)

DispBase == Bases \X Bases

BeamTypes ==
    /\ vga_scan_pos_y \in 0 .. SCAN_HEIGHT - 1
    /\ ntsc_scan_pos_y \in 0 .. 2 * SCAN_HEIGHT - 1
    /\ ntsc_mode \in BOOLEAN /\ field \in BOOLEAN /\ irq_line \in Lines \cup {0}
    /\ isr \subseteq Kinds /\ coll \in BOOLEAN
    /\ v2_disp \in DispBase /\ v2_disp_latched \in DispBase
    /\ new_frame \in BOOLEAN
    /\ since \in [whole : BOOLEAN, count : [Kinds -> Nat], drawn : SUBSET Screen,
                  shown : SUBSET DispBase, hit : BOOLEAN, stray : BOOLEAN]

\* A frame through which the guest leaves the mode alone draws every line of
\* the screen once, an interlaced one every line of its field, and all of them
\* before the vertical sync: a program that waits for the sync may change what
\* is shown until the frame ends.
EachFrameWhole ==
    new_frame /\ since.whole =>
        /\ ~ since.stray
        /\ since.drawn = IF ntsc_mode THEN {y \in Screen : y % 2 = IF field THEN 0 ELSE 1}
                         ELSE Screen

\* Such a frame has one vertical sync, for a visible line one line interrupt,
\* and, if sprites collided in it, one collision interrupt, at its sync: the
\* main loop's count of frames and the guest's agree, and no collision is lost.
OncePerFrame ==
    new_frame /\ since.whole =>
        /\ since.count["vsync"] = 1
        /\ irq_line \in Screen => since.count["line"] = 1
        /\ since.hit => since.count["sprite"] = 1

\* Every line of such a frame shows one display base, though the guest writes
\* it in two parts whenever it likes ("so a mid-frame flip cannot tear",
\* vera2.c:109).
OneBasePerFrame == since.whole => Cardinality(since.shown) <= 1

\* So a frame draws each line once, and before its vertical sync; it raises each
\* of its interrupts once and shows one display base (video_step).
FramesAreWhole == BeamTypes /\ EachFrameWhole /\ OncePerFrame /\ OneBasePerFrame
=============================================================================
