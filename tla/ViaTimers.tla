------------------------------ MODULE ViaTimers ------------------------------
(***************************************************************************)
(* The two timers of a 6522 as via.c keeps them, advanced by a whole       *)
(* instruction's clocks at a time, under a guest that loads them, switches *)
(* timer 1 between one-shot and free-running and timer 2 between clocks    *)
(* and pulses, acknowledges interrupts, and a machine reset at any moment. *)
(* A counter has two bytes in base Base; the code's 0xffff is Top here.    *)
(***************************************************************************)
EXTENDS Integers

CONSTANTS ViaBase,       \* values of a byte
          ViaClocks,  \* the longest instruction
          Loads       \* bytes the guest writes to the timers

ViaAssumption ==
    /\ ViaBase \in Nat \ {0, 1}
    /\ ViaClocks \in 1..(ViaBase * ViaBase - 1)
    /\ Loads \subseteq 0..(ViaBase - 1)

VARIABLES t1,      \* timer 1: count, minus-one state, running, IFR bit 6
          t2,      \* timer 2: count, running, IFR bit 5
          t1lo, t1hi, t2lo,   \* latches: registers 6, 7 and 8
          freeRun,            \* ACR bit 6
          pulseMode,          \* ACR bit 5
          left1, left2,       \* clocks until the load expires, 0 when none is awaited
          awaited1, awaited2, \* the load has expired and was not acknowledged
          oneShot   \* timer 1 has been in one-shot mode ever since its load

ghosts == <<left1, left2, awaited1, awaited2, oneShot>>
latches == <<t1lo, t1hi, t2lo>>
modes == <<freeRun, pulseMode>>
viaVars == <<t1, t2, latches, modes, ghosts>>

Width == ViaBase * ViaBase
Top == Width - 1
T1State == [cnt : 0..Top, m1 : BOOLEAN, running : BOOLEAN, ifr : BOOLEAN]
T2State == [cnt : 0..Top, running : BOOLEAN, ifr : BOOLEAN]

Lesser(a, b) == IF a < b THEN a ELSE b
Reload == t1hi * ViaBase + t1lo
ReloadFrom(hi) == hi * ViaBase + t1lo

-----------------------------------------------------------------------------
(* via.c: via_step, timer 1.  One turn of the loop takes tclk_s of the      *)
(* remaining clocks.                                                        *)
Expire(s) ==
    [s EXCEPT !.ifr = @ \/ s.running, !.running = @ /\ freeRun]

\* The clocks until the next time a counter reaches zero after a reload.
Period(s) == s.cnt + Reload + 2

Turn(tclk, s) ==
    IF s.m1 THEN
        LET taken == Lesser(tclk, Reload + 1)
        IN  [taken |-> taken,
             s |-> [s EXCEPT !.cnt = Reload + 1 - taken, !.m1 = FALSE]]
    ELSE IF s.cnt >= tclk THEN
        [taken |-> tclk, s |-> [s EXCEPT !.cnt = @ - tclk]]
    ELSE IF tclk = s.cnt + 1 THEN
        [taken |-> 1, s |-> [Expire(s) EXCEPT !.cnt = Top, !.m1 = TRUE]]
    ELSE
        LET taken == Lesser(tclk, Period(s))
        IN  [taken |-> taken, s |-> [Expire(s) EXCEPT !.cnt = Period(s) - taken]]

LoopTurn(l) ==
    IF l.left = 0 THEN l
    ELSE LET turn == Turn(l.left, l.s) IN [left |-> l.left - turn.taken, s |-> turn.s]

\* The loop: each turn takes at least one clock.
Timer1(clocks, s) ==
    LET loop[i \in Nat] ==
            IF i = 0 THEN [left |-> clocks, s |-> s] ELSE LoopTurn(loop[i - 1])
    IN  loop[clocks].s

\* The same code called once per clock.
ClockByClock(clocks, s) ==
    LET after[i \in Nat] == IF i = 0 THEN s ELSE Timer1(1, after[i - 1])
    IN  after[clocks]

\* Mutation: the timer fires each time the count wraps.
Timer2_armed(clocks) ==
    IF t2.cnt < clocks
    THEN [t2 EXCEPT !.cnt = Width + t2.cnt - clocks, !.ifr = @ \/ t2.running]
    ELSE [t2 EXCEPT !.cnt = @ - clocks]

(* via.c: via_step, timer 2 *)
Timer2(clocks) ==
    IF t2.cnt < clocks
    THEN [cnt |-> Width + t2.cnt - clocks, running |-> FALSE, ifr |-> t2.ifr \/ t2.running]
    ELSE [t2 EXCEPT !.cnt = @ - clocks]

\* The clocks that timer 2 counts: none in pulse-counting mode, for no pulse ever
\* comes in (pb6_pulse_counts stays 0).
Ticks2(clocks) == IF pulseMode THEN 0 ELSE clocks

Passed(left, clocks) == IF left > clocks THEN left - clocks ELSE 0

via_step(clocks) ==
    /\ t1' = Timer1(clocks, t1)
    /\ t2' = Timer2(Ticks2(clocks))
    /\ left1' = Passed(left1, clocks)
    /\ left2' = Passed(left2, Ticks2(clocks))
    /\ awaited1' = (awaited1 \/ left1 \in 1..clocks)
    /\ awaited2' = (awaited2 \/ left2 \in 1..Ticks2(clocks))
    /\ UNCHANGED <<latches, modes, oneShot>>

-----------------------------------------------------------------------------
(* via.c: via_write and via_read, the registers of the timers *)
WriteT1L(value) ==
    /\ t1lo' = value
    /\ UNCHANGED <<t1, t2, t1hi, t2lo, modes, ghosts>>

(* The minus-one state is left alone: the next clock takes the count from   *)
(* the latches again, so a load that lands in it is not timed by left1.     *)
Loaded(s, value) ==
    [s EXCEPT !.cnt = ReloadFrom(value), !.running = TRUE, !.ifr = FALSE]

WriteT1H(value) ==
    /\ t1hi' = value
    /\ t1' = Loaded(t1, value)
    /\ left1' = IF t1.m1 THEN 0 ELSE ReloadFrom(value) + 1
    /\ awaited1' = FALSE
    /\ oneShot' = (~freeRun /\ ~t1.m1)
    /\ UNCHANGED <<t2, t1lo, t2lo, modes, left2, awaited2>>

WriteT1LH(value) ==
    /\ t1hi' = value
    /\ t1' = [t1 EXCEPT !.ifr = FALSE]
    /\ awaited1' = FALSE
    /\ UNCHANGED <<t2, t1lo, t2lo, modes, left1, left2, awaited2, oneShot>>

AcknowledgeT1 ==
    /\ t1' = [t1 EXCEPT !.ifr = FALSE]
    /\ awaited1' = FALSE
    /\ UNCHANGED <<t2, latches, modes, left1, left2, awaited2, oneShot>>

WriteT2L(value) ==
    /\ t2lo' = value
    /\ UNCHANGED <<t1, t2, t1lo, t1hi, modes, ghosts>>

WriteT2H(value) ==
    /\ t2' = [cnt |-> value * ViaBase + t2lo, running |-> TRUE, ifr |-> FALSE]
    /\ left2' = value * ViaBase + t2lo + 1
    /\ awaited2' = FALSE
    /\ UNCHANGED <<t1, latches, modes, left1, awaited1, oneShot>>

AcknowledgeT2 ==
    /\ t2' = [t2 EXCEPT !.ifr = FALSE]
    /\ awaited2' = FALSE
    /\ UNCHANGED <<t1, latches, modes, left1, left2, awaited1, oneShot>>

WriteACR(mode, pulses) ==
    /\ freeRun' = mode
    /\ pulseMode' = pulses
    /\ oneShot' = (oneShot /\ ~mode)
    /\ UNCHANGED <<t1, t2, latches, left1, left2, awaited1, awaited2>>

(* via.c: via_init, from machine_reset; latches and counters are kept *)
Stopped(s) == [s EXCEPT !.running = FALSE, !.m1 = FALSE, !.ifr = FALSE]

via_init ==
    /\ t1' = Stopped(t1)
    /\ t2' = [t2 EXCEPT !.running = FALSE, !.ifr = FALSE]
    /\ freeRun' = FALSE
    /\ pulseMode' = FALSE
    /\ left1' = 0
    /\ left2' = 0
    /\ awaited1' = FALSE
    /\ awaited2' = FALSE
    /\ oneShot' = FALSE
    /\ UNCHANGED latches

ViaInit ==
    /\ t1 = [cnt |-> 0, m1 |-> FALSE, running |-> FALSE, ifr |-> FALSE]
    /\ t2 = [cnt |-> 0, running |-> FALSE, ifr |-> FALSE]
    /\ t1lo = 0 /\ t1hi = 0 /\ t2lo = 0
    /\ freeRun = FALSE
    /\ pulseMode = FALSE
    /\ left1 = 0 /\ left2 = 0
    /\ awaited1 = FALSE /\ awaited2 = FALSE
    /\ oneShot = FALSE

ViaNext ==
    \/ \E clocks \in 1..ViaClocks : via_step(clocks)
    \/ \E value \in Loads :
        \/ WriteT1L(value) \/ WriteT1H(value) \/ WriteT1LH(value)
        \/ WriteT2L(value) \/ WriteT2H(value)
    \/ AcknowledgeT1
    \/ AcknowledgeT2
    \/ \E mode, pulses \in BOOLEAN : WriteACR(mode, pulses)
    \/ via_init

ViaSpec == ViaInit /\ [][ViaNext]_viaVars

-----------------------------------------------------------------------------
ViaTypes ==
    /\ t1 \in T1State /\ t2 \in T2State
    /\ {t1lo, t1hi, t2lo} \subseteq 0..(ViaBase - 1)
    /\ freeRun \in BOOLEAN /\ pulseMode \in BOOLEAN
    /\ left1 \in 0..Width /\ left2 \in 0..Width
    /\ awaited1 \in BOOLEAN /\ awaited2 \in BOOLEAN
    /\ oneShot \in BOOLEAN

\* Each timer's interrupt for a load is raised in the instruction that contains
\* the clock after the load's value has run out, never before (clocks while
\* timer 2 counts pulses are not counted), and stays until
\* it is acknowledged (via_step's tests cnt < tclk and the flags they set);
\* timer 2 is then silent until the next load.  A load that lands in timer 1's
\* minus-one state is not timed.
InterruptsOnTime ==
    /\ awaited1 => t1.ifr
    /\ left1 > 0 => ~t1.ifr /\ t1.running /\ ~t1.m1 /\ t1.cnt = left1 - 1
    /\ t2.ifr = awaited2
    /\ t2.running = (left2 > 0)
    /\ left2 > 0 => t2.cnt = left2 - 1

\* A one-shot timer 1 fires once for a load: acknowledged, it raises nothing
\* more until the guest loads it again or lets it run free, however many times
\* the counter passes zero (timer_running[0]).
OneShotFiresOnce ==
    oneShot /\ left1 = 0 /\ ~awaited1 => ~t1.ifr /\ ~t1.running

\* Stepping a whole instruction leaves timer 1 where stepping its clocks one by
\* one does, whatever wraps and reloads lie between, with one exception: when
\* the instruction's last clock is the one that takes a counter past zero, the
\* clocks before it are counted twice (tclk_s = 1 in the minus-one case).
KeepsTimeOtherwise ==
    \A clocks \in 1..ViaClocks :
        clocks # t1.cnt + 1 \/ t1.cnt = 0 \/ t1.m1
            => Timer1(clocks, t1) = ClockByClock(clocks, t1)

\* So the timers' interrupts come with the instructions they are due in, a
\* one-shot timer 1 interrupts once, and how clocks are cut into instructions
\* matters to timer 1 in one case only (via_step).
TimersOnTime ==
    ViaTypes /\ InterruptsOnTime /\ OneShotFiresOnce /\ KeepsTimeOtherwise
=============================================================================
