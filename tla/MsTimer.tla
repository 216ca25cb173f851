------------------------------- MODULE MsTimer -------------------------------
(***************************************************************************)
(* The free-running millisecond counter at $9F90-$9F93 (memory.c), the     *)
(* main loop that advances it by the clocks of each instruction, a guest   *)
(* that reads its four bytes one instruction at a time, and a debugger     *)
(* that looks at them whenever it likes.                                   *)
(*                                                                         *)
(* A byte is a digit in base Base, so the counter wraps at Base^4 where    *)
(* the code's wraps at 2^32.  Total counts the clocks since the last reset *)
(* and is bounded by MaxTotal.                                             *)
(***************************************************************************)
EXTENDS Integers

CONSTANTS ClksPerMs,   \* MHZ * 1000
          MaxClocks,   \* the longest instruction
          Base,        \* values of a byte
          MaxTotal     \* bound on the clocks between two resets

ASSUME TimerAssumption ==
    /\ ClksPerMs \in Nat \ {0}
    /\ MaxClocks \in Nat \ {0}
    /\ Base \in Nat \ {0, 1}
    /\ MaxTotal \in Nat

VARIABLES timer_ms, timer_div, timer_latch,
          total,   \* clocks executed since the last reset
          got,     \* the bytes the guest's current reading has collected
          began    \* timer_ms when that reading read $9F90

timer == <<timer_ms, timer_div, timer_latch>>
vars == <<timer, total, got, began>>

Wrap == Base * Base * Base * Base      \* the code's 2^32
Regs == 0..3
Byte == 0..(Base - 1)

-----------------------------------------------------------------------------
(* memory.c: timer_step, the loop in closed form *)
Ticks(clocks) == (timer_div + clocks) \div ClksPerMs

timer_step(clocks) ==
    /\ timer_ms' = (timer_ms + Ticks(clocks)) % Wrap
    /\ timer_div' = (timer_div + clocks) - Ticks(clocks) * ClksPerMs
    /\ UNCHANGED timer_latch

Step(clocks) ==
    /\ total + clocks <= MaxTotal
    /\ timer_step(clocks)
    /\ total' = total + clocks
    /\ UNCHANGED <<got, began>>

-----------------------------------------------------------------------------
(* memory.c: timer_read *)
ByteRead(reg) ==
    CASE reg = 0 -> timer_ms % Base
      [] reg = 1 -> timer_latch % Base
      [] reg = 2 -> (timer_latch \div Base) % Base
      [] reg = 3 -> (timer_latch \div (Base * Base)) % Base

\* Mutation: the debugger's look captures too.
Latched_peek(reg, debugOn) ==
    IF reg = 0 THEN timer_ms \div Base ELSE timer_latch

Latched(reg, debugOn) ==
    IF reg = 0 /\ ~debugOn THEN timer_ms \div Base ELSE timer_latch

timer_read(reg, debugOn) ==
    /\ timer_latch' = Latched(reg, debugOn)
    /\ UNCHANGED <<timer_ms, timer_div>>

(* The guest reads $9F90 first, as the comment on timer_read asks, and then *)
(* the captured bytes in any order; instructions run in between.            *)
GuestReadLow ==
    /\ timer_read(0, FALSE)
    /\ got' = [r \in {0} |-> ByteRead(0)]
    /\ began' = timer_ms
    /\ UNCHANGED total

GuestReadNext(reg) ==
    /\ 0 \in DOMAIN got
    /\ timer_read(reg, FALSE)
    /\ got' = [r \in DOMAIN got \cup {reg} |->
                 IF r = reg THEN ByteRead(reg) ELSE got[r]]
    /\ UNCHANGED <<total, began>>

Debugger(reg) ==
    /\ timer_read(reg, TRUE)
    /\ UNCHANGED <<total, got, began>>

\* Mutation: the fraction of a millisecond survives the reset.
memory_reset_partial ==
    /\ timer_ms' = 0
    /\ timer_latch' = 0
    /\ UNCHANGED timer_div

-----------------------------------------------------------------------------
(* main.c: machine_reset, which restarts the guest as well *)
memory_reset ==
    /\ timer_ms' = 0
    /\ timer_div' = 0
    /\ timer_latch' = 0

MachineReset ==
    /\ memory_reset
    /\ total' = 0
    /\ got' = [r \in {} |-> 0]
    /\ began' = 0

Init ==
    /\ timer_ms = 0
    /\ timer_div = 0
    /\ timer_latch = 0
    /\ total = 0
    /\ got = [r \in {} |-> 0]
    /\ began = 0

Next ==
    \/ \E clocks \in 1..MaxClocks : Step(clocks)
    \/ GuestReadLow
    \/ \E reg \in Regs \ {0} : GuestReadNext(reg)
    \/ \E reg \in Regs : Debugger(reg)
    \/ MachineReset

Spec == Init /\ [][Next]_vars

-----------------------------------------------------------------------------
TypeOK ==
    /\ timer_ms \in 0..(Wrap - 1)
    /\ timer_div \in 0..(ClksPerMs - 1)
    /\ timer_latch \in 0..(Base * Base * Base - 1)
    /\ total \in 0..MaxTotal
    /\ began \in 0..(Wrap - 1)
    /\ DOMAIN got \in SUBSET Regs
    /\ \A r \in DOMAIN got : got[r] \in Byte

\* The counter is the number of whole milliseconds executed since the reset,
\* however the clocks were cut into instructions (timer_step's loop and the
\* remainder it carries over; nothing is lost or counted twice).
CountsEveryClock ==
    \E ms \in 0..total :
        /\ total = ms * ClksPerMs + timer_div
        /\ timer_ms = ms % Wrap

Value == got[0] + Base * (got[1] + Base * (got[2] + Base * got[3]))

\* The four bytes a guest puts together are the counter as it stood when it
\* read $9F90: not torn by the ticks that came between the bytes, nor by a
\* debugger that looked at $9F90 meanwhile (timer_read's latch).
ReadIsWhole == DOMAIN got = Regs => Value = began
=============================================================================
