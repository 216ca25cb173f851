---------------------------- MODULE Clocked_proofs ----------------------------
(***************************************************************************)
(* The devices that the main loop advances by an instruction's clocks: the *)
(* millisecond counter counts every clock and is read whole; a VIA's       *)
(* interrupts come with the instructions they are due in; a frame of VERA  *)
(* draws each of its lines and raises each of its interrupts once; and a   *)
(* data port fetches what memory holds, for every clock rate, instruction  *)
(* length, byte width, screen and memory.                                  *)
(***************************************************************************)
EXTENDS MsTimer, ViaTimers, VeraBeam, VeraPorts, FiniteSetTheorems, NatLemmas

-----------------------------------------------------------------------------
(* Arithmetic of digits *)

\* Dividing twice is dividing by the product.
LEMMA DivDiv ==
    ASSUME NEW a \in Nat, NEW b \in Nat \ {0}
    PROVE  a \div (b * b) = (a \div b) \div b
  <1> DEFINE q == a \div b
             r == a % b
             p == q \div b
             s == q % b
  <1>1. q \in Nat /\ r \in 0..(b - 1) /\ a = b * q + r
    BY DivMod
  <1>2. p \in Nat /\ s \in 0..(b - 1) /\ q = b * p + s
    BY <1>1, DivMod
  <1> HIDE DEF q, r, p, s
  <1>3. b * q = b * b * p + b * s
    <2>1. b * q = b * (b * p + s)
      BY <1>2
    <2> QED
      BY <2>1, <1>2
  <1>4. a = (b * b) * p + (b * s + r)
    BY <1>1, <1>2, <1>3
  <1>5. b * s + r \in 0..(b * b - 1)
    <2>1. b * s <= b * (b - 1)
      BY <1>2
    <2>2. b * s >= 0
      BY <1>2
    <2>3. b * (b - 1) = b * b - b
      OBVIOUS
    <2> QED
      BY <2>1, <2>2, <2>3, <1>1, <1>2
  <1>6. b * b \in Nat \ {0}
    OBVIOUS
  <1>7. a \div (b * b) = p
    BY <1>2, <1>4, <1>5, <1>6, DivUnique
  <1> QED
    BY <1>7 DEF p, q

\* A number below the wrap is put together again from its four digits, the
\* way timer_read takes it apart.
LEMMA FourDigits ==
    ASSUME NEW v \in 0..(Wrap - 1)
    PROVE  LET l == v \div Base
           IN  /\ l \in 0..(Base * Base * Base - 1)
               /\ v = (v % Base)
                      + Base * ((l % Base)
                                + Base * (((l \div Base) % Base)
                                          + Base * ((l \div (Base * Base)) % Base)))
  <1> DEFINE l == v \div Base
             m == l \div Base
             h == m \div Base
  <1>0. Base \in Nat \ {0} /\ Base * Base * Base \in Nat /\ Base * Base \in Nat /\ Wrap \in Nat
    BY TimerAssumption DEF Wrap
  <1>1. v \in Nat
    BY <1>0
  <1>2. l \in 0..(Base * Base * Base - 1)
    <2>1. Wrap = Base * (Base * Base * Base)
      BY <1>0 DEF Wrap
    <2> QED
      BY <1>0, <2>1, DivBelow
  <1>3. m \in 0..(Base * Base - 1)
    <2>1. Base * Base * Base = Base * (Base * Base)
      BY <1>0
    <2> HIDE DEF l
    <2> QED
      BY <1>0, <1>2, <2>1, DivBelow
  <1>4. h \in 0..(Base - 1)
    <2> HIDE DEF m
    <2> QED
      BY <1>0, <1>3, DivBelow
  <1>5. l \div (Base * Base) = h
    <2>1. l \in Nat
      BY <1>0, <1>2
    <2> HIDE DEF l
    <2>2. l \div (Base * Base) = (l \div Base) \div Base
      BY <1>0, <2>1, DivDiv
    <2> QED
      BY <2>2
  <1>6. v = Base * l + (v % Base)
    BY <1>0, <1>1, DivMod
  <1>7. l = Base * m + (l % Base)
    <2> HIDE DEF l
    <2> QED
      BY <1>0, <1>2, DivMod
  <1>8. m = Base * h + (m % Base)
    <2> HIDE DEF m
    <2> QED
      BY <1>0, <1>3, DivMod
  <1>9. h % Base = h
    <2> HIDE DEF h
    <2>1. h \in Nat /\ h = Base * 0 + h
      BY <1>4, <1>0
    <2> QED
      BY <1>0, <1>4, <2>1, DivUnique
  <1>10. v % Base \in Nat /\ l % Base \in Nat /\ m % Base \in Nat
    <2>1. v % Base \in Nat
      BY <1>0, <1>1, DivMod
    <2>2. l % Base \in Nat
      <3> HIDE DEF l
      <3> QED
        BY <1>0, <1>2, DivMod
    <2>3. m % Base \in Nat
      <3> HIDE DEF m
      <3> QED
        BY <1>0, <1>3, DivMod
    <2> QED
      BY <2>1, <2>2, <2>3
  <1>11. v = (v % Base) + Base * ((l % Base) + Base * ((m % Base) + Base * h))
    <2> HIDE DEF l, m, h
    <2>1. m = (m % Base) + Base * h
      BY <1>0, <1>3, <1>4, <1>8, <1>10
    <2>2. l = (l % Base) + Base * m
      BY <1>0, <1>2, <1>3, <1>7, <1>10
    <2>3. v = (v % Base) + Base * l
      BY <1>0, <1>1, <1>2, <1>6, <1>10
    <2> QED
      BY <2>1, <2>2, <2>3
  <1> QED
    BY <1>2, <1>5, <1>9, <1>11

-----------------------------------------------------------------------------
(* The invariant: what the guest has read so far are the digits of began,   *)
(* and the latch still holds the upper ones.                                *)

\* The digit of began that register reg shows.
Digit(reg) ==
    CASE reg = 0 -> began % Base
      [] reg = 1 -> (began \div Base) % Base
      [] reg = 2 -> ((began \div Base) \div Base) % Base
      [] reg = 3 -> ((began \div Base) \div (Base * Base)) % Base

Reading ==
    /\ DOMAIN got # {} => 0 \in DOMAIN got /\ timer_latch = began \div Base
    /\ \A r \in DOMAIN got : got[r] = Digit(r)

IInv == TypeOK /\ CountsEveryClock /\ Reading

LEMMA ConstantTypes ==
    /\ Base \in Nat \ {0}
    /\ Wrap \in Nat \ {0}
    /\ Base * Base \in Nat \ {0}
    /\ Base * Base * Base \in Nat \ {0}
    /\ ClksPerMs \in Nat \ {0}
  BY TimerAssumption DEF Wrap

\* What a register shows is a byte.
LEMMA ByteReadType ==
    ASSUME TypeOK, NEW reg \in Regs
    PROVE  ByteRead(reg) \in Byte
  <1>1. timer_ms \in Nat /\ timer_latch \in Nat
    BY ConstantTypes DEF TypeOK
  <1>2. timer_latch \div Base \in Nat /\ timer_latch \div (Base * Base) \in Nat
    BY <1>1, ConstantTypes, DivMod
  <1>3. timer_ms % Base \in Byte /\ timer_latch % Base \in Byte
    BY <1>1, ConstantTypes, DivMod DEF Byte
  <1>4. /\ (timer_latch \div Base) % Base \in Byte
        /\ (timer_latch \div (Base * Base)) % Base \in Byte
    BY <1>2, ConstantTypes, DivMod DEF Byte
  <1> QED
    BY <1>3, <1>4 DEF ByteRead, Regs

\* What a reading captures fits the latch.
LEMMA LatchType ==
    ASSUME TypeOK
    PROVE  timer_ms \div Base \in 0..(Base * Base * Base - 1)
  BY FourDigits DEF TypeOK

LEMMA InitHolds == Init => IInv
  <1> SUFFICES ASSUME Init PROVE IInv
    OBVIOUS
  <1>1. TypeOK
    BY TimerAssumption, ConstantTypes DEF Init, TypeOK, Byte
  <1>2. CountsEveryClock
    <2>1. 0 % Wrap = 0
      <3>1. 0 = Wrap * 0 + 0 /\ 0 \in 0..(Wrap - 1)
        BY ConstantTypes
      <3> QED
        BY <3>1, ConstantTypes, DivUnique
    <2> QED
      BY <2>1, ConstantTypes DEF Init, CountsEveryClock
  <1>3. Reading
    BY DEF Init, Reading
  <1> QED
    BY <1>1, <1>2, <1>3 DEF IInv

\* An instruction: the clocks are carried into milliseconds without a loss.
LEMMA StepHolds ==
    ASSUME IInv, NEW clocks \in 1..MaxClocks, Step(clocks)
    PROVE  IInv'
  <1> USE ConstantTypes
  <1> DEFINE d == timer_div + clocks
             t == d \div ClksPerMs
  <1>1. /\ timer_div \in 0..(ClksPerMs - 1) /\ timer_ms \in 0..(Wrap - 1)
        /\ total \in 0..MaxTotal /\ clocks \in Nat \ {0}
    BY TimerAssumption DEF IInv, TypeOK
  <1>2. d \in Nat
    BY <1>1
  <1>3. /\ t \in Nat
        /\ d - t * ClksPerMs \in 0..(ClksPerMs - 1)
        /\ d = ClksPerMs * t + (d - t * ClksPerMs)
    <2> HIDE DEF d
    <2>1. /\ t \in Nat /\ d % ClksPerMs \in 0..(ClksPerMs - 1)
          /\ d = ClksPerMs * t + (d % ClksPerMs)
      BY <1>2, DivMod
    <2> HIDE DEF t
    <2>2. d - t * ClksPerMs = d % ClksPerMs
      <3> DEFINE e == d % ClksPerMs
      <3>1. e \in Nat /\ d = ClksPerMs * t + e
        BY <2>1
      <3> HIDE DEF e
      <3>2. d - t * ClksPerMs = e
        BY <1>2, <2>1, <3>1
      <3> QED
        BY <3>2 DEF e
    <2> QED
      BY <1>2, <2>1, <2>2
  <1>4. /\ timer_ms' = (timer_ms + t) % Wrap
        /\ timer_div' = d - t * ClksPerMs
        /\ total' = total + clocks /\ total' <= MaxTotal
        /\ UNCHANGED <<timer_latch, got, began>>
    BY DEF Step, timer_step, Ticks
  <1> HIDE DEF d, t
  <1>5. TypeOK'
    <2>1. timer_ms' \in 0..(Wrap - 1)
      <3>1. timer_ms + t \in Nat
        BY <1>1, <1>3
      <3> QED
        BY <3>1, <1>4, DivMod
    <2>2. total' \in 0..MaxTotal
      BY <1>1, <1>4, TimerAssumption
    <2> QED
      BY <1>3, <1>4, <2>1, <2>2 DEF IInv, TypeOK
  <1>6. CountsEveryClock'
    <2>1. PICK ms \in 0..total : /\ total = ms * ClksPerMs + timer_div
                                 /\ timer_ms = ms % Wrap
      BY DEF IInv, CountsEveryClock
    <2>2. ms \in Nat /\ ms + t \in Nat
      BY <1>1, <1>3, <2>1
    <2>3. total' = (ms + t) * ClksPerMs + timer_div'
      <3>1. total' = ms * ClksPerMs + d
        BY <1>1, <1>4, <2>1, <2>2 DEF d
      <3>2. d = ClksPerMs * t + timer_div'
        BY <1>3, <1>4
      <3> QED
        BY <3>1, <3>2, <1>1, <1>2, <1>3, <1>4, <2>2
    <2>4. timer_ms' = (ms + t) % Wrap
      BY <1>3, <1>4, <2>1, <2>2, ModPlus
    <2>5. ms + t \in 0..total'
      <3>1. (ms + t) * ClksPerMs >= ms + t
        <4> DEFINE n == ms + t
        <4> HIDE DEF n
        <4>1. n \in Nat => n * ClksPerMs >= n
          OBVIOUS
        <4> QED
          BY <4>1, <2>2 DEF n
      <3> QED
        BY <3>1, <2>2, <2>3, <1>3, <1>4, <1>1
    <2> QED
      BY <2>3, <2>4, <2>5 DEF CountsEveryClock
  <1>7. Reading'
    BY <1>4 DEF IInv, Reading, Digit
  <1> QED
    BY <1>5, <1>6, <1>7 DEF IInv

\* The guest reads $9F90: the capture and the low digit are of one value.
LEMMA ReadLowHolds ==
    ASSUME IInv, GuestReadLow
    PROVE  IInv'
  <1>1. /\ timer_latch' = timer_ms \div Base
        /\ got' = [r \in {0} |-> timer_ms % Base]
        /\ began' = timer_ms
        /\ UNCHANGED <<timer_ms, timer_div, total>>
    BY DEF GuestReadLow, timer_read, Latched, ByteRead
  <1>2. TypeOK'
    <2>1. timer_ms % Base \in Byte
      BY ByteReadType DEF IInv, ByteRead, Regs
    <2> QED
      BY <1>1, <2>1, LatchType DEF IInv, TypeOK, Regs
  <1>3. CountsEveryClock'
    BY <1>1 DEF IInv, CountsEveryClock
  <1>4. Reading'
    BY <1>1 DEF Reading, Digit
  <1> QED
    BY <1>2, <1>3, <1>4 DEF IInv

\* The guest reads one of the captured bytes.
LEMMA ReadNextHolds ==
    ASSUME IInv, NEW reg \in Regs \ {0}, GuestReadNext(reg)
    PROVE  IInv'
  <1>1. /\ 0 \in DOMAIN got
        /\ got' = [r \in DOMAIN got \cup {reg} |->
                     IF r = reg THEN ByteRead(reg) ELSE got[r]]
        /\ UNCHANGED <<timer_ms, timer_div, timer_latch, total, began>>
    BY DEF GuestReadNext, timer_read, Latched
  <1>2. TypeOK'
    BY <1>1, ByteReadType DEF IInv, TypeOK
  <1>3. CountsEveryClock'
    BY <1>1 DEF IInv, CountsEveryClock
  <1>4. Reading'
    <2>1. timer_latch = began \div Base
      BY <1>1 DEF IInv, Reading
    <2>2. ByteRead(reg) = Digit(reg)
      BY <2>1 DEF ByteRead, Digit, Regs
    <2>3. \A r \in DOMAIN got' : Digit(r)' = Digit(r)
      BY <1>1 DEF Digit
    <2>4. \A r \in DOMAIN got' : got'[r] = Digit(r)
      BY <1>1, <2>2 DEF IInv, Reading
    <2>5. DOMAIN got' = DOMAIN got \cup {reg}
      BY <1>1
    <2> QED
      BY <1>1, <2>1, <2>3, <2>4, <2>5 DEF Reading
  <1> QED
    BY <1>2, <1>3, <1>4 DEF IInv

LEMMA NextHolds == IInv /\ [Next]_vars => IInv'
  <1> SUFFICES ASSUME IInv, [Next]_vars PROVE IInv'
    OBVIOUS
  <1>1. ASSUME NEW clocks \in 1..MaxClocks, Step(clocks) PROVE IInv'
    BY <1>1, StepHolds
  <1>2. CASE GuestReadLow
    BY <1>2, ReadLowHolds
  <1>3. ASSUME NEW reg \in Regs \ {0}, GuestReadNext(reg) PROVE IInv'
    BY <1>3, ReadNextHolds
  <1>4. ASSUME NEW reg \in Regs, Debugger(reg) PROVE IInv'
    <2>1. UNCHANGED vars
      BY <1>4 DEF Debugger, timer_read, Latched, vars, timer
    <2> QED
      BY <2>1 DEF IInv, TypeOK, CountsEveryClock, Reading, Digit, vars, timer
  <1>5. CASE MachineReset
    <2>1. Init'
      BY <1>5 DEF MachineReset, memory_reset, Init
    <2>2. TypeOK'
      BY <2>1, TimerAssumption, ConstantTypes DEF Init, TypeOK, Byte
    <2>3. CountsEveryClock'
      <3>1. 0 % Wrap = 0
        <4>1. 0 = Wrap * 0 + 0 /\ 0 \in 0..(Wrap - 1)
          BY ConstantTypes
        <4> QED
          BY <4>1, ConstantTypes, DivUnique
      <3> QED
        BY <3>1, <2>1, ConstantTypes DEF Init, CountsEveryClock
    <2>4. Reading'
      BY <2>1 DEF Init, Reading
    <2> QED
      BY <2>2, <2>3, <2>4 DEF IInv
  <1>6. CASE UNCHANGED vars
    BY <1>6 DEF IInv, TypeOK, CountsEveryClock, Reading, Digit, vars, timer
  <1> QED
    BY <1>1, <1>2, <1>3, <1>4, <1>5, <1>6 DEF Next

LEMMA ReadingIsWhole == IInv => ReadIsWhole
  <1> SUFFICES ASSUME IInv, DOMAIN got = Regs PROVE Value = began
    BY DEF ReadIsWhole
  <1>1. \A r \in Regs : got[r] = Digit(r)
    BY DEF IInv, Reading
  <1>2. /\ got[0] = began % Base
        /\ got[1] = (began \div Base) % Base
        /\ got[2] = ((began \div Base) \div Base) % Base
        /\ got[3] = ((began \div Base) \div (Base * Base)) % Base
    BY <1>1 DEF Digit, Regs
  <1>3. began \in 0..(Wrap - 1)
    BY DEF IInv, TypeOK
  <1> QED
    BY <1>2, <1>3, FourDigits DEF Value

\* In every run of the main loop, the counter holds the whole milliseconds
\* executed and the remainder the clocks beyond them, whatever instructions run,
\* for every clock rate (timer_step).
THEOREM TimerCounts == Spec => []CountsEveryClock
  <1>1. IInv => CountsEveryClock
    BY DEF IInv
  <1> QED
    BY <1>1, InitHolds, NextHolds, PTL DEF Spec

\* A guest that reads $9F90 first puts together a value the counter held,
\* whatever instructions run and whatever the debugger looks at in between, for
\* every width of a byte (timer_read).
THEOREM TimerReads == Spec => []ReadIsWhole
  <1> QED
    BY ReadingIsWhole, InitHolds, NextHolds, PTL DEF Spec

-----------------------------------------------------------------------------
(* A VIA's timers *)

\* The latches as numbers.
Latched1 == t1lo \in 0 .. ViaBase - 1 /\ t1hi \in 0 .. ViaBase - 1 /\ freeRun \in BOOLEAN

LEMMA TwoBytes ==
    ASSUME ViaAssumption, NEW hi \in 0 .. ViaBase - 1, NEW lo \in 0 .. ViaBase - 1
    PROVE  hi * ViaBase + lo \in 0 .. Top
<1>1. ViaBase \in Nat \ {0, 1} /\ hi \in Nat /\ lo \in Nat
  BY DEF ViaAssumption
<1>2. hi * ViaBase \in Nat /\ ViaBase * ViaBase \in Nat
  BY <1>1
<1>3. hi * ViaBase + ViaBase <= ViaBase * ViaBase
  <2>1. (ViaBase - 1 - hi) * ViaBase >= 0
    BY <1>1
  <2>2. (ViaBase - 1 - hi) * ViaBase = ViaBase * ViaBase - ViaBase - hi * ViaBase
    BY <1>1
  <2> QED BY <1>1, <1>2, <2>1, <2>2
<1> QED BY <1>1, <1>2, <1>3 DEF Top, Width

LEMMA ViaSizes ==
    ASSUME ViaAssumption
    PROVE  Top \in Nat /\ Width = Top + 1 /\ ViaClocks \in 1 .. Top
<1>1. ViaBase * ViaBase \in Nat
  BY DEF ViaAssumption
<1>2. ViaClocks \in 1 .. ViaBase * ViaBase - 1
  BY DEF ViaAssumption
<1> QED BY <1>1, <1>2 DEF Top, Width

LEMMA ReloadType == ASSUME ViaAssumption, Latched1 PROVE Reload \in 0 .. Top
BY TwoBytes DEF Reload, Latched1

\* A state of the timer, field by field.
LEMMA T1Fields ==
    ASSUME ViaAssumption, NEW s \in T1State
    PROVE  /\ s.cnt \in 0 .. Top /\ s.cnt \in Int /\ s.m1 \in BOOLEAN
           /\ s.running \in BOOLEAN /\ s.ifr \in BOOLEAN
BY ViaSizes DEF T1State

\* Passing zero once more sets no other flag.
LEMMA ExpireOnce ==
    ASSUME ViaAssumption, Latched1, NEW s \in T1State
    PROVE  /\ Expire(s) \in T1State
           /\ Expire(s).cnt = s.cnt /\ Expire(s).m1 = s.m1
           /\ Expire(s).ifr = (s.ifr \/ s.running)
           /\ Expire(s).running = (s.running /\ freeRun)
<1>1. (s.running /\ freeRun) \in BOOLEAN /\ (s.ifr \/ s.running) \in BOOLEAN
  OBVIOUS
<1> QED BY <1>1 DEF Expire, T1State

-----------------------------------------------------------------------------
(* One turn of the loop *)

Turned == [taken : Nat, s : T1State]

LEMMA TurnType ==
    ASSUME ViaAssumption, Latched1, NEW c \in Nat \ {0}, NEW s \in T1State
    PROVE  Turn(c, s).s \in T1State /\ Turn(c, s).taken \in 1 .. c
<1> DEFINE R == Reload
           x == Expire(s)
<1>1. R \in 0 .. Top /\ Top \in Nat
  BY ReloadType, ViaSizes
<1>2. s.cnt \in 0 .. Top /\ s.cnt \in Int /\ s.m1 \in BOOLEAN
  BY T1Fields
<1>3. x \in T1State
  BY ExpireOnce
<1>8. Top \in 0 .. Top
  BY <1>1
<1> HIDE DEF R, x
<1>4. CASE s.m1
  <2> DEFINE taken == Lesser(c, R + 1)
  <2>1. taken \in 1 .. c /\ R + 1 - taken \in 0 .. Top
    BY <1>1 DEF Lesser
  <2> HIDE DEF taken
  <2>2. Turn(c, s) = [taken |-> taken, s |-> [s EXCEPT !.cnt = R + 1 - taken, !.m1 = FALSE]]
    BY <1>4 DEF Turn, taken, R
  <2>3. [s EXCEPT !.cnt = R + 1 - taken, !.m1 = FALSE] \in T1State
    BY <2>1, Zenon DEF T1State
  <2> QED BY <2>1, <2>2, <2>3
<1>5. CASE ~ s.m1 /\ s.cnt >= c
  <2>1. Turn(c, s) = [taken |-> c, s |-> [s EXCEPT !.cnt = s.cnt - c]]
    BY <1>5 DEF Turn
  <2>2. s.cnt - c \in 0 .. Top
    BY <1>1, <1>2, <1>5
  <2> QED BY <2>1, <2>2 DEF T1State
<1>6. CASE ~ s.m1 /\ ~ (s.cnt >= c) /\ c = s.cnt + 1
  <2>1. Turn(c, s) = [taken |-> 1, s |-> [x EXCEPT !.cnt = Top, !.m1 = TRUE]]
    BY <1>6 DEF Turn, x
  <2>2. [x EXCEPT !.cnt = Top, !.m1 = TRUE] \in T1State
    BY <1>3, <1>8, Zenon DEF T1State
  <2> QED BY <2>1, <2>2
<1>7. CASE ~ s.m1 /\ ~ (s.cnt >= c) /\ c # s.cnt + 1
  <2> DEFINE P == s.cnt + R + 2
             taken == Lesser(c, P)
  <2>1. taken \in 1 .. c /\ P - taken \in 0 .. Top
    BY <1>1, <1>2, <1>7 DEF Lesser
  <2> HIDE DEF taken, P
  <2>2. Turn(c, s) = [taken |-> taken, s |-> [x EXCEPT !.cnt = P - taken]]
    BY <1>7 DEF Turn, Period, taken, P, R, x
  <2>3. [x EXCEPT !.cnt = P - taken] \in T1State
    BY <1>3, <2>1 DEF T1State
  <2> QED BY <2>1, <2>2, <2>3
<1> QED BY <1>2, <1>4, <1>5, <1>6, <1>7

-----------------------------------------------------------------------------
(* The loop *)

Turns == [left : Nat, s : T1State]

LEMMA LoopTurnType ==
    ASSUME ViaAssumption, Latched1, NEW l \in Turns
    PROVE  /\ LoopTurn(l) \in Turns
           /\ l.left = 0 => LoopTurn(l) = l
           /\ l.left # 0 => LoopTurn(l).left < l.left
<1>1. l.left \in Nat /\ l.s \in T1State
  BY DEF Turns
<1>2. CASE l.left = 0
  BY <1>2 DEF LoopTurn
<1>3. CASE l.left # 0
  <2> DEFINE turn == Turn(l.left, l.s)
  <2>1. turn.s \in T1State /\ turn.taken \in 1 .. l.left
    BY <1>1, <1>3, TurnType
  <2>2. LoopTurn(l) = [left |-> l.left - turn.taken, s |-> turn.s]
    BY <1>3 DEF LoopTurn
  <2> HIDE DEF turn
  <2> QED BY <1>1, <1>3, <2>1, <2>2 DEF Turns
<1> QED BY <1>2, <1>3

\* The loop is a sequence of turns.
LoopOf(A, c, s) ==
    /\ A \in [Nat -> Turns]
    /\ A[0] = [left |-> c, s |-> s]
    /\ \A n \in Nat : A[n + 1] = LoopTurn(A[n])

LEMMA Timer1Loop ==
    ASSUME ViaAssumption, Latched1, NEW c \in Nat, NEW s \in T1State
    PROVE  \E A : LoopOf(A, c, s) /\ Timer1(c, s) = A[c].s
<1> DEFINE start == [left |-> c, s |-> s]
           G == [x \in Turns |-> LoopTurn(x)]
           Is(f) == f = [i \in Nat |-> IF i = 0 THEN [left |-> c, s |-> s] ELSE LoopTurn(f[i - 1])]
           A == CHOOSE f : Is(f)
<1>1. G \in [Turns -> Turns]
  BY LoopTurnType
<1>2. start \in Turns
  BY DEF Turns
<1>3. PICK F \in [Nat -> Turns] : F[0] = start /\ \A n \in Nat : F[n + 1] = G[F[n]]
  <2> HIDE DEF G, start
  <2> QED BY <1>1, <1>2, Recursion
<1>4. ASSUME NEW i \in Nat, i # 0 PROVE F[i] = LoopTurn(F[i - 1])
  <2>1. i - 1 \in Nat /\ (i - 1) + 1 = i
    BY <1>4
  <2>2. F[i] = G[F[i - 1]] /\ F[i - 1] \in Turns
    BY <1>3, <2>1
  <2> QED BY <2>1, <2>2
<1>5. Is(F)
  <2> HIDE DEF G
  <2> QED BY <1>3, <1>4
<1>6. Is(A)
  <2> HIDE DEF Is
  <2> QED BY <1>5
<1>7. Timer1(c, s) = A[c].s
  BY DEF Timer1
<1> HIDE DEF A
<1>8. A[0] = start
  BY <1>6
<1>9. ASSUME NEW n \in Nat PROVE A[n + 1] = LoopTurn(A[n])
  <2>1. n + 1 \in Nat /\ n + 1 # 0 /\ (n + 1) - 1 = n
    OBVIOUS
  <2> QED BY <1>6, <2>1
<1>10. A \in [Nat -> Turns]
  <2> DEFINE T == {n \in Nat : A[n] \in Turns}
  <2>1. 0 \in T
    BY <1>2, <1>8
  <2>2. ASSUME NEW n \in T PROVE n + 1 \in T
    <3>1. n \in Nat /\ A[n] \in Turns
      OBVIOUS
    <3> QED BY <1>9, <3>1, LoopTurnType
  <2>3. T \in SUBSET Nat
    OBVIOUS
  <2>4. T = Nat
    <3> HIDE DEF T
    <3> QED BY <2>1, <2>2, <2>3, Induction
  <2> QED BY <1>6, <2>4
<1> HIDE DEF Is
<1> QED BY <1>7, <1>8, <1>9, <1>10 DEF LoopOf

\* A turn takes a clock, so the loop has stopped after as many turns as clocks,
\* and stays so.
LEMMA LoopStops ==
    ASSUME ViaAssumption, Latched1, NEW c \in Nat, NEW s \in T1State, NEW A, LoopOf(A, c, s)
    PROVE  \A n \in Nat : n >= c => A[n] = A[c] /\ A[n].left = 0
<1>0. A \in [Nat -> Turns] /\ A[0] = [left |-> c, s |-> s]
      /\ \A n \in Nat : A[n + 1] = LoopTurn(A[n])
  BY DEF LoopOf
<1> DEFINE T == {n \in Nat : A[n].left = 0 \/ A[n].left + n <= c}
           S == {n \in Nat : n >= c => A[n] = A[c]}
<1>1. T = Nat
  <2>1. 0 \in T
    BY <1>0
  <2>2. ASSUME NEW n \in T PROVE n + 1 \in T
    <3>1. n \in Nat /\ A[n] \in Turns /\ A[n].left \in Nat
      BY <1>0 DEF Turns
    <3>2. A[n + 1] = LoopTurn(A[n]) /\ A[n + 1] \in Turns /\ A[n + 1].left \in Nat
      BY <1>0, <3>1 DEF Turns
    <3>3. A[n].left = 0 => A[n + 1] = A[n]
      BY <3>1, <3>2, LoopTurnType
    <3>4. A[n].left # 0 => A[n + 1].left < A[n].left
      BY <3>1, <3>2, LoopTurnType
    <3> QED BY <3>1, <3>2, <3>3, <3>4
  <2>3. T \in SUBSET Nat
    OBVIOUS
  <2> HIDE DEF T
  <2> QED BY <2>1, <2>2, <2>3, Induction
<1>2. \A n \in Nat : n >= c => A[n].left = 0
  <2> SUFFICES ASSUME NEW n \in Nat, n >= c PROVE A[n].left = 0
    OBVIOUS
  <2>1. A[n].left \in Nat
    BY <1>0 DEF Turns
  <2> QED BY <1>1, <2>1
<1>3. S = Nat
  <2>1. 0 \in S
    OBVIOUS
  <2>2. ASSUME NEW n \in S PROVE n + 1 \in S
    <3> SUFFICES ASSUME n + 1 >= c PROVE A[n + 1] = A[c]
      OBVIOUS
    <3>1. CASE n + 1 = c
      BY <3>1
    <3>2. CASE n + 1 # c
      <4>1. n \in Nat /\ n >= c /\ A[n] = A[c] /\ A[n].left = 0 /\ A[n] \in Turns
        BY <1>0, <1>2, <3>2
      <4>2. A[n + 1] = LoopTurn(A[n])
        BY <1>0, <4>1
      <4>3. LoopTurn(A[n]) = A[n]
        BY <4>1, LoopTurnType
      <4> QED BY <4>1, <4>2, <4>3
    <3> QED BY <3>1, <3>2
  <2>3. S \in SUBSET Nat
    OBVIOUS
  <2> HIDE DEF S
  <2> QED BY <2>1, <2>2, <2>3, Induction
<1> QED BY <1>2, <1>3

\* Two loops that begin alike are alike.
LEMMA LoopsAlike ==
    ASSUME NEW c, NEW s, NEW d, NEW u, NEW A, NEW B, LoopOf(A, c, s), LoopOf(B, d, u),
           NEW k \in Nat, A[k] = B[0]
    PROVE  \A n \in Nat : A[k + n] = B[n]
<1> DEFINE T == {n \in Nat : A[k + n] = B[n]}
<1>1. 0 \in T
  <2>1. k + 0 = k
    OBVIOUS
  <2> QED BY <2>1
<1>2. ASSUME NEW n \in T PROVE n + 1 \in T
  <2>1. n \in Nat /\ k + n \in Nat /\ k + (n + 1) = (k + n) + 1 /\ A[k + n] = B[n]
    OBVIOUS
  <2>2. A[(k + n) + 1] = LoopTurn(A[k + n]) /\ B[n + 1] = LoopTurn(B[n])
    BY <2>1 DEF LoopOf
  <2> QED BY <2>1, <2>2
<1>3. T \in SUBSET Nat
  OBVIOUS
<1>4. T = Nat
  <2> HIDE DEF T
  <2> QED BY <1>1, <1>2, <1>3, Induction
<1> QED BY <1>4

\* The loop, turn by turn.
LEMMA Timer1Type ==
    ASSUME ViaAssumption, Latched1, NEW c \in Nat, NEW s \in T1State
    PROVE  Timer1(c, s) \in T1State
<1>1. PICK A : LoopOf(A, c, s) /\ Timer1(c, s) = A[c].s
  BY Timer1Loop
<1> QED BY <1>1 DEF LoopOf, Turns

LEMMA Timer1None ==
    ASSUME ViaAssumption, Latched1, NEW s \in T1State PROVE Timer1(0, s) = s
<1>1. PICK A : LoopOf(A, 0, s) /\ Timer1(0, s) = A[0].s
  BY Timer1Loop
<1> QED BY <1>1 DEF LoopOf

LEMMA Timer1Turn ==
    ASSUME ViaAssumption, Latched1, NEW c \in Nat \ {0}, NEW s \in T1State
    PROVE  Timer1(c, s) = Timer1(c - Turn(c, s).taken, Turn(c, s).s)
<1> DEFINE taken == Turn(c, s).taken
           u == Turn(c, s).s
           d == c - taken
<1>1. taken \in 1 .. c /\ u \in T1State
  BY TurnType
<1> HIDE DEF taken, u
<1>2. d \in Nat /\ d <= c - 1 /\ c - 1 \in Nat
  BY <1>1
<1>3. PICK A : LoopOf(A, c, s) /\ Timer1(c, s) = A[c].s
  BY Timer1Loop
<1>4. PICK B : LoopOf(B, d, u) /\ Timer1(d, u) = B[d].s
  BY <1>1, <1>2, Timer1Loop
<1>5. A[1] = B[0]
  <2>1. A[0] = [left |-> c, s |-> s] /\ A[0 + 1] = LoopTurn(A[0])
    BY <1>3 DEF LoopOf
  <2>2. LoopTurn(A[0]) = [left |-> d, s |-> u]
    BY <2>1 DEF LoopTurn, taken, u
  <2> QED BY <1>4, <2>1, <2>2 DEF LoopOf
<1>6. A[1 + (c - 1)] = B[c - 1]
  BY <1>2, <1>3, <1>4, <1>5, LoopsAlike
<1>7. B[c - 1] = B[d]
  BY <1>1, <1>2, <1>4, LoopStops
<1> QED BY <1>2, <1>3, <1>4, <1>6, <1>7 DEF taken, u

-----------------------------------------------------------------------------
(* Clock by clock *)

LEMMA ClocksDefined ==
    ASSUME ViaAssumption, Latched1, NEW s \in T1State
    PROVE  /\ ClockByClock(0, s) = s
           /\ \A n \in Nat : /\ ClockByClock(n, s) \in T1State
                             /\ ClockByClock(n + 1, s) = Timer1(1, ClockByClock(n, s))
<1> DEFINE G == [x \in T1State |-> Timer1(1, x)]
           Is(f) == f = [i \in Nat |-> IF i = 0 THEN s ELSE Timer1(1, f[i - 1])]
           A == CHOOSE f : Is(f)
<1>1. G \in [T1State -> T1State]
  BY Timer1Type
<1>2. PICK F \in [Nat -> T1State] : F[0] = s /\ \A n \in Nat : F[n + 1] = G[F[n]]
  <2> HIDE DEF G
  <2> QED BY <1>1, Recursion
<1>3. ASSUME NEW i \in Nat, i # 0 PROVE F[i] = Timer1(1, F[i - 1])
  <2>1. i - 1 \in Nat /\ (i - 1) + 1 = i
    BY <1>3
  <2>2. F[i] = G[F[i - 1]] /\ F[i - 1] \in T1State
    BY <1>2, <2>1
  <2> QED BY <2>1, <2>2
<1>4. Is(F)
  <2> HIDE DEF G
  <2> QED BY <1>2, <1>3
<1>5. Is(A)
  <2> HIDE DEF Is
  <2> QED BY <1>4
<1>6. \A n : ClockByClock(n, s) = A[n]
  BY DEF ClockByClock
<1> HIDE DEF A
<1>7. A[0] = s
  BY <1>5
<1>8. ASSUME NEW n \in Nat PROVE A[n + 1] = Timer1(1, A[n])
  <2>1. n + 1 \in Nat /\ n + 1 # 0 /\ (n + 1) - 1 = n
    OBVIOUS
  <2> QED BY <1>5, <2>1
<1> DEFINE T == {n \in Nat : A[n] \in T1State}
<1>9. T = Nat
  <2>1. 0 \in T
    BY <1>7
  <2>2. ASSUME NEW n \in T PROVE n + 1 \in T
    <3>1. n \in Nat /\ A[n] \in T1State
      OBVIOUS
    <3> QED BY <1>8, <3>1, Timer1Type
  <2>3. T \in SUBSET Nat
    OBVIOUS
  <2> HIDE DEF T
  <2> QED BY <2>1, <2>2, <2>3, Induction
<1> QED BY <1>6, <1>7, <1>8, <1>9

\* Clocks may be counted in two parts.
LEMMA ClocksAdd ==
    ASSUME ViaAssumption, Latched1, NEW s \in T1State, NEW a \in Nat, NEW b \in Nat
    PROVE  ClockByClock(a + b, s) = ClockByClock(b, ClockByClock(a, s))
<1> DEFINE u == ClockByClock(a, s)
           T == {n \in Nat : ClockByClock(a + n, s) = ClockByClock(n, u)}
<1>1. u \in T1State
  BY ClocksDefined
<1> HIDE DEF u
<1>2. 0 \in T
  <2>1. a + 0 = a
    OBVIOUS
  <2> QED BY <1>1, <2>1, ClocksDefined DEF u
<1>3. ASSUME NEW n \in T PROVE n + 1 \in T
  <2>1. n \in Nat /\ a + n \in Nat /\ a + (n + 1) = (a + n) + 1
        /\ ClockByClock(a + n, s) = ClockByClock(n, u)
    OBVIOUS
  <2>2. ClockByClock((a + n) + 1, s) = Timer1(1, ClockByClock(a + n, s))
    BY <2>1, ClocksDefined
  <2>3. ClockByClock(n + 1, u) = Timer1(1, ClockByClock(n, u))
    BY <1>1, <2>1, ClocksDefined
  <2> QED BY <2>1, <2>2, <2>3
<1>4. T \in SUBSET Nat
  OBVIOUS
<1>5. T = Nat
  <2> HIDE DEF T
  <2> QED BY <1>2, <1>3, <1>4, Induction
<1> QED BY <1>5 DEF u

\* One clock: the count goes down; at zero it goes past it; from there to the
\* latches' value.
At(s, n) == [s EXCEPT !.cnt = n, !.m1 = FALSE]
Past(s) == [Expire(s) EXCEPT !.cnt = Top, !.m1 = TRUE]

LEMMA AtType ==
    ASSUME ViaAssumption, NEW s \in T1State, NEW n \in 0 .. Top
    PROVE  /\ At(s, n) \in T1State /\ At(s, n).cnt = n /\ ~ At(s, n).m1
           /\ \A k \in 0 .. Top : At(At(s, n), k) = At(s, k)
           /\ ~ s.m1 => At(s, n) = [s EXCEPT !.cnt = n]
<1>1. At(s, n) \in T1State
  BY Zenon DEF At, T1State
<1>2. At(s, n).cnt = n /\ ~ At(s, n).m1
  BY DEF At, T1State
<1>3. \A k \in 0 .. Top : At(At(s, n), k) = At(s, k)
  BY DEF At, T1State
<1>4. ~ s.m1 => At(s, n) = [s EXCEPT !.cnt = n]
  BY DEF At, T1State
<1> QED BY <1>1, <1>2, <1>3, <1>4

LEMMA PastType ==
    ASSUME ViaAssumption, Latched1, NEW s \in T1State
    PROVE  /\ Past(s) \in T1State /\ Past(s).m1
           /\ \A k \in 0 .. Top : At(Past(s), k) = At(Expire(s), k)
<1> DEFINE x == Expire(s)
<1>1. x \in T1State /\ Top \in 0 .. Top
  BY ExpireOnce, ViaSizes
<1> HIDE DEF x
<1>2. [x EXCEPT !.cnt = Top, !.m1 = TRUE] \in T1State
  BY <1>1, Zenon DEF T1State
<1>3. [x EXCEPT !.cnt = Top, !.m1 = TRUE].m1
  BY <1>1 DEF T1State
<1>4. \A k \in 0 .. Top : At([x EXCEPT !.cnt = Top, !.m1 = TRUE], k) = At(x, k)
  BY <1>1 DEF At, T1State
<1> QED BY <1>2, <1>3, <1>4 DEF Past, x

LEMMA OneClock ==
    ASSUME ViaAssumption, Latched1, NEW s \in T1State
    PROVE  /\ s.m1 => Timer1(1, s) = At(s, Reload)
           /\ ~ s.m1 /\ s.cnt > 0 => Timer1(1, s) = At(s, s.cnt - 1)
           /\ ~ s.m1 /\ s.cnt = 0 => Timer1(1, s) = Past(s)
<1>1. s.cnt \in Nat /\ Reload \in Nat /\ s.m1 \in BOOLEAN /\ Top \in Nat /\ s.cnt \in 0 .. Top
  BY T1Fields, ReloadType, ViaSizes
<1>2. Turn(1, s).taken \in 1 .. 1 /\ Turn(1, s).s \in T1State
  BY TurnType
<1>3. Timer1(1, s) = Turn(1, s).s
  <2>1. 1 - Turn(1, s).taken = 0
    BY <1>2
  <2> QED BY <1>2, <2>1, Timer1Turn, Timer1None
<1>4. CASE s.m1
  <2>1. Lesser(1, Reload + 1) = 1 /\ Reload + 1 - 1 = Reload
    BY <1>1 DEF Lesser
  <2>2. Turn(1, s).s = [s EXCEPT !.cnt = Reload, !.m1 = FALSE]
    BY <1>4, <2>1 DEF Turn
  <2> QED BY <1>3, <1>4, <2>2 DEF At
<1>5. CASE ~ s.m1 /\ s.cnt > 0
  <2>1. s.cnt >= 1 /\ s.cnt - 1 \in 0 .. Top
    BY <1>1, <1>5
  <2>2. Turn(1, s).s = [s EXCEPT !.cnt = s.cnt - 1]
    BY <1>5, <2>1 DEF Turn
  <2> QED BY <1>3, <1>5, <2>1, <2>2, AtType
<1>6. CASE ~ s.m1 /\ s.cnt = 0
  <2>1. ~ (s.cnt >= 1) /\ 1 = s.cnt + 1
    BY <1>6
  <2>2. Turn(1, s).s = Past(s)
    BY <1>6, <2>1 DEF Turn, Past
  <2> QED BY <1>3, <1>6, <2>2
<1> QED BY <1>1, <1>4, <1>5, <1>6

\* So many clocks as the count has take it down.
LEMMA CountsDown ==
    ASSUME ViaAssumption, Latched1, NEW s \in T1State, ~ s.m1
    PROVE  \A n \in 0 .. s.cnt : ClockByClock(n, s) = At(s, s.cnt - n)
<1> DEFINE T == {n \in Nat : n <= s.cnt => ClockByClock(n, s) = At(s, s.cnt - n)}
<1>0. s.cnt \in Nat /\ s.cnt \in 0 .. Top /\ Top \in Nat
  BY T1Fields, ViaSizes
<1>1. 0 \in T
  <2>1. At(s, s.cnt) = s
    BY DEF At, T1State
  <2>2. s.cnt - 0 = s.cnt
    BY <1>0
  <2> QED BY <2>1, <2>2, ClocksDefined
<1>2. ASSUME NEW n \in T PROVE n + 1 \in T
  <2> SUFFICES ASSUME n + 1 <= s.cnt PROVE ClockByClock(n + 1, s) = At(s, s.cnt - (n + 1))
    OBVIOUS
  <2> DEFINE u == At(s, s.cnt - n)
  <2>1. n \in Nat /\ ClockByClock(n, s) = u /\ s.cnt - n \in 0 .. Top /\ s.cnt - n > 0
    BY <1>0
  <2>2. u \in T1State /\ u.cnt = s.cnt - n /\ ~ u.m1
    BY <2>1, AtType
  <2>3. Timer1(1, u) = At(u, u.cnt - 1)
    BY <2>1, <2>2, OneClock
  <2>4. u.cnt - 1 = s.cnt - (n + 1) /\ s.cnt - (n + 1) \in 0 .. Top
    BY <1>0, <2>1, <2>2
  <2>5. At(u, s.cnt - (n + 1)) = At(s, s.cnt - (n + 1))
    BY <2>1, <2>4, AtType
  <2> HIDE DEF u, T
  <2> QED BY <2>1, <2>3, <2>4, <2>5, ClocksDefined
<1>3. T \in SUBSET Nat
  OBVIOUS
<1>4. T = Nat
  <2> HIDE DEF T
  <2> QED BY <1>1, <1>2, <1>3, Induction
<1> QED BY <1>0, <1>4

\* From past zero, the latches' value and then down.
LEMMA CountsAgain ==
    ASSUME ViaAssumption, Latched1, NEW s \in T1State, s.m1, NEW n \in 1 .. Reload + 1
    PROVE  ClockByClock(n, s) = At(s, Reload + 1 - n)
<1> DEFINE u == At(s, Reload)
           R == Reload
<1>1. R \in 0 .. Top /\ R \in Nat
  BY ReloadType, ViaSizes
<1>2. Timer1(1, s) = u
  BY OneClock
<1>3. u \in T1State /\ u.cnt = R /\ ~ u.m1
  BY <1>1, AtType
<1>4. n - 1 \in 0 .. R /\ n - 1 \in Nat /\ 1 + (n - 1) = n /\ R - (n - 1) = R + 1 - n
      /\ R + 1 - n \in 0 .. Top
  BY <1>1, ViaSizes
<1>5. ClockByClock(1, s) = u
  <2>1. ClockByClock(0, s) = s /\ ClockByClock(0 + 1, s) = Timer1(1, ClockByClock(0, s))
    BY ClocksDefined
  <2> QED BY <1>2, <2>1
<1>6. At(u, R + 1 - n) = At(s, R + 1 - n)
  BY <1>1, <1>4, AtType
<1> HIDE DEF u, R
<1>7. ClockByClock(n - 1, u) = At(u, R - (n - 1))
  BY <1>3, <1>4, CountsDown
<1>8. ClockByClock(1 + (n - 1), s) = ClockByClock(n - 1, ClockByClock(1, s))
  BY <1>4, ClocksAdd
<1> QED BY <1>4, <1>5, <1>6, <1>7, <1>8 DEF R

\* The clocks for which the code keeps time.
Kept(c, s) == c # s.cnt + 1 \/ s.cnt = 0 \/ s.m1

\* A turn is so many clocks, and leaves the rest to be kept.
LEMMA TurnIsClocks ==
    ASSUME ViaAssumption, Latched1, NEW c \in Nat \ {0}, NEW s \in T1State, Kept(c, s)
    PROVE  LET t == Turn(c, s)
           IN  ClockByClock(t.taken, s) = t.s /\ (t.taken = c \/ Kept(c - t.taken, t.s))
<1> DEFINE R == Reload
           x == Expire(s)
           t == Turn(c, s)
<1>1. R \in 0 .. Top /\ R \in Nat /\ Top \in Nat
  BY ReloadType, ViaSizes
<1>2. s.cnt \in 0 .. Top /\ s.cnt \in Nat /\ s.m1 \in BOOLEAN
  BY T1Fields
<1>3. x \in T1State
  BY ExpireOnce
<1>4. CASE s.m1
  <2> DEFINE taken == Lesser(c, R + 1)
  <2>1. taken \in 1 .. R + 1 /\ R + 1 - taken \in 0 .. Top /\ (taken = c \/ taken = R + 1)
    BY <1>1 DEF Lesser
  <2>2. t = [taken |-> taken, s |-> At(s, R + 1 - taken)]
    BY <1>4 DEF Turn, At
  <2> HIDE DEF taken
  <2>3. ClockByClock(taken, s) = At(s, R + 1 - taken)
    BY <1>4, <2>1, CountsAgain
  <2>4. At(s, R + 1 - taken).cnt = R + 1 - taken
    BY <2>1, AtType
  <2>5. taken = c \/ Kept(c - taken, At(s, R + 1 - taken))
    BY <1>1, <2>1, <2>4 DEF Kept
  <2> HIDE DEF t
  <2> QED BY <2>2, <2>3, <2>5 DEF t
<1>5. CASE ~ s.m1 /\ s.cnt >= c
  <2>1. s.cnt - c \in 0 .. Top /\ c \in 0 .. s.cnt
    BY <1>1, <1>2, <1>5
  <2>2. t = [taken |-> c, s |-> [s EXCEPT !.cnt = s.cnt - c]]
    BY <1>5 DEF Turn
  <2>3. ClockByClock(c, s) = At(s, s.cnt - c)
    BY <1>5, <2>1, CountsDown
  <2>4. At(s, s.cnt - c) = [s EXCEPT !.cnt = s.cnt - c]
    BY <1>5, <2>1, AtType
  <2> HIDE DEF t
  <2> QED BY <2>2, <2>3, <2>4 DEF t
<1>6. CASE ~ s.m1 /\ s.cnt < c /\ c = s.cnt + 1
  <2>1. s.cnt = 0 /\ c = 1
    BY <1>2, <1>6 DEF Kept
  <2>2. t = [taken |-> 1, s |-> Past(s)]
    BY <1>2, <1>6 DEF Turn, Past
  <2>3. Timer1(1, s) = Past(s)
    BY <1>6, <2>1, OneClock
  <2>4. ClockByClock(0, s) = s /\ ClockByClock(0 + 1, s) = Timer1(1, ClockByClock(0, s))
    BY ClocksDefined
  <2>5. ClockByClock(1, s) = Past(s)
    BY <2>3, <2>4
  <2> HIDE DEF t
  <2> QED BY <2>1, <2>2, <2>5 DEF t
<1>7. CASE ~ s.m1 /\ s.cnt < c /\ c # s.cnt + 1
  <2> DEFINE n == s.cnt
             P == n + R + 2
             taken == Lesser(c, P)
             k == taken - n - 1
             z == At(s, 0)
             p == Past(z)
  <2>1. /\ taken \in Nat /\ k \in 1 .. R + 1 /\ taken = (n + 1) + k /\ n + 1 \in Nat /\ k \in Nat
        /\ R + 1 - k = P - taken /\ P - taken \in 0 .. Top /\ (taken = c \/ P - taken = 0)
    BY <1>1, <1>2, <1>7 DEF Lesser
  <2>2. t = [taken |-> taken, s |-> [x EXCEPT !.cnt = P - taken]]
    <3>1. ~ (s.cnt >= c)
      BY <1>2, <1>7
    <3> QED BY <1>7, <3>1 DEF Turn, Period
  <2> HIDE DEF taken, P, t
  <2>3. ClockByClock(n, s) = z
    <3>1. n \in 0 .. s.cnt /\ s.cnt - n = 0
      BY <1>2
    <3> QED BY <1>7, <3>1, CountsDown
  <2>4. z \in T1State /\ z.cnt = 0 /\ ~ z.m1
    <3>1. 0 \in 0 .. Top
      BY <1>1
    <3> QED BY <3>1, AtType
  <2>5. Timer1(1, z) = p
    BY <2>4, OneClock
  <2>6. ClockByClock(n + 1, s) = p
    BY <1>2, <2>3, <2>5, ClocksDefined
  <2>7. p \in T1State /\ p.m1
    BY <2>4, PastType
  <2>8. ClockByClock(k, p) = At(p, R + 1 - k)
    <3> HIDE DEF k, p
    <3> QED BY <2>1, <2>7, CountsAgain
  <2>9. ClockByClock(taken, s) = At(p, P - taken)
    <3> HIDE DEF k, p, n
    <3>1. ClockByClock((n + 1) + k, s) = ClockByClock(k, ClockByClock(n + 1, s))
      BY <2>1, ClocksAdd
    <3> QED BY <2>1, <2>6, <2>8, <3>1
  <2>10. At(p, P - taken) = [x EXCEPT !.cnt = P - taken]
    <3>1. At(p, P - taken) = At(Expire(z), P - taken)
      BY <2>1, <2>4, PastType
    <3>2. x.m1 = FALSE
      BY <1>7, ExpireOnce
    <3>3. \A q : At(Expire(z), q) = [x EXCEPT !.cnt = q]
      BY <1>7 DEF At, Expire, T1State
    <3> QED BY <3>1, <3>3
  <2>11. taken = c \/ Kept(c - taken, [x EXCEPT !.cnt = P - taken])
    BY <1>3, <2>1 DEF Kept, T1State
  <2> QED BY <2>2, <2>9, <2>10, <2>11 DEF t
<1> QED BY <1>2, <1>4, <1>5, <1>6, <1>7

\* Where the code keeps time, one step is as many as it has clocks.
LEMMA KeepsTime ==
    ASSUME ViaAssumption, Latched1
    PROVE  \A c \in Nat : \A s \in T1State : Kept(c, s) => Timer1(c, s) = ClockByClock(c, s)
<1> DEFINE Same(c) == \A s \in T1State : Kept(c, s) => Timer1(c, s) = ClockByClock(c, s)
           T == {n \in Nat : \A c \in 0 .. n : Same(c)}
<1>1. Same(0)
  BY Timer1None, ClocksDefined
<1>2. ASSUME NEW n \in Nat, \A c \in 0 .. n : Same(c) PROVE Same(n + 1)
  <2> SUFFICES ASSUME NEW s \in T1State, Kept(n + 1, s)
               PROVE  Timer1(n + 1, s) = ClockByClock(n + 1, s)
    OBVIOUS
  <2> DEFINE c == n + 1
             taken == Turn(c, s).taken
             u == Turn(c, s).s
             d == c - taken
  <2>1. c \in Nat \ {0}
    OBVIOUS
  <2>2. u \in T1State /\ taken \in 1 .. c
    BY <2>1, TurnType
  <2>3. ClockByClock(taken, s) = u /\ (taken = c \/ Kept(d, u))
    BY <2>1, TurnIsClocks
  <2>4. Timer1(c, s) = Timer1(d, u)
    BY <2>1, Timer1Turn
  <2> HIDE DEF taken, u
  <2>5. d \in 0 .. n /\ taken + d = c /\ taken \in Nat /\ d \in Nat
    BY <2>1, <2>2
  <2>6. ClockByClock(c, s) = ClockByClock(d, u)
    BY <2>3, <2>5, ClocksAdd
  <2>7. Kept(d, u)
    <3>1. taken = c => d = 0
      BY <2>5
    <3>2. d = 0 => d # u.cnt + 1
      BY <2>2, T1Fields, ViaSizes
    <3> QED BY <2>3, <3>1, <3>2 DEF Kept
  <2>8. Timer1(d, u) = ClockByClock(d, u)
    BY <1>2, <2>2, <2>5, <2>7
  <2> QED BY <2>4, <2>6, <2>8
<1> HIDE DEF Same
<1>3. 0 \in T
  <2>1. \A c \in 0 .. 0 : c = 0
    OBVIOUS
  <2> QED BY <1>1, <2>1
<1>4. ASSUME NEW n \in T PROVE n + 1 \in T
  <2>1. n \in Nat /\ \A c \in 0 .. n : Same(c)
    OBVIOUS
  <2>2. Same(n + 1)
    BY <1>2, <2>1
  <2>3. \A c \in 0 .. n + 1 : c \in 0 .. n \/ c = n + 1
    BY <2>1
  <2> QED BY <2>1, <2>2, <2>3
<1>5. T \in SUBSET Nat
  OBVIOUS
<1>6. T = Nat
  <2> HIDE DEF T
  <2> QED BY <1>3, <1>4, <1>5, Induction
<1>7. \A c \in Nat : Same(c)
  <2> SUFFICES ASSUME NEW c \in Nat PROVE Same(c)
    OBVIOUS
  <2>1. c \in T /\ c \in 0 .. c
    BY <1>6
  <2> QED BY <2>1
<1> QED BY <1>7 DEF Same

-----------------------------------------------------------------------------
(* The flags that a step leaves *)

FlagsKept(s, u) == (u.ifr <=> s.ifr) /\ (u.running <=> s.running)
FlagsSet(s, u) == (u.ifr <=> s.ifr \/ s.running) /\ (u.running <=> s.running /\ freeRun)

LEMMA TurnFlags ==
    ASSUME ViaAssumption, Latched1, NEW c \in Nat \ {0}, NEW s \in T1State
    PROVE  LET t == Turn(c, s)
           IN  \/ FlagsKept(s, t.s) /\ s.m1
               \/ /\ FlagsKept(s, t.s) /\ ~ s.m1 /\ s.cnt >= c
                  /\ t.taken = c /\ t.s = [s EXCEPT !.cnt = s.cnt - c]
               \/ FlagsSet(s, t.s) /\ ~ s.m1 /\ s.cnt < c
<1> DEFINE x == Expire(s)
           t == Turn(c, s)
<1>1. s.cnt \in Int /\ c \in Int
  BY T1Fields
<1>2. x \in T1State /\ (x.ifr <=> s.ifr \/ s.running) /\ (x.running <=> s.running /\ freeRun)
  BY ExpireOnce, Zenon
<1> HIDE DEF x
<1>3. CASE s.m1
  <2>1. t.s.ifr = s.ifr /\ t.s.running = s.running
    BY <1>3 DEF Turn, T1State
  <2> QED BY <1>3, <2>1 DEF FlagsKept
<1>4. CASE ~ s.m1 /\ s.cnt >= c
  <2>1. t = [taken |-> c, s |-> [s EXCEPT !.cnt = s.cnt - c]]
    BY <1>4 DEF Turn
  <2>2. t.s.ifr = s.ifr /\ t.s.running = s.running
    BY <2>1 DEF T1State
  <2> HIDE DEF t
  <2>3. t.taken = c /\ t.s = [s EXCEPT !.cnt = s.cnt - c]
    BY <2>1
  <2> QED BY <1>4, <2>2, <2>3 DEF FlagsKept, t
<1>5. CASE ~ s.m1 /\ s.cnt < c
  <2>1. ~ (s.cnt >= c)
    BY <1>1, <1>5
  <2>2. t.s = [x EXCEPT !.cnt = Top, !.m1 = TRUE]
        \/ \E n : t.s = [x EXCEPT !.cnt = n]
    BY <1>5, <2>1 DEF Turn, x
  <2>3. t.s.ifr = x.ifr /\ t.s.running = x.running
    <3> HIDE DEF t
    <3> QED BY <1>2, <2>2 DEF T1State
  <2>4. FlagsSet(s, t.s)
    BY <1>2, <2>3 DEF FlagsSet
  <2> QED BY <1>5, <2>4
<1>6. s.m1 \/ (~ s.m1 /\ s.cnt >= c) \/ (~ s.m1 /\ s.cnt < c)
  BY <1>1
<1> QED BY <1>3, <1>4, <1>5, <1>6

\* A step keeps the flags or sets them once; it sets them when the count runs
\* out, and only counts down when it does not.
StepFlags(c, s, u) ==
    /\ FlagsKept(s, u) \/ FlagsSet(s, u)
    /\ ~ s.m1 /\ s.cnt < c => FlagsSet(s, u)
    /\ ~ s.m1 /\ s.cnt >= c => u = [s EXCEPT !.cnt = s.cnt - c]

LEMMA TimerFlags ==
    ASSUME ViaAssumption, Latched1
    PROVE  \A c \in Nat : \A s \in T1State : StepFlags(c, s, Timer1(c, s))
<1> DEFINE Has(c) == \A s \in T1State : StepFlags(c, s, Timer1(c, s))
           T == {n \in Nat : \A c \in 0 .. n : Has(c)}
<1>1. Has(0)
  <2> SUFFICES ASSUME NEW s \in T1State PROVE StepFlags(0, s, s)
    BY Timer1None
  <2>1. ~ (s.cnt < 0)
    BY T1Fields
  <2>2. s = [s EXCEPT !.cnt = s.cnt - 0]
    <3>1. s.cnt - 0 = s.cnt
      BY T1Fields
    <3> QED BY <3>1 DEF T1State
  <2> QED BY <2>1, <2>2 DEF StepFlags, FlagsKept
<1>2. ASSUME NEW n \in Nat, \A c \in 0 .. n : Has(c) PROVE Has(n + 1)
  <2> SUFFICES ASSUME NEW s \in T1State PROVE StepFlags(n + 1, s, Timer1(n + 1, s))
    OBVIOUS
  <2> DEFINE c == n + 1
             taken == Turn(c, s).taken
             u == Turn(c, s).s
             d == c - taken
             v == Timer1(d, u)
  <2>1. c \in Nat \ {0}
    OBVIOUS
  <2>2. u \in T1State /\ taken \in 1 .. c
    BY <2>1, TurnType
  <2>3. Timer1(c, s) = v
    BY <2>1, Timer1Turn
  <2>4. \/ FlagsKept(s, u) /\ s.m1
        \/ FlagsKept(s, u) /\ ~ s.m1 /\ s.cnt >= c /\ taken = c /\ u = [s EXCEPT !.cnt = s.cnt - c]
        \/ FlagsSet(s, u) /\ ~ s.m1 /\ s.cnt < c
    BY <2>1, TurnFlags
  <2> HIDE DEF taken, u
  <2>5. d \in 0 .. n /\ d \in Nat
    BY <2>1, <2>2
  <2>6. StepFlags(d, u, v)
    BY <1>2, <2>2, <2>5
  <2>7. FlagsKept(u, v) \/ FlagsSet(u, v)
    BY <2>6 DEF StepFlags
  <2>8. s.cnt \in Int
    BY T1Fields
  <2> HIDE DEF v
  <2>9. CASE FlagsKept(s, u) /\ s.m1
    <3>1. FlagsKept(s, v) \/ FlagsSet(s, v)
      BY <2>7, <2>9, Zenon DEF FlagsKept, FlagsSet
    <3> QED BY <2>3, <2>9, <3>1 DEF StepFlags
  <2>10. CASE FlagsKept(s, u) /\ ~ s.m1 /\ s.cnt >= c /\ taken = c /\ u = [s EXCEPT !.cnt = s.cnt - c]
    <3>1. d = 0
      BY <2>1, <2>10
    <3>2. v = u
      BY <2>2, <3>1, Timer1None DEF v
    <3>3. ~ (s.cnt < c)
      BY <2>1, <2>8, <2>10
    <3> QED BY <2>3, <2>10, <3>2, <3>3 DEF StepFlags
  <2>11. CASE FlagsSet(s, u) /\ ~ s.m1 /\ s.cnt < c
    <3>1. FlagsSet(s, v)
      BY <2>7, <2>11, Zenon DEF FlagsKept, FlagsSet
    <3>2. ~ (s.cnt >= c)
      BY <2>1, <2>8, <2>11
    <3> QED BY <2>3, <2>11, <3>1, <3>2 DEF StepFlags
  <2> QED BY <2>4, <2>9, <2>10, <2>11
<1> HIDE DEF Has
<1>3. 0 \in T
  <2>1. \A c \in 0 .. 0 : c = 0
    OBVIOUS
  <2> QED BY <1>1, <2>1
<1>4. ASSUME NEW n \in T PROVE n + 1 \in T
  <2>1. n \in Nat /\ \A c \in 0 .. n : Has(c)
    OBVIOUS
  <2>2. Has(n + 1)
    BY <1>2, <2>1
  <2>3. \A c \in 0 .. n + 1 : c \in 0 .. n \/ c = n + 1
    BY <2>1
  <2> QED BY <2>1, <2>2, <2>3
<1>5. T \in SUBSET Nat
  OBVIOUS
<1>6. T = Nat
  <2> HIDE DEF T
  <2> QED BY <1>3, <1>4, <1>5, Induction
<1>7. \A c \in Nat : Has(c)
  <2> SUFFICES ASSUME NEW c \in Nat PROVE Has(c)
    OBVIOUS
  <2>1. c \in T /\ c \in 0 .. c
    BY <1>6
  <2> QED BY <2>1
<1> QED BY <1>7 DEF Has

-----------------------------------------------------------------------------
(* The inductive invariant: the interrupts that are due, and a one-shot timer *)
(* that has fired stays stopped, acknowledged or not.                        *)
ViaInv ==
    /\ ViaTypes /\ InterruptsOnTime /\ OneShotFiresOnce
    /\ oneShot => ~ freeRun
    /\ oneShot /\ left1 = 0 => ~ t1.running

LEMMA ViaInvSuffices == ASSUME ViaAssumption, ViaInv PROVE TimersOnTime
<1>1. Latched1
  BY DEF ViaInv, ViaTypes, Latched1
<1>2. KeepsTimeOtherwise
  <2> SUFFICES ASSUME NEW c \in 1 .. ViaClocks, Kept(c, t1)
               PROVE  Timer1(c, t1) = ClockByClock(c, t1)
    BY DEF KeepsTimeOtherwise, Kept
  <2>1. c \in Nat /\ t1 \in T1State
    BY ViaSizes DEF ViaInv, ViaTypes
  <2> QED BY <1>1, <2>1, KeepsTime
<1> QED BY <1>2 DEF ViaInv, TimersOnTime

LEMMA ViaStepType ==
    ASSUME ViaAssumption, ViaInv, NEW clocks \in 1 .. ViaClocks, via_step(clocks)
    PROVE  ViaTypes'
<1>0. /\ t1 \in T1State /\ t2 \in T2State /\ Latched1 /\ clocks \in Nat /\ clocks \in 1 .. Top
      /\ left1 \in 0 .. Width /\ left2 \in 0 .. Width /\ Width \in Nat /\ Top \in Nat /\ Width = Top + 1
  BY ViaSizes DEF ViaInv, ViaTypes, Latched1
<1>1. t1' \in T1State
  <2>1. t1' = Timer1(clocks, t1)
    BY DEF via_step
  <2> QED BY <1>0, <2>1, Timer1Type
<1> DEFINE ticks == Ticks2(clocks)
<1>5. ticks \in 0 .. Top
  BY <1>0 DEF Ticks2
<1>6. t2' = Timer2(ticks) /\ left2' = Passed(left2, ticks)
  BY DEF via_step
<1> HIDE DEF ticks
<1>2. t2' \in T2State
  <2>1. t2' = Timer2(ticks)
    BY <1>6
  <2>2. t2.cnt \in 0 .. Top /\ t2.running \in BOOLEAN /\ t2.ifr \in BOOLEAN
    BY <1>0 DEF T2State
  <2>3. CASE t2.cnt < ticks
    <3>1. Width + t2.cnt - ticks \in 0 .. Top
      BY <1>0, <1>5, <2>2, <2>3
    <3>2. (t2.ifr \/ t2.running) \in BOOLEAN
      BY <2>2
    <3>3. Timer2(ticks) = [cnt |-> Width + t2.cnt - ticks, running |-> FALSE,
                            ifr |-> t2.ifr \/ t2.running]
      BY <2>3 DEF Timer2
    <3>4. \A n \in 0 .. Top, r, i \in BOOLEAN : [cnt |-> n, running |-> r, ifr |-> i] \in T2State
      BY DEF T2State
    <3>5. FALSE \in BOOLEAN
      OBVIOUS
    <3> QED BY <2>1, <3>1, <3>2, <3>3, <3>4, <3>5, Zenon
  <2>4. CASE ~ (t2.cnt < ticks)
    <3>1. t2.cnt - ticks \in 0 .. Top
      BY <1>0, <1>5, <2>2, <2>4
    <3>2. Timer2(ticks) = [t2 EXCEPT !.cnt = t2.cnt - ticks]
      BY <2>4 DEF Timer2
    <3> QED BY <1>0, <2>1, <3>1, <3>2 DEF T2State
  <2> QED BY <2>3, <2>4
<1>3. left1' \in 0 .. Width /\ left2' \in 0 .. Width
  BY <1>0, <1>5, <1>6 DEF via_step, Passed
<1>4. {t1lo, t1hi, t2lo}' \subseteq 0 .. (ViaBase - 1) /\ freeRun' \in BOOLEAN /\ oneShot' \in BOOLEAN
      /\ awaited1' \in BOOLEAN /\ awaited2' \in BOOLEAN /\ pulseMode' \in BOOLEAN
  BY DEF via_step, ViaInv, ViaTypes, latches, modes
<1> QED BY <1>1, <1>2, <1>3, <1>4, ViaSizes DEF ViaTypes

LEMMA ViaStepTimer1 ==
    ASSUME ViaAssumption, ViaInv, NEW clocks \in 1 .. ViaClocks, via_step(clocks)
    PROVE  /\ awaited1' => t1.ifr'
           /\ left1' > 0 => ~ t1.ifr' /\ t1.running' /\ ~ t1.m1' /\ t1.cnt' = left1' - 1
           /\ oneShot' => ~ freeRun'
           /\ oneShot' /\ left1' = 0 => ~ t1.running'
           /\ oneShot' /\ left1' = 0 /\ ~ awaited1' => ~ t1.ifr'
<1> DEFINE u == Timer1(clocks, t1)
<1>0. /\ t1 \in T1State /\ Latched1 /\ clocks \in Nat \ {0}
      /\ left1 \in Nat
  BY ViaSizes DEF ViaInv, ViaTypes, Latched1
<1>1. t1' = u /\ left1' = Passed(left1, clocks) /\ oneShot' = oneShot /\ freeRun' = freeRun
      /\ (awaited1' <=> awaited1 \/ left1 \in 1 .. clocks)
  BY DEF via_step, modes
<1>2. StepFlags(clocks, t1, u)
  BY <1>0, TimerFlags
<1>3. t1.cnt \in Int
  BY <1>0, T1Fields
<1> HIDE DEF u
<1>4. (oneShot => ~ freeRun) /\ (oneShot /\ left1 = 0 => ~ t1.running)
      /\ (oneShot /\ left1 = 0 /\ ~ awaited1 => ~ t1.ifr) /\ (awaited1 => t1.ifr)
      /\ (left1 > 0 => ~ t1.ifr /\ t1.running /\ ~ t1.m1 /\ t1.cnt = left1 - 1)
  BY DEF ViaInv, InterruptsOnTime, OneShotFiresOnce
<1>5. CASE left1 > clocks
  <2>1. left1' = left1 - clocks /\ left1' > 0 /\ left1' # 0 /\ left1 > 0 /\ ~ (left1 \in 1 .. clocks)
    BY <1>0, <1>1, <1>5 DEF Passed
  <2>2. t1.cnt >= clocks /\ ~ t1.m1 /\ t1.cnt - clocks = left1' - 1
    BY <1>0, <1>3, <1>4, <1>5, <2>1
  <2>3. u = [t1 EXCEPT !.cnt = t1.cnt - clocks]
    BY <1>2, <2>2 DEF StepFlags
  <2>4. u.cnt = t1.cnt - clocks /\ u.ifr = t1.ifr /\ u.running = t1.running /\ u.m1 = t1.m1
    BY <1>0, <2>3 DEF T1State
  <2> QED BY <1>1, <1>4, <2>1, <2>2, <2>4
<1>6. CASE left1 > 0 /\ ~ (left1 > clocks)
  <2>1. left1' = 0 /\ ~ (left1' > 0) /\ left1 \in 1 .. clocks
    BY <1>0, <1>1, <1>6 DEF Passed
  <2>2. t1.cnt < clocks /\ ~ t1.m1 /\ t1.running
    BY <1>0, <1>3, <1>4, <1>6
  <2>3. FlagsSet(t1, u)
    BY <1>2, <2>2 DEF StepFlags
  <2>4. u.ifr /\ (u.running <=> freeRun)
    BY <2>2, <2>3 DEF FlagsSet
  <2> QED BY <1>1, <1>4, <2>1, <2>4
<1>7. CASE left1 = 0
  <2>1. left1' = 0 /\ ~ (left1' > 0) /\ ~ (left1 \in 1 .. clocks)
    BY <1>0, <1>1, <1>7 DEF Passed
  <2>2. FlagsKept(t1, u) \/ FlagsSet(t1, u)
    BY <1>2 DEF StepFlags
  <2> QED BY <1>1, <1>4, <1>7, <2>1, <2>2, Zenon DEF FlagsKept, FlagsSet
<1> QED BY <1>0, <1>5, <1>6, <1>7

LEMMA ViaStepTimer2 ==
    ASSUME ViaAssumption, ViaInv, NEW clocks \in 1 .. ViaClocks, via_step(clocks)
    PROVE  /\ t2.ifr' = awaited2'
           /\ t2.running' = (left2' > 0)
           /\ left2' > 0 => t2.cnt' = left2' - 1
<1>0. /\ t2 \in T2State /\ clocks \in Nat \ {0} /\ left2 \in Nat /\ awaited2 \in BOOLEAN
      /\ t2.cnt \in Nat /\ t2.running \in BOOLEAN /\ t2.ifr \in BOOLEAN
  BY ViaSizes DEF ViaInv, ViaTypes, T2State
<1> DEFINE ticks == Ticks2(clocks)
<1>5. ticks \in Nat
  BY <1>0 DEF Ticks2
<1>1. t2' = Timer2(ticks) /\ left2' = Passed(left2, ticks)
      /\ awaited2' = (awaited2 \/ left2 \in 1 .. ticks)
  BY DEF via_step
<1> HIDE DEF ticks
<1>2. t2.ifr = awaited2 /\ t2.running = (left2 > 0) /\ (left2 > 0 => t2.cnt = left2 - 1)
  BY DEF ViaInv, InterruptsOnTime
<1>3. CASE t2.cnt < ticks
  <2>1. t2' = [cnt |-> Width + t2.cnt - ticks, running |-> FALSE, ifr |-> t2.ifr \/ t2.running]
    BY <1>1, <1>3 DEF Timer2
  <2>2. t2.running' = FALSE /\ t2.ifr' = (t2.ifr \/ t2.running)
    BY <2>1
  <2>3. left2' = 0 /\ (left2 > 0 <=> left2 \in 1 .. ticks)
    BY <1>0, <1>1, <1>2, <1>3, <1>5 DEF Passed
  <2>4. (left2' > 0) = FALSE
    BY <2>3
  <2>5. (awaited2 \/ left2 \in 1 .. ticks) = (awaited2 \/ left2 > 0)
    BY <2>3
  <2> QED BY <1>0, <1>1, <1>2, <2>2, <2>4, <2>5
<1>4. CASE ~ (t2.cnt < ticks)
  <2>1. t2' = [t2 EXCEPT !.cnt = t2.cnt - ticks]
    BY <1>1, <1>4 DEF Timer2
  <2>2. t2.running' = t2.running /\ t2.ifr' = t2.ifr /\ t2.cnt' = t2.cnt - ticks
    BY <1>0, <2>1 DEF T2State
  <2>3. ~ (left2 \in 1 .. ticks) /\ (left2 > 0 <=> left2' > 0)
        /\ (left2 > 0 => left2' = left2 - ticks)
    BY <1>0, <1>1, <1>2, <1>4, <1>5 DEF Passed
  <2>4. t2.ifr' = awaited2'
    BY <1>0, <1>1, <1>2, <2>2, <2>3
  <2>5. t2.running' = (left2' > 0)
    BY <1>0, <1>2, <1>5, <2>2, <2>3
  <2>6. left2' > 0 => t2.cnt' = left2' - 1
    BY <1>0, <1>2, <1>5, <2>2, <2>3
  <2> QED BY <2>4, <2>5, <2>6
<1> QED BY <1>3, <1>4

LEMMA ViaInitial == ASSUME ViaAssumption, ViaInit PROVE ViaInv
<1>1. 0 \in 0 .. Top /\ 0 \in 0 .. ViaBase - 1 /\ 0 \in 0 .. Width /\ FALSE \in BOOLEAN
  BY ViaSizes DEF ViaAssumption
<1>2. t1 \in T1State /\ t1.ifr = FALSE /\ t1.running = FALSE
  <2>1. t1 = [cnt |-> 0, m1 |-> FALSE, running |-> FALSE, ifr |-> FALSE]
    BY DEF ViaInit
  <2>2. t1 \in T1State
    BY <1>1, <2>1, Zenon DEF T1State
  <2> QED BY <2>1, <2>2
<1>3. t2 \in T2State /\ t2.ifr = FALSE /\ t2.running = FALSE
  <2>1. t2 = [cnt |-> 0, running |-> FALSE, ifr |-> FALSE]
    BY DEF ViaInit
  <2>2. t2 \in T2State
    BY <1>1, <2>1, Zenon DEF T2State
  <2> QED BY <2>1, <2>2
<1>4. /\ t1lo = 0 /\ t1hi = 0 /\ t2lo = 0 /\ freeRun = FALSE /\ pulseMode = FALSE /\ left1 = 0 /\ left2 = 0
      /\ awaited1 = FALSE /\ awaited2 = FALSE /\ oneShot = FALSE
  BY DEF ViaInit
<1>5. ViaTypes
  BY <1>1, <1>2, <1>3, <1>4 DEF ViaTypes
<1>6. InterruptsOnTime
  <2>1. ~ (left1 > 0) /\ (left2 > 0) = FALSE
    BY <1>4
  <2> QED BY <1>2, <1>3, <1>4, <2>1 DEF InterruptsOnTime
<1> QED BY <1>2, <1>4, <1>5, <1>6 DEF ViaInv, OneShotFiresOnce

\* The actions that leave the counters alone.
LEMMA ViaAcknowledge ==
    ASSUME ViaAssumption, ViaInv, NEW value \in 0 .. ViaBase - 1,
           WriteT1L(value) \/ WriteT1LH(value) \/ AcknowledgeT1 \/ WriteT2L(value) \/ AcknowledgeT2
    PROVE  ViaInv'
<1>0. t1 \in T1State /\ t2 \in T2State
  BY DEF ViaInv, ViaTypes
<1>1. /\ t1' \in T1State /\ t1'.cnt = t1.cnt /\ t1'.m1 = t1.m1 /\ t1'.running = t1.running
      /\ (t1'.ifr => t1.ifr) /\ (awaited1' => awaited1 /\ t1'.ifr = t1.ifr)
      /\ (awaited1 /\ ~ awaited1' => ~ t1'.ifr) /\ awaited1' \in BOOLEAN
  <2>1. \/ t1' = t1 /\ awaited1' = awaited1
        \/ t1' = [t1 EXCEPT !.ifr = FALSE] /\ awaited1' = FALSE
    BY DEF WriteT1L, WriteT1LH, AcknowledgeT1, WriteT2L, AcknowledgeT2, ghosts
  <2>2. CASE t1' = t1 /\ awaited1' = awaited1
    BY <1>0, <2>2 DEF ViaInv, ViaTypes
  <2>3. CASE t1' = [t1 EXCEPT !.ifr = FALSE] /\ awaited1' = FALSE
    <3>1. t1' \in T1State
      BY <1>0, <2>3, Zenon DEF T1State
    <3>2. /\ t1'.cnt = t1.cnt /\ t1'.m1 = t1.m1 /\ t1'.running = t1.running
          /\ t1'.ifr = FALSE
      BY <1>0, <2>3 DEF T1State
    <3> QED BY <2>3, <3>1, <3>2
  <2> QED BY <2>1, <2>2, <2>3
<1>2. /\ t2' \in T2State /\ t2'.cnt = t2.cnt /\ t2'.running = t2.running
      /\ (t2.ifr = awaited2 => t2'.ifr = awaited2') /\ awaited2' \in BOOLEAN
  <2>1. \/ t2' = t2 /\ awaited2' = awaited2
        \/ t2' = [t2 EXCEPT !.ifr = FALSE] /\ awaited2' = FALSE
    BY DEF WriteT1L, WriteT1LH, AcknowledgeT1, WriteT2L, AcknowledgeT2, ghosts
  <2>2. CASE t2' = t2 /\ awaited2' = awaited2
    BY <1>0, <2>2 DEF ViaInv, ViaTypes
  <2>3. CASE t2' = [t2 EXCEPT !.ifr = FALSE] /\ awaited2' = FALSE
    <3>1. t2' \in T2State
      BY <1>0, <2>3, Zenon DEF T2State
    <3>2. t2'.cnt = t2.cnt /\ t2'.running = t2.running /\ t2'.ifr = FALSE
      BY <1>0, <2>3 DEF T2State
    <3> QED BY <2>3, <3>1, <3>2
  <2> QED BY <2>1, <2>2, <2>3
<1>3. left1' = left1 /\ left2' = left2 /\ oneShot' = oneShot /\ freeRun' = freeRun
      /\ pulseMode' = pulseMode
  BY DEF WriteT1L, WriteT1LH, AcknowledgeT1, WriteT2L, AcknowledgeT2, ghosts, latches, modes
<1>4. {t1lo, t1hi, t2lo}' \subseteq 0 .. (ViaBase - 1)
  BY DEF ViaInv, ViaTypes, WriteT1L, WriteT1LH, AcknowledgeT1, WriteT2L, AcknowledgeT2, latches
<1>5. ViaTypes'
  BY <1>1, <1>2, <1>3, <1>4 DEF ViaInv, ViaTypes
<1>6. InterruptsOnTime'
  BY <1>1, <1>2, <1>3 DEF ViaInv, InterruptsOnTime
<1>7. OneShotFiresOnce' /\ (oneShot' => ~ freeRun') /\ (oneShot' /\ left1' = 0 => ~ t1.running')
  BY <1>1, <1>3 DEF ViaInv, OneShotFiresOnce, InterruptsOnTime
<1> QED BY <1>5, <1>6, <1>7 DEF ViaInv

\* The actions that load a counter, switch the mode or reset the VIA.
LEMMA ViaLoad1 ==
    ASSUME ViaAssumption, ViaInv, NEW value \in 0 .. ViaBase - 1, WriteT1H(value)
    PROVE  ViaInv'
<1> DEFINE n == ReloadFrom(value)
<1>0. t1 \in T1State /\ t1.m1 \in BOOLEAN /\ n \in 0 .. Top /\ Width = Top + 1 /\ Top \in Nat
      /\ freeRun \in BOOLEAN
  <2>1. t1lo \in 0 .. ViaBase - 1
    BY DEF ViaInv, ViaTypes
  <2>2. n \in 0 .. Top
    BY <2>1, TwoBytes DEF ReloadFrom
  <2> QED BY <2>2, ViaSizes DEF ViaInv, ViaTypes, T1State
<1> HIDE DEF n
<1>1. t1' = [t1 EXCEPT !.cnt = n, !.running = TRUE, !.ifr = FALSE]
  BY DEF WriteT1H, Loaded, n
<1>2. left1' = (IF t1.m1 THEN 0 ELSE n + 1) /\ awaited1' = FALSE /\ oneShot' = (~ freeRun /\ ~ t1.m1)
      /\ UNCHANGED <<t2, t1lo, t2lo, freeRun, pulseMode, left2, awaited2>> /\ t1hi' = value
  BY DEF WriteT1H, n, modes
<1>3. t1' \in T1State
  BY <1>0, <1>1, Zenon DEF T1State
<1>4. t1'.cnt = n /\ t1'.m1 = t1.m1 /\ t1'.running = TRUE /\ t1'.ifr = FALSE
  BY <1>0, <1>1 DEF T1State
<1>5. left1' \in 0 .. Width /\ (left1' > 0 => ~ t1.m1 /\ n = left1' - 1) /\ (left1' = 0 => t1.m1)
  BY <1>0, <1>2
<1>6. oneShot' \in BOOLEAN /\ (oneShot' => ~ freeRun /\ ~ t1.m1)
  BY <1>0, <1>2, Zenon
<1>7. ViaTypes'
  BY <1>2, <1>3, <1>5, <1>6 DEF ViaInv, ViaTypes
<1>8. InterruptsOnTime'
  BY <1>2, <1>4, <1>5 DEF ViaInv, InterruptsOnTime
<1>9. OneShotFiresOnce' /\ (oneShot' => ~ freeRun') /\ (oneShot' /\ left1' = 0 => ~ t1.running')
  BY <1>2, <1>4, <1>5, <1>6 DEF OneShotFiresOnce
<1> QED BY <1>7, <1>8, <1>9 DEF ViaInv

LEMMA ViaLoad2 ==
    ASSUME ViaAssumption, ViaInv, NEW value \in 0 .. ViaBase - 1, WriteT2H(value)
    PROVE  ViaInv'
<1> DEFINE n == value * ViaBase + t2lo
<1>0. n \in 0 .. Top /\ Width = Top + 1 /\ Top \in Nat
  <2>1. t2lo \in 0 .. ViaBase - 1
    BY DEF ViaInv, ViaTypes
  <2> QED BY <2>1, TwoBytes, ViaSizes
<1> HIDE DEF n
<1>1. t2' = [cnt |-> n, running |-> TRUE, ifr |-> FALSE]
  BY DEF WriteT2H, n
<1>2. left2' = n + 1 /\ awaited2' = FALSE
      /\ UNCHANGED <<t1, t1lo, t1hi, t2lo, freeRun, pulseMode, left1, awaited1, oneShot>>
  BY DEF WriteT2H, n, latches, modes
<1>3. t2' \in T2State
  BY <1>0, <1>1, Zenon DEF T2State
<1>4. t2'.cnt = n /\ t2'.running = TRUE /\ t2'.ifr = FALSE
  BY <1>1
<1>5. left2' \in 0 .. Width /\ left2' > 0 /\ n = left2' - 1
  BY <1>0, <1>2
<1>6. ViaTypes'
  BY <1>2, <1>3, <1>5 DEF ViaInv, ViaTypes
<1>7. InterruptsOnTime'
  BY <1>2, <1>4, <1>5 DEF ViaInv, InterruptsOnTime
<1> QED BY <1>2, <1>6, <1>7 DEF ViaInv, OneShotFiresOnce

LEMMA ViaMode ==
    ASSUME ViaAssumption, ViaInv, NEW mode \in BOOLEAN, NEW pulses \in BOOLEAN,
           WriteACR(mode, pulses)
    PROVE  ViaInv'
<1>1. freeRun' = mode /\ pulseMode' = pulses /\ oneShot' = (oneShot /\ ~ mode)
      /\ UNCHANGED <<t1, t2, t1lo, t1hi, t2lo, left1, left2, awaited1, awaited2>>
  BY DEF WriteACR, latches
<1>2. oneShot' \in BOOLEAN /\ (oneShot' => oneShot /\ ~ mode)
  BY <1>1, Zenon
<1>3. ViaTypes'
  BY <1>1, <1>2 DEF ViaInv, ViaTypes
<1>4. InterruptsOnTime'
  BY <1>1 DEF ViaInv, InterruptsOnTime
<1> QED BY <1>1, <1>2, <1>3, <1>4 DEF ViaInv, OneShotFiresOnce

LEMMA ViaReset == ASSUME ViaAssumption, ViaInv, via_init PROVE ViaInv'
<1>0. t1 \in T1State /\ t2 \in T2State
  BY DEF ViaInv, ViaTypes
<1>1. /\ t1' = [t1 EXCEPT !.running = FALSE, !.m1 = FALSE, !.ifr = FALSE]
      /\ t2' = [t2 EXCEPT !.running = FALSE, !.ifr = FALSE]
      /\ freeRun' = FALSE /\ pulseMode' = FALSE /\ left1' = 0 /\ left2' = 0 /\ awaited1' = FALSE /\ awaited2' = FALSE
      /\ oneShot' = FALSE /\ UNCHANGED <<t1lo, t1hi, t2lo>>
  BY DEF via_init, Stopped, latches
<1>2. t1' \in T1State /\ t2' \in T2State
  BY <1>0, <1>1, Zenon DEF T1State, T2State
<1>3. t1'.ifr = FALSE /\ t1'.running = FALSE /\ t2'.ifr = FALSE /\ t2'.running = FALSE
  BY <1>0, <1>1 DEF T1State, T2State
<1>4. ViaTypes'
  <2>1. 0 \in 0 .. Width
    BY ViaSizes
  <2> QED BY <1>1, <1>2, <2>1 DEF ViaInv, ViaTypes
<1>5. InterruptsOnTime'
  <2>1. ~ (left1' > 0) /\ (left2' > 0) = FALSE
    BY <1>1
  <2> QED BY <1>1, <1>3, <2>1 DEF InterruptsOnTime
<1> QED BY <1>1, <1>4, <1>5 DEF ViaInv, OneShotFiresOnce

LEMMA ViaSteps == ASSUME ViaAssumption, ViaInv, [ViaNext]_viaVars PROVE ViaInv'
<1>0. Loads \subseteq 0 .. ViaBase - 1 /\ 0 \in 0 .. ViaBase - 1
  BY DEF ViaAssumption
<1>1. CASE \E clocks \in 1 .. ViaClocks : via_step(clocks)
  <2>1. PICK clocks \in 1 .. ViaClocks : via_step(clocks)
    BY <1>1
  <2>2. ViaTypes'
    BY <2>1, ViaStepType
  <2>3. /\ awaited1' => t1.ifr'
        /\ left1' > 0 => ~ t1.ifr' /\ t1.running' /\ ~ t1.m1' /\ t1.cnt' = left1' - 1
        /\ oneShot' => ~ freeRun'
        /\ oneShot' /\ left1' = 0 => ~ t1.running'
        /\ oneShot' /\ left1' = 0 /\ ~ awaited1' => ~ t1.ifr'
    BY <2>1, ViaStepTimer1
  <2>4. /\ t2.ifr' = awaited2'
        /\ t2.running' = (left2' > 0)
        /\ left2' > 0 => t2.cnt' = left2' - 1
    BY <2>1, ViaStepTimer2
  <2> QED BY <2>2, <2>3, <2>4 DEF ViaInv, InterruptsOnTime, OneShotFiresOnce
<1>2. CASE \E value \in Loads : \/ WriteT1L(value) \/ WriteT1H(value) \/ WriteT1LH(value)
                                \/ WriteT2L(value) \/ WriteT2H(value)
  BY <1>0, <1>2, ViaAcknowledge, ViaLoad1, ViaLoad2
<1>3. CASE AcknowledgeT1 \/ AcknowledgeT2
  BY <1>0, <1>3, ViaAcknowledge
<1>4. CASE \E mode, pulses \in BOOLEAN : WriteACR(mode, pulses)
  BY <1>4, ViaMode
<1>5. CASE via_init
  BY <1>5, ViaReset
<1>6. CASE UNCHANGED viaVars
  BY <1>6 DEF ViaInv, ViaTypes, InterruptsOnTime, OneShotFiresOnce, viaVars, ghosts, latches, modes
<1> QED BY <1>1, <1>2, <1>3, <1>4, <1>5, <1>6 DEF ViaNext

\* The interrupts of a VIA's timers come with the instructions they are due in,
\* a one-shot timer 1 interrupts once for a load, and an instruction's clocks
\* leave timer 1 where they leave it one by one, but for one case (via_step).
THEOREM ViaCorrect == ASSUME ViaAssumption PROVE ViaSpec => []TimersOnTime
<1>1. ViaInit => ViaInv
  BY ViaInitial
<1>2. ViaInv /\ [ViaNext]_viaVars => ViaInv'
  BY ViaSteps
<1>3. ViaInv => TimersOnTime
  BY ViaInvSuffices
<1> QED BY <1>1, <1>2, <1>3, PTL DEF ViaSpec

-----------------------------------------------------------------------------
(* The beam *)

\* The line of the screen at which the beam is, and the lines that the frame
\* draws: an interlaced one every other.
Here == IF ntsc_mode THEN NtscLine(ntsc_scan_pos_y) ELSE vga_scan_pos_y
Parity == IF ntsc_mode /\ ntsc_scan_pos_y >= SCAN_HEIGHT THEN 1 ELSE 0
InTurn(y) == ntsc_mode => y % 2 = Parity

\* The line that raises the line interrupt.  Its arrival at the very first line
\* is still the frame before's.
Compare == IF ntsc_mode THEN irq_line - (irq_line % 2) ELSE irq_line
First == IF ntsc_mode THEN -1 ELSE 0

\* A frame that the guest left alone has so far drawn the lines above the beam
\* and raised the interrupts of those it has come past.
SoFar ==
    Current.whole =>
        /\ ~ Current.stray
        /\ Current.drawn = {y \in Screen : InTurn(y) /\ y - Parity < Here}
        /\ Current.count["vsync"] = (IF Here >= SCREEN_HEIGHT THEN 1 ELSE 0)
        /\ Current.count["line"] = (IF First < Compare /\ Compare <= Here THEN 1 ELSE 0)
        /\ Current.shown \subseteq {v2_disp_latched}
        /\ Here < SCREEN_HEIGHT => Current.count["sprite"] = 0 /\ (Current.hit => coll)
        /\ Here >= SCREEN_HEIGHT /\ Current.hit => Current.count["sprite"] = 1

OneBase == since.whole => \E x : since.shown \subseteq {x}

BeamInv == BeamTypes /\ SoFar /\ EachFrameWhole /\ OncePerFrame /\ OneBase

History == [whole : BOOLEAN, count : [Kinds -> Nat], drawn : SUBSET Screen,
            shown : SUBSET DispBase, hit : BOOLEAN, stray : BOOLEAN]

LEMMA CurrentType == ASSUME BeamTypes PROVE Current \in History
<1>1. Fresh \in History
  BY DEF Fresh, History
<1>2. since \in History
  BY DEF BeamTypes, History
<1> QED BY <1>1, <1>2 DEF Current

LEMMA FreshFacts ==
    /\ Fresh \in History /\ Fresh.whole /\ Fresh.drawn = {} /\ Fresh.shown = {}
    /\ ~ Fresh.hit /\ ~ Fresh.stray /\ \A k \in Kinds : Fresh.count[k] = 0
    /\ Broken \in History /\ ~ Broken.whole /\ Broken.shown = {}
<1>1. /\ Fresh \in History /\ Fresh.whole /\ Fresh.drawn = {} /\ Fresh.shown = {}
      /\ ~ Fresh.hit /\ ~ Fresh.stray /\ \A k \in Kinds : Fresh.count[k] = 0
  BY DEF Fresh, History
<1>2. Broken \in History /\ ~ Broken.whole /\ Broken.shown = {}
  BY DEF Fresh, Broken, History
<1> QED BY <1>1, <1>2

\* What After does to the history, field by field.
Records(a, d, w, hit, raised) ==
    /\ a \in History
    /\ a.whole = Current.whole
    /\ Current.whole =>
          /\ \A k \in Kinds : a.count[k] = Current.count[k] + (IF k \in raised THEN 1 ELSE 0)
          /\ a.drawn = Current.drawn \cup w
          /\ a.shown = IF d = {} THEN Current.shown ELSE Current.shown \cup {v2_disp_latched}
          /\ a.hit = (Current.hit \/ hit)
          /\ a.stray = \/ Current.stray
                       \/ d # {} /\ Current.count["vsync"] > 0
                       \/ Current.drawn \cap w # {}

LEMMA AfterFields ==
    ASSUME BeamTypes, NEW d \in SUBSET Screen, NEW w \in SUBSET Screen, NEW hit \in BOOLEAN,
           NEW raised \in SUBSET Kinds
    PROVE  Records(After(d, w, hit, raised), d, w, hit, raised)
<1> USE DEF Records
<1> DEFINE c == Current
<1>1. c \in History
  BY CurrentType
<1>2. v2_disp_latched \in DispBase
  BY DEF BeamTypes
<1>3. CASE ~ c.whole
  <2>1. After(d, w, hit, raised) = c
    BY <1>3 DEF After
  <2> QED BY <1>1, <1>3, <2>1
<1>4. CASE c.whole
  <2> DEFINE count == [k \in Kinds |-> c.count[k] + (IF k \in raised THEN 1 ELSE 0)]
             drawn == c.drawn \cup w
             shown == IF d = {} THEN c.shown ELSE c.shown \cup {v2_disp_latched}
             a == [c EXCEPT !.count = count, !.drawn = drawn, !.shown = shown,
                            !.hit = c.hit \/ hit,
                            !.stray = \/ c.stray
                                      \/ d # {} /\ c.count["vsync"] > 0
                                      \/ c.drawn \cap w # {}]
  <2>1. After(d, w, hit, raised) = a
    BY <1>4 DEF After
  <2>2. count \in [Kinds -> Nat] /\ drawn \in SUBSET Screen /\ shown \in SUBSET DispBase
    BY <1>1, <1>2 DEF History
  <2> HIDE DEF c, count, drawn, shown
  <2>3. a \in History /\ a.whole = c.whole /\ a.count = count /\ a.drawn = drawn
        /\ a.shown = shown /\ a.hit = (c.hit \/ hit)
        /\ a.stray = (c.stray \/ (d # {} /\ c.count["vsync"] > 0) \/ c.drawn \cap w # {})
    BY <1>1, <2>2 DEF History
  <2> HIDE DEF a
  <2> QED BY <2>1, <2>3 DEF count, drawn, shown, c
<1> HIDE DEF c
<1> QED BY <1>3, <1>4 DEF c

\* The sizes of the screen as numbers.
LEMMA BeamSizes ==
    ASSUME BeamAssumption
    PROVE  /\ SCREEN_HEIGHT \in Nat \ {0} /\ SCAN_HEIGHT \in Nat
           /\ OFFSET_LOW \in Nat \ {0} /\ OFFSET_HIGH \in Nat
           /\ OFFSET_LOW + SCREEN_HEIGHT < SCAN_HEIGHT
           /\ SCAN_HEIGHT < OFFSET_HIGH /\ OFFSET_HIGH + SCREEN_HEIGHT < 2 * SCAN_HEIGHT
           /\ SCREEN_HEIGHT % 2 = 0
BY DEF BeamAssumption

\* Counters go up by one and wrap.
LEMMA NextLine ==
    ASSUME NEW s \in Nat \ {0}, NEW y \in 0 .. s - 1
    PROVE  (y + 1) % s = IF y + 1 = s THEN 0 ELSE y + 1
OBVIOUS

LEMMA HereType == ASSUME BeamAssumption PROVE BeamTypes => Here \in Int /\ Compare \in Nat
<1> SUFFICES ASSUME BeamTypes PROVE Here \in Int /\ Compare \in Nat
  OBVIOUS
<1>1. Here \in Int
  BY BeamSizes DEF BeamTypes, Here, NtscLine
<1>2. irq_line \in Nat
  BY DEF BeamAssumption, BeamTypes
<1>3. Compare \in Nat
  BY <1>2 DEF Compare
<1> QED BY <1>1, <1>3

\* What is drawn where the beam is.
LEMMA DrawnHere ==
    ASSUME BeamAssumption, BeamTypes
    PROVE  Drawn(vga_scan_pos_y, ntsc_scan_pos_y)
             = {y \in Screen : InTurn(y) /\ y - Parity = Here}
<1>1. vga_scan_pos_y \in Int /\ ntsc_scan_pos_y \in Int /\ SCAN_HEIGHT \in Nat
  BY BeamSizes DEF BeamTypes
<1>2. CASE ~ ntsc_mode
  BY <1>1, <1>2 DEF Drawn, InTurn, Parity, Here, Screen
<1>3. CASE ntsc_mode
  <2> DEFINE l == NtscLine(ntsc_scan_pos_y)
  <2>1. l \in Int /\ Here = l
    BY <1>1, <1>3, BeamSizes DEF NtscLine, Here
  <2> HIDE DEF l
  <2>2. CASE ntsc_scan_pos_y < SCAN_HEIGHT
    <3>1. Parity = 0
      BY <1>1, <2>2 DEF Parity
    <3>2. Drawn(vga_scan_pos_y, ntsc_scan_pos_y) = Screen \cap (IF l % 2 # 0 THEN {} ELSE {l})
      BY <1>3, <2>2 DEF Drawn, l
    <3>3. ASSUME NEW y \in Screen
          PROVE  y \in Screen \cap (IF l % 2 # 0 THEN {} ELSE {l})
                    <=> y % 2 = 0 /\ y - 0 = l
      BY <2>1 DEF Screen
    <3> QED BY <1>3, <2>1, <3>1, <3>2, <3>3 DEF InTurn
  <2>3. CASE ~ (ntsc_scan_pos_y < SCAN_HEIGHT)
    <3>1. Parity = 1
      BY <1>1, <1>3, <2>3 DEF Parity
    <3>2. Drawn(vga_scan_pos_y, ntsc_scan_pos_y)
            = Screen \cap (IF l % 2 # 0 THEN {} ELSE {l + 1})
      BY <1>3, <2>3 DEF Drawn, l
    <3>3. ASSUME NEW y \in Screen
          PROVE  y \in Screen \cap (IF l % 2 # 0 THEN {} ELSE {l + 1})
                    <=> y % 2 = 1 /\ y - 1 = l
      BY <2>1 DEF Screen
    <3> QED BY <1>3, <2>1, <3>1, <3>2, <3>3 DEF InTurn
  <2> QED BY <2>2, <2>3
<1> QED BY <1>2, <1>3

LEMMA DrawnAbove ==
    ASSUME BeamAssumption, BeamTypes
    PROVE  /\ Drawn(vga_scan_pos_y, ntsc_scan_pos_y) \in SUBSET Screen
           /\ Drawn(vga_scan_pos_y, ntsc_scan_pos_y) # {} => Here < SCREEN_HEIGHT
<1>1. Here \in Int /\ SCREEN_HEIGHT \in Nat /\ Parity \in {0, 1}
  BY HereType, BeamSizes DEF Parity
<1> QED BY <1>1, DrawnHere DEF Screen

\* Where the beam goes in a step that ends a line: one line down, or from below
\* the screen to the first line of the next frame, above it.
Ended(v, n) ==
    Moved(v, n) /\ (IF ntsc_mode THEN NextNtsc(n) % SCAN_HEIGHT = 0 ELSE NextVga(v) = 0)

LEMMA Arrives ==
    ASSUME BeamAssumption, BeamTypes, NEW v \in BOOLEAN, NEW n \in BOOLEAN, NEW hit \in BOOLEAN,
           video_step(v, n, hit)
    PROVE  /\ vga_scan_pos_y' \in 0 .. SCAN_HEIGHT - 1
           /\ ntsc_scan_pos_y' \in 0 .. 2 * SCAN_HEIGHT - 1
           /\ Moved(v, n) => Here' = Arrived(v, n)
           /\ ~ Moved(v, n) => Here' = Here /\ Parity' = Parity
           /\ Moved(v, n) /\ ~ Ended(v, n) => Here' = Here + 1 /\ Parity' = Parity
           /\ Ended(v, n) => /\ SCREEN_HEIGHT <= Here /\ Here' <= First
                             /\ ~ ntsc_mode => Here' = 0
                             /\ ntsc_mode => (Parity = 0 <=> field')
<1> DEFINE s == SCAN_HEIGHT
           y == vga_scan_pos_y
           p == ntsc_scan_pos_y
<1>1. y \in 0 .. s - 1 /\ p \in 0 .. 2 * s - 1 /\ s \in Nat \ {0} /\ 2 * s \in Nat \ {0}
  BY BeamSizes DEF BeamTypes
<1>2. y' = (IF v THEN (IF y + 1 = s THEN 0 ELSE y + 1) ELSE y)
  BY <1>1, NextLine DEF video_step, NextVga
<1>3. p' = (IF n THEN (IF p + 1 = 2 * s THEN 0 ELSE p + 1) ELSE p)
  <2>1. (p + 1) % (2 * s) = IF p + 1 = 2 * s THEN 0 ELSE p + 1
    BY <1>1, NextLine
  <2> QED BY <2>1 DEF video_step, NextNtsc
<1>4. p' % s = 0 <=> p' = 0 \/ p' = s
  <2>1. p' \in 0 .. 2 * s - 1
    BY <1>1, <1>3
  <2> DEFINE z == p'
  <2>2. z \in 0 .. 2 * s - 1
    BY <2>1
  <2> HIDE DEF z
  <2>3. z % s = 0 <=> z = 0 \/ z = s
    BY <1>1, <2>2
  <2> QED BY <2>3 DEF z
<1>5. /\ ntsc_mode' = ntsc_mode /\ ntsc_mode \in BOOLEAN
      /\ Ended(v, n) <=> Moved(v, n) /\ (IF ntsc_mode THEN p' % s = 0 ELSE y' = 0)
      /\ field' = IF n /\ p' % s = 0 THEN p' = s ELSE field
      /\ Arrived(v, n) = IF ntsc_mode THEN NtscLine(p') ELSE y'
  BY DEF video_step, Ended, BeamTypes, Arrived
<1> HIDE DEF s, y, p
<1>6. y' \in 0 .. s - 1 /\ p' \in 0 .. 2 * s - 1
  BY <1>1, <1>2, <1>3
<1>7. Here' = (IF ntsc_mode THEN p' - (IF p' < s THEN OFFSET_LOW ELSE OFFSET_HIGH) ELSE y')
  BY <1>5 DEF Here, NtscLine, s, y, p
<1>8. Here = (IF ntsc_mode THEN p - (IF p < s THEN OFFSET_LOW ELSE OFFSET_HIGH) ELSE y)
  BY DEF Here, NtscLine, s, y, p
<1>9. /\ Parity = (IF ntsc_mode /\ p >= s THEN 1 ELSE 0)
      /\ Parity' = (IF ntsc_mode /\ p' >= s THEN 1 ELSE 0)
  BY <1>5 DEF Parity, s, p
<1>10. Moved(v, n) <=> (IF ntsc_mode THEN n ELSE v)
  BY DEF Moved
<1>11. Moved(v, n) => Here' = Arrived(v, n)
  BY <1>5, <1>7 DEF NtscLine, s
<1>12. ~ Moved(v, n) => Here' = Here /\ Parity' = Parity
  BY <1>2, <1>3, <1>7, <1>8, <1>9, <1>10
<1>13. Moved(v, n) /\ ~ Ended(v, n) => Here' = Here + 1 /\ Parity' = Parity
  <2> SUFFICES ASSUME Moved(v, n), ~ Ended(v, n) PROVE Here' = Here + 1 /\ Parity' = Parity
    OBVIOUS
  <2>1. CASE ntsc_mode
    <3>1. p' = p + 1 /\ p' # s
      BY <1>1, <1>3, <1>4, <1>5, <1>10, <2>1
    <3>2. p' < s <=> p < s
      BY <1>1, <3>1
    <3> QED BY <1>1, <1>7, <1>8, <1>9, <2>1, <3>1, <3>2, BeamSizes
  <2>2. CASE ~ ntsc_mode
    BY <1>1, <1>2, <1>5, <1>7, <1>8, <1>9, <1>10, <2>2
  <2> QED BY <2>1, <2>2
<1>14. Ended(v, n) => /\ SCREEN_HEIGHT <= Here /\ Here' <= First
                      /\ ~ ntsc_mode => Here' = 0
                      /\ ntsc_mode => (Parity = 0 <=> field')
  <2> SUFFICES ASSUME Ended(v, n)
               PROVE  /\ SCREEN_HEIGHT <= Here /\ Here' <= First
                      /\ ~ ntsc_mode => Here' = 0
                      /\ ntsc_mode => (Parity = 0 <=> field')
    OBVIOUS
  <2>1. CASE ntsc_mode
    <3>1. n /\ (p' = 0 \/ p' = s) /\ field' = (p' = s)
      BY <1>4, <1>5, <1>10, <2>1
    <3>2. (p' = 0 /\ p = 2 * s - 1) \/ (p' = s /\ p = s - 1)
      BY <1>1, <1>3, <3>1
    <3>3. Parity = 0 <=> p' = s
      BY <1>1, <1>9, <2>1, <3>2
    <3>4. SCREEN_HEIGHT <= Here /\ Here' <= First
      BY <1>1, <1>7, <1>8, <2>1, <3>2, BeamSizes DEF First, s
    <3> QED BY <2>1, <3>1, <3>3, <3>4
  <2>2. CASE ~ ntsc_mode
    <3>1. v /\ y' = 0 /\ y + 1 = s
      BY <1>1, <1>2, <1>5, <1>10, <2>2
    <3> QED BY <1>1, <1>7, <1>8, <2>2, <3>1, BeamSizes DEF First, s
  <2> QED BY <2>1, <2>2
<1> QED BY <1>6, <1>11, <1>12, <1>13, <1>14 DEF s, y, p

\* A frame at its beginning.
AtFirst == Here <= First /\ Current = Fresh

LEMMA Begun ==
    ASSUME BeamAssumption
    PROVE  BeamTypes /\ AtFirst => SoFar
<1> SUFFICES ASSUME BeamTypes, Here <= First, Current = Fresh PROVE SoFar
  BY DEF AtFirst
<1>1. Here \in Int /\ Compare \in Nat /\ SCREEN_HEIGHT \in Nat \ {0} /\ First \in {-1, 0}
  BY HereType, BeamSizes DEF First
<1>2. {y \in Screen : InTurn(y) /\ y - Parity < Here} = {}
  <2> SUFFICES ASSUME NEW y \in Screen, InTurn(y), y - Parity < Here PROVE FALSE
    OBVIOUS
  <2>1. y \in Nat /\ Parity \in {0, 1} /\ Here <= 0
    BY <1>1 DEF Screen, Parity
  <2>2. y = 0 /\ Parity = 1
    BY <1>1, <2>1
  <2>3. y % 2 = 1
    BY <2>2 DEF InTurn, Parity
  <2> QED BY <2>2, <2>3
<1>3. ~ (Here >= SCREEN_HEIGHT) /\ ~ (First < Compare /\ Compare <= Here)
  BY <1>1
<1> QED BY <1>2, <1>3, FreshFacts DEF SoFar, Kinds

LEMMA RaisedKinds ==
    ASSUME NEW y, NEW c
    PROVE  /\ Raised(y, c) \in SUBSET Kinds
           /\ "vsync" \in Raised(y, c) <=> y = SCREEN_HEIGHT
           /\ "line" \in Raised(y, c) <=> y = Compare
           /\ "sprite" \in Raised(y, c) <=> y = SCREEN_HEIGHT /\ c
BY DEF Raised, Kinds, Compare

LEMMA StepKeeps ==
    ASSUME BeamAssumption, BeamInv, NEW v \in BOOLEAN, NEW n \in BOOLEAN, NEW hit \in BOOLEAN,
           video_step(v, n, hit)
    PROVE  BeamInv'
<1> DEFINE m == Moved(v, n)
           e == Ended(v, n)
           d == IF m THEN Drawn(vga_scan_pos_y, ntsc_scan_pos_y) ELSE {}
           r == IF m THEN Raised(Arrived(v, n), coll \/ hit) ELSE {}
           H == Current
           a == since'
<1>0. BeamTypes /\ SoFar
  BY DEF BeamInv
<1>1. /\ hit => d # {}
      /\ isr' = isr \cup r /\ coll' = Collected(v, n, hit)
      /\ v2_disp_latched' = (IF e THEN v2_disp ELSE v2_disp_latched)
      /\ new_frame' = e /\ a = After(d, d, hit, r)
      /\ ntsc_mode' = ntsc_mode /\ irq_line' = irq_line /\ v2_disp' = v2_disp
  BY DEF video_step, Ended
<1>2. /\ vga_scan_pos_y' \in 0 .. SCAN_HEIGHT - 1
      /\ ntsc_scan_pos_y' \in 0 .. 2 * SCAN_HEIGHT - 1
      /\ m => Here' = Arrived(v, n)
      /\ ~ m => Here' = Here /\ Parity' = Parity
      /\ m /\ ~ e => Here' = Here + 1 /\ Parity' = Parity
      /\ e => /\ SCREEN_HEIGHT <= Here /\ Here' <= First
              /\ ~ ntsc_mode => Here' = 0
              /\ ntsc_mode => (Parity = 0 <=> field')
  BY <1>0, Arrives
<1>3. d \in SUBSET Screen /\ (d # {} => m /\ Here < SCREEN_HEIGHT)
  BY <1>0, DrawnAbove
<1>4. /\ r \in SUBSET Kinds
      /\ "vsync" \in r <=> m /\ Here' = SCREEN_HEIGHT
      /\ "line" \in r <=> m /\ Here' = Compare
      /\ "sprite" \in r <=> m /\ Here' = SCREEN_HEIGHT /\ (coll \/ hit)
  BY <1>2, RaisedKinds
<1>5. /\ a \in History
      /\ a.whole = H.whole
      /\ H.whole =>
            /\ \A k \in Kinds : a.count[k] = H.count[k] + (IF k \in r THEN 1 ELSE 0)
            /\ a.drawn = H.drawn \cup d
            /\ a.shown = IF d = {} THEN H.shown ELSE H.shown \cup {v2_disp_latched}
            /\ a.hit => H.hit \/ hit
            /\ a.stray => H.stray \/ (d # {} /\ H.count["vsync"] > 0) \/ H.drawn \cap d # {}
  <2> DEFINE b == After(d, d, hit, r)
  <2> HIDE DEF d, r
  <2>1. Records(b, d, d, hit, r)
    <3>1. d \in SUBSET Screen
      BY <1>3
    <3>2. r \in SUBSET Kinds
      BY <1>4
    <3> HIDE DEF a, H, m, e
    <3> QED BY <1>0, <3>1, <3>2, AfterFields DEF b
  <2> HIDE DEF b
  <2>2. Current.whole =>
            /\ b.hit => Current.hit \/ hit
            /\ b.stray => \/ Current.stray \/ (d # {} /\ Current.count["vsync"] > 0)
                         \/ Current.drawn \cap d # {}
    BY <2>1, Zenon DEF Records
  <2>3. a = b
    BY <1>1 DEF b
  <2> HIDE DEF a
  <2> QED BY <2>1, <2>2, <2>3 DEF Records
<1>6. BeamTypes'
  <2>1. field' \in BOOLEAN
    BY <1>0 DEF BeamTypes, video_step
  <2>2. coll' \in BOOLEAN /\ new_frame' \in BOOLEAN
    BY <1>1 DEF Collected, Ended
  <2>3. isr' \subseteq Kinds /\ v2_disp_latched' \in DispBase /\ v2_disp' \in DispBase
    BY <1>0, <1>1, <1>4 DEF BeamTypes
  <2>4. ntsc_mode' \in BOOLEAN /\ irq_line' \in Lines \cup {0}
    BY <1>0, <1>1 DEF BeamTypes
  <2> QED BY <1>2, <1>5, <2>1, <2>2, <2>3, <2>4 DEF BeamTypes, History
<1>7. /\ Here \in Int /\ Here' \in Int /\ Compare \in Nat /\ SCREEN_HEIGHT \in Nat \ {0}
      /\ First \in {-1, 0} /\ Compare' = Compare /\ First' = First
      /\ First = 0 => Here >= 0
  <2>1. Here' \in Int
    BY <1>6, BeamSizes DEF BeamTypes, Here, NtscLine
  <2>2. First = 0 => Here >= 0
    BY <1>0 DEF First, Here, BeamTypes
  <2> QED BY <1>0, <1>1, <2>1, <2>2, HereType, BeamSizes DEF First, Compare
<1>8. H \in History /\ H.count["vsync"] \in Nat /\ H.count["line"] \in Nat
      /\ H.count["sprite"] \in Nat /\ {"vsync", "line", "sprite"} = Kinds
  BY <1>0, CurrentType DEF History, Kinds
<1>9. m => d = {y \in Screen : InTurn(y) /\ y - Parity = Here}
  BY <1>0, DrawnHere
<1> HIDE DEF m, e, d, r, H, a
\* What the frame's history is after the step.
<1>10. ASSUME H.whole
       PROVE  /\ ~ a.stray
              /\ a.drawn = {y \in Screen :
                               InTurn(y) /\ y - Parity < Here + (IF m THEN 1 ELSE 0)}
              /\ a.shown \subseteq {v2_disp_latched}
              /\ a.count["vsync"] = H.count["vsync"]
                                       + (IF m /\ Here' = SCREEN_HEIGHT THEN 1 ELSE 0)
              /\ a.count["line"] = H.count["line"] + (IF m /\ Here' = Compare THEN 1 ELSE 0)
              /\ a.count["sprite"] = H.count["sprite"]
                    + (IF m /\ Here' = SCREEN_HEIGHT /\ (coll \/ hit) THEN 1 ELSE 0)
              /\ a.hit => H.hit \/ hit
  <2>1. /\ ~ H.stray
        /\ H.drawn = {y \in Screen : InTurn(y) /\ y - Parity < Here}
        /\ H.count["vsync"] = (IF Here >= SCREEN_HEIGHT THEN 1 ELSE 0)
        /\ H.shown \subseteq {v2_disp_latched}
    BY <1>0, <1>10 DEF SoFar, H
  <2>2. ~ a.stray
    <3>1. ~ (d # {} /\ H.count["vsync"] > 0)
      BY <1>3, <1>7, <2>1
    <3>2. H.drawn \cap d = {}
      <4>1. \A y \in Screen : y - Parity \in Int
        BY DEF Screen, Parity
      <4> QED BY <1>3, <1>7, <1>9, <2>1, <4>1
    <3> QED BY <1>5, <1>10, <2>1, <3>1, <3>2, Zenon
  <2>3. a.drawn = {y \in Screen : InTurn(y) /\ y - Parity < Here + (IF m THEN 1 ELSE 0)}
    <3>1. \A y \in Screen : y - Parity \in Int
      BY DEF Screen, Parity
    <3>2. CASE m
      BY <1>5, <1>7, <1>9, <1>10, <2>1, <3>1, <3>2
    <3>3. CASE ~ m
      <4>1. d = {}
        BY <3>3 DEF d
      <4> QED BY <1>5, <1>7, <1>10, <2>1, <3>3, <4>1
    <3> QED BY <3>2, <3>3
  <2>4. a.shown \subseteq {v2_disp_latched}
    BY <1>5, <1>10, <2>1
  <2>5. \A k \in Kinds : a.count[k] = H.count[k] + (IF k \in r THEN 1 ELSE 0)
    BY <1>5, <1>10
  <2>6. a.hit => H.hit \/ hit
    BY <1>5, <1>10
  <2> QED BY <1>4, <1>8, <2>2, <2>3, <2>4, <2>5, <2>6
<1>11. Current' = IF e THEN Fresh ELSE a
  BY <1>1 DEF Current, a
<1>12. SoFar'
  <2>1. CASE e
    <3>1. BeamTypes' /\ AtFirst'
      BY <1>2, <1>6, <1>7, <1>11, <2>1 DEF AtFirst
    <3> QED BY <3>1, Begun, PTL
  <2>2. CASE ~ e
    <3> SUFFICES ASSUME a.whole PROVE SoFar'
      BY <1>11, <2>2 DEF SoFar
    <3> DEFINE X == Current'
    <3>0. X = a
      BY <1>11, <2>2
    <3>1. H.whole
      BY <1>5
    <3>2. Here' = Here + (IF m THEN 1 ELSE 0) /\ Parity' = Parity
      BY <1>2, <1>7, <2>2
    <3>3. a.drawn = {y \in Screen : (ntsc_mode' => y % 2 = Parity') /\ y - Parity' < Here'}
      BY <1>1, <1>10, <3>1, <3>2 DEF InTurn
    <3>4. /\ H.count["vsync"] = (IF Here >= SCREEN_HEIGHT THEN 1 ELSE 0)
          /\ H.count["line"] = (IF First < Compare /\ Compare <= Here THEN 1 ELSE 0)
          /\ Here < SCREEN_HEIGHT => H.count["sprite"] = 0 /\ (H.hit => coll)
          /\ Here >= SCREEN_HEIGHT /\ H.hit => H.count["sprite"] = 1
      BY <1>0, <3>1 DEF SoFar, H
    <3>5. a.count["vsync"] = (IF Here' >= SCREEN_HEIGHT THEN 1 ELSE 0)
      BY <1>7, <1>10, <3>1, <3>2, <3>4
    <3>6. a.count["line"] = (IF First' < Compare' /\ Compare' <= Here' THEN 1 ELSE 0)
      <4>1. First < Compare /\ Compare <= Here' <=> First < Compare /\ (Compare <= Here \/ (m /\ Here' = Compare))
        BY <1>7, <3>2
      <4>2. m /\ Here' = Compare => ~ (Compare <= Here)
        BY <1>7, <3>2
      <4>3. m /\ Here' = Compare => First < Compare
        BY <1>7, <3>2
      <4> QED BY <1>7, <1>10, <3>1, <3>4, <4>1, <4>2, <4>3
    <3>7. (coll \/ hit) /\ ~ (m /\ Here' = SCREEN_HEIGHT) => coll'
      BY <1>1, <1>2 DEF Collected, m
    <3>8. hit => Here < SCREEN_HEIGHT
      BY <1>1, <1>3
    <3>9. Here' < SCREEN_HEIGHT => a.count["sprite"] = 0 /\ (a.hit => coll')
      BY <1>7, <1>10, <3>1, <3>2, <3>4, <3>7, <3>8
    <3>10. Here' >= SCREEN_HEIGHT /\ a.hit => a.count["sprite"] = 1
      BY <1>7, <1>10, <3>1, <3>2, <3>4, <3>8
    <3>11. a.shown \subseteq {v2_disp_latched'} /\ ~ a.stray
      BY <1>1, <1>10, <2>2, <3>1
    <3> HIDE DEF X
    <3> QED BY <3>0, <3>3, <3>5, <3>6, <3>9, <3>10, <3>11 DEF SoFar, InTurn, X
  <2> QED BY <2>1, <2>2
\* What it is when the frame ends with it.
<1>13. ASSUME e, a.whole
       PROVE  /\ ~ a.stray
              /\ a.drawn = IF ntsc_mode' THEN {y \in Screen : y % 2 = IF field' THEN 0 ELSE 1}
                           ELSE Screen
              /\ a.count["vsync"] = 1
              /\ irq_line' \in Screen => a.count["line"] = 1
              /\ a.hit => a.count["sprite"] = 1
  <2>0. H.whole
    BY <1>5, <1>13
  <2>1. m /\ SCREEN_HEIGHT <= Here /\ Here' <= First
    BY <1>2, <1>13 DEF e, m, Ended
  <2>2. /\ H.count["vsync"] = (IF Here >= SCREEN_HEIGHT THEN 1 ELSE 0)
        /\ H.count["line"] = (IF First < Compare /\ Compare <= Here THEN 1 ELSE 0)
        /\ Here >= SCREEN_HEIGHT /\ H.hit => H.count["sprite"] = 1
    BY <1>0, <2>0 DEF SoFar, H
  <2>3. a.drawn = {y \in Screen : InTurn(y)}
    <3>1. \A y \in Screen : y - Parity < Here + 1
      BY <1>7, <2>1 DEF Screen, Parity
    <3> QED BY <1>10, <2>0, <2>1, <3>1
  <2>4. a.drawn = IF ntsc_mode' THEN {y \in Screen : y % 2 = IF field' THEN 0 ELSE 1} ELSE Screen
    <3>1. CASE ntsc_mode
      <4>1. Parity = IF field' THEN 0 ELSE 1
        BY <1>2, <1>13, <3>1 DEF Parity
      <4> QED BY <1>1, <2>3, <3>1, <4>1 DEF InTurn
    <3>2. CASE ~ ntsc_mode
      BY <1>1, <2>3, <3>2 DEF InTurn
    <3> QED BY <3>1, <3>2
  <2>5. a.count["vsync"] = 1
    BY <1>7, <1>10, <2>0, <2>1, <2>2
  <2>6. irq_line' \in Screen => a.count["line"] = 1
    <3> SUFFICES ASSUME irq_line' \in Screen PROVE a.count["line"] = 1
      OBVIOUS
    <3>1. Compare < SCREEN_HEIGHT
      <4>1. irq_line \in Nat /\ irq_line < SCREEN_HEIGHT
        BY <1>1, <1>7 DEF Screen
      <4> QED BY <1>7, <4>1 DEF Compare
    <3>2. Compare <= Here
      BY <1>7, <2>1, <3>1
    <3>3. First < Compare \/ (First = Compare /\ First = 0)
      BY <1>7
    <3>4. Here' = Compare <=> First = Compare
      <4>1. CASE ntsc_mode
        BY <1>7, <2>1, <4>1 DEF First
      <4>2. CASE ~ ntsc_mode
        BY <1>2, <1>7, <1>13, <2>1, <4>2 DEF First
      <4> QED BY <4>1, <4>2
    <3>5. a.count["line"] = H.count["line"] + (IF m /\ Here' = Compare THEN 1 ELSE 0)
      BY <1>10, <2>0
    <3> QED BY <1>7, <2>1, <2>2, <3>2, <3>3, <3>4, <3>5
  <2>7. hit => Here < SCREEN_HEIGHT
    BY <1>1, <1>3
  <2>8. a.hit => a.count["sprite"] = 1
    BY <1>7, <1>10, <2>0, <2>1, <2>2, <2>7
  <2> QED BY <1>10, <2>0, <2>4, <2>5, <2>6, <2>8
<1>14. EachFrameWhole' /\ OncePerFrame'
  BY <1>1, <1>13 DEF EachFrameWhole, OncePerFrame, a
<1>15. OneBase'
  BY <1>5, <1>10 DEF OneBase, a
<1> QED BY <1>6, <1>12, <1>14, <1>15 DEF BeamInv

\* Between two steps of the beam no frame ends.
LEMMA NoFrame ==
    BeamTypes /\ SoFar /\ ~ new_frame => EachFrameWhole /\ OncePerFrame /\ OneBase
<1> SUFFICES ASSUME BeamTypes, SoFar, ~ new_frame
             PROVE  EachFrameWhole /\ OncePerFrame /\ OneBase
  OBVIOUS
<1>1. Current = since
  BY DEF Current
<1>2. OneBase
  BY <1>1 DEF OneBase, SoFar
<1> QED BY <1>2 DEF EachFrameWhole, OncePerFrame

\* The guest has drawn the line up to the beam and made no other difference.
LEMMA MidlineKeeps ==
    ASSUME BeamAssumption, BeamInv, NEW hit \in BOOLEAN, Midline(hit),
           since' = MidlineSeen(hit), coll' = (coll \/ hit), new_frame' = FALSE,
           UNCHANGED <<vga_scan_pos_y, ntsc_scan_pos_y, ntsc_mode, field, irq_line, isr,
                       v2_disp, v2_disp_latched>>
    PROVE  BeamInv'
<1> DEFINE d == Drawn(vga_scan_pos_y, ntsc_scan_pos_y)
           a == After(d, {}, hit, {})
           H == Current
<1>0. BeamTypes /\ SoFar /\ since' = a
  BY DEF BeamInv, MidlineSeen
<1>1. d \in SUBSET Screen /\ (d # {} => Here < SCREEN_HEIGHT) /\ (hit => d # {})
  BY <1>0, DrawnAbove DEF Midline
<1>2. Records(a, d, {}, hit, {})
  <2> HIDE DEF d
  <2>1. d \in SUBSET Screen
    BY <1>1
  <2> QED BY <1>0, <2>1, AfterFields
<1> HIDE DEF a, d
<1>3. BeamTypes'
  <2>1. coll' \in BOOLEAN
    BY <1>0, Zenon DEF BeamTypes
  <2>2. since' \in History
    BY <1>0, <1>2 DEF Records
  <2> QED BY <1>0, <2>1, <2>2 DEF BeamTypes, History
<1>4. Current' = a
  BY <1>0 DEF Current
<1>5. /\ Here' = Here /\ Parity' = Parity /\ Compare' = Compare /\ First' = First
      /\ ntsc_mode' = ntsc_mode
  BY DEF Here, Parity, Compare, First, NtscLine
<1>6. Here \in Int /\ SCREEN_HEIGHT \in Nat /\ H \in History
  BY <1>0, HereType, BeamSizes, CurrentType
<1>7. SoFar'
  <2>1. CASE ~ H.whole
    <3>1. ~ a.whole
      BY <1>2, <2>1 DEF Records
    <3> QED BY <1>4, <3>1 DEF SoFar
  <2>2. CASE H.whole
    <3>1. /\ ~ H.stray
          /\ H.drawn = {y \in Screen : InTurn(y) /\ y - Parity < Here}
          /\ H.count["vsync"] = (IF Here >= SCREEN_HEIGHT THEN 1 ELSE 0)
          /\ H.count["line"] = (IF First < Compare /\ Compare <= Here THEN 1 ELSE 0)
          /\ H.shown \subseteq {v2_disp_latched}
          /\ Here < SCREEN_HEIGHT => H.count["sprite"] = 0 /\ (H.hit => coll)
          /\ Here >= SCREEN_HEIGHT /\ H.hit => H.count["sprite"] = 1
      BY <1>0, <2>2 DEF SoFar
    <3> HIDE DEF H
    <3>2. \A k \in Kinds : a.count[k] = H.count[k] /\ H.count[k] \in Nat
      BY <1>2, <1>6, <2>2 DEF Records, History, H
    <3>3. a.drawn = H.drawn /\ a.shown \subseteq {v2_disp_latched'}
      BY <1>2, <2>2, <3>1 DEF Records, H
    <3>4. a.hit => H.hit \/ hit
      BY <1>2, <2>2, Zenon DEF Records, H
    <3>5. ~ a.stray
      <4>1. ~ (d # {} /\ H.count["vsync"] > 0)
        BY <1>1, <1>6, <3>1
      <4>2. Current.drawn \cap {} = {}
        OBVIOUS
      <4> QED BY <1>2, <2>2, <3>1, <4>1, <4>2, Zenon DEF Records, H
    <3>6. (H.hit /\ coll) \/ hit => coll'
      OBVIOUS
    <3>7. Here < SCREEN_HEIGHT => a.count["sprite"] = 0 /\ (a.hit => coll')
      BY <3>1, <3>2, <3>4, <3>6 DEF Kinds
    <3>8. Here >= SCREEN_HEIGHT /\ a.hit => a.count["sprite"] = 1
      BY <1>1, <1>6, <3>1, <3>2, <3>4 DEF Kinds
    <3>9. /\ a.count["vsync"] = (IF Here >= SCREEN_HEIGHT THEN 1 ELSE 0)
          /\ a.count["line"] = (IF First < Compare /\ Compare <= Here THEN 1 ELSE 0)
      BY <3>1, <3>2 DEF Kinds
    <3>10. a.drawn = {y \in Screen : (ntsc_mode' => y % 2 = Parity') /\ y - Parity' < Here'}
      BY <1>5, <3>1, <3>3 DEF InTurn
    <3> QED BY <1>4, <1>5, <3>3, <3>5, <3>7, <3>8, <3>9, <3>10 DEF SoFar, InTurn
  <2> QED BY <2>1, <2>2
<1>8. ~ new_frame'
  OBVIOUS
<1> QED BY <1>3, <1>7, <1>8, NoFrame, PTL DEF BeamInv

\* The guest has made no difference to the frame.
LEMMA FrameKept ==
    ASSUME BeamAssumption, BeamInv, BeamTypes', since' = Current, new_frame' = FALSE,
           UNCHANGED <<vga_scan_pos_y, ntsc_scan_pos_y, ntsc_mode, irq_line, coll,
                       v2_disp_latched>>
    PROVE  BeamInv'
<1>1. Current' = Current
  BY DEF Current
<1>2. SoFar'
  BY <1>1 DEF BeamInv, SoFar, Here, Parity, Compare, First, NtscLine, InTurn
<1>3. ~ new_frame'
  OBVIOUS
<1> QED BY <1>2, <1>3, NoFrame, PTL DEF BeamInv

\* The guest has touched the mode or the line: nothing is asked of the frame.
LEMMA FrameBroken ==
    ASSUME BeamTypes', since' = Broken, new_frame' = FALSE
    PROVE  BeamInv'
<1>1. SoFar'
  BY FreshFacts DEF SoFar, Current
<1>2. ~ new_frame'
  OBVIOUS
<1> QED BY <1>1, <1>2, NoFrame, PTL DEF BeamInv

LEMMA BeamStarts == ASSUME BeamAssumption PROVE BeamInit => BeamInv
<1> SUFFICES ASSUME BeamInit PROVE BeamInv
  OBVIOUS
<1>1. BeamTypes
  <2>1. <<0, 0>> \in DispBase
    BY DEF DispBase, BeamAssumption
  <2>2. since \in History
    BY FreshFacts DEF BeamInit
  <2>3. 0 \in 0 .. SCAN_HEIGHT - 1 /\ 0 \in 0 .. 2 * SCAN_HEIGHT - 1
    BY BeamSizes
  <2> QED BY <2>1, <2>2, <2>3 DEF BeamTypes, BeamInit, History
<1>2. AtFirst
  BY DEF AtFirst, Here, First, Current, BeamInit
<1> QED BY <1>1, <1>2, Begun, NoFrame DEF BeamInv, BeamInit

LEMMA BeamReset ==
    ASSUME BeamAssumption, video_reset, v2_disp' \in DispBase, v2_disp_latched' \in DispBase
    PROVE  BeamInv'
<1>1. BeamTypes'
  <2>1. since' \in History
    BY FreshFacts DEF video_reset
  <2>2. 0 \in 0 .. SCAN_HEIGHT - 1 /\ 0 \in 0 .. 2 * SCAN_HEIGHT - 1
    BY BeamSizes
  <2>3. /\ vga_scan_pos_y' \in 0 .. SCAN_HEIGHT - 1
        /\ ntsc_scan_pos_y' \in 0 .. 2 * SCAN_HEIGHT - 1
        /\ ntsc_mode' \in BOOLEAN /\ field' \in BOOLEAN /\ irq_line' \in Lines \cup {0}
        /\ isr' \subseteq Kinds /\ coll' \in BOOLEAN /\ new_frame' \in BOOLEAN
    BY <2>2 DEF video_reset
  <2> QED BY <2>1, <2>3 DEF BeamTypes, History
<1>2. AtFirst'
  BY DEF AtFirst, Here, First, Current, video_reset
<1>3. SoFar'
  BY <1>1, <1>2, Begun, PTL
<1>4. ~ new_frame'
  BY DEF video_reset
<1> QED BY <1>1, <1>3, <1>4, NoFrame, PTL DEF BeamInv

LEMMA BeamKept == ASSUME BeamAssumption, BeamInv, [BeamNext]_beamVars PROVE BeamInv'
<1>0. BeamTypes /\ SoFar /\ Current \in History
  BY CurrentType DEF BeamInv
<1>1. ASSUME NEW v \in BOOLEAN, NEW n \in BOOLEAN, NEW hit \in BOOLEAN, video_step(v, n, hit)
      PROVE  BeamInv'
  BY <1>1, StepKeeps
<1>2. ASSUME NEW hit \in BOOLEAN, WriteData(hit) PROVE BeamInv'
  BY <1>2, MidlineKeeps DEF WriteData
<1>3. ASSUME NEW m \in BOOLEAN, NEW hit \in BOOLEAN, SetMode(m, hit) PROVE BeamInv'
  <2>1. CASE m = ntsc_mode
    BY <1>3, <2>1, MidlineKeeps DEF SetMode
  <2>2. CASE m # ntsc_mode
    <3>1. since' = Broken /\ new_frame' = FALSE
      BY <1>3, <2>2 DEF SetMode
    <3>2. coll' \in BOOLEAN /\ ntsc_mode' \in BOOLEAN
      BY <1>0, <1>3, Zenon DEF SetMode, BeamTypes
    <3>3. since' \in History
      BY <3>1, FreshFacts
    <3>4. BeamTypes'
      BY <1>0, <1>3, <3>2, <3>3 DEF SetMode, BeamTypes, History
    <3> QED BY <3>1, <3>4, FrameBroken
  <2> QED BY <2>1, <2>2
<1>4. ASSUME NEW l \in Lines, SetLine(l) PROVE BeamInv'
  <2>1. since' = Broken /\ new_frame' = FALSE
    BY <1>4 DEF SetLine
  <2>2. since' \in History
    BY <2>1, FreshFacts
  <2>3. BeamTypes'
    BY <1>0, <1>4, <2>2 DEF SetLine, BeamTypes, History
  <2> QED BY <2>1, <2>3, FrameBroken
<1>5. ASSUME NEW bits \in SUBSET Kinds, Acknowledge(bits) PROVE BeamInv'
  <2>1. BeamTypes'
    BY <1>0, <1>5 DEF Acknowledge, BeamTypes, History
  <2> QED BY <1>5, <2>1, FrameKept DEF Acknowledge
<1>6. ASSUME NEW part \in {1, 2}, NEW b \in Bases, SetBase(part, b) PROVE BeamInv'
  <2>1. v2_disp' \in DispBase
    <3>1. v2_disp \in Bases \X Bases
      BY <1>0 DEF BeamTypes, DispBase
    <3>2. v2_disp' = [v2_disp EXCEPT ![part] = b]
      BY <1>6 DEF SetBase
    <3> QED BY <3>1, <3>2 DEF DispBase
  <2>2. BeamTypes'
    BY <1>0, <1>6, <2>1 DEF SetBase, BeamTypes, History
  <2> QED BY <1>6, <2>2, FrameKept DEF SetBase
<1>7. ASSUME WriteCtrl PROVE BeamInv'
  <2>1. v2_disp' \in DispBase /\ v2_disp_latched' \in DispBase
    BY <1>0, <1>7 DEF WriteCtrl, BeamTypes
  <2> QED BY <1>7, <2>1, BeamReset DEF WriteCtrl
<1>8. ASSUME vera2_reset PROVE BeamInv'
  <2>1. v2_disp' \in DispBase /\ v2_disp_latched' \in DispBase
    BY <1>8 DEF vera2_reset, DispBase, BeamAssumption
  <2> QED BY <1>8, <2>1, BeamReset DEF vera2_reset
<1>9. CASE UNCHANGED beamVars
  <2>1. Current' = Current
    BY <1>9 DEF beamVars, Current
  <2>2. BeamTypes'
    BY <1>0, <1>9 DEF beamVars, BeamTypes
  <2>3. SoFar'
    BY <1>9, <2>1 DEF beamVars, BeamInv, SoFar, Here, Parity, Compare, First, NtscLine, InTurn
  <2>4. EachFrameWhole' /\ OncePerFrame' /\ OneBase'
    BY <1>9 DEF beamVars, BeamInv, EachFrameWhole, OncePerFrame, OneBase
  <2> QED BY <2>2, <2>3, <2>4 DEF BeamInv
<1> QED BY <1>1, <1>2, <1>3, <1>4, <1>5, <1>6, <1>7, <1>8, <1>9 DEF BeamNext

\* A frame draws each line of its field once and before its vertical sync,
\* raises each of its interrupts once and shows one display base
\* (FramesAreWhole): video_step, in both modes, under any writes of the guest.
THEOREM BeamCorrect == ASSUME BeamAssumption PROVE BeamSpec => []FramesAreWhole
<1>1. BeamInv => FramesAreWhole
  <2> SUFFICES ASSUME BeamInv PROVE OneBasePerFrame
    BY DEF BeamInv, FramesAreWhole
  <2> SUFFICES ASSUME since.whole PROVE Cardinality(since.shown) <= 1
    BY DEF OneBasePerFrame
  <2>1. PICK x : since.shown \subseteq {x}
    BY DEF BeamInv, OneBase
  <2>2. since.shown = {} \/ since.shown = {x}
    BY <2>1
  <2>3. Cardinality({}) = 0 /\ Cardinality({x}) = 1
    BY FS_EmptySet, FS_Singleton
  <2> QED BY <2>2, <2>3
<1> QED BY <1>1, BeamStarts, BeamKept, PTL DEF BeamSpec

-----------------------------------------------------------------------------
(* VERA's ports *)

\* The size of the memory as a number, and how addresses wrap.
LEMMA VramSizes ==
    ASSUME PortsAssumption
    PROVE  VramSize \in Nat \ {0} /\ 0 \in VramAddr
<1>1. VramSize \in Nat \ {0}
  BY DEF PortsAssumption, VramSize
<1> QED BY <1>1 DEF VramAddr

LEMMA CellWraps ==
    ASSUME PortsAssumption, NEW x \in Int
    PROVE  /\ Cell(x) \in VramAddr
           /\ x \in VramAddr => Cell(x) = x
           /\ x + VramSize \in VramAddr => Cell(x) = x + VramSize
           /\ x - VramSize \in VramAddr => Cell(x) = x - VramSize
<1>1. VramSize \in Nat \ {0}
  BY VramSizes
<1> QED BY <1>1 DEF Cell, VramAddr

\* The distance of a cell from another, and the cell at that distance.
LEMMA Distance ==
    ASSUME PortsAssumption, NEW a \in VramAddr, NEW d \in VramAddr
    PROVE  /\ Cell(a - d) = IF a >= d THEN a - d ELSE a - d + VramSize
           /\ Cell(a + d) = IF a + d < VramSize THEN a + d ELSE a + d - VramSize
<1>1. VramSize \in Nat \ {0}
  BY VramSizes
<1>2. a \in Int /\ d \in Int /\ a - d \in Int /\ a + d \in Int
  BY <1>1 DEF VramAddr
<1>3. Cell(a - d) = IF a >= d THEN a - d ELSE a - d + VramSize
  <2>1. CASE a >= d
    <3>1. a - d \in VramAddr
      BY <1>1, <2>1 DEF VramAddr
    <3> QED BY <1>2, <2>1, <3>1, CellWraps
  <2>2. CASE a < d
    <3>1. (a - d) + VramSize \in VramAddr
      BY <1>1, <2>2 DEF VramAddr
    <3> QED BY <1>2, <2>2, <3>1, CellWraps
  <2> QED BY <1>2, <2>1, <2>2
<1>4. Cell(a + d) = IF a + d < VramSize THEN a + d ELSE a + d - VramSize
  <2>1. CASE a + d < VramSize
    <3>1. a + d \in VramAddr
      BY <1>1, <2>1 DEF VramAddr
    <3> QED BY <1>2, <2>1, <3>1, CellWraps
  <2>2. CASE a + d >= VramSize
    <3>1. (a + d) - VramSize \in VramAddr
      BY <1>1, <2>2 DEF VramAddr
    <3> QED BY <1>1, <1>2, <2>2, <3>1, CellWraps
  <2> QED BY <1>1, <1>2, <2>1, <2>2
<1> QED BY <1>3, <1>4

-----------------------------------------------------------------------------
(* The blitter *)

Memories == [VramAddr -> PortByte]

LEMMA ByteCopiedType ==
    ASSUME PortsAssumption, NEW m \in Memories, NEW b \in BlitRegisters, NEW i \in Nat
    PROVE  ByteCopied(m, b, i) \in Memories
<1>1. b.src + i \in Int /\ b.dst + i \in Int
  BY VramSizes DEF BlitRegisters, VramAddr
<1>2. Cell(b.src + i) \in VramAddr /\ Cell(b.dst + i) \in VramAddr
  BY <1>1, CellWraps
<1> QED BY <1>2 DEF ByteCopied, Memories

\* The copy is a sequence of memories, one for each byte.
LEMMA CopyLoop ==
    ASSUME PortsAssumption, NEW m \in Memories, NEW b \in BlitRegisters
    PROVE  \E F \in [Nat -> Memories] :
               /\ F[0] = m
               /\ \A n \in Nat : F[n + 1] = ByteCopied(F[n], b, n)
               /\ Copied(m, b) = F[b.len]
<1> DEFINE G == [n \in Nat |-> [x \in Memories |-> ByteCopied(x, b, n)]]
           Is(f) == f = [i \in Nat |-> IF i = 0 THEN m ELSE ByteCopied(f[i - 1], b, i - 1)]
           A == CHOOSE f : Is(f)
<1>1. StepsIn(Memories, G)
  BY ByteCopiedType DEF StepsIn
<1>2. PICK F : Takes(F, Memories, m, G)
  <2> HIDE DEF G, Is, A
  <2> QED BY <1>1, CountedRecursion
<1>3. ASSUME NEW i \in Nat, i # 0 PROVE F[i] = ByteCopied(F[i - 1], b, i - 1)
  <2>1. i - 1 \in Nat /\ (i - 1) + 1 = i
    BY <1>3
  <2>2. F[i] = G[i - 1][F[i - 1]] /\ F[i - 1] \in Memories
    BY <1>2, <2>1 DEF Takes
  <2> QED BY <2>1, <2>2
<1>4. Is(F)
  <2> HIDE DEF G
  <2> QED BY <1>2, <1>3 DEF Takes
<1>5. Is(A)
  <2> HIDE DEF Is
  <2> QED BY <1>4
<1>6. Copied(m, b) = A[b.len]
  BY DEF Copied
<1> HIDE DEF A
<1>7. A[0] = m
  BY <1>5
<1>8. ASSUME NEW n \in Nat PROVE A[n + 1] = ByteCopied(A[n], b, n)
  <2>1. n + 1 \in Nat /\ n + 1 # 0 /\ (n + 1) - 1 = n
    OBVIOUS
  <2> QED BY <1>5, <2>1
<1>9. A \in [Nat -> Memories]
  <2> DEFINE T == {n \in Nat : A[n] \in Memories}
  <2>1. 0 \in T
    BY <1>7
  <2>2. ASSUME NEW n \in T PROVE n + 1 \in T
    <3>1. n \in Nat /\ A[n] \in Memories
      OBVIOUS
    <3> QED BY <1>8, <3>1, ByteCopiedType
  <2>3. T \in SUBSET Nat
    OBVIOUS
  <2>4. T = Nat
    <3> HIDE DEF T
    <3> QED BY <2>1, <2>2, <2>3, Induction
  <2> QED BY <1>5, <2>4
<1> HIDE DEF Is
<1> QED BY <1>6, <1>7, <1>8, <1>9

\* What a copy of i bytes has done: it has touched nothing else.
LEMMA CopyTouches ==
    ASSUME PortsAssumption, NEW m \in Memories, NEW b \in BlitRegisters
    PROVE  /\ Copied(m, b) \in Memories
           /\ \A a \in VramAddr : ~ (Cell(a - b.dst) < b.len) => Copied(m, b)[a] = m[a]
<1>0. b.len \in VramAddr /\ b.dst \in VramAddr /\ b.len \in Nat /\ VramSize \in Nat \ {0}
  BY VramSizes DEF BlitRegisters, VramAddr
<1>1. PICK F \in [Nat -> Memories] :
          /\ F[0] = m
          /\ \A n \in Nat : F[n + 1] = ByteCopied(F[n], b, n)
          /\ Copied(m, b) = F[b.len]
  BY CopyLoop
<1> DEFINE T == {n \in Nat : n < VramSize =>
                    \A a \in VramAddr : ~ (Cell(a - b.dst) < n) => F[n][a] = m[a]}
<1>2. 0 \in T
  BY <1>1
<1>3. ASSUME NEW n \in T PROVE n + 1 \in T
  <2> SUFFICES ASSUME n + 1 < VramSize, NEW a \in VramAddr, ~ (Cell(a - b.dst) < n + 1)
               PROVE  F[n + 1][a] = m[a]
    OBVIOUS
  <2>1. n \in Nat /\ n \in VramAddr /\ F[n] \in Memories
    BY <1>0, <1>1 DEF VramAddr
  <2>2. Cell(a - b.dst) \in Int
    BY <1>0, CellWraps DEF VramAddr
  <2>3. F[n][a] = m[a]
    BY <1>0, <2>1, <2>2
  <2>4. Cell(b.dst + n) # a
    <3> DEFINE d == b.dst
    <3>1. Cell(a - d) = IF a >= d THEN a - d ELSE a - d + VramSize
      BY <1>0, Distance
    <3>2. Cell(d + n) = IF d + n < VramSize THEN d + n ELSE d + n - VramSize
      BY <1>0, <2>1, Distance
    <3>3. ~ (Cell(a - d) < n + 1) /\ d \in VramAddr
      BY <1>0
    <3> HIDE DEF d
    <3>4. Cell(d + n) # a
      BY <1>0, <2>1, <3>1, <3>2, <3>3 DEF VramAddr
    <3> QED BY <3>4 DEF d
  <2>5. F[n + 1] = ByteCopied(F[n], b, n)
    BY <1>1, <2>1
  <2> HIDE DEF T
  <2> QED BY <2>1, <2>3, <2>4, <2>5 DEF ByteCopied, Memories
<1>4. T = Nat
  <2>1. T \in SUBSET Nat
    OBVIOUS
  <2> HIDE DEF T
  <2> QED BY <1>2, <1>3, <2>1, Induction
<1>5. b.len < VramSize
  BY <1>0 DEF VramAddr
<1> QED BY <1>0, <1>1, <1>4, <1>5

\* What a copy of i bytes has done, while what it reads it has not written: it
\* has moved those bytes.
LEMMA CopyMoves ==
    ASSUME PortsAssumption, PortTypes
    PROVE  BlitIsExact
<1> DEFINE s == blt.src
           d == blt.dst
           Safe == Cell(d - s) = 0 \/ Cell(d - s) >= blt.len
           From(a) == Cell(s + Cell(a - d))
<1> SUFFICES ASSUME Safe, NEW a \in VramAddr
             PROVE  Copied(vram, blt)[a] = IF Cell(a - d) < blt.len THEN vram[From(a)] ELSE vram[a]
  BY DEF BlitIsExact
<1>0. /\ blt \in BlitRegisters /\ vram \in Memories
      /\ s \in VramAddr /\ d \in VramAddr /\ blt.len \in VramAddr /\ blt.len \in Nat
      /\ VramSize \in Nat \ {0} /\ blt.len < VramSize
  BY VramSizes DEF PortTypes, Memories, BlitRegisters, VramAddr
<1> DEFINE len == blt.len
<1>1. PICK F \in [Nat -> Memories] :
          /\ F[0] = vram
          /\ \A n \in Nat : F[n + 1] = ByteCopied(F[n], blt, n)
          /\ Copied(vram, blt) = F[len]
  BY <1>0, CopyLoop
<1> DEFINE T == {n \in Nat : n <= len =>
                    \A x \in VramAddr :
                        F[n][x] = IF Cell(x - d) < n THEN vram[From(x)] ELSE vram[x]}
<1>2. 0 \in T
  <2> SUFFICES ASSUME NEW x \in VramAddr PROVE ~ (Cell(x - d) < 0)
    BY <1>1
  <2>1. Cell(x - d) \in VramAddr
    BY <1>0, CellWraps DEF VramAddr
  <2> QED BY <2>1, <1>0 DEF VramAddr
<1>3. ASSUME NEW n \in T PROVE n + 1 \in T
  <2> SUFFICES ASSUME n + 1 <= len, NEW x \in VramAddr
               PROVE  F[n + 1][x] = IF Cell(x - d) < n + 1 THEN vram[From(x)] ELSE vram[x]
    OBVIOUS
  <2>1. n \in Nat /\ n \in VramAddr /\ F[n] \in Memories
    BY <1>0, <1>1 DEF VramAddr
  <2>2. \A y \in VramAddr : F[n][y] = IF Cell(y - d) < n THEN vram[From(y)] ELSE vram[y]
    BY <1>0, <2>1
  <2> DEFINE to == Cell(d + n)
             from == Cell(s + n)
  <2>3. to \in VramAddr /\ from \in VramAddr
    BY <1>0, <2>1, CellWraps DEF VramAddr
  <2>4. F[n + 1][x] = IF x = to THEN F[n][from] ELSE F[n][x]
    <3>1. F[n + 1] = ByteCopied(F[n], blt, n)
      BY <1>1, <2>1
    <3> HIDE DEF T
    <3> QED BY <2>1, <2>3, <3>1 DEF ByteCopied, Memories
  <2>5. Cell(x - d) = IF x >= d THEN x - d ELSE x - d + VramSize
    BY <1>0, Distance
  <2>6. to = IF d + n < VramSize THEN d + n ELSE d + n - VramSize
    BY <1>0, <2>1, Distance
  <2>7. from = IF s + n < VramSize THEN s + n ELSE s + n - VramSize
    BY <1>0, <2>1, Distance
  <2>8. Cell(d - s) = IF d >= s THEN d - s ELSE d - s + VramSize
    BY <1>0, Distance
  <2>9. Cell(from - d) = IF from >= d THEN from - d ELSE from - d + VramSize
    BY <1>0, <2>3, Distance
  <2> HIDE DEF T, to, from, s, d, len
  <2>10. x = to <=> Cell(x - d) = n
    BY <1>0, <2>1, <2>5, <2>6 DEF VramAddr
  <2>11. ~ (Cell(from - d) < n)
    <3> USE <1>0, <2>1, <2>3, <2>7, <2>8, <2>9 DEF VramAddr
    <3>1. len \in Nat /\ n < len /\ (Cell(d - s) = 0 \/ Cell(d - s) >= len)
      BY DEF len, s, d
    <3> QED BY <3>1
  <2>12. CASE x = to
    <3>1. From(x) = from
      BY <2>10, <2>12 DEF from
    <3>2. F[n][from] = vram[from]
      BY <2>2, <2>3, <2>11
    <3> QED BY <2>1, <2>4, <2>10, <2>12, <3>1, <3>2
  <2>13. CASE x # to
    <3>1. Cell(x - d) \in Int /\ Cell(x - d) # n
      BY <1>0, <2>5, <2>10, <2>13 DEF VramAddr
    <3>2. Cell(x - d) < n + 1 <=> Cell(x - d) < n
      BY <2>1, <3>1
    <3> QED BY <2>2, <2>4, <2>13, <3>2
  <2> QED BY <2>12, <2>13
<1>4. T = Nat
  <2>1. T \in SUBSET Nat
    OBVIOUS
  <2> HIDE DEF T
  <2> QED BY <1>2, <1>3, <2>1, Induction
<1> QED BY <1>0, <1>1, <1>4

\* A fill touches nothing outside its area.
LEMMA FillTouches ==
    ASSUME PortsAssumption, PortTypes, NEW v \in PortByte
    PROVE  /\ Filled(vram, blt, v) \in Memories
           /\ \A a \in VramAddr :
                  ~ (Cell(a - blt.dst) < blt.len) => Filled(vram, blt, v)[a] = vram[a]
BY DEF Filled, PortTypes, Memories

-----------------------------------------------------------------------------
(* Addresses *)

LEMMA TwoParts ==
    ASSUME PortsAssumption, NEW h \in 0 .. HiSize - 1, NEW l \in 0 .. LoSize - 1
    PROVE  LoSize * h + l \in VramAddr
<1>1. LoSize \in Nat \ {0} /\ HiSize \in Nat \ {0} /\ h \in Nat /\ l \in Nat
  BY DEF PortsAssumption
<1>2. LoSize * h \in Nat /\ LoSize * HiSize \in Nat
  BY <1>1
<1>3. LoSize * h + LoSize <= LoSize * HiSize
  <2>1. LoSize * (HiSize - 1 - h) >= 0
    BY <1>1
  <2>2. LoSize * (HiSize - 1 - h) = LoSize * HiSize - LoSize - LoSize * h
    BY <1>1
  <2> QED BY <1>1, <1>2, <2>1, <2>2
<1> QED BY <1>1, <1>2, <1>3 DEF VramAddr, VramSize

\* Port p points to a, in the space or, for port 1, an increment beyond.
Near(p, a) == a \in VramAddr \/ (p = 1 /\ \E c \in VramAddr, i \in Incs : a = c + i)

LEMMA NearTypes ==
    ASSUME PortsAssumption
    PROVE  (addr \in [Both -> Int] /\ AddressNearSpace)
              <=> (addr \in [Both -> Int] /\ \A p \in Both : Near(p, addr[p]))
BY DEF AddressNearSpace, Near, Both

LEMMA NextAddrNear ==
    ASSUME PortsAssumption, PortTypes, NEW p \in Both, NEW c \in BOOLEAN
    PROVE  NextAddr(p, c) \in Int /\ Near(p, NextAddr(p, c))
<1>1. addr[p] \in Int /\ inc[p] \in Int /\ inc[0] \in Incs \cup {0} /\ inc[0] \in Int
  <2>1. addr \in [Both -> Int] /\ inc \in [Both -> Incs \cup {0}] /\ 0 \in Both
    BY DEF PortTypes, Both
  <2>2. \A i \in Incs \cup {0} : i \in Int
    BY DEF PortsAssumption
  <2>3. inc[p] \in Incs \cup {0} /\ inc[0] \in Incs \cup {0} /\ addr[p] \in Int
    BY <2>1
  <2> QED BY <2>2, <2>3
<1>2. Cell(addr[p] + inc[p]) \in VramAddr /\ Cell(addr[p] + inc[p]) \in Int
  BY <1>1, CellWraps DEF VramAddr
<1> DEFINE a == Cell(addr[p] + inc[p])
<1>3. CASE p = 1 /\ line /\ c
  <2>1. NextAddr(p, c) = a + inc[0]
    BY <1>3 DEF NextAddr
  <2> HIDE DEF a
  <2>2. a \in VramAddr /\ a \in Int
    BY <1>2 DEF a
  <2>3. CASE inc[0] = 0
    BY <2>1, <2>2, <2>3 DEF Near
  <2>4. CASE inc[0] \in Incs
    <3>1. \E c2 \in VramAddr, i \in Incs : NextAddr(p, c) = c2 + i
      BY <2>1, <2>2, <2>4
    <3>2. NextAddr(p, c) \in Int
      BY <1>1, <2>1, <2>2
    <3>3. Near(p, NextAddr(p, c))
      BY <1>3, <3>1, Zenon DEF Near
    <3> QED BY <3>2, <3>3
  <2> QED BY <1>1, <2>3, <2>4
<1>4. CASE ~ (p = 1 /\ line /\ c)
  <2>1. NextAddr(p, c) = a
    <3>1. NextAddr(p, c) = a + 0
      BY <1>4 DEF NextAddr
    <3> QED BY <1>2, <3>1
  <2> QED BY <1>2, <2>1 DEF Near
<1> QED BY <1>3, <1>4

\* What fetching at a new address of port p does to the types.
LEMMA RefetchedTypes ==
    ASSUME PortsAssumption, PortTypes, NEW p \in Both, NEW a \in Int, Near(p, a),
           NEW m \in Memories, Refetched(p, a, m)
    PROVE  /\ addr' \in [Both -> Int] /\ AddressNearSpace'
           /\ rddata' \in [Both -> PortByte] /\ rddata'[p] = m[Cell(addr'[p])]
           /\ \A q \in Both \ {p} : addr'[q] = addr[q] /\ rddata'[q] = rddata[q]
<1>1. addr \in [Both -> Int] /\ rddata \in [Both -> PortByte]
  BY DEF PortTypes
<1>2. Cell(a) \in VramAddr
  BY CellWraps
<1>3. addr' = [addr EXCEPT ![p] = a] /\ rddata' = [rddata EXCEPT ![p] = m[Cell(a)]]
  BY DEF Refetched
<1>4. m[Cell(a)] \in PortByte
  BY <1>2 DEF Memories
<1>5. addr' \in [Both -> Int] /\ \A q \in Both : Near(q, addr'[q])
  BY <1>1, <1>3, NearTypes DEF PortTypes
<1>6. AddressNearSpace'
  BY <1>5 DEF AddressNearSpace, Near, Both
<1> QED BY <1>1, <1>3, <1>4, <1>5, <1>6

-----------------------------------------------------------------------------
(* The invariant *)

PortsInv == FetchedIsFresh /\ PaletteFollows

LEMMA PortsStarts == ASSUME PortsAssumption PROVE PortsInit => PortsInv
<1> SUFFICES ASSUME PortsInit PROVE PortsInv
  OBVIOUS
<1> USE VramSizes DEF PortsInit, Both
<1>1. vram \in [VramAddr -> PortByte] /\ palette \in [PaletteWindow -> PortByte]
  BY DEF PortsAssumption, DefaultPalette
<1>2. blt \in BlitRegisters
  BY DEF NoBlit, BlitRegisters
<1>3. addr \in [Both -> Int] /\ AddressNearSpace /\ rddata \in [Both -> PortByte]
  BY DEF AddressNearSpace, PortsAssumption
<1>4. inc \in [Both -> Incs \cup {0}] /\ addrsel \in Both /\ line \in BOOLEAN
  OBVIOUS
<1>5. others \in [Both -> BOOLEAN] /\ apart \subseteq PaletteWindow
  OBVIOUS
<1>6. PortTypes
  BY <1>1, <1>2, <1>3, <1>4, <1>5 DEF PortTypes
<1> QED BY <1>6 DEF PortsInv, FetchedIsFresh, FreshUnlessOthers, PaletteFollows

\* After a store through port p.
LEMMA Stored ==
    ASSUME PortsAssumption, PortsInv, NEW p \in Both, NEW v \in PortByte, NEW c \in BOOLEAN,
           DataWrite(p, v, c)
    PROVE  PortsInv'
<1> DEFINE cell == Cell(addr[p])
           m == [vram EXCEPT ![cell] = v]
           a == NextAddr(p, c)
<1>0. PortTypes /\ FreshUnlessOthers /\ PaletteFollows
  BY DEF PortsInv, FetchedIsFresh
<1>1. \A q \in Both : addr[q] \in Int /\ Cell(addr[q]) \in VramAddr
  <2>1. addr \in [Both -> Int]
    BY <1>0 DEF PortTypes
  <2> QED BY <2>1, CellWraps
<1>2. vram \in Memories /\ m \in Memories /\ m[cell] = v
  <2>1. vram \in Memories
    BY <1>0 DEF PortTypes, Memories
  <2> QED BY <1>1, <2>1 DEF Memories
<1>3. /\ addr' \in [Both -> Int] /\ AddressNearSpace'
      /\ rddata' \in [Both -> PortByte] /\ rddata'[p] = m[Cell(addr'[p])]
      /\ \A q \in Both \ {p} : addr'[q] = addr[q] /\ rddata'[q] = rddata[q]
  <2>1. Refetched(p, a, m) /\ a \in Int /\ Near(p, a)
    BY <1>0, NextAddrNear DEF DataWrite
  <2> HIDE DEF a, m
  <2> QED BY <1>0, <1>2, <2>1, RefetchedTypes
<1>4. vram' = m /\ apart' = ApartAfter(p)
  BY DEF DataWrite
<1>5. palette' = IF addr[p] \in PaletteWindow THEN [palette EXCEPT ![addr[p]] = v] ELSE palette
  BY DEF DataWrite
<1>6. others' = [q \in Both |-> q # p /\ (others[q] \/ Cell(addr[q]) = cell)]
  BY DEF DataWrite
<1>7. PortTypes'
  <2>1. vram' \in [VramAddr -> PortByte]
    BY <1>2, <1>4 DEF Memories
  <2>2. palette' \in [PaletteWindow -> PortByte]
    BY <1>0, <1>5 DEF PortTypes
  <2>3. apart' \subseteq PaletteWindow
    BY <1>0, <1>4 DEF PortTypes, ApartAfter
  <2>4. others' \in [Both -> BOOLEAN]
    BY <1>6
  <2>5. /\ inc' \in [Both -> Incs \cup {0}] /\ addrsel' \in Both /\ line' \in BOOLEAN
        /\ blt' \in BlitRegisters
    BY <1>0 DEF PortTypes, DataWrite
  <2> QED BY <1>3, <2>1, <2>2, <2>3, <2>4, <2>5 DEF PortTypes
<1>8. FreshUnlessOthers'
  <2> SUFFICES ASSUME NEW q \in Both, ~ others'[q] PROVE rddata'[q] = vram'[Cell(addr'[q])]
    BY DEF FreshUnlessOthers, Cell
  <2>1. CASE q = p
    BY <1>3, <1>4, <2>1
  <2>2. CASE q # p
    <3>1. ~ others[q] /\ Cell(addr[q]) # cell
      BY <1>6, <2>2
    <3>2. rddata[q] = vram[Cell(addr[q])]
      BY <1>0, <3>1 DEF FreshUnlessOthers
    <3>3. m[Cell(addr[q])] = vram[Cell(addr[q])]
      BY <1>1, <1>2, <3>1 DEF Memories
    <3>4. addr'[q] = addr[q] /\ rddata'[q] = rddata[q]
      BY <1>3, <2>2
    <3> HIDE DEF m
    <3> QED BY <1>4, <3>2, <3>3, <3>4
  <2> QED BY <2>1, <2>2
<1>9. PaletteFollows'
  <2> SUFFICES ASSUME NEW x \in PaletteWindow, x \notin apart' PROVE palette'[x] = vram'[x]
    BY DEF PaletteFollows
  <2>1. x \in VramAddr /\ palette \in [PaletteWindow -> PortByte]
    BY <1>0 DEF PortsAssumption, PortTypes
  <2>2. CASE addr[p] \in VramAddr
    <3>1. cell = addr[p]
      BY <1>1, <2>2, CellWraps
    <3>2. CASE x = addr[p]
      BY <1>2, <1>4, <1>5, <2>1, <3>1, <3>2
    <3>3. CASE x # addr[p]
      <4>1. x \notin apart
        BY <1>4, <2>2, <3>3 DEF ApartAfter
      <4>2. palette[x] = vram[x]
        BY <1>0, <4>1 DEF PaletteFollows
      <4>3. palette'[x] = palette[x] /\ m[x] = vram[x]
        BY <1>2, <1>5, <2>1, <3>1, <3>3 DEF Memories
      <4> HIDE DEF m
      <4> QED BY <1>4, <4>2, <4>3
    <3> QED BY <3>2, <3>3
  <2>3. CASE addr[p] \notin VramAddr
    <3>1. addr[p] \notin PaletteWindow
      BY <2>3 DEF PortsAssumption
    <3>2. x \notin apart /\ x # cell
      BY <1>4, <2>3 DEF ApartAfter
    <3>3. palette[x] = vram[x] /\ m[x] = vram[x]
      BY <1>0, <1>2, <2>1, <3>2 DEF PaletteFollows, Memories
    <3> HIDE DEF m
    <3> QED BY <1>4, <1>5, <3>1, <3>3
  <2> QED BY <2>2, <2>3
<1> QED BY <1>7, <1>8, <1>9 DEF PortsInv, FetchedIsFresh

\* After port p has been moved, which leaves memory and palette alone.
LEMMA Pointed ==
    ASSUME PortsAssumption, PortsInv, NEW p \in Both, NEW a \in Int, Near(p, a),
           Refetched(p, a, vram), others' = [others EXCEPT ![p] = FALSE],
           inc' \in [Both -> Incs \cup {0}],
           UNCHANGED <<vram, palette, addrsel, line, blt, apart>>
    PROVE  PortsInv'
<1>0. PortTypes /\ FreshUnlessOthers /\ PaletteFollows
  BY DEF PortsInv, FetchedIsFresh
<1>1. vram \in Memories
  BY <1>0 DEF PortTypes, Memories
<1>2. /\ addr' \in [Both -> Int] /\ AddressNearSpace'
      /\ rddata' \in [Both -> PortByte] /\ rddata'[p] = vram[Cell(addr'[p])]
      /\ \A q \in Both \ {p} : addr'[q] = addr[q] /\ rddata'[q] = rddata[q]
  BY <1>0, <1>1, RefetchedTypes
<1>3. others \in [Both -> BOOLEAN] /\ others' \in [Both -> BOOLEAN]
  BY <1>0, Zenon DEF PortTypes
<1>4. PortTypes'
  BY <1>0, <1>2, <1>3 DEF PortTypes
<1>5. FreshUnlessOthers'
  BY <1>0, <1>2, <1>3 DEF FreshUnlessOthers, Cell
<1>6. PaletteFollows'
  BY <1>0 DEF PaletteFollows
<1> QED BY <1>4, <1>5, <1>6 DEF PortsInv, FetchedIsFresh

LEMMA LowSet ==
    ASSUME PortsAssumption, PortsInv, NEW v \in 0 .. LoSize - 1, SetLow(v) PROVE PortsInv'
<1> DEFINE c == Cell(addr[addrsel])
           q == c \div LoSize
           a == LoSize * q + v
<1>0. PortTypes
  BY DEF PortsInv, FetchedIsFresh
<1>1. addrsel \in Both /\ addr[addrsel] \in Int /\ inc \in [Both -> Incs \cup {0}]
  BY <1>0 DEF PortTypes
<1>2. c \in 0 .. LoSize * HiSize - 1
  BY <1>1, CellWraps DEF VramAddr, VramSize
<1>3. LoSize \in Nat \ {0} /\ HiSize \in Nat
  BY DEF PortsAssumption
<1>4. q \in 0 .. HiSize - 1
  <2> HIDE DEF c
  <2> QED BY <1>2, <1>3, DivBelow
<1>5. a \in VramAddr
  <2> HIDE DEF q
  <2> QED BY <1>4, TwoParts
<1>6. a \in Int /\ Near(addrsel, a)
  BY <1>5, VramSizes DEF Near, VramAddr
<1>7. /\ Refetched(addrsel, a, vram) /\ others' = [others EXCEPT ![addrsel] = FALSE]
      /\ inc' = inc /\ UNCHANGED <<vram, palette, addrsel, line, blt, apart>>
  BY DEF SetLow, Fetched
<1> HIDE DEF a
<1> QED BY <1>1, <1>6, <1>7, Pointed

LEMMA HighSet ==
    ASSUME PortsAssumption, PortsInv, NEW v \in 0 .. HiSize - 1, NEW i \in Incs, SetHigh(v, i)
    PROVE  PortsInv'
<1> DEFINE l == addr[addrsel] % LoSize
           a == (LoSize * v) + l
<1>0. PortTypes
  BY DEF PortsInv, FetchedIsFresh
<1>1. addrsel \in Both /\ addr[addrsel] \in Int /\ inc \in [Both -> Incs \cup {0}]
  BY <1>0 DEF PortTypes
<1>2. l \in 0 .. LoSize - 1
  BY <1>1 DEF PortsAssumption
<1>3. a \in VramAddr
  <2> HIDE DEF l
  <2> QED BY <1>2, TwoParts
<1>4. a \in Int /\ Near(addrsel, a)
  BY <1>3, VramSizes DEF Near, VramAddr
<1>5. /\ Refetched(addrsel, a, vram) /\ others' = [others EXCEPT ![addrsel] = FALSE]
      /\ inc' = [inc EXCEPT ![addrsel] = i]
      /\ UNCHANGED <<vram, palette, addrsel, line, blt, apart>>
  BY DEF SetHigh, Fetched
<1>6. inc' \in [Both -> Incs \cup {0}]
  BY <1>1, <1>5
<1> HIDE DEF a
<1> QED BY <1>1, <1>4, <1>5, <1>6, Pointed

LEMMA BlitKeeps ==
    ASSUME PortsAssumption, PortsInv, NEW fill \in BOOLEAN, NEW m \in Memories,
           \A a \in VramAddr : ~ (Cell(a - blt.dst) < blt.len) => m[a] = vram[a],
           Blitted(fill, m)
    PROVE  PortsInv'
<1>0. PortTypes /\ FreshUnlessOthers /\ PaletteFollows
  BY DEF PortsInv, FetchedIsFresh
<1>1. /\ vram' = m
      /\ others' = [q \in Both |-> others[q] \/ Cell(Cell(addr[q]) - blt.dst) < blt.len]
      /\ apart' = apart \cup {a \in PaletteWindow : Cell(a - blt.dst) < blt.len}
      /\ UNCHANGED <<palette, addr, inc, rddata, addrsel, line>>
  BY DEF Blitted
<1>2. blt' \in BlitRegisters
  <2>1. /\ blt \in BlitRegisters /\ blt.src \in VramAddr /\ blt.dst \in VramAddr
        /\ blt.len \in VramAddr
    BY <1>0 DEF PortTypes, BlitRegisters
  <2>2. blt.src + blt.len \in Int /\ blt.dst + blt.len \in Int
    BY <2>1, VramSizes DEF VramAddr
  <2>3. Cell(blt.src + blt.len) \in VramAddr /\ Cell(blt.dst + blt.len) \in VramAddr
    BY <2>2, CellWraps
  <2>4. blt' = BltEnd(fill)
    BY DEF Blitted
  <2> QED BY <2>1, <2>3, <2>4, VramSizes DEF BltEnd, BlitRegisters
<1>3. PortTypes'
  <2>1. vram' \in [VramAddr -> PortByte]
    BY <1>1 DEF Memories
  <2>2. others' \in [Both -> BOOLEAN]
    BY <1>0, <1>1, Zenon DEF PortTypes
  <2>3. apart' \subseteq PaletteWindow
    BY <1>0, <1>1 DEF PortTypes
  <2> QED BY <1>0, <1>1, <1>2, <2>1, <2>2, <2>3 DEF PortTypes, AddressNearSpace
<1>4. FreshUnlessOthers'
  <2> SUFFICES ASSUME NEW q \in Both, ~ others'[q] PROVE rddata'[q] = vram'[Cell(addr'[q])]
    BY DEF FreshUnlessOthers, Cell
  <2>1. ~ others[q] /\ ~ (Cell(Cell(addr[q]) - blt.dst) < blt.len)
    BY <1>1
  <2>2. addr[q] \in Int
    BY <1>0 DEF PortTypes
  <2>3. Cell(addr[q]) \in VramAddr
    BY <2>2, CellWraps
  <2> QED BY <1>0, <1>1, <2>1, <2>3 DEF FreshUnlessOthers
<1>5. PaletteFollows'
  <2> SUFFICES ASSUME NEW a \in PaletteWindow, a \notin apart' PROVE palette'[a] = vram'[a]
    BY DEF PaletteFollows
  <2>1. a \in VramAddr
    BY DEF PortsAssumption
  <2>2. a \notin apart /\ ~ (Cell(a - blt.dst) < blt.len)
    BY <1>1
  <2> QED BY <1>0, <1>1, <2>1, <2>2 DEF PaletteFollows
<1> QED BY <1>3, <1>4, <1>5 DEF PortsInv, FetchedIsFresh

LEMMA PortsKept == ASSUME PortsAssumption, PortsInv, [PortsNext]_portVars PROVE PortsInv'
<1>0. PortTypes /\ FreshUnlessOthers /\ PaletteFollows
  BY DEF PortsInv, FetchedIsFresh
<1>1. ASSUME NEW p \in Ports, NEW c \in Crossings, DataRead(p, c) PROVE PortsInv'
  <2>1. p \in Both /\ c \in BOOLEAN
    BY <1>1 DEF PortsAssumption, Both, Crossings
  <2>2. NextAddr(p, c) \in Int /\ Near(p, NextAddr(p, c))
    BY <1>0, <2>1, NextAddrNear
  <2>3. inc' \in [Both -> Incs \cup {0}]
    BY <1>0, <1>1 DEF PortTypes, DataRead
  <2> QED BY <1>1, <2>1, <2>2, <2>3, Pointed DEF DataRead
<1>2. ASSUME NEW p \in Ports, NEW v \in PortByte, NEW c \in Crossings, DataWrite(p, v, c)
      PROVE  PortsInv'
  <2>1. p \in Both /\ c \in BOOLEAN
    BY <1>2 DEF PortsAssumption, Both, Crossings
  <2> QED BY <1>2, <2>1, Stored
<1>3. ASSUME NEW p \in Ports, Select(p) PROVE PortsInv'
  <2>1. p \in Both
    BY <1>3 DEF PortsAssumption, Both
  <2> QED BY <1>0, <1>3, <2>1 DEF Select, PortsInv, FetchedIsFresh, PortTypes, AddressNearSpace,
                               FreshUnlessOthers, PaletteFollows, Cell
<1>4. ASSUME NEW v \in 0 .. LoSize - 1, SetLow(v) PROVE PortsInv'
  BY <1>4, LowSet
<1>5. ASSUME NEW v \in 0 .. HiSize - 1, NEW i \in Incs, SetHigh(v, i) PROVE PortsInv'
  BY <1>5, HighSet
<1>6. ASSUME NEW b \in BOOLEAN, SetLineMode(b) PROVE PortsInv'
  BY <1>0, <1>6 DEF SetLineMode, PortsInv, FetchedIsFresh, PortTypes, AddressNearSpace,
                    FreshUnlessOthers, PaletteFollows, Cell
<1>7. ASSUME NEW b \in Blits, SetBlit(b) PROVE PortsInv'
  <2>1. b \in BlitRegisters
    BY <1>7 DEF PortsAssumption
  <2> QED BY <1>0, <1>7, <2>1 DEF SetBlit, PortsInv, FetchedIsFresh, PortTypes, AddressNearSpace,
                               FreshUnlessOthers, PaletteFollows, Cell
<1>8. ASSUME BltCopy PROVE PortsInv'
  <2>1. vram \in Memories /\ blt \in BlitRegisters
    BY <1>0 DEF PortTypes, Memories
  <2>2. /\ Copied(vram, blt) \in Memories
        /\ \A a \in VramAddr :
               ~ (Cell(a - blt.dst) < blt.len) => Copied(vram, blt)[a] = vram[a]
    BY <2>1, CopyTouches
  <2>3. Blitted(FALSE, Copied(vram, blt))
    BY <1>8 DEF BltCopy
  <2> QED BY <2>2, <2>3, BlitKeeps
<1>9. ASSUME NEW v \in PortByte, BltFill(v) PROVE PortsInv'
  <2>1. Blitted(TRUE, Filled(vram, blt, v))
    BY <1>9 DEF BltFill
  <2> QED BY <1>0, <1>9, <2>1, FillTouches, BlitKeeps
<1>10. ASSUME NEW m \in Noise, NEW p \in Ports, PortsReset(m, p) PROVE PortsInv'
  <2>1. m \in [VramAddr -> PortByte] /\ p \in Both
    BY DEF PortsAssumption, Both
  <2>2. palette' \in [PaletteWindow -> PortByte] /\ blt' \in BlitRegisters
    BY <1>10, VramSizes DEF PortsReset, DefaultPalette, NoBlit, BlitRegisters, PortsAssumption
  <2>3. addr' \in [Both -> Int] /\ AddressNearSpace' /\ rddata' \in [Both -> PortByte]
    BY <1>10, VramSizes DEF PortsReset, AddressNearSpace, PortsAssumption, Both
  <2>4. inc' \in [Both -> Incs \cup {0}] /\ others' \in [Both -> BOOLEAN]
    BY <1>10 DEF PortsReset
  <2>5. PortTypes'
    BY <1>10, <2>1, <2>2, <2>3, <2>4 DEF PortsReset, PortTypes
  <2> QED BY <1>10, <2>5 DEF PortsReset, PortsInv, FetchedIsFresh, FreshUnlessOthers,
                             PaletteFollows, Cell
<1>11. CASE UNCHANGED portVars
  BY <1>0, <1>11 DEF portVars, PortsInv, FetchedIsFresh, PortTypes, AddressNearSpace,
                    FreshUnlessOthers, PaletteFollows, Cell
<1> QED BY <1>1, <1>2, <1>3, <1>4, <1>5, <1>6, <1>7, <1>8, <1>9, <1>10, <1>11 DEF PortsNext

\* Every address stays in or near the memory, and what a port has fetched is in
\* it (FetchedIsFresh): video_read's prefetch, with line mode, the other port's
\* stores, the blitter and resets between.
THEOREM PortsFetchFresh == ASSUME PortsAssumption PROVE PortsSpec => []FetchedIsFresh
<1>1. PortsInv => FetchedIsFresh
  BY DEF PortsInv
<1> QED BY <1>1, PortsStarts, PortsKept, PTL DEF PortsSpec

\* What is stored in the palette's window is in the palette (PaletteFollows):
\* vera_window_write, unless the blitter wrote or line mode left the space.
THEOREM PaletteCorrect == ASSUME PortsAssumption PROVE PortsSpec => []PaletteFollows
<1>1. PortsInv => PaletteFollows
  BY DEF PortsInv
<1> QED BY <1>1, PortsStarts, PortsKept, PTL DEF PortsSpec

\* A blit moves its bytes and touches no others, wherever it starts, wraps or
\* overlaps (BlitIsExact): blt_start's loop.
THEOREM BlitCorrect == ASSUME PortsAssumption PROVE PortsSpec => []BlitIsExact
<1>1. PortsInv => BlitIsExact
  BY CopyMoves DEF PortsInv, FetchedIsFresh
<1> QED BY <1>1, PortsStarts, PortsKept, PTL DEF PortsSpec
=============================================================================
